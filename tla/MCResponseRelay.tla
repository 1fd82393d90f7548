--------------------------- MODULE MCResponseRelay ---------------------------
EXTENDS ResponseRelay, FiniteSets

Item(k, v) == [kind |-> k, value |-> v]
Block(s)        == <<Item("status", s), Item("other", 0), Item("end", 0)>>
Lengthy(s, n)   == <<Item("status", s), Item("length", n), Item("end", 0)>>
Chunked(s)      == <<Item("status", s), Item("chunked", 0), Item("end", 0)>>

\* Every way libcurl may cut a body of at most three bytes.
Bodies == {<<>>, <<1>>, <<2>>, <<1, 1>>, <<3>>, <<1, 2>>, <<2, 1>>, <<1, 1, 1>>}
Size(b) == PartialSums(b, Len(b))[Len(b)]
Pieces(b) == [i \in 1..Len(b) |-> Item("body", b[i])]

\* A bare 100 and responses the code is not up to: early hints, redirects with
\* and without a length.
Earlier == {<<>>, Block("100"), Block("103"), Block("301"), Lengthy("301", 1)}

\* One complete response; a HEAD request's has a length and no body.  One has a
\* line that is no field.
Finals ==
  UNION {{Lengthy(s, Size(b)) \o Pieces(b), Chunked(s) \o Pieces(b), Block(s) \o Pieces(b)}
          : s \in {"200", "404"}, b \in Bodies}
  \cup {Lengthy("200", 2), Lengthy("404", 2),
        <<Item("status", "200"), Item("nofield", 0), Item("length", 1), Item("end", 0),
          Item("body", 1)>>}

MCAnswers == {e \o f : e \in Earlier, f \in Finals} \cup {<<Item("badstatus", 0)>>}

\* Chunked answers, to show how their streams may stay open.
MCChunked == {Chunked("200") \o Pieces(b) : b \in Bodies \ {<<>>}}
=============================================================================
