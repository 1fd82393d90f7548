----------------------------- MODULE MCExchange -----------------------------
(***************************************************************************)
(* A small instance of Exchange: a ring of two slots, a send buffer of one *)
(* packet, requests with and without a body, and answers of each framing.  *)
(***************************************************************************)
EXTENDS Exchange

Req(m, b, l) == [method |-> m, body |-> b, length |-> l]
MCInputs == {Req("PATCH", 2, 2), Req("DELETE", 1, 1), Req("", 0, -1)}

Item(k, v) == [kind |-> k, value |-> v]
Line(s)    == Item("status", s)
End        == Item("end", 0)

MCAnswers ==
  {<<Line("200"), Item("length", 3), End, Item("body", 1), Item("body", 2)>>,
   <<Line("100"), End, Line("404"), Item("length", 1), End, Item("body", 1)>>,
   <<Line("404"), Item("length", 0), End>>,
   <<Line("200"), Item("length", 0), End>>,
   <<Line("200"), Item("other", 0), Item("chunked", 0), End, Item("body", 2)>>,
   <<Item("badstatus", 0)>>}
=============================================================================
