------------------------- MODULE ResponseRelayProofs -------------------------
(***************************************************************************)
(* What is proved about ResponseRelay for every set of answers libcurl may *)
(* deliver: type correctness, the two safety properties, and that the      *)
(* relay implements ResponseStream.                                        *)
(***************************************************************************)
EXTENDS ResponseRelay, SumsProofs

(***************************************************************************)
(* Lemmas about answers.                                                   *)
(***************************************************************************)

\* An answer with a block has a last one.
LEMMA LastEndIs ==
  ASSUME NEW a, Len(a) \in Nat, Ends(a) # {}
  PROVE  /\ LastEnd(a) \in Ends(a)
         /\ \A j \in Ends(a) : j <= LastEnd(a)
<1>1. Ends(a) \in SUBSET (0..Len(a))
  BY DEF Ends
<1>2. \E i \in Ends(a) : \A j \in Ends(a) : j <= i
  BY <1>1, GreatestNat
<1> QED
  BY <1>2, Zenon DEF LastEnd

\* The count of the body's bytes goes up by each piece.
LEMMA BodySumsStep ==
  ASSUME NEW a, WellFormed(a)
  PROVE  /\ BodySums(a)[0] = 0
         /\ \A i \in 0..Len(a) : BodySums(a)[i] \in Nat
         /\ \A i \in 1..Len(a) :
              /\ a[i].kind = "body" => BodySums(a)[i] = BodySums(a)[i - 1] + a[i].value
              /\ a[i].kind # "body" => BodySums(a)[i] = BodySums(a)[i - 1]
         /\ \A i \in 0..Len(a) : BodySums(a)[i] <= BodySums(a)[Len(a)]
<1> DEFINE n == Len(a)
           v == [i \in 1..n |-> IF a[i].kind = "body" THEN a[i].value ELSE 0]
<1>1. n \in Nat /\ \A i \in 1..n : v[i] \in Nat
  BY DEF WellFormed
<1>2. BodySums(a) = PartialSums(v, n)
  BY DEF BodySums
<1>3. \A i \in 1..n : /\ a[i].kind = "body" => v[i] = a[i].value
                      /\ a[i].kind # "body" => v[i] = 0
  OBVIOUS
<1> HIDE DEF n, v
<1>4. PartialSums(v, n)[0] = 0
      /\ \A i \in 1..n : PartialSums(v, n)[i] = PartialSums(v, n)[i - 1] + v[i]
  BY <1>1, PartialSumsDef
<1>5. \A i \in 0..n : PartialSums(v, n)[i] \in Nat
  BY <1>1, PartialSumsNat
<1>6. \A i \in 0..n : PartialSums(v, n)[i] <= PartialSums(v, n)[n]
  BY <1>1, PartialSumsGrow
<1>7. ASSUME NEW i \in 1..n
      PROVE  /\ a[i].kind = "body" => BodySums(a)[i] = BodySums(a)[i - 1] + a[i].value
             /\ a[i].kind # "body" => BodySums(a)[i] = BodySums(a)[i - 1]
  <2>1. i - 1 \in 0..n
    BY <1>1
  <2> QED
    BY <1>2, <1>3, <1>4, <1>5, <2>1
<1> QED
  BY <1>2, <1>4, <1>5, <1>6, <1>7 DEF n

\* The stream's units go up by each block, when its headers are in the stream,
\* and by each piece of body.
LEMMA UnitSumsStep ==
  ASSUME NEW a, WellFormed(a)
  PROVE  /\ UnitSums(a)[0] = 0
         /\ \A i \in 0..Len(a) : UnitSums(a)[i] \in Nat
         /\ \A i \in 1..Len(a) :
              /\ a[i].kind = "body" => UnitSums(a)[i] = UnitSums(a)[i - 1] + a[i].value
              /\ a[i].kind = "end" =>
                   UnitSums(a)[i] = UnitSums(a)[i - 1] + (IF http3 THEN 1 ELSE 0)
              /\ a[i].kind \notin {"body", "end"} => UnitSums(a)[i] = UnitSums(a)[i - 1]
         /\ \A i \in 0..Len(a) : UnitSums(a)[i] <= UnitSums(a)[Len(a)]
<1> DEFINE n == Len(a)
           v == [i \in 1..n |-> IF a[i].kind = "body" THEN a[i].value
                                ELSE IF a[i].kind = "end" /\ http3 THEN 1 ELSE 0]
<1>1. n \in Nat /\ \A i \in 1..n : v[i] \in Nat
  BY DEF WellFormed
<1>2. UnitSums(a) = PartialSums(v, n)
  BY DEF UnitSums, UnitSumsOver
<1>3. \A i \in 1..n : /\ a[i].kind = "body" => v[i] = a[i].value
                      /\ a[i].kind = "end" => v[i] = IF http3 THEN 1 ELSE 0
                      /\ a[i].kind \notin {"body", "end"} => v[i] = 0
  OBVIOUS
<1> HIDE DEF n, v
<1>4. PartialSums(v, n)[0] = 0
      /\ \A i \in 1..n : PartialSums(v, n)[i] = PartialSums(v, n)[i - 1] + v[i]
  BY <1>1, PartialSumsDef
<1>5. \A i \in 0..n : PartialSums(v, n)[i] \in Nat
  BY <1>1, PartialSumsNat
<1>6. \A i \in 0..n : PartialSums(v, n)[i] <= PartialSums(v, n)[n]
  BY <1>1, PartialSumsGrow
<1>7. ASSUME NEW i \in 1..n
      PROVE  /\ a[i].kind = "body" => UnitSums(a)[i] = UnitSums(a)[i - 1] + a[i].value
             /\ a[i].kind = "end" =>
                  UnitSums(a)[i] = UnitSums(a)[i - 1] + (IF http3 THEN 1 ELSE 0)
             /\ a[i].kind \notin {"body", "end"} => UnitSums(a)[i] = UnitSums(a)[i - 1]
  <2>1. i - 1 \in 0..n
    BY <1>1
  <2> QED
    BY <1>2, <1>3, <1>4, <1>5, <2>1
<1> QED
  BY <1>2, <1>4, <1>5, <1>6, <1>7 DEF n

\* The piece that makes the body whole is the last callback of the answer.
LEMMA WholeAtLast ==
  ASSUME NEW a, WellFormed(a), NEW i \in 1..Len(a),
         a[i].kind = "body", BodySums(a)[i] = BodySums(a)[Len(a)]
  PROVE  i = Len(a)
<1>1. SUFFICES ASSUME i < Len(a)
               PROVE  FALSE
  BY DEF WellFormed
<1> DEFINE k == i + 1
<1>2. k \in 1..Len(a) /\ k \in 0..Len(a) /\ i \in 0..Len(a) /\ k - 1 = i
  BY <1>1 DEF WellFormed
<1>3. Ends(a) # {} /\ \A j \in Ends(a) : j < i
  BY DEF WellFormed
<1>4. \A j \in Ends(a) : j \in Nat
  BY DEF Ends
<1>5. \A j \in Ends(a) : j < k
  BY <1>3, <1>4
<1>6. a[k].kind = "body" /\ a[k].value \in Nat \ {0}
  BY <1>2, <1>3, <1>5 DEF WellFormed
<1> HIDE DEF k
<1>7. BodySums(a)[k] = BodySums(a)[i] + a[k].value
  BY <1>2, <1>6, BodySumsStep
<1>8. BodySums(a)[k] <= BodySums(a)[Len(a)] /\ BodySums(a)[k] \in Nat /\ BodySums(a)[i] \in Nat
  BY <1>2, BodySumsStep
<1> QED
  BY <1>6, <1>7, <1>8

\* An answer of no bytes of body ends with its last block.
LEMMA EmptyAfterEnd ==
  ASSUME NEW a, WellFormed(a), Ends(a) # {},
         BodySums(a)[Len(a)] = 0 \/ \A j \in 1..Len(a) : a[j].kind # "body"
  PROVE  LastEnd(a) = Len(a)
<1>1. LastEnd(a) \in Ends(a) /\ LastEnd(a) \in 1..Len(a) /\ \A j \in Ends(a) : j <= LastEnd(a)
  BY LastEndIs DEF WellFormed, Ends
<1>2. SUFFICES ASSUME LastEnd(a) < Len(a)
               PROVE  FALSE
  BY <1>1 DEF WellFormed
<1> DEFINE k == LastEnd(a) + 1
<1>3. k \in 1..Len(a) /\ k \in 0..Len(a) /\ k - 1 \in 0..Len(a)
  BY <1>1, <1>2 DEF WellFormed
<1>4. \A j \in Ends(a) : j < k
  BY <1>1 DEF Ends
<1>5. a[k].kind = "body" /\ a[k].value \in Nat \ {0}
  BY <1>3, <1>4 DEF WellFormed
<1> HIDE DEF k
<1>6. BodySums(a)[k] = BodySums(a)[k - 1] + a[k].value
  BY <1>3, <1>5, BodySumsStep
<1>7. BodySums(a)[k] <= BodySums(a)[Len(a)] /\ BodySums(a)[k] \in Nat
      /\ BodySums(a)[k - 1] \in Nat
  BY <1>3, BodySumsStep
<1> QED
  BY <1>3, <1>5, <1>6, <1>7

\* A line up to the end of an earlier block is not in the final one.
LEMMA EarlierBlock ==
  ASSUME NEW a, Len(a) \in Nat, NEW e \in Ends(a), e # LastEnd(a), NEW i \in 1..e
  PROVE  ~InFinal(a, i) /\ i < LastEnd(a) /\ i \in 1..Len(a)
<1>1. LastEnd(a) \in Ends(a) /\ \A j \in Ends(a) : j <= LastEnd(a)
  BY LastEndIs
<1>2. e \in 1..Len(a) /\ LastEnd(a) \in 1..Len(a) /\ e < LastEnd(a)
  BY <1>1 DEF Ends
<1> QED
  BY <1>2 DEF InFinal

\* A line is in the final block when no block ends between it and the last end.
LEMMA FinalBlock ==
  ASSUME NEW a, Len(a) \in Nat, Ends(a) # {}, NEW i \in 1 .. LastEnd(a) - 1
  PROVE  InFinal(a, i) <=> \A j \in i .. LastEnd(a) - 1 : a[j].kind # "end"
<1>1. LastEnd(a) \in 1..Len(a) /\ \A j \in Ends(a) : j \in 1..Len(a) /\ j <= LastEnd(a)
  BY LastEndIs DEF Ends
<1>2. ASSUME InFinal(a, i), NEW j \in i .. LastEnd(a) - 1
      PROVE  a[j].kind # "end"
  <2>1. j \in 1..Len(a) /\ j # LastEnd(a) /\ j >= i
    BY <1>1
  <2> QED
    BY <1>2, <2>1 DEF InFinal, Ends
<1>3. ASSUME \A j \in i .. LastEnd(a) - 1 : a[j].kind # "end"
      PROVE  InFinal(a, i)
  <2>1. i <= LastEnd(a)
    BY <1>1
  <2>2. ASSUME NEW j \in Ends(a) \ {LastEnd(a)}
        PROVE  i > j
    <3>1. j \in 1..Len(a) /\ j <= LastEnd(a) /\ j # LastEnd(a) /\ a[j].kind = "end"
      BY <1>1 DEF Ends
    <3>2. j \notin i .. LastEnd(a) - 1
      BY <1>3, <3>1
    <3> QED
      BY <1>1, <3>1, <3>2
  <2> QED
    BY <2>1, <2>2 DEF InFinal
<1> QED
  BY <1>2, <1>3

-----------------------------------------------------------------------------
(***************************************************************************)
(* The inductive invariant: what the proxy's variables say of the items    *)
(* that were delivered.                                                    *)
(***************************************************************************)

\* The lines of the block that is being read.
Read == {i \in 1 .. at - 1 : \A j \in i .. at - 1 : answer[j].kind # "end"}

ReadKind(k) == {i \in Read : answer[i].kind = k}

\* spdy_headers_ holds what the lines of this block said, the last one of each
\* kind.
HeadersAsRead ==
  /\ \/ ReadKind("status") = {}
     \/ \E i \in ReadKind("status") : spdy_headers.status = answer[i].value
  /\ \/ ReadKind("length") = {} /\ spdy_headers.length = -1
     \/ \E i \in ReadKind("length") : spdy_headers.length = answer[i].value
  /\ spdy_headers.chunked <=> ReadKind("chunked") # {}

\* content_length_ is untouched up to the final block, and then what that
\* block said.
LengthAsRead ==
  Understood(answer) =>
    \/ content_length = 0 /\ at <= LastEnd(answer)
    \/ content_length = 0 /\ ~Has(answer, "length")
    \/ \E i \in 1..Len(answer) :
         /\ InFinal(answer, i) /\ answer[i].kind = "length"
         /\ content_length = answer[i].value

\* Every byte of body that was delivered is counted, and none comes before the
\* headers.
BodyCounted ==
  /\ had_send_length = BodySums(answer)[at - 1]
  /\ \A i \in Ends(answer) : at <= i => had_send_length = 0
  /\ ~http3 => buffered <= had_send_length

\* The stream is ended by a FIN, or by OnStreamFrameAcked when it is unlinked.
ClosedBy == write_closed => fin_buffered \/ ~quic_proxy_curl

\* A stream that refused nothing was given the units of what was delivered.
UnitsGiven ==
  Understood(answer) => buffered + unacked + acked = UnitSums(answer)[at - 1]

\* No stream was given more.
UnitsBounded == buffered + unacked + acked <= UnitSums(answer)[at - 1]

RelayInv ==
  /\ RelayTypeOK
  /\ HeadersAsRead
  /\ LengthAsRead
  /\ BodyCounted
  /\ ClosedBy
  /\ UnitsGiven
  /\ UnitsBounded
  /\ FinMeansComplete
  /\ NothingLost
-----------------------------------------------------------------------------
(***************************************************************************)
(* Type correctness.                                                       *)
(***************************************************************************)

\* What an assignment to one field of spdy_headers_ does.
LEMMA SetStatus ==
  ASSUME NEW h \in Headers, NEW v \in Statuses
  PROVE  LET g == [h EXCEPT !.status = v]
         IN  g \in Headers /\ g.status = v /\ g.length = h.length /\ g.chunked = h.chunked
BY DEF Headers

LEMMA SetLength ==
  ASSUME NEW h \in Headers, NEW v \in Nat
  PROVE  LET g == [h EXCEPT !.length = v]
         IN  g \in Headers /\ g.status = h.status /\ g.length = v /\ g.chunked = h.chunked
BY DEF Headers

LEMMA SetChunked ==
  ASSUME NEW h \in Headers
  PROVE  LET g == [h EXCEPT !.chunked = TRUE]
         IN  g \in Headers /\ g.status = h.status /\ g.length = h.length /\ g.chunked = TRUE
BY DEF Headers

\* A block that was not begun.
LEMMA NoHeadersType == NoHeaders \in Headers
<1>1. "" \in Statuses \cup {""}
  BY Zenon
<1>2. -1 \in Nat \cup {-1}
  BY Zenon
<1> QED
  BY ONLY <1>1, <1>2, Zenon DEF NoHeaders, Headers

\* A fresh response is well typed.
LEMMA RelayTypeInit == RelayInit => RelayTypeOK
<1> SUFFICES ASSUME RelayInit
             PROVE  RelayTypeOK
  OBVIOUS
<1>1. spdy_headers \in Headers
  BY NoHeadersType DEF RelayInit
<1>2. Len(answer) \in Nat
  BY AnswersAssumption DEF RelayInit, WellFormed
<1>3. at \in 1..Len(answer) + 1
  BY <1>2 DEF RelayInit
<1> QED
  BY <1>1, <1>3 DEF RelayInit, RelayTypeOK

\* A write keeps the types of the stream.
StreamOK ==
  /\ http3 \in BOOLEAN
  /\ strm \in {"live", "destroyed"}
  /\ buffered \in Nat /\ unacked \in Nat /\ acked \in Nat
  /\ fin_buffered \in BOOLEAN /\ fin_sent \in BOOLEAN /\ write_closed \in BOOLEAN
  /\ told \in BOOLEAN /\ dropped \in BOOLEAN

LEMMA TakesType ==
  ASSUME StreamOK, NEW n \in Nat, NEW fin \in BOOLEAN, StreamTakes(n, fin)
  PROVE  StreamOK'
<1>1. CASE fin_buffered \/ write_closed
  BY <1>1 DEF StreamOK, StreamTakes
<1>2. CASE ~(fin_buffered \/ write_closed)
  BY <1>2 DEF StreamOK, StreamTakes
<1> QED
  BY <1>1, <1>2

LEMMA WriteHeadersType ==
  ASSUME StreamOK, NEW fin \in BOOLEAN, WriteHeaders(fin)
  PROVE  StreamOK'
<1>1. CASE http3 \/ ~fin \/ fin_buffered \/ write_closed
  <2>1. StreamTakes(IF http3 THEN 1 ELSE 0, fin)
    BY <1>1, Zenon DEF WriteHeaders
  <2>2. (IF http3 THEN 1 ELSE 0) \in Nat
    OBVIOUS
  <2> QED
    BY <2>1, <2>2, TakesType
<1>2. CASE ~(http3 \/ ~fin \/ fin_buffered \/ write_closed)
  BY <1>2 DEF StreamOK, WriteHeaders
<1> QED
  BY <1>1, <1>2

\* The callbacks and the steps of the stream keep the types.
LEMMA RelayTypeStep == ASSUME RelayTypeOK, [RelayNext]_relayVars PROVE RelayTypeOK'
<1>1. WellFormed(answer)
  BY AnswersAssumption DEF RelayTypeOK
<1>2. Len(answer) \in Nat
  BY <1>1 DEF WellFormed
<1>3. ~Complete => at \in 1..Len(answer) /\ at + 1 \in 1..Len(answer) + 1
  BY <1>2 DEF RelayTypeOK, Complete
<1>4. StreamOK
  BY DEF RelayTypeOK, StreamOK
<1>5. CASE HeaderLine
  <2>1. ~Complete /\ answer' = answer /\ at' = at + 1 /\ UNCHANGED <<transfer, quic_proxy_curl>>
    BY <1>5 DEF HeaderLine, Delivers
  <2>2. spdy_headers \in Headers
    BY DEF RelayTypeOK
  <2>3. spdy_headers' \in Headers
    <3>1. CASE /\ Delivers("status")
               /\ spdy_headers' = [spdy_headers EXCEPT !.status = answer[at].value]
      <4>1. answer[at].value \in StatusesOf(answer)
        BY <1>3, <2>1, <3>1 DEF StatusesOf, Delivers
      <4>2. answer[at].value \in Statuses
        BY <4>1 DEF Statuses, RelayTypeOK
      <4> QED
        BY <2>2, <3>1, <4>2, SetStatus
    <3>2. CASE /\ Delivers("length")
               /\ spdy_headers' = [spdy_headers EXCEPT !.length = answer[at].value]
      <4>1. answer[at].value \in Nat
        BY <1>1, <1>3, <2>1, <3>2 DEF WellFormed, Delivers
      <4> QED
        BY <2>2, <3>2, <4>1, SetLength
    <3>3. CASE spdy_headers' = [spdy_headers EXCEPT !.chunked = TRUE]
      BY <2>2, <3>3, SetChunked
    <3>4. CASE UNCHANGED spdy_headers
      BY <2>2, <3>4
    <3> QED
      BY <1>5, <3>1, <3>2, <3>3, <3>4 DEF HeaderLine
  <2>4. UNCHANGED <<content_length, had_send_length, streamVars>>
    BY <1>5 DEF HeaderLine
  <2> QED
    BY <1>3, <2>1, <2>3, <2>4 DEF RelayTypeOK, streamVars
<1>6. CASE BadStatusLine
  BY <1>6 DEF BadStatusLine, RelayTypeOK, streamVars
<1>7. CASE EndOfHeaders
  <2>1. ~Complete /\ answer' = answer /\ at' = at + 1 /\ UNCHANGED <<transfer, quic_proxy_curl>>
    BY <1>7 DEF EndOfHeaders, Delivers
  <2>2. spdy_headers' \in Headers
    BY <1>7, NoHeadersType DEF EndOfHeaders
  <2>3. content_length' \in Nat /\ had_send_length' = had_send_length
    <3>1. spdy_headers \in Headers /\ content_length \in Nat
      BY DEF RelayTypeOK
    <3>2. spdy_headers.length \in Nat \cup {-1}
      BY <3>1 DEF Headers
    <3> QED
      BY <1>7, <3>1, <3>2 DEF EndOfHeaders
  <2>4. WriteHeaders(HeadersFin(content_length')) /\ HeadersFin(content_length') \in BOOLEAN
    BY <1>7, Zenon DEF EndOfHeaders, HeadersFin
  <2>5. StreamOK'
    BY <1>4, <2>4, WriteHeadersType
  <2> QED
    BY <1>3, <2>1, <2>2, <2>3, <2>5 DEF RelayTypeOK, StreamOK
<1>8. CASE WriteQuicCallback
  <2>1. ~Complete /\ answer' = answer /\ at' = at + 1 /\ UNCHANGED <<transfer, quic_proxy_curl>>
    BY <1>8 DEF WriteQuicCallback, Delivers
  <2>2. answer[at].value \in Nat
    BY <1>1, <1>3, <1>8, <2>1 DEF WriteQuicCallback, Delivers, WellFormed
  <2>3. had_send_length' \in Nat /\ UNCHANGED <<spdy_headers, content_length>>
    BY <1>8, <2>2 DEF WriteQuicCallback, RelayTypeOK
  <2>4. StreamTakes(answer[at].value, had_send_length' = content_length)
    BY <1>8 DEF WriteQuicCallback
  <2>5. StreamOK'
    BY <1>4, <2>2, <2>4, TakesType
  <2> QED
    BY <1>3, <2>1, <2>3, <2>5 DEF RelayTypeOK, StreamOK
<1>9. CASE CallbackWithoutStream \/ TransferEnds \/ DFatal
  BY <1>9 DEF CallbackWithoutStream, TransferEnds, DFatal, RelayTypeOK, streamVars
<1>10. ASSUME NEW n \in 0..buffered, StreamSends(n)
       PROVE  RelayTypeOK'
  <2>1. buffered' \in Nat /\ unacked' \in Nat
    BY <1>10 DEF StreamSends, RelayTypeOK
  <2>2. fin_sent' \in BOOLEAN /\ write_closed' \in BOOLEAN /\ told' \in BOOLEAN
    BY <1>10, Zenon DEF StreamSends, RelayTypeOK
  <2>3. UNCHANGED <<curlVars, quic_proxy_curl, http3, strm, acked, fin_buffered, dropped>>
    BY <1>10 DEF StreamSends
  <2> QED
    BY <2>1, <2>2, <2>3 DEF RelayTypeOK, curlVars
<1>11. ASSUME NEW n \in 1..unacked, OnStreamFrameAcked(n)
       PROVE  RelayTypeOK'
  <2>1. unacked' \in Nat /\ acked' \in Nat
    BY <1>11 DEF OnStreamFrameAcked, RelayTypeOK
  <2>2. fin_sent' \in BOOLEAN /\ write_closed' \in BOOLEAN
    BY <1>11 DEF OnStreamFrameAcked, RelayTypeOK
  <2>3. UNCHANGED <<curlVars, quic_proxy_curl, http3, strm, buffered, fin_buffered,
                    told, dropped>>
    BY <1>11 DEF OnStreamFrameAcked
  <2> QED
    BY <2>1, <2>2, <2>3 DEF RelayTypeOK, curlVars
<1>12. CASE CloseBackendResponseStream
  BY <1>12 DEF CloseBackendResponseStream, RelayTypeOK, curlVars
<1>13. CASE UNCHANGED relayVars
  BY <1>13 DEF RelayTypeOK, relayVars, curlVars, streamVars
<1> QED
  BY <1>5, <1>6, <1>7, <1>8, <1>9, <1>10, <1>11, <1>12, <1>13 DEF RelayNext, Callbacks

\* Every variable keeps its type.
THEOREM RelayTypeCorrect == RelaySpec => []RelayTypeOK
BY RelayTypeInit, RelayTypeStep, PTL DEF RelaySpec

-----------------------------------------------------------------------------
(***************************************************************************)
(* What the code knows when it computes a fin.                             *)
(***************************************************************************)

\* A line adds to what was read of the block; the empty line ends the block.
LEMMA ReadStep ==
  ASSUME at \in 1..Len(answer), Len(answer) \in Nat, at' = at + 1, answer' = answer
  PROVE  /\ answer[at].kind = "end" => Read' = {}
         /\ answer[at].kind # "end" => Read' = Read \cup {at}
<1>1. ASSUME answer[at].kind = "end"
      PROVE  Read' = {}
  BY <1>1 DEF Read
<1>2. ASSUME answer[at].kind # "end"
      PROVE  Read' = Read \cup {at}
  BY <1>2 DEF Read
<1> QED
  BY <1>1, <1>2

\* At the end of a block that is not the last one, a bare 100 was read: no fin,
\* and content_length_ is left alone.
LEMMA EarlierEnd ==
  ASSUME RelayTypeOK, HeadersAsRead, Understood(answer), at \in Ends(answer),
         at # LastEnd(answer)
  PROVE  spdy_headers.length = -1 /\ spdy_headers.status = "100"
<1>1. WellFormed(answer) /\ Len(answer) \in Nat
  BY AnswersAssumption DEF RelayTypeOK, WellFormed
<1>2. \A i \in 1..at : ~InFinal(answer, i) /\ i < LastEnd(answer) /\ i \in 1..Len(answer)
  BY <1>1, EarlierBlock
<1>3. \A i \in Read : i \in 1..at /\ i \in 1 .. at - 1
  BY <1>1 DEF Read, RelayTypeOK
<1>4. \A i \in Read : answer[i].kind # "length"
                      /\ (answer[i].kind = "status" => answer[i].value = "100")
  BY <1>2, <1>3 DEF Understood
<1>5. ReadKind("length") = {}
  BY <1>4 DEF ReadKind
<1>6. ReadKind("status") # {}
  <2>1. at \in 1..Len(answer) /\ answer[at].kind = "end"
    BY DEF Ends
  <2>2. PICK j \in 1..at : answer[j].kind = "status" /\ \A k \in j .. at - 1 : answer[k].kind # "end"
    BY <1>1, <2>1 DEF WellFormed
  <2>3. j # at
    BY <2>1, <2>2
  <2>4. j \in Read
    BY <1>1, <2>1, <2>2, <2>3 DEF Read
  <2> QED
    BY <2>2, <2>4 DEF ReadKind
<1>7. spdy_headers.length = -1
  BY <1>5 DEF HeadersAsRead
<1>8. spdy_headers.status = "100"
  BY <1>4, <1>6 DEF HeadersAsRead, ReadKind
<1> QED
  BY <1>7, <1>8

\* At the last end, what was read is the final block.
LEMMA LastEndRead ==
  ASSUME RelayTypeOK, Ends(answer) # {}, at = LastEnd(answer)
  PROVE  \A i \in 1..Len(answer) : i \in Read <=> InFinal(answer, i) /\ answer[i].kind # "end"
<1>1. WellFormed(answer) /\ Len(answer) \in Nat
  BY AnswersAssumption DEF RelayTypeOK, WellFormed
<1>2. at \in 1..Len(answer) /\ answer[at].kind = "end"
  BY <1>1, LastEndIs DEF Ends
<1>3. \A i \in 1 .. at - 1 : InFinal(answer, i) <=> \A j \in i .. at - 1 : answer[j].kind # "end"
  BY <1>1, FinalBlock
<1>4. \A i \in 1..Len(answer) : InFinal(answer, i) => i <= at
  BY DEF InFinal
<1>5. ASSUME NEW i \in 1..Len(answer), i \in Read
      PROVE  InFinal(answer, i) /\ answer[i].kind # "end"
  <2>1. i \in 1 .. at - 1 /\ \A j \in i .. at - 1 : answer[j].kind # "end"
    BY <1>5 DEF Read
  <2>2. i \in i .. at - 1
    BY <1>2, <2>1
  <2> QED
    BY <1>3, <2>1, <2>2
<1>6. ASSUME NEW i \in 1..Len(answer), InFinal(answer, i), answer[i].kind # "end"
      PROVE  i \in Read
  <2>1. i # at
    BY <1>2, <1>6
  <2>2. i \in 1 .. at - 1
    BY <1>1, <1>2, <1>4, <1>6, <2>1
  <2> QED
    BY <1>3, <1>6, <2>2 DEF Read
<1> QED
  BY <1>5, <1>6

\* content_length_ as HttpHeaderCallback leaves it at the end of a block.
NewLength == IF spdy_headers.length >= 0 THEN spdy_headers.length ELSE content_length

\* At the last end, content_length_ is what the final block announces, or 0.
LEMMA LengthAtLastEnd ==
  ASSUME RelayTypeOK, HeadersAsRead, LengthAsRead, Understood(answer), at = LastEnd(answer)
  PROVE  \/ NewLength = 0 /\ ~Has(answer, "length")
         \/ \E i \in 1..Len(answer) :
              /\ InFinal(answer, i) /\ answer[i].kind = "length"
              /\ NewLength = answer[i].value
<1>1. WellFormed(answer) /\ Len(answer) \in Nat /\ Ends(answer) # {}
  BY AnswersAssumption DEF RelayTypeOK, WellFormed, Understood
<1>2. at \in 1..Len(answer) /\ answer[at].kind = "end"
  BY <1>1, LastEndIs DEF Ends
<1>3. \A i \in 1..Len(answer) : i \in Read <=> InFinal(answer, i) /\ answer[i].kind # "end"
  BY <1>1, LastEndRead
<1>4. Read \subseteq 1..Len(answer)
  BY <1>1, <1>2 DEF Read
<1>5. CASE ReadKind("length") = {} /\ spdy_headers.length = -1
  <2>1. NewLength = content_length
    BY <1>5 DEF NewLength
  <2>2. ~Has(answer, "length")
    BY <1>3, <1>5 DEF Has, ReadKind
  <2>3. \A i \in 1..Len(answer) : ~(InFinal(answer, i) /\ answer[i].kind = "length")
    BY <2>2 DEF Has
  <2>4. content_length = 0
    BY <2>3 DEF LengthAsRead
  <2> QED
    BY <2>1, <2>2, <2>4
<1>6. ASSUME NEW i \in ReadKind("length"), spdy_headers.length = answer[i].value
      PROVE  \E j \in 1..Len(answer) :
               /\ InFinal(answer, j) /\ answer[j].kind = "length"
               /\ NewLength = answer[j].value
  <2>1. i \in 1..Len(answer) /\ answer[i].kind = "length" /\ i \in Read
    BY <1>4 DEF ReadKind
  <2>2. InFinal(answer, i)
    BY <1>3, <2>1
  <2>3. answer[i].value \in Nat
    BY <1>1, <2>1 DEF WellFormed
  <2>4. NewLength = answer[i].value
    BY <1>6, <2>3 DEF NewLength
  <2> QED
    BY <2>1, <2>2, <2>4
<1> QED
  BY <1>5, <1>6 DEF HeadersAsRead

\* A fin that goes with the headers goes with the last callback.
LEMMA FinAtEnd ==
  ASSUME RelayTypeOK, HeadersAsRead, LengthAsRead, Understood(answer), at \in Ends(answer),
         HeadersFin(NewLength)
  PROVE  at = Len(answer)
<1>1. WellFormed(answer) /\ Len(answer) \in Nat /\ Ends(answer) # {}
  BY AnswersAssumption DEF RelayTypeOK, WellFormed, Understood
<1>2. at = LastEnd(answer)
  BY EarlierEnd DEF HeadersFin
<1>3. at \in 1..Len(answer) /\ answer[at].kind = "end"
  BY DEF Ends
<1>4. \A i \in 1..Len(answer) : i \in Read <=> InFinal(answer, i) /\ answer[i].kind # "end"
  BY <1>1, <1>2, LastEndRead
<1>5. Read \subseteq 1..Len(answer)
  BY <1>1, <1>3 DEF Read
<1>6. ~Has(answer, "chunked")
  BY <1>4 DEF HeadersFin, HeadersAsRead, Has, ReadKind
<1>7. Status(answer) # {"200"}
  <2>1. PICK j \in 1..at :
          answer[j].kind = "status" /\ \A k \in j .. at - 1 : answer[k].kind # "end"
    BY <1>1, <1>3 DEF WellFormed
  <2>2. j # at
    BY <1>3, <2>1
  <2>3. j \in ReadKind("status")
    BY <1>1, <1>3, <2>1, <2>2 DEF Read, ReadKind
  <2>4. PICK i \in ReadKind("status") : spdy_headers.status = answer[i].value
    BY <2>3 DEF HeadersAsRead
  <2>5. i \in 1..Len(answer) /\ InFinal(answer, i) /\ answer[i].kind = "status"
    BY <1>4, <1>5, <2>4 DEF ReadKind
  <2>6. spdy_headers.status \in Status(answer)
    BY <2>4, <2>5 DEF Status
  <2>7. spdy_headers.status # "200"
    BY DEF HeadersFin
  <2> QED
    BY <2>6, <2>7
<1>8. Has(answer, "length")
  BY <1>6, <1>7 DEF Understood
<1>9. PICK i \in 1..Len(answer) : /\ InFinal(answer, i) /\ answer[i].kind = "length"
                                  /\ NewLength = answer[i].value
  BY <1>2, <1>8, LengthAtLastEnd
<1>10. answer[i].value = 0
  BY <1>9 DEF HeadersFin
<1>11. BodySums(answer)[Len(answer)] = 0 \/ \A j \in 1..Len(answer) : answer[j].kind # "body"
  BY <1>1, <1>9, <1>10 DEF WellFormed
<1> QED
  BY <1>1, <1>2, <1>11, EmptyAfterEnd

\* A fin that goes with a piece of body goes with the last callback.
LEMMA FinAtBody ==
  ASSUME RelayTypeOK, LengthAsRead, BodyCounted, Understood(answer), at \in 1..Len(answer),
         answer[at].kind = "body", had_send_length + answer[at].value = content_length
  PROVE  at = Len(answer)
<1>1. WellFormed(answer) /\ Len(answer) \in Nat /\ Ends(answer) # {}
  BY AnswersAssumption DEF RelayTypeOK, WellFormed, Understood
<1>2. answer[at].value \in Nat \ {0} /\ \A j \in Ends(answer) : j < at
  BY <1>1 DEF WellFormed
<1>3. BodySums(answer)[at] = had_send_length + answer[at].value
  BY <1>1, BodySumsStep DEF BodyCounted
<1>4. content_length # 0
  BY <1>2 DEF RelayTypeOK
<1>5. ~(at <= LastEnd(answer))
  BY <1>1, <1>2, LastEndIs DEF Ends
<1>6. PICK i \in 1..Len(answer) : /\ InFinal(answer, i) /\ answer[i].kind = "length"
                                  /\ content_length = answer[i].value
  BY <1>4 DEF LengthAsRead
<1>7. answer[i].value = BodySums(answer)[Len(answer)]
  BY <1>1, <1>6 DEF WellFormed
<1> QED
  BY <1>1, <1>3, <1>6, <1>7, WholeAtLast

-----------------------------------------------------------------------------
(***************************************************************************)
(* RelayInv is inductive.                                                      *)
(***************************************************************************)

\* The units of an answer only depend on the transport, which never changes.
LEMMA UnitSumsSame ==
  ASSUME http3' = http3, answer' = answer
  PROVE  UnitSums(answer)' = UnitSums(answer)
BY DEF UnitSums, UnitSumsOver

\* Until the answer is over, no stream that is still linked was ended.
LEMMA OpenWhileLinked ==
  ASSUME RelayInv, Understood(answer), ~Complete, quic_proxy_curl
  PROVE  ~fin_buffered /\ ~write_closed
BY DEF RelayInv, ClosedBy, FinMeansComplete

\* A line of a block.
LEMMA HeaderLineKeeps == ASSUME RelayInv, HeaderLine PROVE
  HeadersAsRead' /\ LengthAsRead' /\ BodyCounted' /\ UnitsGiven'
<1> USE DEF RelayInv
<1>1. WellFormed(answer) /\ Len(answer) \in Nat
  BY AnswersAssumption DEF RelayTypeOK, WellFormed
<1>2. /\ at \in 1..Len(answer) /\ at' = at + 1 /\ answer' = answer
      /\ answer[at].kind \in {"status", "length", "chunked", "other", "nofield"}
      /\ UNCHANGED <<content_length, had_send_length, streamVars>>
  BY <1>1 DEF HeaderLine, Delivers, Complete, RelayTypeOK
<1>3. Read' = Read \cup {at} /\ at \notin Read
  BY <1>1, <1>2, ReadStep DEF Read
<1>4. \A k : ReadKind(k)' = IF answer[at].kind = k THEN ReadKind(k) \cup {at} ELSE ReadKind(k)
  BY <1>2, <1>3 DEF ReadKind
<1>5. spdy_headers \in Headers
  BY DEF RelayTypeOK
<1>6. HeadersAsRead'
  <2>1. CASE /\ answer[at].kind = "status"
             /\ spdy_headers' = [spdy_headers EXCEPT !.status = answer[at].value]
    <3>1. answer[at].value \in Statuses
      BY <1>2, <2>1 DEF Statuses, StatusesOf, RelayTypeOK
    <3>2. /\ spdy_headers'.status = answer[at].value
          /\ spdy_headers'.length = spdy_headers.length
          /\ spdy_headers'.chunked = spdy_headers.chunked
      BY <1>5, <2>1, <3>1, SetStatus
    <3>3. at \in ReadKind("status")' /\ ReadKind("length")' = ReadKind("length")
          /\ ReadKind("chunked")' = ReadKind("chunked")
      BY <1>4, <2>1
    <3> QED
      BY <1>2, <3>2, <3>3 DEF HeadersAsRead
  <2>2. CASE /\ answer[at].kind = "length"
             /\ spdy_headers' = [spdy_headers EXCEPT !.length = answer[at].value]
    <3>1. answer[at].value \in Nat
      BY <1>1, <1>2, <2>2 DEF WellFormed
    <3>2. /\ spdy_headers'.length = answer[at].value
          /\ spdy_headers'.status = spdy_headers.status
          /\ spdy_headers'.chunked = spdy_headers.chunked
      BY <1>5, <2>2, <3>1, SetLength
    <3>3. at \in ReadKind("length")' /\ ReadKind("status")' = ReadKind("status")
          /\ ReadKind("chunked")' = ReadKind("chunked")
      BY <1>4, <2>2
    <3> QED
      BY <1>2, <3>2, <3>3 DEF HeadersAsRead
  <2>3. CASE /\ answer[at].kind = "chunked"
             /\ spdy_headers' = [spdy_headers EXCEPT !.chunked = TRUE]
    <3>1. /\ spdy_headers'.chunked
          /\ spdy_headers'.status = spdy_headers.status
          /\ spdy_headers'.length = spdy_headers.length
      BY <1>5, <2>3, SetChunked
    <3>2. at \in ReadKind("chunked")' /\ ReadKind("status")' = ReadKind("status")
          /\ ReadKind("length")' = ReadKind("length")
      BY <1>4, <2>3
    <3> QED
      BY <1>2, <3>1, <3>2 DEF HeadersAsRead
  <2>4. CASE answer[at].kind \in {"other", "nofield"} /\ UNCHANGED spdy_headers
    <3>1. /\ ReadKind("status")' = ReadKind("status")
          /\ ReadKind("length")' = ReadKind("length")
          /\ ReadKind("chunked")' = ReadKind("chunked")
      BY <1>4, <2>4
    <3> QED
      BY <1>2, <2>4, <3>1 DEF HeadersAsRead
  <2> QED
    BY <2>1, <2>2, <2>3, <2>4 DEF HeaderLine, Delivers
<1>7. LengthAsRead'
  <2>1. Understood(answer) /\ at <= LastEnd(answer) => at + 1 <= LastEnd(answer)
    BY <1>1, <1>2, LastEndIs DEF Understood, Ends
  <2> QED
    BY <1>2, <2>1 DEF LengthAsRead
<1>8. BodyCounted'
  <2>1. BodySums(answer)[at] = BodySums(answer)[at - 1]
    BY <1>1, <1>2, BodySumsStep
  <2>2. \A i \in Ends(answer) : at + 1 <= i => at <= i
    BY <1>2 DEF Ends
  <2> QED
    BY <1>2, <2>1, <2>2 DEF BodyCounted, streamVars
<1>9. UnitsGiven'
  <2>1. UnitSums(answer)[at] = UnitSums(answer)[at - 1]
    BY <1>1, <1>2, UnitSumsStep
  <2>2. UnitSums(answer)' = UnitSums(answer)
    BY <1>2, UnitSumsSame DEF streamVars
  <2> QED
    BY <1>2, <2>1, <2>2 DEF UnitsGiven, streamVars
<1> QED
  BY <1>6, <1>7, <1>8, <1>9

\* The end of a block.
LEMMA EndOfHeadersKeeps == ASSUME RelayInv, EndOfHeaders PROVE
  /\ HeadersAsRead' /\ LengthAsRead' /\ BodyCounted' /\ ClosedBy' /\ UnitsGiven'
  /\ FinMeansComplete' /\ NothingLost'
<1> USE DEF RelayInv
<1>1. WellFormed(answer) /\ Len(answer) \in Nat
  BY AnswersAssumption DEF RelayTypeOK, WellFormed
<1>2. /\ at \in 1..Len(answer) /\ at' = at + 1 /\ answer' = answer
      /\ answer[at].kind = "end" /\ at \in Ends(answer)
      /\ quic_proxy_curl /\ quic_proxy_curl' = quic_proxy_curl
      /\ had_send_length' = had_send_length /\ ~Complete
  BY <1>1 DEF EndOfHeaders, Delivers, Complete, RelayTypeOK, Ends
<1>3. content_length' = NewLength /\ spdy_headers' = NoHeaders
  BY <1>2 DEF EndOfHeaders, NewLength
<1>4. WriteHeaders(HeadersFin(NewLength))
  BY <1>3, Zenon DEF EndOfHeaders
<1>5. http3' = http3
  BY <1>4 DEF WriteHeaders, StreamTakes
<1>6. Understood(answer) => ~fin_buffered /\ ~write_closed
  BY <1>2, OpenWhileLinked
<1>7. had_send_length = 0
  BY <1>2 DEF BodyCounted, RelayTypeOK
<1>8. ~http3 => buffered = 0
  BY <1>7 DEF BodyCounted, RelayTypeOK
<1>9. HeadersAsRead'
  <2>1. ReadKind("status")' = {} /\ ReadKind("length")' = {} /\ ReadKind("chunked")' = {}
    BY <1>1, <1>2, ReadStep DEF ReadKind
  <2> QED
    BY <1>3, <2>1 DEF HeadersAsRead, NoHeaders
<1>10. LengthAsRead'
  <2> SUFFICES ASSUME Understood(answer)
               PROVE  LengthAsRead'
    BY <1>2 DEF LengthAsRead
  <2>1. CASE at = LastEnd(answer)
    <3>1. \/ NewLength = 0 /\ ~Has(answer, "length")
          \/ \E i \in 1..Len(answer) :
              /\ InFinal(answer, i) /\ answer[i].kind = "length"
              /\ NewLength = answer[i].value
      BY <2>1, LengthAtLastEnd
    <3> QED
      BY <1>2, <1>3, <3>1 DEF LengthAsRead
  <2>2. CASE at # LastEnd(answer)
    <3>1. NewLength = content_length
      BY <1>2, <2>2, EarlierEnd DEF NewLength
    <3>2. at < LastEnd(answer) /\ LastEnd(answer) \in 1..Len(answer)
      BY <1>1, <1>2, <2>2, LastEndIs DEF Ends
    <3>3. at + 1 <= LastEnd(answer)
      BY <1>2, <3>2
    <3> QED
      BY <1>2, <1>3, <3>1, <3>3 DEF LengthAsRead
  <2> QED
    BY <2>1, <2>2
<1>11. BodyCounted'
  <2>1. BodySums(answer)[at] = BodySums(answer)[at - 1]
    BY <1>1, <1>2, BodySumsStep
  <2>2. ~http3 => buffered' = buffered
    BY <1>4, <1>8 DEF WriteHeaders, StreamTakes, RelayTypeOK
  <2> QED
    BY <1>2, <1>5, <1>7, <2>1, <2>2 DEF BodyCounted
<1>12. write_closed' => write_closed \/ (fin_buffered' /\ ~http3)
  BY <1>4 DEF WriteHeaders, StreamTakes
<1>13. fin_buffered => fin_buffered'
  BY <1>4 DEF WriteHeaders, StreamTakes
<1>14. ClosedBy'
  BY <1>2, <1>12, <1>13 DEF ClosedBy
<1>15. FinMeansComplete'
  <2> SUFFICES ASSUME Understood(answer), fin_buffered'
               PROVE  Complete'
    BY <1>2 DEF FinMeansComplete
  <2>1. ~fin_buffered
    BY <1>6
  <2>2. HeadersFin(NewLength)
    BY <1>4, <2>1 DEF WriteHeaders, StreamTakes
  <2>3. at = Len(answer)
    BY <1>2, <2>2, FinAtEnd
  <2> QED
    BY <1>1, <1>2, <2>3 DEF Complete
<1>16. NothingLost'
  <2>1. Understood(answer) => dropped' = dropped
    BY <1>4, <1>6 DEF WriteHeaders, StreamTakes
  <2>2. CASE write_closed
    <3>1. buffered' = buffered
      BY <1>4, <2>2 DEF WriteHeaders, StreamTakes
    <3> QED
      BY <1>2, <2>1, <2>2, <3>1 DEF NothingLost
  <2>3. CASE ~write_closed
    <3>1. write_closed' => ~http3 /\ buffered' = buffered
      BY <1>4, <2>3 DEF WriteHeaders, StreamTakes
    <3> QED
      BY <1>2, <1>8, <2>1, <3>1 DEF NothingLost
  <2> QED
    BY <2>2, <2>3
<1>17. UnitsGiven'
  <2> SUFFICES ASSUME Understood(answer)
               PROVE  buffered' + unacked' + acked' = UnitSums(answer)'[at' - 1]
    BY <1>2 DEF UnitsGiven
  <2>1. UnitSums(answer)' = UnitSums(answer)
    BY <1>2, <1>5, UnitSumsSame
  <2>2. UnitSums(answer)[at] = UnitSums(answer)[at - 1] + (IF http3 THEN 1 ELSE 0)
    BY <1>1, <1>2, UnitSumsStep
  <2>3. /\ buffered' = buffered + (IF http3 THEN 1 ELSE 0)
        /\ unacked' = unacked /\ acked' = acked
    BY <1>4, <1>6 DEF WriteHeaders, StreamTakes, RelayTypeOK
  <2>4. buffered + unacked + acked = UnitSums(answer)[at - 1]
    BY DEF UnitsGiven
  <2>5. buffered \in Nat /\ unacked \in Nat /\ acked \in Nat
    BY DEF RelayTypeOK
  <2>6. at' - 1 = at
    BY <1>2
  <2> QED
    BY <2>1, <2>2, <2>3, <2>4, <2>5, <2>6
<1> QED
  BY <1>9, <1>10, <1>11, <1>14, <1>15, <1>16, <1>17

\* A piece of body.
LEMMA WriteKeeps == ASSUME RelayInv, WriteQuicCallback PROVE
  /\ HeadersAsRead' /\ LengthAsRead' /\ BodyCounted' /\ ClosedBy' /\ UnitsGiven'
  /\ FinMeansComplete' /\ NothingLost'
<1> USE DEF RelayInv
<1>1. WellFormed(answer) /\ Len(answer) \in Nat
  BY AnswersAssumption DEF RelayTypeOK, WellFormed
<1>2. /\ at \in 1..Len(answer) /\ at' = at + 1 /\ answer' = answer
      /\ answer[at].kind = "body"
      /\ quic_proxy_curl /\ quic_proxy_curl' = quic_proxy_curl
      /\ UNCHANGED <<spdy_headers, content_length>> /\ ~Complete
  BY <1>1 DEF WriteQuicCallback, Delivers, Complete, RelayTypeOK
<1> DEFINE n == answer[at].value
<1>3. n \in Nat \ {0} /\ Ends(answer) # {} /\ \A j \in Ends(answer) : j < at
  BY <1>1, <1>2 DEF WellFormed
<1>4. had_send_length' = had_send_length + n
      /\ StreamTakes(n, had_send_length' = content_length)
  BY DEF WriteQuicCallback
<1> HIDE DEF n
<1>5. http3' = http3
  BY <1>4 DEF StreamTakes
<1>6. Understood(answer) => ~fin_buffered /\ ~write_closed
  BY <1>2, OpenWhileLinked
<1>7. HeadersAsRead'
  <2>1. Read' = Read \cup {at} /\ at \notin Read
    BY <1>1, <1>2, ReadStep DEF Read
  <2>2. ReadKind("status")' = ReadKind("status") /\ ReadKind("length")' = ReadKind("length")
        /\ ReadKind("chunked")' = ReadKind("chunked")
    BY <1>2, <2>1 DEF ReadKind
  <2> QED
    BY <1>2, <2>2 DEF HeadersAsRead
<1>8. LengthAsRead'
  <2>1. ~(at <= LastEnd(answer))
    BY <1>1, <1>2, <1>3, LastEndIs DEF Ends
  <2> QED
    BY <1>2, <2>1 DEF LengthAsRead
<1>9. BodyCounted'
  <2>1. BodySums(answer)[at] = BodySums(answer)[at - 1] + n
    BY <1>1, <1>2, BodySumsStep DEF n
  <2>2. \A i \in Ends(answer) : ~(at + 1 <= i)
    BY <1>2, <1>3 DEF Ends
  <2>3. buffered' = buffered \/ buffered' = buffered + n
    BY <1>4 DEF StreamTakes
  <2>4. ~http3 => buffered' <= had_send_length'
    BY <1>3, <1>4, <2>3 DEF BodyCounted, RelayTypeOK
  <2> QED
    BY <1>2, <1>4, <1>5, <2>1, <2>2, <2>4 DEF BodyCounted
<1>10. write_closed' = write_closed /\ (fin_buffered => fin_buffered')
  BY <1>4 DEF StreamTakes
<1>11. ClosedBy'
  BY <1>2, <1>10 DEF ClosedBy
<1>12. FinMeansComplete'
  <2> SUFFICES ASSUME Understood(answer), fin_buffered'
               PROVE  Complete'
    BY <1>2 DEF FinMeansComplete
  <2>1. ~fin_buffered /\ ~write_closed
    BY <1>6
  <2>2. had_send_length' = content_length
    BY <1>4, <2>1 DEF StreamTakes
  <2>3. at = Len(answer)
    BY <1>2, <1>4, <2>2, FinAtBody DEF n
  <2> QED
    BY <1>1, <1>2, <2>3 DEF Complete
<1>13. NothingLost'
  <2>1. Understood(answer) => dropped' = dropped
    BY <1>4, <1>6 DEF StreamTakes
  <2>2. write_closed => buffered' = buffered
    BY <1>4 DEF StreamTakes
  <2> QED
    BY <1>2, <1>10, <2>1, <2>2 DEF NothingLost
<1>14. UnitsGiven'
  <2> SUFFICES ASSUME Understood(answer)
               PROVE  buffered' + unacked' + acked' = UnitSums(answer)'[at' - 1]
    BY <1>2 DEF UnitsGiven
  <2>1. UnitSums(answer)' = UnitSums(answer)
    BY <1>2, <1>5, UnitSumsSame
  <2>2. UnitSums(answer)[at] = UnitSums(answer)[at - 1] + n
    BY <1>1, <1>2, UnitSumsStep DEF n
  <2>3. buffered' = buffered + n /\ unacked' = unacked /\ acked' = acked
    BY <1>4, <1>6 DEF StreamTakes
  <2>4. buffered + unacked + acked = UnitSums(answer)[at - 1]
    BY DEF UnitsGiven
  <2>5. buffered \in Nat /\ unacked \in Nat /\ acked \in Nat
    BY DEF RelayTypeOK
  <2>6. at' - 1 = at
    BY <1>2
  <2> QED
    BY <1>3, <2>1, <2>2, <2>3, <2>4, <2>5, <2>6
<1> QED
  BY <1>7, <1>8, <1>9, <1>11, <1>12, <1>13, <1>14

\* The end of the transfer and of the stream: nothing was written.
LEMMA UnlinkKeeps == ASSUME RelayInv,
  UNCHANGED <<answer, at, spdy_headers, content_length, had_send_length, http3, buffered,
              unacked, acked, fin_buffered, fin_sent, write_closed, told, dropped>>,
  quic_proxy_curl' => quic_proxy_curl
  PROVE
  /\ HeadersAsRead' /\ LengthAsRead' /\ BodyCounted' /\ ClosedBy' /\ UnitsGiven'
  /\ FinMeansComplete' /\ NothingLost'
<1> USE DEF RelayInv
<1>1. HeadersAsRead'
  BY DEF HeadersAsRead, ReadKind, Read
<1>2. LengthAsRead' /\ BodyCounted' /\ ClosedBy'
  BY DEF LengthAsRead, BodyCounted, ClosedBy
<1>3. UnitsGiven'
  BY UnitSumsSame DEF UnitsGiven
<1>4. FinMeansComplete' /\ NothingLost'
  BY DEF FinMeansComplete, NothingLost, Complete
<1> QED
  BY <1>1, <1>2, <1>3, <1>4

\* Units move from the buffer to the network, and from there to the client.
LEMMA StreamKeeps == ASSUME RelayInv,
  UNCHANGED <<curlVars, quic_proxy_curl, http3, fin_buffered, dropped>>,
  buffered' \in Nat, unacked' \in Nat, acked' \in Nat, buffered' <= buffered,
  buffered' + unacked' + acked' = buffered + unacked + acked,
  write_closed' => buffered' = 0 /\ (fin_buffered \/ ~quic_proxy_curl)
  PROVE
  /\ HeadersAsRead' /\ LengthAsRead' /\ BodyCounted' /\ ClosedBy' /\ UnitsGiven'
  /\ FinMeansComplete' /\ NothingLost'
<1> USE DEF RelayInv, curlVars
<1>1. HeadersAsRead'
  BY DEF HeadersAsRead, ReadKind, Read
<1>2. LengthAsRead' /\ ClosedBy'
  BY DEF LengthAsRead, ClosedBy
<1>3. BodyCounted'
  BY DEF BodyCounted, RelayTypeOK
<1>4. UnitsGiven'
  BY UnitSumsSame DEF UnitsGiven
<1>5. FinMeansComplete' /\ NothingLost'
  BY DEF FinMeansComplete, NothingLost, Complete
<1> QED
  BY <1>1, <1>2, <1>3, <1>4, <1>5

\* No callback writes more than its own units.
LEMMA UnitsBoundedStep ==
  ASSUME RelayInv, RelayTypeOK', [RelayNext]_relayVars
  PROVE  UnitsBounded'
<1> DEFINE total == buffered + unacked + acked
<1>1. WellFormed(answer) /\ Len(answer) \in Nat
  BY AnswersAssumption DEF RelayInv, RelayTypeOK, WellFormed
<1>2. buffered \in Nat /\ unacked \in Nat /\ acked \in Nat /\ at \in 1..Len(answer) + 1
      /\ total <= UnitSums(answer)[at - 1]
  BY DEF RelayInv, RelayTypeOK, UnitsBounded
<1>3. ASSUME answer' = answer, http3' = http3, at' = at,
             buffered' + unacked' + acked' = total
      PROVE  UnitsBounded'
  BY <1>2, <1>3, UnitSumsSame DEF UnitsBounded
<1>4. ASSUME NEW n \in Nat, answer' = answer, http3' = http3, at' = at + 1, ~Complete,
             buffered' = buffered + n \/ buffered' = buffered, unacked' = unacked, acked' = acked,
             UnitSums(answer)[at] = UnitSums(answer)[at - 1] + n
      PROVE  UnitsBounded'
  <2>1. at' - 1 = at /\ at \in 1..Len(answer) /\ at - 1 \in 0..Len(answer)
    BY <1>1, <1>2, <1>4 DEF Complete
  <2>2. UnitSums(answer)' = UnitSums(answer)
    BY <1>4, UnitSumsSame
  <2>3. UnitSums(answer)[at - 1] \in Nat
    BY <1>1, <2>1, UnitSumsStep
  <2>4. buffered' + unacked' + acked' <= UnitSums(answer)[at]
    BY <1>2, <1>4, <2>3
  <2>5. UnitSums(answer)'[at' - 1] = UnitSums(answer)[at]
    BY <2>1, <2>2
  <2> QED
    BY <2>4, <2>5 DEF UnitsBounded
<1> HIDE DEF total
<1>5. ASSUME NEW k, Delivers(k)
      PROVE  /\ answer' = answer /\ at' = at + 1 /\ ~Complete
             /\ at \in 1..Len(answer) /\ at \in 0..Len(answer) /\ answer[at].kind = k
             /\ UnitSums(answer)[at - 1] \in Nat
  <2>1. at \in 1..Len(answer) /\ at - 1 \in 0..Len(answer)
    BY <1>1, <1>2, <1>5 DEF Delivers, Complete
  <2>2. UnitSums(answer)[at - 1] \in Nat
    BY <1>1, <2>1, UnitSumsStep
  <2> QED
    BY <1>5, <2>1, <2>2 DEF Delivers
<1>6. CASE HeaderLine
  <2>1. PICK k \in {"status", "length", "chunked", "other", "nofield"} : Delivers(k)
    BY <1>6 DEF HeaderLine
  <2>2. UNCHANGED <<http3, buffered, unacked, acked>>
    BY <1>6 DEF HeaderLine, streamVars
  <2>3. UnitSums(answer)[at] = UnitSums(answer)[at - 1] + 0
    BY <1>1, <1>5, <2>1, UnitSumsStep
  <2> QED
    BY <1>4, <1>5, <2>1, <2>2, <2>3
<1>7. CASE EndOfHeaders
  <2> DEFINE n == IF http3 THEN 1 ELSE 0
  <2>1. Delivers("end") /\ WriteHeaders(HeadersFin(content_length'))
    BY <1>7 DEF EndOfHeaders
  <2>2. http3' = http3 /\ unacked' = unacked /\ acked' = acked
        /\ (buffered' = buffered + n \/ buffered' = buffered)
    BY <2>1 DEF WriteHeaders, StreamTakes
  <2>3. UnitSums(answer)[at] = UnitSums(answer)[at - 1] + n
    BY <1>1, <1>5, <2>1, UnitSumsStep
  <2>4. n \in Nat
    OBVIOUS
  <2> HIDE DEF n
  <2> QED
    BY <1>4, <1>5, <2>1, <2>2, <2>3, <2>4
<1>8. CASE WriteQuicCallback
  <2>1. Delivers("body")
    BY <1>8 DEF WriteQuicCallback
  <2>2. http3' = http3 /\ unacked' = unacked /\ acked' = acked
        /\ (buffered' = buffered + answer[at].value \/ buffered' = buffered)
    BY <1>8 DEF WriteQuicCallback, StreamTakes
  <2>3. UnitSums(answer)[at] = UnitSums(answer)[at - 1] + answer[at].value
    BY <1>1, <1>5, <2>1, UnitSumsStep
  <2>4. answer[at].value \in Nat
    BY <1>1, <1>5, <2>1 DEF WellFormed
  <2> QED
    BY <1>4, <1>5, <2>1, <2>2, <2>3, <2>4
<1>9. CASE BadStatusLine \/ CallbackWithoutStream \/ TransferEnds \/ CloseBackendResponseStream
          \/ DFatal \/ UNCHANGED relayVars
  BY <1>3, <1>9 DEF BadStatusLine, DFatal, CallbackWithoutStream, TransferEnds,
     CloseBackendResponseStream, relayVars, curlVars, streamVars, total
<1>10. ASSUME NEW n \in 0..buffered, StreamSends(n)
       PROVE  UnitsBounded'
  <2>1. /\ UNCHANGED <<answer, http3, at>>
        /\ buffered' = buffered - n /\ unacked' = unacked + n /\ acked' = acked
    BY <1>10 DEF StreamSends, curlVars
  <2>2. buffered' + unacked' + acked' = total
    BY <1>2, <2>1 DEF total
  <2> QED
    BY <1>3, <2>1, <2>2
<1>11. ASSUME NEW n \in 1..unacked, OnStreamFrameAcked(n)
       PROVE  UnitsBounded'
  <2>1. /\ UNCHANGED <<answer, http3, at>>
        /\ buffered' = buffered /\ unacked' = unacked - n /\ acked' = acked + n
    BY <1>11 DEF OnStreamFrameAcked, curlVars
  <2>2. buffered' + unacked' + acked' = total
    BY <1>2, <2>1 DEF total
  <2> QED
    BY <1>3, <2>1, <2>2
<1> QED
  BY <1>6, <1>7, <1>8, <1>9, <1>10, <1>11 DEF RelayNext, Callbacks

\* RelayInv holds of a fresh response.
LEMMA RelayInvInit == RelayInit => RelayInv
<1> SUFFICES ASSUME RelayInit
             PROVE  RelayInv
  OBVIOUS
<1>1. RelayTypeOK
  BY RelayTypeInit
<1>2. WellFormed(answer) /\ Len(answer) \in Nat
  BY AnswersAssumption DEF RelayInit, WellFormed
<1>3. BodySums(answer)[0] = 0 /\ UnitSums(answer)[0] = 0
  BY <1>2, BodySumsStep, UnitSumsStep
<1>4. at = 1 /\ at - 1 = 0
  BY DEF RelayInit
<1>5. HeadersAsRead
  <2>1. Read = {}
    BY <1>4 DEF Read
  <2>2. ReadKind("status") = {} /\ ReadKind("length") = {} /\ ReadKind("chunked") = {}
    BY <2>1 DEF ReadKind
  <2>3. spdy_headers.length = -1 /\ spdy_headers.chunked = FALSE
    BY DEF RelayInit, NoHeaders
  <2> QED
    BY <2>2, <2>3 DEF HeadersAsRead
<1>6. LengthAsRead
  <2>1. Understood(answer) => 1 <= LastEnd(answer)
    BY <1>2, LastEndIs DEF Understood, Ends
  <2> QED
    BY <1>4, <2>1 DEF RelayInit, LengthAsRead
<1>7. BodyCounted /\ UnitsGiven /\ UnitsBounded
  BY <1>3, <1>4 DEF RelayInit, BodyCounted, UnitsGiven, UnitsBounded
<1>8. ClosedBy /\ FinMeansComplete /\ NothingLost
  BY DEF RelayInit, ClosedBy, FinMeansComplete, NothingLost
<1> QED
  BY <1>1, <1>5, <1>6, <1>7, <1>8 DEF RelayInv

\* Every step keeps RelayInv.
LEMMA RelayInvStep == ASSUME RelayInv, [RelayNext]_relayVars PROVE RelayInv'
<1>1. RelayTypeOK /\ RelayTypeOK' /\ UnitsBounded'
  BY RelayTypeStep, UnitsBoundedStep DEF RelayInv
<1> USE DEF relayVars, streamVars
<1>2. CASE HeaderLine
  <2>1. quic_proxy_curl' = quic_proxy_curl /\ UNCHANGED streamVars /\ ~Complete
        /\ answer' = answer /\ quic_proxy_curl
    BY <1>2 DEF HeaderLine, Delivers
  <2>2. ClosedBy' /\ NothingLost'
    BY <2>1 DEF RelayInv, ClosedBy, NothingLost
  <2>3. FinMeansComplete'
    BY <2>1, OpenWhileLinked DEF FinMeansComplete
  <2> QED
    BY <1>1, <1>2, <2>2, <2>3, HeaderLineKeeps DEF RelayInv
<1>3. CASE EndOfHeaders
  BY <1>1, <1>3, EndOfHeadersKeeps DEF RelayInv
<1>4. CASE WriteQuicCallback
  BY <1>1, <1>4, WriteKeeps DEF RelayInv
<1>5. CASE BadStatusLine \/ CallbackWithoutStream \/ TransferEnds \/ CloseBackendResponseStream
          \/ DFatal \/ UNCHANGED relayVars
  <2>1. /\ UNCHANGED <<answer, at, spdy_headers, content_length, had_send_length, http3,
                       buffered, unacked, acked, fin_buffered, fin_sent, write_closed, told,
                       dropped>>
        /\ quic_proxy_curl' => quic_proxy_curl
    BY <1>5 DEF BadStatusLine, DFatal, CallbackWithoutStream, TransferEnds,
       CloseBackendResponseStream, curlVars
  <2> QED
    BY <1>1, <2>1, UnlinkKeeps DEF RelayInv
<1>6. ASSUME NEW n \in 0..buffered, StreamSends(n)
      PROVE  RelayInv'
  <2>1. /\ UNCHANGED <<curlVars, quic_proxy_curl, http3, fin_buffered, dropped>>
        /\ buffered' = buffered - n /\ unacked' = unacked + n /\ acked' = acked
        /\ write_closed' => fin_buffered /\ buffered' = 0
    BY <1>6 DEF StreamSends
  <2>2. buffered \in Nat /\ unacked \in Nat /\ acked \in Nat /\ n \in Nat /\ n <= buffered
    BY <1>1 DEF RelayTypeOK
  <2>3. /\ buffered' \in Nat /\ unacked' \in Nat /\ acked' \in Nat /\ buffered' <= buffered
        /\ buffered' + unacked' + acked' = buffered + unacked + acked
    BY <2>1, <2>2
  <2> QED
    BY <1>1, <2>1, <2>3, StreamKeeps DEF RelayInv
<1>7. ASSUME NEW n \in 1..unacked, OnStreamFrameAcked(n)
      PROVE  RelayInv'
  <2>1. /\ UNCHANGED <<curlVars, quic_proxy_curl, http3, fin_buffered, dropped, buffered>>
        /\ unacked' = unacked - n /\ acked' = acked + n
    BY <1>7 DEF OnStreamFrameAcked
  <2>2. buffered \in Nat /\ unacked \in Nat /\ acked \in Nat /\ n \in Nat /\ n <= unacked
    BY <1>1 DEF RelayTypeOK
  <2>3. /\ buffered' \in Nat /\ unacked' \in Nat /\ acked' \in Nat /\ buffered' <= buffered
        /\ buffered' + unacked' + acked' = buffered + unacked + acked
    BY <2>1, <2>2
  <2>4. write_closed' => buffered' = 0 /\ (fin_buffered \/ ~quic_proxy_curl)
    BY <1>7, <2>1 DEF OnStreamFrameAcked, RelayInv, NothingLost, ClosedBy
  <2> QED
    BY <1>1, <2>1, <2>3, <2>4, StreamKeeps DEF RelayInv
<1> QED
  BY <1>2, <1>3, <1>4, <1>5, <1>6, <1>7 DEF RelayNext, Callbacks

\* RelayInv holds in every reachable state.
THEOREM RelayInvariance == RelaySpec => []RelayInv
<1>1. RelayInv /\ [RelayNext]_relayVars => RelayInv'
  BY RelayInvStep
<1> QED
  BY RelayInvInit, <1>1, PTL DEF RelaySpec

\* A FIN means a complete response, for every answer the code understands and
\* every way libcurl may cut it into callbacks.
THEOREM FinIsLast == RelaySpec => []FinMeansComplete
<1>1. RelayInv => FinMeansComplete
  BY DEF RelayInv
<1> QED
  BY <1>1, RelayInvariance, PTL

\* No write reaches a stream that was ended, and none is ended before it has
\* sent what it was given.
THEOREM NoneLost == RelaySpec => []NothingLost
<1>1. RelayInv => NothingLost
  BY DEF RelayInv
<1> QED
  BY <1>1, RelayInvariance, PTL

-----------------------------------------------------------------------------
(***************************************************************************)
(* The relay implements ResponseStream.                                    *)
(***************************************************************************)

Given == IF Understood(answer) THEN buffered + unacked + acked ELSE 0
Ended == Understood(answer) /\ fin_buffered

\* Where the callbacks before the next one end.
LEMMA Before ==
  ASSUME NEW n \in Nat, NEW i \in 1 .. n + 1
  PROVE  i - 1 \in 0..n /\ (i > n => i - 1 = n)
OBVIOUS

\* A step that writes n units of an understood answer, and the FIN only if the
\* answer is then whole, is a write of ResponseStream.
LEMMA WriteRefines == ASSUME RelayInv, RelayInv', Understood(answer), ~fin_buffered, NEW n \in Nat,
  answer' = answer, http3' = http3, fin_buffered' \in BOOLEAN,
  buffered' = buffered + n, unacked' = unacked, acked' = acked
  PROVE Stream!Next
<1>1. WellFormed(answer) /\ Len(answer) \in Nat
  BY AnswersAssumption DEF RelayInv, RelayTypeOK, WellFormed
<1>2. UnitSums(answer)' = UnitSums(answer) /\ Units(answer)' = Units(answer)
  BY UnitSumsSame DEF Units
<1>3. buffered \in Nat /\ unacked \in Nat /\ acked \in Nat /\ at' \in 1..Len(answer) + 1
      /\ at' - 1 \in 0..Len(answer)
  <2>1. RelayTypeOK /\ RelayTypeOK'
    BY DEF RelayInv
  <2>2. buffered \in Nat /\ unacked \in Nat /\ acked \in Nat
    BY <2>1 DEF RelayTypeOK
  <2>3. at' \in 1..Len(answer') + 1
    BY <2>1 DEF RelayTypeOK
  <2>4. at' \in 1..Len(answer) + 1
    BY <2>3
  <2>5. at' - 1 \in 0..Len(answer)
    <3>1. Len(answer) \in Nat
      BY <1>1
    <3> QED
      BY ONLY <2>4, <3>1, Before
  <2> QED
    BY <2>2, <2>4, <2>5
<1>4. buffered' + unacked' + acked' = UnitSums(answer)[at' - 1]
  BY <1>2 DEF RelayInv, UnitsGiven
<1>5. UnitSums(answer)[at' - 1] <= Units(answer) /\ Units(answer) \in Nat
  BY <1>1, <1>3, UnitSumsStep DEF Units
<1>6. fin_buffered' => UnitSums(answer)[at' - 1] = Units(answer)
  <2>1. fin_buffered' => at' > Len(answer)
    BY DEF RelayInv, FinMeansComplete, Complete
  <2>2. at' > Len(answer) => at' - 1 = Len(answer)
    <3>1. Len(answer) \in Nat /\ at' \in 1..Len(answer) + 1
      BY <1>1, <1>3
    <3> QED
      BY ONLY <3>1, Before
  <2> QED
    BY <2>1, <2>2 DEF Units
<1>7. Given = buffered + unacked + acked /\ Given' = Given + n
  BY <1>3 DEF Given
<1>8. Given + n <= Units(answer) /\ Given \in Nat
  BY <1>3, <1>4, <1>5, <1>7
<1>9. n \in 0 .. Units(answer) - Given
  BY <1>5, <1>8
<1>10. Ended = FALSE /\ Ended' = fin_buffered'
  BY DEF Ended
<1>11. fin_buffered' => Given + n = Units(answer)
  BY <1>3, <1>4, <1>6, <1>7
<1> QED
  <2>1. Stream!Write(n, fin_buffered')
    BY <1>2, <1>7, <1>8, <1>10, <1>11 DEF Stream!Write, Given, Ended
  <2> QED
    BY <1>9, <2>1 DEF Stream!Next, Given

\* For every answer and every order of callbacks, flow control, acks and
\* failures, the stream behaves as ResponseStream promises.
THEOREM RefinesStream == RelaySpec => ImplementsResponse
<1>1. RelayInit => Stream!Init
  <2> SUFFICES ASSUME RelayInit
               PROVE  Stream!Init
    OBVIOUS
  <2>1. WellFormed(answer)
    BY AnswersAssumption DEF RelayInit
  <2>2. Units(answer) \in Nat
    BY <2>1, UnitSumsStep DEF Units, WellFormed
  <2> QED
    BY <2>2 DEF RelayInit, Stream!Init
<1>2. RelayInv /\ RelayInv' /\ [RelayNext]_relayVars
        => [Stream!Next]_<<Units(answer), Given, Ended>>
  <2> SUFFICES ASSUME RelayInv, RelayInv', [RelayNext]_relayVars
               PROVE  Stream!Next \/ UNCHANGED <<Units(answer), Given, Ended>>
    OBVIOUS
  <2>1. answer' = answer /\ http3' = http3
    BY DEF RelayNext, Callbacks, HeaderLine, BadStatusLine, EndOfHeaders, WriteQuicCallback,
       DFatal, CallbackWithoutStream, TransferEnds, StreamSends, OnStreamFrameAcked,
       CloseBackendResponseStream, Delivers, WriteHeaders, StreamTakes, relayVars, curlVars,
       streamVars
  <2>2. Units(answer)' = Units(answer)
    BY <2>1, UnitSumsSame DEF Units
  <2>3. CASE ~Understood(answer)
    BY <2>1, <2>2, <2>3 DEF Given, Ended
  <2>4. CASE Understood(answer) /\ fin_buffered' = fin_buffered
             /\ buffered' + unacked' + acked' = buffered + unacked + acked
    BY <2>1, <2>2, <2>4 DEF Given, Ended
  <2>5. CASE Understood(answer) /\ EndOfHeaders
    <3>1. ~fin_buffered /\ ~write_closed
      BY <2>5, OpenWhileLinked DEF EndOfHeaders, Delivers
    <3>2. WriteHeaders(HeadersFin(content_length'))
      BY <2>5 DEF EndOfHeaders
    <3>3. \E n \in Nat : buffered' = buffered + n /\ unacked' = unacked /\ acked' = acked
      <4>1. CASE http3 \/ ~HeadersFin(content_length')
        <5>1. buffered' = buffered + (IF http3 THEN 1 ELSE 0)
              /\ unacked' = unacked /\ acked' = acked
          BY <3>1, <3>2, <4>1 DEF WriteHeaders, StreamTakes
        <5>2. (IF http3 THEN 1 ELSE 0) \in Nat
          OBVIOUS
        <5> QED
          BY <5>1, <5>2
      <4>2. CASE ~(http3 \/ ~HeadersFin(content_length'))
        <5>1. buffered' = buffered /\ unacked' = unacked /\ acked' = acked
          BY <3>1, <3>2, <4>2 DEF WriteHeaders
        <5>2. buffered' = buffered + 0
          BY <5>1 DEF RelayInv, RelayTypeOK
        <5> QED
          BY <5>1, <5>2
      <4> QED
        BY <4>1, <4>2
    <3>4. fin_buffered' \in BOOLEAN
      BY DEF RelayInv, RelayTypeOK
    <3> QED
      BY <2>1, <2>5, <3>1, <3>3, <3>4, WriteRefines
  <2>6. CASE Understood(answer) /\ WriteQuicCallback
    <3>1. ~fin_buffered /\ ~write_closed
      BY <2>6, OpenWhileLinked DEF WriteQuicCallback, Delivers
    <3>2. buffered' = buffered + answer[at].value /\ unacked' = unacked /\ acked' = acked
      BY <2>6, <3>1 DEF WriteQuicCallback, StreamTakes
    <3>3. answer[at].value \in Nat
      <4>1. WellFormed(answer) /\ Len(answer) \in Nat
        BY AnswersAssumption DEF RelayInv, RelayTypeOK, WellFormed
      <4>2. at \in 1..Len(answer) /\ answer[at].kind = "body"
        BY <2>6, <4>1 DEF WriteQuicCallback, Delivers, Complete, RelayInv, RelayTypeOK
      <4> QED
        BY <4>1, <4>2 DEF WellFormed
    <3>4. fin_buffered' \in BOOLEAN
      BY DEF RelayInv, RelayTypeOK
    <3> QED
      BY <2>1, <2>6, <3>1, <3>2, <3>3, <3>4, WriteRefines
  <2>7. CASE HeaderLine \/ BadStatusLine \/ CallbackWithoutStream \/ TransferEnds
             \/ DFatal \/ CloseBackendResponseStream \/ UNCHANGED relayVars
    <3>1. UNCHANGED <<fin_buffered, buffered, unacked, acked>>
      BY <2>7 DEF HeaderLine, BadStatusLine, DFatal, CallbackWithoutStream, TransferEnds,
         CloseBackendResponseStream, relayVars, streamVars
    <3> QED
      BY <2>3, <2>4, <3>1
  <2>8. ASSUME NEW n \in 0..buffered, StreamSends(n)
        PROVE  Stream!Next \/ UNCHANGED <<Units(answer), Given, Ended>>
    <3>1. /\ fin_buffered' = fin_buffered /\ buffered' = buffered - n
          /\ unacked' = unacked + n /\ acked' = acked
      BY <2>8 DEF StreamSends
    <3>2. buffered' + unacked' + acked' = buffered + unacked + acked
      BY <3>1 DEF RelayInv, RelayTypeOK
    <3> QED
      BY <2>3, <2>4, <3>1, <3>2
  <2>9. ASSUME NEW n \in 1..unacked, OnStreamFrameAcked(n)
        PROVE  Stream!Next \/ UNCHANGED <<Units(answer), Given, Ended>>
    <3>1. /\ fin_buffered' = fin_buffered /\ buffered' = buffered
          /\ unacked' = unacked - n /\ acked' = acked + n
      BY <2>9 DEF OnStreamFrameAcked
    <3>2. buffered' + unacked' + acked' = buffered + unacked + acked
      BY <3>1 DEF RelayInv, RelayTypeOK
    <3> QED
      BY <2>3, <2>4, <3>1, <3>2
  <2> QED
    BY <2>3, <2>5, <2>6, <2>7, <2>8, <2>9 DEF RelayNext, Callbacks
<1>3. <<Units(answer), Given, Ended>> =
        <<Units(answer), IF Understood(answer) THEN buffered + unacked + acked ELSE 0,
          Understood(answer) /\ fin_buffered>>
  BY DEF Given, Ended
<1> QED
  BY <1>1, <1>2, RelayInvariance, PTL DEF RelaySpec, ImplementsResponse, Stream!Spec, Given, Ended
=============================================================================
