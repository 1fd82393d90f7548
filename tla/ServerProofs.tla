---------------------------- MODULE ServerProofs ----------------------------
(***************************************************************************)
(* What is proved about Server for any datagrams, any size of the receive  *)
(* queue and of a batch, and any number of sessions per event.             *)
(***************************************************************************)
EXTENDS Server, SumsProofs

Entry == Datagrams \X Nat

\* The stamps in the receive queue are counts the kernel has had, and do not
\* go down from one datagram to the next.
Stamped(q, count) ==
  /\ \A i \in 1..Len(q) : q[i][2] <= count
  /\ \A i, j \in 1..Len(q) : i <= j => q[i][2] <= q[j][2]

\* The inductive invariant.  CountTrails needs that a count comes after those
\* before it; NothingStranded, that nothing is buffered before the first event.
IInv ==
  /\ rcvq \in Seq(Entry) /\ overflows \in Nat /\ packets_dropped \in Nat
  /\ Stamped(rcvq, overflows)
  /\ pc = "binding" => buffered = <<>>
  /\ NothingStranded
  /\ CountTrails
  /\ DroppedForCause

-----------------------------------------------------------------------------
(***************************************************************************)
(* The receive queue.                                                      *)
(***************************************************************************)

\* What is left of a queue after n of its entries were read.
LEMMA RestIs ==
  ASSUME NEW T, NEW q \in Seq(T), NEW n \in 0..Len(q)
  PROVE  /\ Rest(q, n) \in Seq(T) /\ Len(Rest(q, n)) = Len(q) - n
         /\ \A i \in 1 .. Len(q) - n : Rest(q, n)[i] = q[i + n]
BY DEF Rest

\* recvmmsg reads a batch, or all there is.
LEMMA BatchIs ==
  ASSUME NEW q \in Seq(Entry)
  PROVE  /\ Least(BatchSize, Len(q)) \in 0..Len(q)
         /\ Least(BatchSize, Len(q)) # BatchSize => Least(BatchSize, Len(q)) = Len(q)
BY SizesAssumption DEF Least

\* Control data always fits into the space the reader gives.
LEMMA NothingTruncated ==
  ASSUME NEW entry, NEW i
  PROVE  Ctl(entry) <= ControlSpace(i)
BY SizesAssumption DEF Ctl, ControlSpace

-----------------------------------------------------------------------------
(***************************************************************************)
(* Each action keeps the invariant.                                        *)
(***************************************************************************)

\* An idle server is told of every arrival; the new stamp is the largest.
LEMMA ArrivesKeepsIInv ==
  ASSUME IInv, NEW d \in Datagrams, Arrives(d)
  PROVE  IInv'
<1> DEFINE q == rcvq'
           L == Len(rcvq)
<1>1. /\ rcvq \in Seq(Entry) /\ overflows \in Nat /\ packets_dropped \in Nat
      /\ Stamped(rcvq, overflows) /\ CountTrails
  BY DEF IInv
<1>2. /\ q \in Seq(Entry) /\ Len(q) = L + 1 /\ q[L + 1] = <<d, overflows>>
      /\ \A i \in 1..L : q[i] = rcvq[i]
  <2>1. <<d, overflows>> \in Entry
    BY <1>1 DEF Entry
  <2> QED
    BY <1>1, <2>1 DEF Arrives
<1>3. UNCHANGED <<overflows, packets_dropped, dropped, buffered, pc>>
  BY DEF Arrives
<1>4. L \in Nat
  BY <1>1
<1> HIDE DEF q, L
<1>5. \A i \in 1..L : q[i][2] \in Nat /\ q[i][2] <= overflows
                      /\ (q[i][2] > 0 => packets_dropped <= q[i][2])
  <2> SUFFICES ASSUME NEW i \in 1..L
               PROVE  q[i][2] \in Nat /\ q[i][2] <= overflows
                      /\ (q[i][2] > 0 => packets_dropped <= q[i][2])
    OBVIOUS
  <2>1. q[i] = rcvq[i] /\ i \in 1..Len(rcvq)
    BY <1>2 DEF L
  <2>2. rcvq[i] \in Entry
    BY <1>1, <2>1
  <2> QED
    BY <1>1, <2>1, <2>2 DEF Entry, Stamped, CountTrails
<1>6. q[L + 1][2] = overflows
  BY <1>2
<1>7. Stamped(q, overflows)
  <2>1. ASSUME NEW i \in 1..Len(q) PROVE q[i][2] <= overflows
    <3>1. i \in 1..L \/ i = L + 1
      BY <1>2, <1>4
    <3> QED
      BY <1>1, <1>5, <1>6, <3>1
  <2>2. ASSUME NEW i \in 1..Len(q), NEW j \in 1..Len(q), i <= j PROVE q[i][2] <= q[j][2]
    <3>1. CASE j = L + 1
      BY <1>6, <2>1, <3>1
    <3>2. CASE j # L + 1
      <4>1. i \in 1..L /\ j \in 1..L
        BY <1>2, <1>4, <2>2, <3>2
      <4>2. rcvq[i][2] <= rcvq[j][2]
        BY <1>1, <2>2, <4>1 DEF Stamped, L
      <4> QED
        BY <1>2, <4>1, <4>2
    <3> QED
      BY <3>1, <3>2
  <2> QED
    BY <2>1, <2>2 DEF Stamped
<1>8. \A i \in 1..Len(q) : q[i][2] > 0 => packets_dropped <= q[i][2]
  <2> SUFFICES ASSUME NEW i \in 1..Len(q), q[i][2] > 0 PROVE packets_dropped <= q[i][2]
    OBVIOUS
  <2>1. i \in 1..L \/ i = L + 1
    BY <1>2, <1>4
  <2>2. packets_dropped <= overflows
    BY <1>1 DEF CountTrails
  <2> QED
    BY <1>5, <1>6, <2>1, <2>2
<1>9. NothingStranded'
  BY DEF Arrives, NothingStranded
<1>10. CountTrails'
  BY <1>1, <1>3, <1>8 DEF CountTrails, q
<1> QED
  BY <1>1, <1>2, <1>3, <1>7, <1>9, <1>10 DEF IInv, DroppedForCause, q

\* A count that grows stays ahead of the stamps.
LEMMA OverflowsKeepsIInv ==
  ASSUME IInv, NEW d \in Datagrams, Overflows(d)
  PROVE  IInv'
<1>1. /\ overflows' = overflows + 1 /\ overflows \in Nat /\ packets_dropped \in Nat
      /\ UNCHANGED <<rcvq, packets_dropped, dropped, buffered, epollin, pc>>
      /\ rcvq \in Seq(Entry)
  BY DEF IInv, Overflows
<1>2. \A i \in 1..Len(rcvq) : rcvq[i][2] \in Nat
  BY <1>1 DEF Entry
<1>3. Stamped(rcvq, overflows')
  BY <1>1, <1>2 DEF IInv, Stamped
<1>4. CountTrails'
  BY <1>1 DEF IInv, CountTrails
<1> QED
  BY <1>1, <1>3, <1>4 DEF IInv, NothingStranded, DroppedForCause

\* The last turn of the loop empties the queue; the count it takes is not
\* beyond those that remain; what it skips, it skips for a reason.
LEMMA ReadKeepsIInv ==
  ASSUME IInv, ReadAndDispatchPackets
  PROVE  IInv'
<1> DEFINE n    == Least(BatchSize, Len(rcvq))
           good == {i \in 1..n : Intact(rcvq[i], i)}
           q    == rcvq'
<1>1. /\ rcvq \in Seq(Entry) /\ overflows \in Nat /\ packets_dropped \in Nat
      /\ Stamped(rcvq, overflows) /\ CountTrails /\ DroppedForCause
  BY DEF IInv
<1>2. n \in 0..Len(rcvq) /\ (n # BatchSize => n = Len(rcvq)) /\ Len(rcvq) \in Nat
  BY <1>1, BatchIs
<1>3. /\ q = Rest(rcvq, n)
      /\ packets_dropped' = PacketsDropped(n)
      /\ dropped' = dropped \cup {[j \in 1..n |-> rcvq[j][1]][i] : i \in (1..n) \ good}
      /\ IF n = BatchSize THEN pc' = "reading"
         ELSE pc' = "idle" /\ epollin' = (epollin \/ buffered' # <<>>)
      /\ UNCHANGED overflows
  BY DEF ReadAndDispatchPackets, MoreToRead, OutReadyMask
<1> HIDE DEF n, q
<1>4. /\ q \in Seq(Entry) /\ Len(q) = Len(rcvq) - n
      /\ \A i \in 1 .. Len(rcvq) - n : q[i] = rcvq[i + n]
  BY <1>1, <1>2, <1>3, RestIs
<1>5. Stamped(q, overflows)
  <2>1. ASSUME NEW i \in 1..Len(q) PROVE q[i][2] <= overflows
    <3>1. q[i] = rcvq[i + n] /\ i + n \in 1..Len(rcvq)
      BY <1>2, <1>4
    <3> QED
      BY <1>1, <3>1 DEF Stamped
  <2>2. ASSUME NEW i \in 1..Len(q), NEW j \in 1..Len(q), i <= j PROVE q[i][2] <= q[j][2]
    <3>1. q[i] = rcvq[i + n] /\ i + n \in 1..Len(rcvq)
          /\ q[j] = rcvq[j + n] /\ j + n \in 1..Len(rcvq) /\ i + n <= j + n
      BY <1>2, <1>4, <2>2
    <3> QED
      BY <1>1, <3>1 DEF Stamped
  <2> QED
    BY <2>1, <2>2 DEF Stamped
<1>6. packets_dropped' \in Nat /\ packets_dropped' <= overflows
      /\ \A i \in 1..Len(q) : q[i][2] > 0 => packets_dropped' <= q[i][2]
  <2>1. CASE n > 0 /\ rcvq[1][2] > 0
    <3>1. 1 \in 1..Len(rcvq) /\ packets_dropped' = rcvq[1][2]
      BY <1>2, <1>3, <2>1 DEF PacketsDropped
    <3>2. rcvq[1] \in Entry
      BY <1>1, <3>1
    <3>3. ASSUME NEW i \in 1..Len(q) PROVE packets_dropped' <= q[i][2]
      <4>1. q[i] = rcvq[i + n] /\ i + n \in 1..Len(rcvq) /\ 1 <= i + n
        BY <1>2, <1>4
      <4> QED
        BY <1>1, <3>1, <4>1 DEF Stamped
    <3> QED
      BY <1>1, <3>1, <3>2, <3>3 DEF Entry, Stamped
  <2>2. CASE ~(n > 0 /\ rcvq[1][2] > 0)
    <3>1. packets_dropped' = packets_dropped
      BY <1>3, <2>2 DEF PacketsDropped
    <3>2. ASSUME NEW i \in 1..Len(q), q[i][2] > 0 PROVE packets_dropped <= q[i][2]
      <4>1. q[i] = rcvq[i + n] /\ i + n \in 1..Len(rcvq)
        BY <1>2, <1>4
      <4> QED
        BY <1>1, <3>2, <4>1 DEF CountTrails
    <3> QED
      BY <1>1, <3>1, <3>2 DEF CountTrails
  <2> QED
    BY <2>1, <2>2
<1>7. NothingStranded'
  <2>1. CASE n = BatchSize
    BY <1>3, <2>1 DEF NothingStranded
  <2>2. CASE n # BatchSize
    <3>1. q = <<>>
      BY <1>2, <1>4, <2>2
    <3> QED
      BY <1>3, <2>2, <3>1 DEF NothingStranded, q
  <2> QED
    BY <2>1, <2>2
<1>8. DroppedForCause'
  <2>1. ASSUME NEW i \in (1..n) \ good PROVE rcvq[i][1] \in Oversized \cup Empty
    BY <2>1, NothingTruncated DEF Intact
  <2> QED
    BY <1>1, <1>3, <2>1 DEF DroppedForCause
<1>9. pc' # "binding"
  BY <1>3
<1> QED
  BY <1>1, <1>3, <1>4, <1>5, <1>6, <1>7, <1>8, <1>9 DEF IInv, CountTrails, q

\* An empty queue satisfies the invariant.
LEMMA InitIInv == Init => IInv
BY DEF Init, IInv, Stamped, NothingStranded, CountTrails, DroppedForCause

\* Every step, of the server or of the network, keeps it.
LEMMA StepIInv == IInv /\ [Next]_vars => IInv'
<1> SUFFICES ASSUME IInv, [Next]_vars PROVE IInv'
  OBVIOUS
<1>1. ASSUME NEW d \in Datagrams, Arrives(d) \/ Overflows(d) PROVE IInv'
  BY <1>1, ArrivesKeepsIInv, OverflowsKeepsIInv
<1>2. CASE CreateUDPSocketAndListen
  BY <1>2 DEF CreateUDPSocketAndListen, IInv, NothingStranded, CountTrails, DroppedForCause
<1>3. CASE OnEventEPOLLIN
  BY <1>3 DEF OnEventEPOLLIN, IInv, NothingStranded, CountTrails, DroppedForCause
<1>4. CASE ReadAndDispatchPackets
  BY <1>4, ReadKeepsIInv
<1>5. CASE UNCHANGED vars
  BY <1>5 DEF vars, IInv, NothingStranded, CountTrails, DroppedForCause
<1> QED
  BY <1>1, <1>2, <1>3, <1>4, <1>5 DEF Next

-----------------------------------------------------------------------------

\* For every batch size and every number of sessions per event: whatever waits
\* between two events has an event to come.
THEOREM NothingIsStranded == Spec => []NothingStranded
<1>1. IInv => NothingStranded
  BY DEF IInv
<1> QED
  BY <1>1, InitIInv, StepIInv, PTL DEF Spec

\* The server's count of dropped datagrams never runs ahead of the kernel's,
\* nor of the counts it is still to read.
THEOREM CountIsRight == Spec => []CountTrails
<1>1. IInv => CountTrails
  BY DEF IInv
<1> QED
  BY <1>1, InitIInv, StepIInv, PTL DEF Spec

\* Only datagrams that are empty or too long are skipped.
THEOREM DropsHaveCause == Spec => []DroppedForCause
<1>1. IInv => DroppedForCause
  BY DEF IInv
<1> QED
  BY <1>1, InitIInv, StepIInv, PTL DEF Spec
-----------------------------------------------------------------------------
(***************************************************************************)
(* Type correctness.  Picked is a recursive function; that it is the one   *)
(* its definition means takes an induction, here over a set of lengths.    *)
(***************************************************************************)

\* The elements picked from the first 0, 1, ..., n of s.
ArePicked(f, s, places, n) ==
  f = [i \in 0..n |-> IF i = 0 THEN <<>>
                      ELSE IF i \in places THEN Append(f[i - 1], s[i]) ELSE f[i - 1]]

\* Every length has a table of them.
LEMMA PickedExist ==
  ASSUME NEW s, NEW places
  PROVE  \A n \in Nat : \E f : ArePicked(f, s, places, n)
<1> DEFINE Longer(t, i) == IF i \in places THEN Append(t, s[i]) ELSE t
           S == {n \in Nat : \E f : ArePicked(f, s, places, n)}
<1>1. 0 \in S
  <2> DEFINE f == [i \in 0..0 |-> <<>>]
  <2>1. f = [i \in 0..0 |-> IF i = 0 THEN <<>> ELSE Longer(f[i - 1], i)]
    OBVIOUS
  <2> QED
    BY <2>1 DEF ArePicked
<1>2. ASSUME NEW n \in Nat, n \in S
      PROVE  n + 1 \in S
  <2>1. PICK f : f = [i \in 0..n |-> IF i = 0 THEN <<>> ELSE Longer(f[i - 1], i)]
    BY <1>2 DEF ArePicked
  <2> HIDE DEF Longer
  <2> DEFINE g == [i \in 0 .. n + 1 |-> IF i <= n THEN f[i] ELSE Longer(f[n], n + 1)]
  <2>2. ASSUME NEW i \in 0 .. n + 1
        PROVE  g[i] = IF i = 0 THEN <<>> ELSE Longer(g[i - 1], i)
    <3>1. CASE i = 0
      BY <2>1, <3>1
    <3>2. CASE i \in 1..n
      <4>1. g[i] = f[i] /\ g[i - 1] = f[i - 1]
        BY <3>2
      <4>2. f[i] = Longer(f[i - 1], i)
        BY <2>1, <3>2
      <4> QED
        BY <3>2, <4>1, <4>2
    <3>3. CASE i = n + 1
      <4>1. g[i] = Longer(f[n], i) /\ g[i - 1] = f[n] /\ i # 0
        BY <3>3
      <4> QED
        BY <4>1
    <3> QED
      BY <3>1, <3>2, <3>3
  <2>3. g = [i \in 0 .. n + 1 |-> IF i = 0 THEN <<>> ELSE Longer(g[i - 1], i)]
    BY <2>2
  <2> HIDE DEF g
  <2>4. ArePicked(g, s, places, n + 1)
    BY <2>3 DEF ArePicked, Longer
  <2> QED
    BY <2>4
<1> HIDE DEF S
<1>3. \A n \in Nat : n \in S
  BY <1>1, <1>2, SetInduction
<1> QED
  BY <1>3 DEF S

\* What is picked has the type of what stands at the places it is picked from.
LEMMA PickedType ==
  ASSUME NEW T, NEW s, NEW places, Len(s) \in Nat,
         \A i \in 1..Len(s) : i \in places => s[i] \in T
  PROVE  Picked(s, places) \in Seq(T)
<1> DEFINE n == Len(s)
           f == CHOOSE g : ArePicked(g, s, places, n)
           S == {i \in Nat : i <= n => f[i] \in Seq(T)}
<1>1. Picked(s, places) = f[n]
  BY DEF Picked, ArePicked
<1>2. f = [i \in 0..n |-> IF i = 0 THEN <<>>
                          ELSE IF i \in places THEN Append(f[i - 1], s[i]) ELSE f[i - 1]]
  <2>1. \E g : ArePicked(g, s, places, n)
    BY PickedExist
  <2>2. ArePicked(f, s, places, n)
    BY <2>1, Zenon
  <2> QED
    BY <2>2 DEF ArePicked
<1> HIDE DEF f
<1>3. 0 \in S
  BY <1>2
<1>4. ASSUME NEW i \in Nat, i \in S
      PROVE  i + 1 \in S
  <2> SUFFICES ASSUME i + 1 <= n
               PROVE  f[i + 1] \in Seq(T)
    OBVIOUS
  <2>1. i + 1 \in 1..n /\ i + 1 # 0 /\ i + 1 - 1 = i /\ f[i] \in Seq(T)
    BY <1>4
  <2>2. f[i + 1] = IF i + 1 \in places THEN Append(f[i], s[i + 1]) ELSE f[i]
    <3> DEFINE j == i + 1
    <3>1. j \in 0..n /\ j # 0 /\ j - 1 = i
      BY <2>1
    <3> HIDE DEF j
    <3>2. f[j] = IF j \in places THEN Append(f[j - 1], s[j]) ELSE f[j - 1]
      BY <1>2, <3>1, Zenon
    <3> QED
      BY <3>1, <3>2 DEF j
  <2> QED
    BY <2>1, <2>2
<1> HIDE DEF S
<1>5. n \in S
  BY <1>3, <1>4, SetInduction
<1> QED
  BY <1>1, <1>5 DEF S

\* Cutting a sequence in two keeps its type.
LEMMA CutType ==
  ASSUME NEW T, NEW s \in Seq(T), NEW n \in 0..Len(s)
  PROVE  /\ First(s, n) \in Seq(T) /\ Rest(s, n) \in Seq(T)
         /\ Elems(First(s, n)) \subseteq T
BY DEF First, Rest, Elems

\* The turn of the loop.
LEMMA ReadKeepsType ==
  ASSUME TypeOK, ReadAndDispatchPackets
  PROVE  TypeOK'
<1> DEFINE n     == Least(BatchSize, Len(rcvq))
           good  == {i \in 1..n : Intact(rcvq[i], i)}
           read  == [i \in 1..n |-> rcvq[i][1]]
           new   == Picked(read, {i \in good : read[i] \in Chlos})
           k     == Least(allowance, Len(new))
<1>1. /\ rcvq' = Rest(rcvq, n)
      /\ controllen' = [i \in 1..BatchSize |->
                          IF i <= n THEN Least(ControlSpace(i), Ctl(rcvq[i]))
                          ELSE ControlSpace(i)]
      /\ dispatched' = dispatched \cup {rcvq[i][1] : i \in good}
      /\ dropped' = dropped \cup {read[i] : i \in (1..n) \ good}
      /\ packets_dropped' = PacketsDropped(n)
      /\ sessions' = sessions \cup Elems(First(new, k))
      /\ buffered' = buffered \o Rest(new, k)
      /\ allowance' = allowance - k
      /\ UNCHANGED <<coming, overflows>>
      /\ pc' \in {"reading", "idle"}
  BY DEF ReadAndDispatchPackets, CreateQuicSession
<1>2. epollin' \in BOOLEAN
  BY DEF ReadAndDispatchPackets, OutReadyMask, TypeOK
<1>3. rcvq \in Seq(Entry) /\ Len(rcvq) \in Nat /\ n \in 0..Len(rcvq)
  BY BatchIs DEF TypeOK, Entry
<1>4. \A i \in 1..n : i \in 1..Len(rcvq) /\ rcvq[i] \in Entry
  BY <1>3
<1>5. Len(read) = n
  BY <1>3
<1>6. \A i \in 1..n : read[i] = rcvq[i][1] /\ read[i] \in Datagrams
  BY <1>4 DEF Entry
<1>7. good \subseteq 1..n
  OBVIOUS
<1> HIDE DEF n, good, read
<1>8. new \in Seq(Chlos)
  BY <1>3, <1>5, PickedType
<1> HIDE DEF new
<1>9. allowance \in Nat /\ allowance <= SessionsPerEvent /\ SessionsPerEvent \in Nat
  BY SizesAssumption DEF TypeOK
<1>10. k \in 0..Len(new) /\ allowance - k \in 0..SessionsPerEvent
  BY <1>8, <1>9 DEF Least
<1> HIDE DEF k
<1>11. First(new, k) \in Seq(Chlos) /\ Rest(new, k) \in Seq(Chlos)
       /\ Elems(First(new, k)) \subseteq Chlos
  BY <1>8, <1>10, CutType
<1>12. rcvq' \in Seq(Datagrams \X Nat)
  BY <1>1, <1>3, CutType DEF Entry
<1>13. controllen' \in [1..BatchSize -> 0..CmsgSpace]
  <2>1. \A i : ControlSpace(i) \in 0..CmsgSpace /\ Least(ControlSpace(i), Ctl(rcvq[i])) \in 0..CmsgSpace
    BY SizesAssumption DEF Least, ControlSpace, Ctl
  <2> QED
    BY <1>1, <2>1
<1>14. dispatched' \subseteq Datagrams /\ dropped' \subseteq Datagrams
  BY <1>1, <1>6, <1>7 DEF TypeOK
<1>15. packets_dropped' \in Nat
  <2>1. n > 0 => rcvq[1][2] \in Nat
    BY <1>3, <1>4 DEF Entry
  <2> QED
    BY <1>1, <2>1 DEF PacketsDropped, TypeOK
<1>16. sessions' \subseteq Chlos /\ buffered' \in Seq(Chlos)
  BY <1>1, <1>11 DEF TypeOK
<1> QED
  BY <1>1, <1>2, <1>10, <1>12, <1>13, <1>14, <1>15, <1>16 DEF TypeOK

\* Every step keeps the types.
LEMMA StepType == TypeOK /\ [Next]_vars => TypeOK'
<1> SUFFICES ASSUME TypeOK, [Next]_vars PROVE TypeOK'
  OBVIOUS
<1>1. ASSUME NEW d \in Datagrams, Arrives(d)
      PROVE  TypeOK'
  <2>1. <<d, overflows>> \in Datagrams \X Nat
    BY DEF TypeOK
  <2>2. rcvq' \in Seq(Datagrams \X Nat)
    BY <1>1, <2>1 DEF Arrives, TypeOK
  <2> QED
    BY <1>1, <2>2 DEF Arrives, TypeOK
<1>2. ASSUME NEW d \in Datagrams, Overflows(d)
      PROVE  TypeOK'
  BY <1>2 DEF Overflows, TypeOK
<1>3. CASE CreateUDPSocketAndListen
  BY <1>3 DEF CreateUDPSocketAndListen, TypeOK
<1>4. CASE OnEventEPOLLIN
  <2> DEFINE n == Least(SessionsPerEvent, Len(buffered))
  <2>1. buffered \in Seq(Chlos) /\ Len(buffered) \in Nat /\ SessionsPerEvent \in Nat
    BY SizesAssumption DEF TypeOK
  <2>2. n \in 0..Len(buffered) /\ SessionsPerEvent - n \in 0..SessionsPerEvent
    BY <2>1 DEF Least
  <2>3. /\ buffered' = Rest(buffered, n)
        /\ sessions' = sessions \cup Elems(First(buffered, n))
        /\ allowance' = SessionsPerEvent - n
        /\ epollin' = FALSE /\ pc' = "reading"
        /\ UNCHANGED <<coming, overflows, rcvq, controllen, dispatched, dropped,
                       packets_dropped>>
    BY <1>4 DEF OnEventEPOLLIN, CreateQuicSession
  <2> HIDE DEF n
  <2>4. buffered' \in Seq(Chlos) /\ sessions' \subseteq Chlos
    BY <2>1, <2>2, <2>3, CutType DEF TypeOK
  <2> QED
    BY <2>2, <2>3, <2>4 DEF TypeOK
<1>5. CASE ReadAndDispatchPackets
  BY <1>5, ReadKeepsType
<1>6. CASE UNCHANGED vars
  BY <1>6 DEF vars, TypeOK
<1> QED
  BY <1>1, <1>2, <1>3, <1>4, <1>5, <1>6 DEF Next

\* For every size of a batch, of the receive queue and of the allowance: every
\* variable has its type, and no event creates more sessions than it may.
THEOREM TypeCorrect == Spec => []TypeOK
<1>1. Init => TypeOK
  <2> SUFFICES ASSUME Init PROVE TypeOK
    OBVIOUS
  <2>1. controllen \in [1..BatchSize -> 0..CmsgSpace] /\ allowance \in 0..SessionsPerEvent
    BY SizesAssumption DEF Init
  <2>2. rcvq \in Seq(Datagrams \X Nat) /\ buffered \in Seq(Chlos)
    BY DEF Init
  <2> QED
    BY <2>1, <2>2 DEF Init, TypeOK
<1> QED
  BY <1>1, StepType, PTL DEF Spec
=============================================================================
