------------------------------- MODULE Server -------------------------------
(***************************************************************************)
(* The receiving side of a worker: QuicProxyServer::OnEvent for EPOLLIN    *)
(* and QuicProxyPacketReader.  The socket is registered edge-triggered     *)
(* (kEpollFlags), so an event is reported when a datagram arrives and not  *)
(* because some are waiting; the loop must take all there are.             *)
(*                                                                         *)
(* Datagrams arrive at any time, also between two calls of recvmmsg.  The  *)
(* receive queue is bounded: the kernel drops what does not fit, counts it *)
(* (SO_RXQ_OVFL) and stamps each datagram it queues with the count; one    *)
(* with a count comes with more control data.  The dispatcher is           *)
(* Chromium's: it creates at most SessionsPerEvent sessions per socket     *)
(* event and buffers the client hellos that want more.                     *)
(***************************************************************************)
EXTENDS Integers, Sequences

CONSTANTS
  Datagrams,         \* each arrives at most once
  Chlos,             \* those that open a connection
  Oversized, Empty,  \* those longer than the reader's buffer, or of length 0
  RcvBuf,            \* datagrams that fit into the receive queue
  CmsgSpace,         \* kCmsgSpaceForReadPacket
  BatchSize,         \* kNumPacketsPerReadMmsgCall
  SessionsPerEvent   \* kNumSessionsToCreatePerSocketEvent

ASSUME DatagramsAssumption ==
  /\ Chlos \subseteq Datagrams /\ Oversized \subseteq Datagrams /\ Empty \subseteq Datagrams
ASSUME SizesAssumption ==
  /\ CmsgSpace \in Nat \ {0, 1} /\ RcvBuf \in Nat
  /\ BatchSize \in Nat \ {0} /\ SessionsPerEvent \in Nat \ {0}

VARIABLES
  coming,      \* datagrams still to arrive
  overflows,   \* datagrams the kernel has dropped
  rcvq,        \* the socket's receive queue: <<datagram, overflows then>>
  epollin,     \* an EPOLLIN is reported and not handled
  controllen,  \* mmsg_hdr_[i].msg_hdr.msg_controllen
  allowance,   \* sessions the dispatcher may still create in this event
  buffered,    \* client hellos without a session, oldest first
  sessions,    \* client hellos that got one
  dispatched,  \* datagrams given to ProcessPacket
  dropped,     \* datagrams the reader skipped
  packets_dropped,  \* QuicProxyServer::packets_dropped_
  pc           \* "binding" | "idle" | "reading"

vars == <<coming, overflows, rcvq, epollin, controllen, allowance, buffered,
          sessions, dispatched, dropped, packets_dropped, pc>>

Elems(s)    == {s[i] : i \in 1..Len(s)}
Least(a, b) == IF a < b THEN a ELSE b
First(s, n) == SubSeq(s, 1, n)
Rest(s, n)  == SubSeq(s, n + 1, Len(s))

\* The elements of s at these places, in order.
Picked(s, places) ==
  LET upTo[i \in 0..Len(s)] ==
        IF i = 0 THEN <<>>
        ELSE IF i \in places THEN Append(upTo[i - 1], s[i]) ELSE upTo[i - 1]
  IN  upTo[Len(s)]

\* The reader's constructor ran, and the socket has just been bound.
Init ==
  /\ coming = Datagrams /\ overflows = 0
  /\ rcvq = <<>>
  /\ epollin = FALSE
  /\ controllen = [i \in 1..BatchSize |-> CmsgSpace]
  /\ allowance = 0
  /\ buffered = <<>>
  /\ sessions = {} /\ dispatched = {} /\ dropped = {} /\ packets_dropped = 0
  /\ pc = "binding"

-----------------------------------------------------------------------------

\* A datagram arrives: an edge, once the socket is registered.
Arrives(d) ==
  /\ d \in coming /\ Len(rcvq) < RcvBuf
  /\ coming' = coming \ {d}
  /\ rcvq' = Append(rcvq, <<d, overflows>>)
  /\ epollin' = (pc # "binding")
  /\ UNCHANGED <<overflows, controllen, allowance, buffered, sessions, dispatched,
                 dropped, packets_dropped, pc>>

\* The receive queue is full.
Overflows(d) ==
  /\ d \in coming /\ Len(rcvq) = RcvBuf
  /\ coming' = coming \ {d}
  /\ overflows' = overflows + 1
  /\ UNCHANGED <<rcvq, epollin, controllen, allowance, buffered, sessions, dispatched,
                 dropped, packets_dropped, pc>>

\* The rest of CreateUDPSocketAndListen.  Registering reports what has come
\* since bind.
CreateUDPSocketAndListen ==
  /\ pc = "binding"
  /\ epollin' = (rcvq # <<>>)
  /\ pc' = "idle"
  /\ UNCHANGED <<coming, overflows, rcvq, controllen, allowance, buffered, sessions,
                 dispatched, dropped, packets_dropped>>

\* CreateQuicSession for each of these client hellos, on the worker's writer.
CreateQuicSession(chlos) == sessions' = sessions \cup Elems(chlos)

\* Mutant: the buffered client hellos are all served at once.
OnEventEPOLLIN_NoLimit ==
  /\ pc = "idle" /\ epollin
  /\ epollin' = FALSE
  /\ CreateQuicSession(buffered)
  /\ buffered' = <<>>
  /\ allowance' = SessionsPerEvent - Len(buffered)
  /\ pc' = "reading"
  /\ UNCHANGED <<coming, overflows, rcvq, controllen, dispatched, dropped, packets_dropped>>

\* OnEvent with EPOLLIN, up to the loop: ProcessBufferedChlos serves the oldest
\* client hellos and leaves what remains of the allowance to new ones.
OnEventEPOLLIN ==
  /\ pc = "idle" /\ epollin
  /\ epollin' = FALSE
  /\ LET n == Least(SessionsPerEvent, Len(buffered))
     IN  /\ CreateQuicSession(First(buffered, n))
         /\ buffered' = Rest(buffered, n)
         /\ allowance' = SessionsPerEvent - n
  /\ pc' = "reading"
  /\ UNCHANGED <<coming, overflows, rcvq, controllen, dispatched, dropped, packets_dropped>>

-----------------------------------------------------------------------------
(***************************************************************************)
(* ReadAndDispatchPackets.                                                 *)
(***************************************************************************)

\* Mutant: the length fields stay as recvmmsg left them.
ControlSpace_NotReset(i) == controllen[i]

\* msg_controllen of header i when recvmmsg is called.
ControlSpace(i) == CmsgSpace

\* The control data the kernel has for a datagram: the address it was sent to,
\* and the count if there is one.
Ctl(entry) == IF entry[2] > 0 THEN 2 ELSE 1

\* The reader gives a datagram read into header i to the dispatcher unless it
\* is empty, or its control data (MSG_CTRUNC) or itself (MSG_TRUNC) was cut.  The
\* last check, that the control data tells the address the datagram was sent to,
\* fails for none whose control data is whole: the kernel always puts it there.
Intact(entry, i) ==
  /\ entry[1] \notin Empty
  /\ Ctl(entry) <= ControlSpace(i)
  /\ entry[1] \notin Oversized

\* Mutant: the counts are summed up.
PacketsDropped_Added(n) ==
  IF n > 0 THEN packets_dropped + rcvq[1][2] ELSE packets_dropped

\* GetOverflowFromMsghdr on the first header of a batch of n: a count replaces
\* packets_dropped_, a header without one leaves it.
PacketsDropped(n) ==
  IF n > 0 /\ rcvq[1][2] > 0 THEN rcvq[1][2] ELSE packets_dropped

\* Mutant: the loop ends after one batch.
MoreToRead_Never(n) == FALSE

\* packets_read == kNumPacketsPerReadMmsgCall
MoreToRead(n) == n = BatchSize

\* Mutant: buffered client hellos wait for the next datagram.
OutReadyMask_None(chlos) == FALSE

\* HasChlosBuffered registers EPOLLIN again.
OutReadyMask(chlos) == chlos # <<>>

\* One turn of the loop: recvmmsg fills the first n headers and the reader
\* dispatches their datagrams in order.  A turn that reads less than a batch
\* is the last one, and ends OnEvent.
ReadAndDispatchPackets ==
  /\ pc = "reading"
  /\ LET n     == Least(BatchSize, Len(rcvq))
         good  == {i \in 1..n : Intact(rcvq[i], i)}
         fine  == {rcvq[i][1] : i \in good}
         read  == [i \in 1..n |-> rcvq[i][1]]
         new   == Picked(read, {i \in good : read[i] \in Chlos})
         k     == Least(allowance, Len(new))
     IN  /\ rcvq' = Rest(rcvq, n)
         /\ controllen' = [i \in 1..BatchSize |->
                             IF i <= n THEN Least(ControlSpace(i), Ctl(rcvq[i]))
                             ELSE ControlSpace(i)]
         /\ dispatched' = dispatched \cup fine
         /\ dropped' = dropped \cup {read[i] : i \in (1..n) \ good}
         /\ packets_dropped' = PacketsDropped(n)
         /\ CreateQuicSession(First(new, k))
         /\ buffered' = buffered \o Rest(new, k)
         /\ allowance' = allowance - k
         /\ IF MoreToRead(n)
            THEN UNCHANGED <<epollin, pc>>
            ELSE /\ epollin' = (epollin \/ OutReadyMask(buffered'))
                 /\ pc' = "idle"
  /\ UNCHANGED <<coming, overflows>>

Next ==
  \/ \E d \in Datagrams : Arrives(d) \/ Overflows(d)
  \/ CreateUDPSocketAndListen
  \/ OnEventEPOLLIN
  \/ ReadAndDispatchPackets

Spec == Init /\ [][Next]_vars

-----------------------------------------------------------------------------

\* Every variable has its type, and the sessions created in one event are
\* counted down to zero, not below.
TypeOK ==
  /\ coming \subseteq Datagrams /\ overflows \in Nat
  /\ rcvq \in Seq(Datagrams \X Nat)
  /\ epollin \in BOOLEAN
  /\ controllen \in [1..BatchSize -> 0..CmsgSpace]
  /\ allowance \in 0..SessionsPerEvent
  /\ buffered \in Seq(Chlos)
  /\ sessions \subseteq Chlos
  /\ dispatched \subseteq Datagrams /\ dropped \subseteq Datagrams
  /\ packets_dropped \in Nat
  /\ pc \in {"binding", "idle", "reading"}

\* Between two events nothing waits without an event to come for it: neither a
\* datagram in the receive queue, although the socket is edge-triggered, nor
\* a client hello in the dispatcher (OnEvent).
NothingStranded ==
  pc = "idle" /\ (rcvq # <<>> \/ buffered # <<>>) => epollin

\* The server's count of dropped datagrams is one the kernel has had, and grows
\* with it: a datagram counts once, although its count comes with every datagram
\* after it (ReadAndDispatchPackets).
CountTrails ==
  /\ packets_dropped <= overflows
  /\ \A i \in 1..Len(rcvq) : rcvq[i][2] > 0 => packets_dropped <= rcvq[i][2]

\* A datagram is dropped only for what it is, never for what an earlier one
\* left in the header it is read with (ReadAndDispatchPackets).
DroppedForCause == dropped \subseteq Oversized \cup Empty

-----------------------------------------------------------------------------
(***************************************************************************)
(* Liveness.  The loop runs; that any datagram arrives is not assumed.     *)
(***************************************************************************)

Fairness ==
  /\ WF_vars(CreateUDPSocketAndListen)
  /\ WF_vars(OnEventEPOLLIN)
  /\ WF_vars(ReadAndDispatchPackets)

FairSpec == Spec /\ Fairness

\* Every client hello that was received intact gets its session, even when it
\* is the last datagram for a long time (HasChlosBuffered, ProcessBufferedChlos).
ChloServed ==
  \A d \in Chlos :
    (\E i \in 1..Len(rcvq) : rcvq[i][1] = d) ~> d \in sessions \cup dropped
=============================================================================
