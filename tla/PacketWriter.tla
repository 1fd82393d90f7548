---------------------------- MODULE PacketWriter ----------------------------
(***************************************************************************)
(* QuicProxyPacketWriter and SendMMsgTimer: the connections of a worker    *)
(* hand their packets to one writer, which copies each into a ring of      *)
(* max_cache_buffer_write_size slots and sends the copies with one         *)
(* sendmmsg when the ring is full or when the timer ticks.                 *)
(*                                                                         *)
(* The worker has one thread, so WritePacket and Flush are single steps,   *)
(* and the timer waits while QuicProxyServer::OnEvent handles EPOLLOUT.    *)
(* Outside the sources are the connections, which keep a packet the writer *)
(* refused and write it again after OnCanWrite, and the kernel, which      *)
(* holds SndBuf packets and reports EPOLLOUT when one has left.            *)
(***************************************************************************)
EXTENDS Integers, Sequences

CONSTANTS
  Packets,      \* packet contents
  NoPacket,     \* what a slot holds before its first use
  max_cache_buffer_write_size,
  SizeModulus,  \* size_t arithmetic is modulo this
  SndBuf,       \* packets that fit into the socket's send buffer
  Unsendable,   \* packets sendmmsg fails for with an error that is not EAGAIN
  Interval      \* --sendmmsgtimer_interval

ASSUME NoPacketAssumption == NoPacket \notin Packets
ASSUME CacheAssumption ==
  /\ max_cache_buffer_write_size \in Nat \ {0}
  /\ SizeModulus \in Nat
  /\ \E k \in 1..SizeModulus : SizeModulus = max_cache_buffer_write_size * k
ASSUME KernelAssumption == SndBuf \in Nat \ {0} /\ Unsendable \subseteq Packets
ASSUME IntervalAssumption == Interval \in Int

VARIABLES
  writes_cache,      \* slot -> the bytes in it
  writes_cache_pos,
  buffered_writes,   \* [slot, packet]: a pointer into the ring, and the length
                     \* and addresses that were passed with the packet
  write_blocked,     \* QuicDefaultPacketWriter::write_blocked_
  held,              \* packets the connections must write again
  in_kernel,         \* packets in the send buffer
  epollout,          \* an EPOLLOUT for the socket is still to be handled
  on_can_write,      \* OnCanWrite is letting blocked connections write
  wire               \* what the last step gave to the kernel: <<bytes, packet>>

ringVars   == <<writes_cache, writes_cache_pos, buffered_writes, write_blocked>>
writerVars == <<ringVars, held, in_kernel, epollout, on_can_write, wire>>

Slots == 0 .. max_cache_buffer_write_size - 1
Pos   == 0 .. SizeModulus - 1
\* Mutant: one packet too many fits.
Full_OffByOne(buf) == Len(buf) > max_cache_buffer_write_size

Full(buf) == Len(buf) >= max_cache_buffer_write_size

WriterInit ==
  /\ writes_cache = [i \in Slots |-> NoPacket]
  /\ writes_cache_pos = 0
  /\ buffered_writes = <<>>
  /\ write_blocked = FALSE
  /\ held = {}
  /\ in_kernel = 0
  /\ epollout = TRUE   \* a fresh UDP socket is writable
  /\ on_can_write = FALSE
  /\ wire = <<>>

-----------------------------------------------------------------------------
(***************************************************************************)
(* Flush.                                                                  *)
(***************************************************************************)

\* The number of leading packets of buf sendmmsg takes when k packets are in
\* the send buffer: it stops at the first packet that fails or does not fit.
SendMMsg(buf, k) ==
  {n \in 0..Len(buf) :
     /\ n <= SndBuf - k
     /\ \A i \in 1..n : buf[i].packet \notin Unsendable
     /\ n < Len(buf) => n = SndBuf - k \/ buf[n + 1].packet \in Unsendable}

\* sendmmsg gives EAGAIN: its first packet is fine but does not fit.
Blocks(buf, k) == buf # <<>> /\ buf[1].packet \notin Unsendable /\ k = SndBuf

\* What the first n entries of buf look like on the wire, read through their
\* pointers from the slots of cache.
Sent(cache, buf, n) ==
  [i \in 1..n |-> <<cache[buf[i].slot], buf[i].packet>>]

\* Mutant: a partial send empties the queue.
Erase_All(buf, n) == IF n > 0 THEN <<>> ELSE buf

\* buffered_writes_.erase(begin, begin + n)
Erase(buf, n) == SubSeq(buf, n + 1, Len(buf))

\* InitializeTimer sets both tv_nsec to the interval: zero disarms the timer,
\* and timerfd_settime fails for what is negative or a second or more, which
\* nobody looks at.
TimerArmed == Interval \in 1..999999999

\* Mutant: the timer flushes a full ring only.
TimerOnEvent_OnlyFull ==
  /\ TimerArmed /\ ~on_can_write /\ Full(buffered_writes)
  /\ \E n \in SendMMsg(buffered_writes, in_kernel) :
       /\ buffered_writes' = Erase(buffered_writes, n)
       /\ in_kernel' = in_kernel + n
       /\ wire' = Sent(writes_cache, buffered_writes, n)
  /\ UNCHANGED <<writes_cache, writes_cache_pos, write_blocked, held, epollout,
                 on_can_write>>

\* SendMMsgTimer::OnEvent: Flush, and nobody looks at its result.
SendMMsgTimerOnEvent ==
  /\ TimerArmed /\ ~on_can_write
  /\ \E n \in SendMMsg(buffered_writes, in_kernel) :
       /\ buffered_writes' = Erase(buffered_writes, n)
       /\ in_kernel' = in_kernel + n
       /\ wire' = Sent(writes_cache, buffered_writes, n)
  /\ UNCHANGED <<writes_cache, writes_cache_pos, write_blocked, held, epollout,
                 on_can_write>>

-----------------------------------------------------------------------------
(***************************************************************************)
(* WritePacket.  A connection calls it when the writer is not blocked.     *)
(***************************************************************************)

\* The ring is full and Flush sends nothing: the packet is refused.
WriteRefused(p) ==
  /\ ~write_blocked
  /\ Full(buffered_writes)
  /\ 0 \in SendMMsg(buffered_writes, in_kernel)
  /\ write_blocked' = TRUE
  /\ held' = held \cup {p}
  /\ wire' = <<>>
  /\ UNCHANGED <<writes_cache, writes_cache_pos, buffered_writes,
                 in_kernel, epollout, on_can_write>>

\* The packet is copied to the slot at writes_cache_pos_, after a Flush that
\* made room if the ring was full (n1 packets), and before another Flush if
\* it is full now (n2 packets).  When that one blocks, the caller is told that
\* the write blocked although its packet stays in the ring.
WriteStored(p) ==
  /\ ~write_blocked
  /\ \E n1 \in IF Full(buffered_writes)
               THEN SendMMsg(buffered_writes, in_kernel) \ {0} ELSE {0} :
       LET slot  == writes_cache_pos % max_cache_buffer_write_size
           cache == [writes_cache EXCEPT ![slot] = p]
           buf   == Append(Erase(buffered_writes, n1), [slot |-> slot, packet |-> p])
           k     == in_kernel + n1
       IN  \E n2 \in IF Full(buf) THEN SendMMsg(buf, k) ELSE {0} :
             /\ writes_cache' = cache
             /\ writes_cache_pos' = (writes_cache_pos + 1) % SizeModulus
             /\ buffered_writes' = Erase(buf, n2)
             /\ in_kernel' = k + n2
             /\ wire' = Sent(writes_cache, buffered_writes, n1) \o Sent(cache, buf, n2)
             /\ write_blocked' = (Full(buf) /\ Blocks(buf, k))
             /\ held' = IF write_blocked' THEN held \cup {p} ELSE held \ {p}
  /\ UNCHANGED <<epollout, on_can_write>>

WritePacket(p) == WriteRefused(p) \/ WriteStored(p)

-----------------------------------------------------------------------------
(***************************************************************************)
(* The socket becomes writable; the environment.                           *)
(***************************************************************************)

\* Mutant: the event is handled without telling the writer.
OnEventEPOLLOUT_NoOnCanWrite ==
  /\ epollout /\ ~on_can_write
  /\ epollout' = FALSE
  /\ wire' = <<>>
  /\ UNCHANGED <<ringVars, held, in_kernel, on_can_write>>

\* QuicProxyServer::OnEvent with EPOLLOUT: OnCanWrite calls SetWritable and
\* begins to let the blocked connections write.
OnEventEPOLLOUT ==
  /\ epollout /\ ~on_can_write
  /\ epollout' = FALSE
  /\ write_blocked' = FALSE
  /\ on_can_write' = TRUE
  /\ wire' = <<>>
  /\ UNCHANGED <<writes_cache, writes_cache_pos, buffered_writes, held, in_kernel>>

\* OnCanWrite returns when all have written or the writer is blocked again.  The
\* event is asked for again if writes are still pending.
OnCanWriteReturns ==
  /\ on_can_write
  /\ write_blocked \/ held = {}
  /\ on_can_write' = FALSE
  /\ epollout' = (epollout \/ held # {})
  /\ wire' = <<>>
  /\ UNCHANGED <<ringVars, held, in_kernel>>

\* A packet leaves the send buffer.  The socket becomes writable when half of
\* the buffer is free.
KernelTransmits ==
  /\ in_kernel > 0
  /\ in_kernel' = in_kernel - 1
  /\ epollout' = (epollout \/ 2 * in_kernel' <= SndBuf)
  /\ wire' = <<>>
  /\ UNCHANGED <<ringVars, held, on_can_write>>

WriterNext ==
  \/ \E p \in Packets : WritePacket(p)
  \/ SendMMsgTimerOnEvent
  \/ OnEventEPOLLOUT
  \/ OnCanWriteReturns
  \/ KernelTransmits

WriterSpec == WriterInit /\ [][WriterNext]_writerVars

-----------------------------------------------------------------------------
(***************************************************************************)
(* Safety.                                                                 *)
(***************************************************************************)

\* Every variable has its type, and the deque never outgrows the ring.
WriterTypeOK ==
  /\ writes_cache \in [Slots -> Packets \cup {NoPacket}]
  /\ writes_cache_pos \in Pos
  /\ buffered_writes \in Seq([slot : Slots, packet : Packets])
  /\ Len(buffered_writes) <= max_cache_buffer_write_size
  /\ write_blocked \in BOOLEAN
  /\ held \subseteq Packets
  /\ in_kernel \in 0..SndBuf
  /\ epollout \in BOOLEAN /\ on_can_write \in BOOLEAN

\* The ring never overtakes itself: every buffered pointer still points at the
\* bytes it was created for, and no two point at the same slot, across partial
\* sends, refused writes and the wrap of writes_cache_pos_ (WritePacket).
SlotIntegrity ==
  /\ \A i \in 1..Len(buffered_writes) :
       writes_cache[buffered_writes[i].slot] = buffered_writes[i].packet
  /\ \A i, j \in 1..Len(buffered_writes) :
       buffered_writes[i].slot = buffered_writes[j].slot => i = j

\* The oldest cached packet is one that sendmmsg fails for: Flush returns an
\* error that nobody looks at, and neither it nor what follows ever leaves.
Jammed == buffered_writes # <<>> /\ buffered_writes[1].packet \in Unsendable

\* A blocked writer is woken: an EPOLLOUT is pending, or the send buffer holds
\* packets that will cause one, and there is a connection to be let through;
\* unless the ring is jammed (WritePacket, QuicProxyServer::OnEvent).
BlockedIsWoken ==
  write_blocked => held # {} /\ (epollout \/ in_kernel > 0 \/ Jammed)

-----------------------------------------------------------------------------
(***************************************************************************)
(* Liveness.  The kernel sends what it has taken and the loop serves the   *)
(* timer; that connections write at all is assumed only of those that      *)
(* OnCanWrite lets write.                                                  *)
(***************************************************************************)

BlockedConnectionWrites == on_can_write /\ \E p \in held : WritePacket(p)

WriterFairness ==
  /\ WF_writerVars(KernelTransmits)
  /\ WF_writerVars(SendMMsgTimerOnEvent)
  /\ WF_writerVars(OnEventEPOLLOUT)
  /\ WF_writerVars(BlockedConnectionWrites) /\ WF_writerVars(OnCanWriteReturns)

WriterFairSpec == WriterSpec /\ WriterFairness

\* The interval refreshes the cache to send data: as long as anything is
\* cached something keeps being sent, even if no packet is ever written again
\* and the ring never fills up; a jam is all that stops it.
CacheMoves == buffered_writes # <<>> ~> wire # <<>> \/ Jammed

\* A blocked writer becomes writable again, or its ring is jammed.
UnblocksEventually == write_blocked ~> ~write_blocked \/ Jammed

-----------------------------------------------------------------------------
(***************************************************************************)
(* The writer implements LosslessFifo.                                     *)
(***************************************************************************)

Fifo == INSTANCE LosslessFifo WITH
          Datagrams <- {<<p, p>> : p \in Packets},
          queue     <- Sent(writes_cache, buffered_writes, Len(buffered_writes)),
          out       <- wire

\* What goes out is what was stored, once per store and in that order, each
\* with its own bytes and addresses, whatever sendmmsg takes or refuses.
ImplementsFifo == Fifo!Spec
=============================================================================
