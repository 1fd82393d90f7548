------------------------- MODULE PacketWriterProofs -------------------------
(***************************************************************************)
(* What is proved about PacketWriter for every ring size, every width of   *)
(* size_t that is a multiple of it, and whatever the connections and the   *)
(* kernel do.                                                              *)
(***************************************************************************)
EXTENDS PacketWriter, SequenceTheorems, TLAPS

Cap == max_cache_buffer_write_size

-----------------------------------------------------------------------------
(***************************************************************************)
(* Arithmetic of the ring.                                                 *)
(***************************************************************************)

\* Division with remainder, and that there is only one.
LEMMA DivMod ==
  ASSUME NEW x \in Nat, NEW m \in Nat \ {0}
  PROVE  /\ x % m \in 0 .. m - 1
         /\ x \div m \in Nat
         /\ x = m * (x \div m) + (x % m)
BY Z3

\* Two divisions of the same number have the same remainder.
LEMMA UniqueRemainder ==
  ASSUME NEW m \in Nat \ {0}, NEW q1 \in Int, NEW q2 \in Int,
         NEW r1 \in 0 .. m - 1, NEW r2 \in 0 .. m - 1,
         m * q1 + r1 = m * q2 + r2
  PROVE  r1 = r2
<1>1. m * (q1 - q2) = r2 - r1
  BY Z3
<1>2. CASE q1 - q2 >= 1
  <2>1. m * (q1 - q2) >= m
    BY <1>2, Z3
  <2> QED
    BY <1>1, <2>1, Z3
<1>3. CASE q1 - q2 <= -1
  <2>1. m * (q1 - q2) <= -m
    BY <1>3, Z3
  <2> QED
    BY <1>1, <2>1, Z3
<1>4. CASE q1 = q2
  BY <1>1, <1>4, Z3
<1> QED
  BY <1>2, <1>3, <1>4, Z3

\* A remainder is recognised by any quotient that goes with it.
LEMMA RemainderIs ==
  ASSUME NEW x \in Nat, NEW m \in Nat \ {0}, NEW q \in Int, NEW r \in 0 .. m - 1,
         x = m * q + r
  PROVE  x % m = r
<1>1. /\ x % m \in 0 .. m - 1
      /\ x \div m \in Nat
      /\ x = m * (x \div m) + (x % m)
  BY DivMod
<1> DEFINE d == x \div m
           n == x % m
<1>2. d \in Int /\ n \in 0 .. m - 1 /\ m * d + n = m * q + r
  BY <1>1
<1> HIDE DEF d, n
<1>3. n = r
  BY <1>2, UniqueRemainder
<1> QED
  BY <1>3 DEF n

\* Incrementing writes_cache_pos_ moves on by one slot, also where it wraps:
\* this is what the ring size being a divisor of 2^64 is good for.
LEMMA NextSlot ==
  ASSUME NEW pos \in Pos
  PROVE  ((pos + 1) % SizeModulus) % Cap = IF pos % Cap = Cap - 1 THEN 0 ELSE (pos % Cap) + 1
<1> USE CacheAssumption DEF Cap, Pos
<1> DEFINE q == pos \div Cap
           r == pos % Cap
<1>1. pos \in Nat /\ pos + 1 \in Nat /\ Cap \in Nat \ {0} /\ SizeModulus \in Nat \ {0}
  OBVIOUS
<1>2. r \in 0 .. Cap - 1 /\ q \in Nat /\ pos = Cap * q + r
  BY <1>1, DivMod
<1> HIDE DEF q, r
<1>3. CASE pos + 1 = SizeModulus
  <2>1. PICK k \in 1 .. SizeModulus : SizeModulus = Cap * k
    OBVIOUS
  <2>2. SizeModulus % SizeModulus = 0 /\ 0 % Cap = 0
    <3>1. SizeModulus = SizeModulus * 1 + 0 /\ 0 \in 0 .. SizeModulus - 1
      BY <1>1
    <3>2. 0 = Cap * 0 + 0 /\ 0 \in 0 .. Cap - 1
      BY <1>1
    <3> QED
      BY <1>1, <3>1, <3>2, RemainderIs
  <2>3. r = Cap - 1
    <3>1. pos = Cap * (k - 1) + (Cap - 1)
      BY <1>1, <1>3, <2>1, Z3
    <3>2. k - 1 \in Int /\ Cap - 1 \in 0 .. Cap - 1
      BY <1>1, <2>1
    <3> QED
      BY <1>1, <3>1, <3>2, RemainderIs DEF r
  <2> QED
    BY <1>3, <2>2, <2>3 DEF r
<1>4. CASE pos + 1 < SizeModulus
  <2>1. (pos + 1) % SizeModulus = pos + 1
    <3>1. pos + 1 = SizeModulus * 0 + (pos + 1) /\ pos + 1 \in 0 .. SizeModulus - 1
      BY <1>1, <1>4
    <3> QED
      BY <1>1, <3>1, RemainderIs
  <2>2. CASE r = Cap - 1
    <3>1. pos + 1 = Cap * (q + 1) + 0 /\ q + 1 \in Int /\ 0 \in 0 .. Cap - 1
      BY <1>1, <1>2, <2>2, Z3
    <3>2. (pos + 1) % Cap = 0
      BY <1>1, <3>1, RemainderIs
    <3> QED
      BY <2>1, <2>2, <3>2 DEF r
  <2>3. CASE r # Cap - 1
    <3>1. pos + 1 = Cap * q + (r + 1) /\ q \in Int /\ r + 1 \in 0 .. Cap - 1
      BY <1>1, <1>2, <2>3
    <3>2. (pos + 1) % Cap = r + 1
      BY <1>1, <3>1, RemainderIs
    <3> QED
      BY <2>1, <2>3, <3>2 DEF r
  <2> QED
    BY <2>2, <2>3
<1> QED
  BY <1>1, <1>3, <1>4

-----------------------------------------------------------------------------
(***************************************************************************)
(* The ring.                                                               *)
(***************************************************************************)

Entry == [slot : Slots, packet : Packets]

\* The slot d places before slot c.
Back(c, d) == IF c >= d THEN c - d ELSE c - d + Cap

\* The buffered pointers are the last slots before writes_cache_pos_, oldest
\* first, and the bytes they point at are those that came with them.
Ring(cache, pos, buf) ==
  /\ buf \in Seq(Entry)
  /\ Len(buf) <= Cap
  /\ \A i \in 1..Len(buf) : buf[i].slot = Back(pos % Cap, Len(buf) - i + 1)
  /\ \A i \in 1..Len(buf) : cache[buf[i].slot] = buf[i].packet

\* The ring has at least one slot.
LEMMA CapPositive == Cap \in Nat \ {0}
BY CacheAssumption DEF Cap

\* writes_cache_pos_ % max_cache_buffer_write_size is a slot.
LEMMA SlotOfPos ==
  ASSUME NEW pos \in Pos
  PROVE  pos % Cap \in 0 .. Cap - 1 /\ pos % Cap \in Slots
<1>1. pos \in Nat
  BY DEF Pos
<1> QED
  BY <1>1, CapPositive, DivMod DEF Slots, Cap

\* Erasing the first n entries keeps the others, in their order.
LEMMA EraseIs ==
  ASSUME NEW T, NEW buf \in Seq(T), NEW n \in 0..Len(buf)
  PROVE  /\ Erase(buf, n) \in Seq(T)
         /\ Len(Erase(buf, n)) = Len(buf) - n
         /\ \A i \in 1 .. Len(buf) - n : Erase(buf, n)[i] = buf[i + n]
BY DEF Erase

\* sendmmsg takes a number of packets there are, and that fit.
LEMMA SendMMsgBounds ==
  ASSUME NEW buf \in Seq(Entry), NEW k \in 0..SndBuf, NEW n \in SendMMsg(buf, k)
  PROVE  n \in 0..Len(buf) /\ k + n \in 0..SndBuf
BY KernelAssumption DEF SendMMsg

\* Sending some of the ring keeps it one.
LEMMA EraseKeepsRing ==
  ASSUME NEW cache, NEW pos \in Pos, NEW buf, Ring(cache, pos, buf), NEW n \in 0..Len(buf)
  PROVE  Ring(cache, pos, Erase(buf, n))
<1> DEFINE rest == Erase(buf, n)
<1>1. /\ rest \in Seq(Entry) /\ Len(rest) = Len(buf) - n
      /\ \A i \in 1..Len(rest) : rest[i] = buf[i + n]
  BY EraseIs DEF Ring
<1>2. Len(buf) \in Nat /\ Len(rest) \in Nat
  BY <1>1 DEF Ring
<1> HIDE DEF rest
<1>3. ASSUME NEW i \in 1..Len(rest)
      PROVE  /\ rest[i].slot = Back(pos % Cap, Len(rest) - i + 1)
             /\ cache[rest[i].slot] = rest[i].packet
  <2>1. i + n \in 1..Len(buf) /\ rest[i] = buf[i + n] /\ Len(buf) - (i + n) + 1 = Len(rest) - i + 1
    BY <1>1, <1>2
  <2> QED
    BY <2>1 DEF Ring
<1>4. Len(rest) <= Cap
  BY <1>1, <1>2, CapPositive DEF Ring
<1> QED
  BY <1>1, <1>3, <1>4 DEF Ring, rest

\* Storing a packet in a ring with room keeps it one: the slot it is copied to
\* is not one the other entries point at.
LEMMA StoreKeepsRing ==
  ASSUME NEW cache \in [Slots -> Packets \cup {NoPacket}], NEW pos \in Pos, NEW buf,
         Ring(cache, pos, buf), Len(buf) < Cap, NEW p \in Packets
  PROVE  Ring([cache EXCEPT ![pos % Cap] = p], (pos + 1) % SizeModulus,
              Append(buf, [slot |-> pos % Cap, packet |-> p]))
<1> DEFINE c   == pos % Cap
           c2  == ((pos + 1) % SizeModulus) % Cap
           e   == [slot |-> c, packet |-> p]
           all == Append(buf, e)
           new == [cache EXCEPT ![c] = p]
<1>1. c \in 0 .. Cap - 1 /\ c \in Slots
  BY SlotOfPos
<1>2. c2 = IF c = Cap - 1 THEN 0 ELSE c + 1
  BY NextSlot
<1>3. e \in Entry
  BY <1>1 DEF Entry
<1>4. buf \in Seq(Entry) /\ Len(buf) \in Nat /\ Cap \in Nat \ {0}
  BY CapPositive DEF Ring
<1>5. /\ all \in Seq(Entry) /\ Len(all) = Len(buf) + 1
      /\ \A i \in 1..Len(buf) : all[i] = buf[i]
      /\ all[Len(buf) + 1] = e
  BY <1>3, <1>4
<1>6. e.slot = c /\ e.packet = p
  OBVIOUS
<1>7. \A i \in 1..Len(buf) : buf[i].slot = Back(c, Len(buf) - i + 1)
                             /\ cache[buf[i].slot] = buf[i].packet
  BY DEF Ring
<1>8. \A x \in Slots : x # c => new[x] = cache[x]
  BY <1>1
<1>9. new[c] = p
  BY <1>1
<1> HIDE DEF c, c2, e, all, new
<1>10. ASSUME NEW i \in 1..Len(all)
       PROVE  all[i].slot = Back(c2, Len(all) - i + 1) /\ new[all[i].slot] = all[i].packet
  <2>1. CASE i = Len(buf) + 1
    <3>1. Back(c2, 1) = c
      BY <1>1, <1>2, <1>4 DEF Back
    <3> QED
      BY <2>1, <3>1, <1>4, <1>5, <1>6, <1>9
  <2>2. CASE i \in 1..Len(buf)
    <3>1. Len(buf) - i + 1 \in 1 .. Cap - 1 /\ Len(all) - i + 1 = Len(buf) - i + 2
      BY <2>2, <1>4, <1>5
    <3>2. Back(c2, Len(buf) - i + 2) = Back(c, Len(buf) - i + 1)
          /\ Back(c, Len(buf) - i + 1) # c
      BY <3>1, <1>1, <1>2, <1>4, <2>2 DEF Back
    <3>3. buf[i].slot \in Slots
      <4>1. buf[i] \in Entry
        BY <1>4, <2>2
      <4> QED
        BY <4>1 DEF Entry
    <3> QED
      BY <2>2, <3>1, <3>2, <3>3, <1>5, <1>7, <1>8
  <2> QED
    BY <1>4, <1>5, <2>1, <2>2
<1>11. Len(all) <= Cap
  BY <1>4, <1>5
<1> QED
  BY <1>5, <1>10, <1>11 DEF Ring, all, new, c, c2, e

-----------------------------------------------------------------------------
(***************************************************************************)
(* The inductive invariant.  SlotIntegrity alone is not inductive: that    *)
(* the next slot is free follows from where the buffered slots lie.        *)
(***************************************************************************)

WriterInv == WriterTypeOK /\ Ring(writes_cache, writes_cache_pos, buffered_writes)

\* Different distances back are different slots.
LEMMA RingIsIntact == WriterInv => SlotIntegrity
<1> SUFFICES ASSUME WriterInv PROVE SlotIntegrity
  OBVIOUS
<1>1. writes_cache_pos % Cap \in 0 .. Cap - 1
  BY SlotOfPos DEF WriterInv, WriterTypeOK
<1>2. Len(buffered_writes) \in Nat /\ Len(buffered_writes) <= Cap /\ Cap \in Nat \ {0}
  BY CapPositive DEF WriterInv, Ring
<1>3. ASSUME NEW i \in 1..Len(buffered_writes), NEW j \in 1..Len(buffered_writes),
             buffered_writes[i].slot = buffered_writes[j].slot
      PROVE  i = j
  <2>1. Back(writes_cache_pos % Cap, Len(buffered_writes) - i + 1)
        = Back(writes_cache_pos % Cap, Len(buffered_writes) - j + 1)
    BY <1>3 DEF WriterInv, Ring
  <2> QED
    BY <1>1, <1>2, <2>1 DEF Back
<1>4. \A i \in 1..Len(buffered_writes) :
        writes_cache[buffered_writes[i].slot] = buffered_writes[i].packet
  BY DEF WriterInv, Ring
<1> QED
  BY <1>3, <1>4 DEF SlotIntegrity

\* An empty writer is a ring.
LEMMA WriterInvInit == WriterInit => WriterInv
<1> SUFFICES ASSUME WriterInit PROVE WriterInv
  OBVIOUS
<1>1. 0 \in Pos /\ 0 \in 0..SndBuf
  BY CacheAssumption, KernelAssumption DEF Pos
<1>2. buffered_writes \in Seq([slot : Slots, packet : Packets]) /\ Len(buffered_writes) = 0
  BY DEF WriterInit
<1>3. writes_cache \in [Slots -> Packets \cup {NoPacket}]
  BY DEF WriterInit
<1>4. WriterTypeOK
  <2>1. Len(buffered_writes) <= max_cache_buffer_write_size
    BY <1>2, CacheAssumption
  <2>2. held \subseteq Packets /\ write_blocked \in BOOLEAN /\ epollout \in BOOLEAN
        /\ on_can_write \in BOOLEAN
    BY DEF WriterInit
  <2>3. writes_cache_pos \in Pos /\ in_kernel \in 0..SndBuf
    BY <1>1 DEF WriterInit
  <2> QED
    BY <1>2, <1>3, <2>1, <2>2, <2>3 DEF WriterTypeOK
<1>5. Ring(writes_cache, writes_cache_pos, buffered_writes)
  BY <1>2, CapPositive DEF Ring, Entry
<1> QED
  BY <1>4, <1>5 DEF WriterInv

\* What a state needs for WriterInv once its ring is known to be one.
LEMMA WriterInvFrom ==
  ASSUME writes_cache' \in [Slots -> Packets \cup {NoPacket}],
         writes_cache_pos' \in Pos, write_blocked' \in BOOLEAN, held' \subseteq Packets,
         in_kernel' \in 0..SndBuf, epollout' \in BOOLEAN, on_can_write' \in BOOLEAN,
         Ring(writes_cache', writes_cache_pos', buffered_writes')
  PROVE  WriterInv'
BY DEF WriterInv, WriterTypeOK, Ring, Entry, Cap

\* The timer's Flush.
LEMMA TimerKeepsRing == WriterInv /\ SendMMsgTimerOnEvent => WriterInv'
<1> SUFFICES ASSUME WriterInv, SendMMsgTimerOnEvent PROVE WriterInv'
  OBVIOUS
<1>1. PICK n \in SendMMsg(buffered_writes, in_kernel) :
        buffered_writes' = Erase(buffered_writes, n) /\ in_kernel' = in_kernel + n
  BY DEF SendMMsgTimerOnEvent
<1>2. n \in 0..Len(buffered_writes) /\ in_kernel' \in 0..SndBuf
  BY <1>1, SendMMsgBounds DEF WriterInv, WriterTypeOK, Entry
<1>3. Ring(writes_cache, writes_cache_pos, buffered_writes')
  BY <1>1, <1>2, EraseKeepsRing DEF WriterInv, WriterTypeOK
<1> QED
  BY <1>2, <1>3, WriterInvFrom DEF WriterInv, WriterTypeOK, SendMMsgTimerOnEvent

\* What a write that stores its packet makes of the ring, between its two
\* flushes: n packets are gone, and one has come.
NewSlot      == writes_cache_pos % Cap
NewCache(p)  == [writes_cache EXCEPT ![NewSlot] = p]
NewEntry(p)  == [slot |-> NewSlot, packet |-> p]
NewBuf(p, n) == Append(Erase(buffered_writes, n), NewEntry(p))

\* A packet that is stored, with the Flush before and the one after: it comes
\* to a ring with room, and what is flushed is there.
LEMMA StoredIs ==
  ASSUME WriterInv, NEW p \in Packets, WriteStored(p)
  PROVE  \E n1 \in 0..Len(buffered_writes) : \E n2 \in 0..Len(NewBuf(p, n1)) :
           /\ Ring(NewCache(p), writes_cache_pos', NewBuf(p, n1))
           /\ writes_cache' = NewCache(p)
           /\ writes_cache' \in [Slots -> Packets \cup {NoPacket}]
           /\ writes_cache_pos' \in Pos
           /\ buffered_writes' = Erase(NewBuf(p, n1), n2)
           /\ in_kernel' \in 0..SndBuf
           /\ wire' = Sent(writes_cache, buffered_writes, n1)
                      \o Sent(NewCache(p), NewBuf(p, n1), n2)
<1> DEFINE Buf(n) == NewBuf(p, n)
<1>1. PICK n1 \in IF Full(buffered_writes)
                  THEN SendMMsg(buffered_writes, in_kernel) \ {0} ELSE {0} :
        \E n2 \in IF Full(Buf(n1)) THEN SendMMsg(Buf(n1), in_kernel + n1) ELSE {0} :
          /\ writes_cache' = NewCache(p)
          /\ writes_cache_pos' = (writes_cache_pos + 1) % SizeModulus
          /\ buffered_writes' = Erase(Buf(n1), n2)
          /\ in_kernel' = in_kernel + n1 + n2
          /\ wire' = Sent(writes_cache, buffered_writes, n1) \o Sent(NewCache(p), Buf(n1), n2)
  BY DEF WriteStored, Cap, NewSlot, NewCache, NewEntry, NewBuf
<1>2. PICK n2 \in IF Full(Buf(n1)) THEN SendMMsg(Buf(n1), in_kernel + n1) ELSE {0} :
          /\ writes_cache' = NewCache(p)
          /\ writes_cache_pos' = (writes_cache_pos + 1) % SizeModulus
          /\ buffered_writes' = Erase(Buf(n1), n2)
          /\ in_kernel' = in_kernel + n1 + n2
          /\ wire' = Sent(writes_cache, buffered_writes, n1) \o Sent(NewCache(p), Buf(n1), n2)
  BY <1>1
<1>3. writes_cache_pos \in Pos /\ in_kernel \in 0..SndBuf
      /\ writes_cache \in [Slots -> Packets \cup {NoPacket}]
      /\ Ring(writes_cache, writes_cache_pos, buffered_writes)
  BY DEF WriterInv, WriterTypeOK
<1>4. /\ n1 \in 0..Len(buffered_writes)
      /\ in_kernel + n1 \in 0..SndBuf
      /\ Len(buffered_writes) - n1 < Cap
  <2>1. Len(buffered_writes) \in Nat /\ Len(buffered_writes) <= Cap /\ Cap \in Nat \ {0}
    BY <1>3, CapPositive DEF Ring
  <2>2. CASE Full(buffered_writes)
    <3>1. n1 \in SendMMsg(buffered_writes, in_kernel) /\ n1 # 0
      BY <1>1, <2>2
    <3>2. n1 \in 0..Len(buffered_writes) /\ in_kernel + n1 \in 0..SndBuf
      BY <1>3, <3>1, SendMMsgBounds DEF Ring
    <3> QED
      BY <2>1, <3>1, <3>2
  <2>3. CASE ~Full(buffered_writes)
    <3>1. n1 = 0
      BY <1>1, <2>3
    <3> QED
      BY <1>3, <2>1, <2>3, <3>1 DEF Full, Cap
  <2> QED
    BY <2>2, <2>3
<1>5. Ring(writes_cache, writes_cache_pos, Erase(buffered_writes, n1))
      /\ Len(Erase(buffered_writes, n1)) < Cap
  <2>1. Ring(writes_cache, writes_cache_pos, Erase(buffered_writes, n1))
    BY <1>3, <1>4, EraseKeepsRing
  <2>2. buffered_writes \in Seq(Entry)
    BY <1>3 DEF Ring
  <2>3. Len(Erase(buffered_writes, n1)) = Len(buffered_writes) - n1
    BY <1>4, <2>2, EraseIs
  <2> QED
    BY <1>4, <2>1, <2>3
<1>6. Ring(NewCache(p), writes_cache_pos', Buf(n1))
  BY <1>2, <1>3, <1>5, StoreKeepsRing DEF NewCache, NewEntry, NewBuf, NewSlot
<1>7. n2 \in 0..Len(Buf(n1)) /\ in_kernel' \in 0..SndBuf
  <2>1. Buf(n1) \in Seq(Entry) /\ Len(Buf(n1)) \in Nat
    BY <1>6 DEF Ring
  <2> HIDE DEF Buf
  <2>2. CASE Full(Buf(n1))
    BY <1>2, <1>4, <2>1, <2>2, SendMMsgBounds
  <2>3. CASE ~Full(Buf(n1))
    BY <1>2, <1>3, <1>4, <2>1, <2>3
  <2> QED
    BY <2>2, <2>3
<1>8. writes_cache_pos' \in Pos /\ NewCache(p) \in [Slots -> Packets \cup {NoPacket}]
  <2>1. SizeModulus \in Nat \ {0} /\ writes_cache_pos + 1 \in Nat
    BY <1>3, CacheAssumption DEF Pos
  <2>2. writes_cache_pos' \in 0 .. SizeModulus - 1
    BY <1>2, <2>1, DivMod
  <2> QED
    BY <1>3, <2>2 DEF Pos, NewCache
<1> QED
  BY <1>2, <1>4, <1>6, <1>7, <1>8

\* Storing a packet keeps the ring.
LEMMA WriteStoredKeepsRing ==
  ASSUME WriterInv, NEW p \in Packets, WriteStored(p)
  PROVE  WriterInv'
<1>1. PICK n1 \in 0..Len(buffered_writes) : \E n2 \in 0..Len(NewBuf(p, n1)) :
        /\ Ring(NewCache(p), writes_cache_pos', NewBuf(p, n1))
        /\ writes_cache' = NewCache(p)
        /\ writes_cache' \in [Slots -> Packets \cup {NoPacket}]
        /\ writes_cache_pos' \in Pos
        /\ buffered_writes' = Erase(NewBuf(p, n1), n2)
        /\ in_kernel' \in 0..SndBuf
  BY StoredIs
<1>2. Ring(writes_cache', writes_cache_pos', buffered_writes')
  BY <1>1, EraseKeepsRing
<1>3. write_blocked' \in BOOLEAN /\ held' \subseteq Packets /\ epollout' \in BOOLEAN
      /\ on_can_write' \in BOOLEAN
  BY DEF WriterInv, WriterTypeOK, WriteStored
<1> QED
  BY <1>1, <1>2, <1>3, WriterInvFrom

\* Every step, of the writer or around it, keeps the ring.
LEMMA WriterInvStep == WriterInv /\ [WriterNext]_writerVars => WriterInv'
<1> SUFFICES ASSUME WriterInv, [WriterNext]_writerVars PROVE WriterInv'
  OBVIOUS
<1>1. ASSUME NEW p \in Packets, WriteRefused(p) PROVE WriterInv'
  BY <1>1 DEF WriteRefused, WriterInv, WriterTypeOK
<1>2. ASSUME NEW p \in Packets, WriteStored(p) PROVE WriterInv'
  BY <1>2, WriteStoredKeepsRing
<1>3. CASE SendMMsgTimerOnEvent
  BY <1>3, TimerKeepsRing
<1>4. CASE OnEventEPOLLOUT \/ OnCanWriteReturns
  BY <1>4 DEF OnEventEPOLLOUT, OnCanWriteReturns, WriterInv, WriterTypeOK, ringVars
<1>5. CASE KernelTransmits
  <2>1. in_kernel' \in 0..SndBuf
    BY <1>5, KernelAssumption DEF KernelTransmits, WriterInv, WriterTypeOK
  <2> QED
    BY <1>5, <2>1 DEF KernelTransmits, WriterInv, WriterTypeOK, ringVars
<1>6. CASE UNCHANGED writerVars
  BY <1>6 DEF writerVars, ringVars, WriterInv, WriterTypeOK
<1> QED
  BY <1>1, <1>2, <1>3, <1>4, <1>5, <1>6 DEF WriterNext, WritePacket

\* Every reachable state has the types WriterTypeOK says; in particular the deque
\* never outgrows the ring.
THEOREM WriterTypeCorrect == WriterSpec => []WriterTypeOK
<1>1. WriterInv => WriterTypeOK
  BY DEF WriterInv
<1> QED
  BY <1>1, WriterInvInit, WriterInvStep, PTL DEF WriterSpec

\* For every ring size and every multiple of it as the modulus of size_t, a
\* buffered pointer always points at its own packet's bytes.
THEOREM RingIntegrity == WriterSpec => []SlotIntegrity
BY RingIsIntact, WriterInvInit, WriterInvStep, PTL DEF WriterSpec

-----------------------------------------------------------------------------
(***************************************************************************)
(* A blocked writer.  Why it is blocked is still there when it is asked:   *)
(* a full send buffer, or a packet at the head that cannot be sent.        *)
(***************************************************************************)

\* A writer that refuses a packet has a full send buffer or is jammed.
LEMMA RefusedIsWoken ==
  ASSUME WriterInv, NEW p \in Packets, WriteRefused(p)
  PROVE  BlockedIsWoken'
<1>1. buffered_writes \in Seq(Entry) /\ Len(buffered_writes) \in Nat /\ Len(buffered_writes) > 0
  BY CapPositive DEF WriterInv, Ring, WriteRefused, Full, Cap
<1>2. in_kernel = SndBuf \/ buffered_writes[1].packet \in Unsendable
  <2>1. in_kernel \in 0..SndBuf
    BY DEF WriterInv, WriterTypeOK
  <2>2. 0 < Len(buffered_writes)
        => 0 = SndBuf - in_kernel \/ buffered_writes[0 + 1].packet \in Unsendable
    BY DEF WriteRefused, SendMMsg
  <2> QED
    BY <1>1, <2>1, <2>2, KernelAssumption
<1>3. in_kernel > 0 \/ Jammed
  BY <1>1, <1>2, KernelAssumption DEF Jammed
<1>4. in_kernel' > 0 \/ Jammed'
  BY <1>3 DEF WriteRefused, Jammed
<1>5. p \in held'
  BY DEF WriteRefused
<1> QED
  BY <1>4, <1>5 DEF BlockedIsWoken

\* A writer that answers "blocked" for a packet it keeps has a full send buffer.
LEMMA StoredIsWoken ==
  ASSUME WriterInv, NEW p \in Packets, WriteStored(p)
  PROVE  BlockedIsWoken'
<1> SUFFICES ASSUME write_blocked' PROVE held' # {} /\ in_kernel' > 0
  BY DEF BlockedIsWoken
<1>1. PICK n1 \in IF Full(buffered_writes)
                  THEN SendMMsg(buffered_writes, in_kernel) \ {0} ELSE {0} :
        \E buf : \E n2 \in IF Full(buf) THEN SendMMsg(buf, in_kernel + n1) ELSE {0} :
          /\ in_kernel' = in_kernel + n1 + n2
          /\ write_blocked' = (Full(buf) /\ Blocks(buf, in_kernel + n1))
          /\ held' = IF write_blocked' THEN held \cup {p} ELSE held \ {p}
  BY Zenon DEF WriteStored
<1>2. PICK buf : \E n2 \in IF Full(buf) THEN SendMMsg(buf, in_kernel + n1) ELSE {0} :
        /\ in_kernel' = in_kernel + n1 + n2
        /\ write_blocked' = (Full(buf) /\ Blocks(buf, in_kernel + n1))
        /\ held' = IF write_blocked' THEN held \cup {p} ELSE held \ {p}
  BY <1>1
<1>3. PICK n2 \in IF Full(buf) THEN SendMMsg(buf, in_kernel + n1) ELSE {0} :
        /\ in_kernel' = in_kernel + n1 + n2
        /\ write_blocked' = (Full(buf) /\ Blocks(buf, in_kernel + n1))
        /\ held' = IF write_blocked' THEN held \cup {p} ELSE held \ {p}
  BY <1>2
<1>4. Full(buf) /\ Blocks(buf, in_kernel + n1)
  BY <1>3
<1>5. n2 \in Nat /\ in_kernel' = SndBuf + n2
  <2>1. n2 \in SendMMsg(buf, in_kernel + n1)
    BY <1>3, <1>4
  <2> QED
    BY <1>3, <1>4, <2>1 DEF SendMMsg, Blocks
<1>6. p \in held'
  BY <1>3
<1> QED
  BY <1>5, <1>6, KernelAssumption

\* What the timer sends will cause an EPOLLOUT; if it sends nothing, nothing
\* changes.
LEMMA TimerKeepsWoken ==
  ASSUME WriterInv, BlockedIsWoken, SendMMsgTimerOnEvent
  PROVE  BlockedIsWoken'
<1>1. PICK n \in SendMMsg(buffered_writes, in_kernel) :
        buffered_writes' = Erase(buffered_writes, n) /\ in_kernel' = in_kernel + n
  BY DEF SendMMsgTimerOnEvent
<1>2. n \in 0..Len(buffered_writes) /\ in_kernel \in Nat
      /\ buffered_writes \in Seq(Entry)
  <2>1. in_kernel \in 0..SndBuf /\ buffered_writes \in Seq(Entry)
    BY DEF WriterInv, WriterTypeOK, Ring
  <2>2. n \in 0..Len(buffered_writes)
    BY <1>1, <2>1, SendMMsgBounds
  <2> QED
    BY <2>1, <2>2, KernelAssumption
<1>3. write_blocked' = write_blocked /\ held' = held /\ epollout' = epollout
  BY DEF SendMMsgTimerOnEvent
<1>4. CASE n = 0
  <2>1. in_kernel' = in_kernel
    BY <1>1, <1>2, <1>4
  <2>2. buffered_writes' = buffered_writes
    BY <1>1, <1>2, <1>4 DEF Erase
  <2> QED
    BY <1>3, <2>1, <2>2 DEF BlockedIsWoken, Jammed
<1>5. CASE n > 0
  BY <1>1, <1>2, <1>3, <1>5 DEF BlockedIsWoken
<1> QED
  BY <1>2, <1>4, <1>5

\* The last packet to leave the send buffer causes an EPOLLOUT.
LEMMA KernelKeepsWoken ==
  ASSUME WriterInv, BlockedIsWoken, KernelTransmits
  PROVE  BlockedIsWoken'
<1>1. /\ write_blocked' = write_blocked /\ held' = held
      /\ buffered_writes' = buffered_writes
      /\ epollout => epollout'
  BY DEF KernelTransmits, ringVars
<1>2. epollout' \/ in_kernel' > 0
  <2>1. in_kernel \in Nat /\ SndBuf \in Nat
    BY KernelAssumption DEF WriterInv, WriterTypeOK
  <2>2. CASE in_kernel' = 0
    <3>1. 2 * in_kernel' <= SndBuf
      BY <2>1, <2>2
    <3>2. epollout' = (epollout \/ 2 * in_kernel' <= SndBuf)
      BY DEF KernelTransmits
    <3> QED
      BY <3>1, <3>2, Zenon
  <2>3. CASE in_kernel' # 0
    BY <2>1, <2>3 DEF KernelTransmits
  <2> QED
    BY <2>2, <2>3
<1> QED
  BY <1>1, <1>2 DEF BlockedIsWoken

\* For every send buffer and ring: while the writer is blocked, a connection
\* waits for it, and an EPOLLOUT is pending or is to come, or the ring is
\* jammed.
THEOREM BlockedWriterIsWoken == WriterSpec => []BlockedIsWoken
<1>1. WriterInit => BlockedIsWoken
  BY DEF WriterInit, BlockedIsWoken
<1>2. WriterInv /\ BlockedIsWoken /\ [WriterNext]_writerVars => BlockedIsWoken'
  <2> SUFFICES ASSUME WriterInv, BlockedIsWoken, [WriterNext]_writerVars PROVE BlockedIsWoken'
    OBVIOUS
  <2>1. ASSUME NEW p \in Packets, WritePacket(p) PROVE BlockedIsWoken'
    BY <2>1, RefusedIsWoken, StoredIsWoken DEF WritePacket
  <2>2. CASE SendMMsgTimerOnEvent
    BY <2>2, TimerKeepsWoken
  <2>3. CASE OnEventEPOLLOUT \/ OnCanWriteReturns
    BY <2>3 DEF OnEventEPOLLOUT, OnCanWriteReturns, BlockedIsWoken, Jammed, ringVars
  <2>4. CASE KernelTransmits
    BY <2>4, KernelKeepsWoken
  <2>5. CASE UNCHANGED writerVars
    BY <2>5 DEF writerVars, ringVars, BlockedIsWoken, Jammed
  <2> QED
    BY <2>1, <2>2, <2>3, <2>4, <2>5 DEF WriterNext
<1> QED
  BY <1>1, <1>2, WriterInvInit, WriterInvStep, PTL DEF WriterSpec

-----------------------------------------------------------------------------
(***************************************************************************)
(* The writer implements LosslessFifo.  In a ring, what a pointer leads to *)
(* is the packet it was made for; so the queue is that of the packets, and *)
(* the two flushes of a write are one move of it.                          *)
(***************************************************************************)

Pairs == Packets \X Packets

\* The first n entries of a ring go out as the packets they were made for.
LEMMA SentIs ==
  ASSUME NEW cache, NEW pos, NEW buf, Ring(cache, pos, buf), NEW n \in 0..Len(buf)
  PROVE  /\ Sent(cache, buf, n) \in Seq(Pairs)
         /\ Len(Sent(cache, buf, n)) = n
         /\ \A i \in 1..n : Sent(cache, buf, n)[i] = <<buf[i].packet, buf[i].packet>>
<1>1. buf \in Seq(Entry) /\ Len(buf) \in Nat /\ n \in Nat
  BY DEF Ring
<1>2. ASSUME NEW i \in 1..n
      PROVE  buf[i].packet \in Packets /\ cache[buf[i].slot] = buf[i].packet
  <2>1. i \in 1..Len(buf)
    BY <1>1
  <2>2. buf[i] \in Entry
    BY <1>1, <2>1
  <2> QED
    BY <2>1, <2>2 DEF Ring, Entry
<1> QED
  BY <1>1, <1>2 DEF Sent, Pairs

\* A sequence cut in two is known by the elements of the parts.
LEMMA CutIs ==
  ASSUME NEW T, NEW all \in Seq(T), NEW n \in 0..Len(all),
         NEW first \in Seq(T), NEW rest \in Seq(T),
         Len(first) = n, Len(rest) = Len(all) - n,
         \A i \in 1..n : first[i] = all[i],
         \A i \in 1 .. Len(all) - n : rest[i] = all[i + n]
  PROVE  first = SubSeq(all, 1, n) /\ rest = SubSeq(all, n + 1, Len(all))
<1>1. Len(all) \in Nat /\ n \in Nat
  OBVIOUS
<1>2. /\ SubSeq(all, 1, n) \in Seq(T) /\ Len(SubSeq(all, 1, n)) = n
      /\ \A i \in 1..n : SubSeq(all, 1, n)[i] = all[i]
  BY <1>1
<1>3. Erase(all, n) \in Seq(T) /\ Len(Erase(all, n)) = Len(all) - n
      /\ \A i \in 1 .. Len(all) - n : Erase(all, n)[i] = all[i + n]
  BY EraseIs
<1>4. first = SubSeq(all, 1, n)
  <2>1. \A i \in 1..Len(first) : first[i] = SubSeq(all, 1, n)[i]
    BY <1>1, <1>2
  <2> QED
    BY <1>2, <2>1, SeqEqual
<1>5. rest = Erase(all, n)
  <2>1. \A i \in 1..Len(rest) : rest[i] = Erase(all, n)[i]
    BY <1>1, <1>3
  <2> QED
    BY <1>3, <2>1, SeqEqual
<1> QED
  BY <1>4, <1>5 DEF Erase

\* A step that flushes: of the entries that were in the ring, and one that may
\* have come, the first leave and the others stay, in their order.
Flushes(whole) ==
  \E n \in 0..Len(whole) :
    /\ wire' \in Seq(Pairs) /\ Len(wire') = n
    /\ \A i \in 1..n : wire'[i] = <<whole[i].packet, whole[i].packet>>
    /\ Len(buffered_writes') = Len(whole) - n
    /\ \A i \in 1 .. Len(whole) - n : buffered_writes'[i] = whole[i + n]

\* Such a step is one move of the queue.
LEMMA MoveIs ==
  ASSUME WriterInv', NEW taken, NEW whole \in Seq(Entry), Flushes(whole),
         NEW all \in Seq(Pairs),
         all = Sent(writes_cache, buffered_writes, Len(buffered_writes)) \o taken,
         Len(all) = Len(whole),
         \A i \in 1..Len(whole) : all[i] = <<whole[i].packet, whole[i].packet>>
  PROVE  Fifo!Move(taken)
<1>0. PICK n \in 0..Len(whole) :
        /\ wire' \in Seq(Pairs) /\ Len(wire') = n
        /\ \A i \in 1..n : wire'[i] = <<whole[i].packet, whole[i].packet>>
        /\ Len(buffered_writes') = Len(whole) - n
        /\ \A i \in 1 .. Len(whole) - n : buffered_writes'[i] = whole[i + n]
  BY DEF Flushes
<1> DEFINE rest == Sent(writes_cache', buffered_writes', Len(buffered_writes'))
           out  == wire'
           L    == Len(whole)
<1>1. L \in Nat /\ n \in 0..L /\ Len(all) = L
  OBVIOUS
<1>2. /\ rest \in Seq(Pairs) /\ Len(rest) = L - n
      /\ \A i \in 1 .. L - n :
           rest[i] = <<buffered_writes'[i].packet, buffered_writes'[i].packet>>
  <2>1. Ring(writes_cache', writes_cache_pos', buffered_writes')
    BY DEF WriterInv
  <2>2. Len(buffered_writes') \in 0..Len(buffered_writes') /\ Len(buffered_writes') = L - n
    BY <1>0, <1>1
  <2> QED
    BY <2>1, <2>2, SentIs
<1>3. out \in Seq(Pairs) /\ Len(out) = n
  BY <1>0
<1> HIDE DEF rest, L, out
<1>4. ASSUME NEW i \in 1..n PROVE out[i] = all[i]
  <2>1. i \in 1..L
    BY <1>1
  <2> QED
    BY <1>0, <2>1 DEF out, L
<1>5. ASSUME NEW i \in 1 .. L - n PROVE rest[i] = all[i + n]
  <2>1. i + n \in 1..L
    BY <1>1
  <2>2. buffered_writes'[i] = whole[i + n]
    BY <1>0 DEF L
  <2>3. all[i + n] = <<whole[i + n].packet, whole[i + n].packet>>
    BY <2>1 DEF L
  <2> QED
    BY <1>2, <2>2, <2>3
<1>6. out = SubSeq(all, 1, n) /\ rest = SubSeq(all, n + 1, Len(all))
  BY <1>1, <1>2, <1>3, <1>4, <1>5, CutIs
<1>7. n \in 0..Len(all)
  BY <1>1
<1> QED
  BY <1>6, <1>7 DEF Fifo!Move, rest, out

\* The timer's Flush.
LEMMA TimerFlushes ==
  ASSUME WriterInv, SendMMsgTimerOnEvent
  PROVE  Flushes(buffered_writes)
<1>1. PICK n \in SendMMsg(buffered_writes, in_kernel) :
        /\ buffered_writes' = Erase(buffered_writes, n)
        /\ wire' = Sent(writes_cache, buffered_writes, n)
  BY DEF SendMMsgTimerOnEvent
<1>2. /\ Ring(writes_cache, writes_cache_pos, buffered_writes)
      /\ buffered_writes \in Seq(Entry)
      /\ n \in 0..Len(buffered_writes)
  <2>1. Ring(writes_cache, writes_cache_pos, buffered_writes) /\ in_kernel \in 0..SndBuf
    BY DEF WriterInv, WriterTypeOK
  <2> QED
    BY <1>1, <2>1, SendMMsgBounds DEF Ring
<1>3. /\ Len(buffered_writes') = Len(buffered_writes) - n
      /\ \A i \in 1 .. Len(buffered_writes) - n :
           buffered_writes'[i] = buffered_writes[i + n]
  BY <1>1, <1>2, EraseIs
<1>4. /\ wire' \in Seq(Pairs) /\ Len(wire') = n
      /\ \A i \in 1..n :
           wire'[i] = <<buffered_writes[i].packet, buffered_writes[i].packet>>
  BY <1>1, <1>2, SentIs
<1> QED
  BY <1>2, <1>3, <1>4 DEF Flushes

\* It moves some of the queue out.
LEMMA TimerMoves ==
  ASSUME WriterInv, SendMMsgTimerOnEvent
  PROVE  Fifo!Move(<<>>)
<1> DEFINE all == Sent(writes_cache, buffered_writes, Len(buffered_writes))
<1>1. /\ Ring(writes_cache, writes_cache_pos, buffered_writes)
      /\ buffered_writes \in Seq(Entry) /\ Len(buffered_writes) \in 0..Len(buffered_writes)
  BY DEF WriterInv, Ring
<1>2. /\ all \in Seq(Pairs) /\ Len(all) = Len(buffered_writes)
      /\ \A i \in 1..Len(buffered_writes) :
           all[i] = <<buffered_writes[i].packet, buffered_writes[i].packet>>
  BY <1>1, SentIs
<1>3. all = all \o <<>>
  <2> HIDE DEF all
  <2> QED
    BY <1>2
<1> QED
  BY <1>1, <1>2, <1>3, TimerFlushes, TimerKeepsRing, MoveIs

\* The entry for a packet that is stored.
LEMMA NewEntryIs ==
  ASSUME WriterInv, NEW p \in Packets
  PROVE  NewEntry(p) \in Entry /\ NewEntry(p).packet = p
<1>1. NewSlot \in Slots
  BY SlotOfPos DEF WriterInv, WriterTypeOK, NewSlot
<1> QED
  BY <1>1 DEF NewEntry, Entry

\* A write that stores its packet flushes what was there and the packet, at once
\* or in two parts.
LEMMA StoreFlushes ==
  ASSUME WriterInv, NEW p \in Packets, WriteStored(p)
  PROVE  Flushes(Append(buffered_writes, NewEntry(p)))
<1> DEFINE e     == NewEntry(p)
           whole == Append(buffered_writes, e)
           L     == Len(buffered_writes)
<1>1. PICK n1 \in 0..Len(buffered_writes) : \E n2 \in 0..Len(NewBuf(p, n1)) :
        /\ Ring(NewCache(p), writes_cache_pos', NewBuf(p, n1))
        /\ buffered_writes' = Erase(NewBuf(p, n1), n2)
        /\ wire' = Sent(writes_cache, buffered_writes, n1)
                   \o Sent(NewCache(p), NewBuf(p, n1), n2)
  BY StoredIs
<1> DEFINE B == NewBuf(p, n1)
<1>2. PICK n2 \in 0..Len(B) :
        /\ Ring(NewCache(p), writes_cache_pos', B)
        /\ buffered_writes' = Erase(B, n2)
        /\ wire' = Sent(writes_cache, buffered_writes, n1) \o Sent(NewCache(p), B, n2)
  BY <1>1
<1>3. /\ Ring(writes_cache, writes_cache_pos, buffered_writes)
      /\ buffered_writes \in Seq(Entry) /\ L \in Nat
      /\ e \in Entry /\ e.packet = p
  <2>1. Ring(writes_cache, writes_cache_pos, buffered_writes)
    BY DEF WriterInv
  <2> QED
    BY <2>1, NewEntryIs DEF Ring
<1>4. whole \in Seq(Entry) /\ Len(whole) = L + 1 /\ whole[L + 1] = e
      /\ \A i \in 1..L : whole[i] = buffered_writes[i]
  BY <1>3
<1>5. /\ B \in Seq(Entry) /\ Len(B) = L + 1 - n1
      /\ \A i \in 1 .. L + 1 - n1 : B[i] = whole[i + n1]
  <2>1. /\ Erase(buffered_writes, n1) \in Seq(Entry)
        /\ Len(Erase(buffered_writes, n1)) = L - n1
        /\ \A i \in 1 .. L - n1 : Erase(buffered_writes, n1)[i] = buffered_writes[i + n1]
    BY <1>3, EraseIs
  <2>2. /\ B \in Seq(Entry) /\ Len(B) = L - n1 + 1 /\ B[L - n1 + 1] = e
        /\ \A i \in 1 .. L - n1 : B[i] = Erase(buffered_writes, n1)[i]
    BY <1>3, <2>1 DEF NewBuf
  <2> HIDE DEF B, whole, e, L
  <2>3. ASSUME NEW i \in 1 .. L + 1 - n1 PROVE B[i] = whole[i + n1]
    <3>1. CASE i = L + 1 - n1
      BY <1>3, <1>4, <2>2, <3>1 DEF L
    <3>2. CASE i \in 1 .. L - n1
      <4>1. i + n1 \in 1..L
        BY <1>3, <3>2 DEF L
      <4> QED
        BY <1>4, <2>1, <2>2, <3>2, <4>1
    <3> QED
      BY <1>3, <3>1, <3>2 DEF L
  <2> QED
    BY <1>3, <2>2, <2>3 DEF L
<1>6. /\ Len(buffered_writes') = L + 1 - (n1 + n2)
      /\ \A i \in 1 .. L + 1 - (n1 + n2) : buffered_writes'[i] = whole[i + (n1 + n2)]
  <2> HIDE DEF B, whole, e
  <2>1. /\ L \in Nat /\ n1 \in 0..L /\ n2 \in 0 .. L + 1 - n1
        /\ buffered_writes' = Erase(B, n2) /\ Len(B) = L + 1 - n1
        /\ \A i \in 1 .. L + 1 - n1 : B[i] = whole[i + n1]
    BY <1>2, <1>3, <1>5
  <2>2. /\ Len(Erase(B, n2)) = Len(B) - n2
        /\ \A i \in 1 .. Len(B) - n2 : Erase(B, n2)[i] = B[i + n2]
    BY <1>5, EraseIs
  <2> HIDE DEF L
  <2>3. Len(B) - n2 = L + 1 - (n1 + n2)
    BY ONLY <2>1
  <2>4. ASSUME NEW i \in 1 .. L + 1 - (n1 + n2)
        PROVE  buffered_writes'[i] = whole[i + (n1 + n2)]
    <3>1. buffered_writes'[i] = B[i + n2]
      BY <2>1, <2>2, <2>3
    <3>2. i + n2 \in 1 .. L + 1 - n1 /\ (i + n2) + n1 = i + (n1 + n2)
      BY ONLY <2>1, i \in 1 .. L + 1 - (n1 + n2)
    <3>3. B[i + n2] = whole[(i + n2) + n1]
      BY <2>1, <3>2
    <3> QED
      BY ONLY <3>1, <3>2, <3>3
  <2>5. Len(buffered_writes') = L + 1 - (n1 + n2)
    BY ONLY <2>1, <2>2, <2>3
  <2> QED
    BY <2>4, <2>5
<1>8. /\ wire' \in Seq(Pairs) /\ Len(wire') = n1 + n2
      /\ \A i \in 1 .. n1 + n2 : wire'[i] = <<whole[i].packet, whole[i].packet>>
  <2> DEFINE out1 == Sent(writes_cache, buffered_writes, n1)
             out2 == Sent(NewCache(p), B, n2)
  <2>1. /\ out1 \in Seq(Pairs) /\ Len(out1) = n1
        /\ \A i \in 1..n1 : out1[i] = <<buffered_writes[i].packet, buffered_writes[i].packet>>
    <3>1. Ring(writes_cache, writes_cache_pos, buffered_writes)
          /\ n1 \in 0..Len(buffered_writes)
      BY <1>3
    <3> QED
      BY ONLY <3>1, SentIs DEF out1
  <2>2. /\ out2 \in Seq(Pairs) /\ Len(out2) = n2
        /\ \A i \in 1..n2 : out2[i] = <<B[i].packet, B[i].packet>>
    <3> HIDE DEF B
    <3>1. Ring(NewCache(p), writes_cache_pos', B) /\ n2 \in 0..Len(B)
      BY <1>2
    <3> QED
      BY ONLY <3>1, SentIs DEF out2
  <2>3. wire' = out1 \o out2
    BY <1>2
  <2> HIDE DEF out1, out2, B, whole, L
  <2>4. n1 \in Nat /\ n2 \in Nat /\ n1 <= L /\ n2 <= L + 1 - n1
    BY <1>3, <1>5 DEF L
  <2>5. /\ wire' \in Seq(Pairs) /\ Len(wire') = n1 + n2
        /\ \A i \in 1 .. n1 + n2 : wire'[i] = IF i <= n1 THEN out1[i] ELSE out2[i - n1]
    BY <2>1, <2>2, <2>3, ConcatProperties
  <2>6. ASSUME NEW i \in 1 .. n1 + n2
        PROVE  wire'[i] = <<whole[i].packet, whole[i].packet>>
    <3>1. CASE i \in 1..n1
      <4>1. i \in 1..L /\ i <= n1
        BY <1>3, <2>4, <3>1
      <4> QED
        BY <1>4, <2>1, <2>5, <3>1, <4>1
    <3>2. CASE i \in n1 + 1 .. n1 + n2
      <4>1. i - n1 \in 1..n2 /\ i - n1 \in 1 .. L + 1 - n1 /\ (i - n1) + n1 = i /\ ~(i <= n1)
        BY <1>3, <2>4, <3>2
      <4> QED
        BY <1>5, <2>2, <2>5, <4>1
    <3> QED
      BY <2>4, <3>1, <3>2
  <2> QED
    BY <2>5, <2>6
<1> DEFINE n == n1 + n2
<1>9. n \in 0..Len(whole) /\ Len(whole) = L + 1
  <2> HIDE DEF B, whole
  <2> QED
    BY <1>3, <1>4, <1>5
<1> HIDE DEF whole, B, e, L, n
<1>10. /\ Len(buffered_writes') = Len(whole) - n
       /\ \A i \in 1 .. Len(whole) - n : buffered_writes'[i] = whole[i + n]
  <2>1. Len(whole) - n = L + 1 - (n1 + n2)
    BY <1>3, <1>4 DEF n
  <2>2. Len(buffered_writes') = Len(whole) - n
    BY <1>6, <2>1
  <2>3. ASSUME NEW i \in 1 .. Len(whole) - n PROVE buffered_writes'[i] = whole[i + n]
    <3>1. i \in 1 .. L + 1 - (n1 + n2)
      BY <2>1
    <3> QED
      BY <1>6, <3>1 DEF n
  <2> QED
    BY <2>2, <2>3
<1>11. Flushes(whole)
  BY <1>8, <1>9, <1>10 DEF Flushes, n
<1> QED
  BY <1>11 DEF whole, e

\* It takes the packet into the queue and moves some of the queue out.
LEMMA StoreMoves ==
  ASSUME WriterInv, NEW p \in Packets, WriteStored(p)
  PROVE  Fifo!Move(<<<<p, p>>>>)
<1> DEFINE old   == Sent(writes_cache, buffered_writes, Len(buffered_writes))
           all   == old \o <<<<p, p>>>>
           e     == NewEntry(p)
           whole == Append(buffered_writes, e)
           L     == Len(buffered_writes)
<1>1. /\ Ring(writes_cache, writes_cache_pos, buffered_writes)
      /\ buffered_writes \in Seq(Entry) /\ L \in Nat /\ L \in 0..L
      /\ e \in Entry /\ e.packet = p
  <2>1. Ring(writes_cache, writes_cache_pos, buffered_writes)
    BY DEF WriterInv
  <2> QED
    BY <2>1, NewEntryIs DEF Ring
<1> HIDE DEF e
<1>2. whole \in Seq(Entry) /\ Len(whole) = L + 1 /\ whole[L + 1] = e
      /\ \A i \in 1..L : whole[i] = buffered_writes[i]
  BY <1>1
<1>3. /\ all \in Seq(Pairs) /\ Len(all) = L + 1
      /\ \A i \in 1 .. L + 1 : all[i] = <<whole[i].packet, whole[i].packet>>
  <2>1. /\ old \in Seq(Pairs) /\ Len(old) = L
        /\ \A i \in 1..L : old[i] = <<buffered_writes[i].packet, buffered_writes[i].packet>>
    BY <1>1, SentIs
  <2> HIDE DEF old, L, whole, e
  <2>2. <<p, p>> \in Pairs
    BY DEF Pairs
  <2>3. /\ all \in Seq(Pairs) /\ Len(all) = L + 1 /\ all[L + 1] = <<p, p>>
        /\ \A i \in 1..L : all[i] = old[i]
    BY <1>1, <2>1, <2>2
  <2> HIDE DEF all
  <2>4. ASSUME NEW i \in 1 .. L + 1
        PROVE  all[i] = <<whole[i].packet, whole[i].packet>>
    <3>1. CASE i = L + 1
      BY <1>1, <1>2, <2>3, <3>1
    <3>2. CASE i \in 1..L
      BY <1>2, <2>1, <2>3, <3>2
    <3> QED
      BY <1>1, <3>1, <3>2
  <2> QED
    BY <2>3, <2>4
<1>4. Flushes(whole) /\ WriterInv'
  BY StoreFlushes, WriteStoredKeepsRing DEF e
<1>5. all = old \o <<<<p, p>>>>
  OBVIOUS
<1> HIDE DEF whole, all, L
<1> QED
  BY <1>2, <1>3, <1>4, <1>5, MoveIs

\* Every step that changes the queue or sends something is a move of it.
THEOREM RefinesFifo == WriterSpec => ImplementsFifo
<1>1. WriterInit => Fifo!Init
  BY DEF WriterInit, Fifo!Init, Sent
<1>2. WriterInv /\ [WriterNext]_writerVars => [Fifo!Next]_(Fifo!fifoVars)
  <2> SUFFICES ASSUME WriterInv, [WriterNext]_writerVars
               PROVE  Fifo!Next \/ UNCHANGED Fifo!fifoVars
    OBVIOUS
  <2>1. ASSUME NEW p \in Packets, WriteStored(p) PROVE Fifo!Next
    BY <2>1, StoreMoves DEF Fifo!Next
  <2>2. CASE SendMMsgTimerOnEvent
    BY <2>2, TimerMoves DEF Fifo!Next
  <2>3. ASSUME UNCHANGED <<writes_cache, buffered_writes>>, wire' = <<>>
        PROVE  Fifo!Next
    <3> DEFINE q == Sent(writes_cache, buffered_writes, Len(buffered_writes))
    <3>1. q \in Seq(Pairs)
      <4>1. Ring(writes_cache, writes_cache_pos, buffered_writes)
            /\ Len(buffered_writes) \in 0..Len(buffered_writes)
        BY DEF WriterInv, Ring
      <4> QED
        BY <4>1, SentIs
    <3>2. Sent(writes_cache', buffered_writes', Len(buffered_writes')) = q
      BY <2>3
    <3> HIDE DEF q
    <3>3. q \o <<>> = q /\ SubSeq(q, 1, 0) = <<>> /\ SubSeq(q, 0 + 1, Len(q)) = q /\ 0 \in 0..Len(q)
      BY <3>1
    <3>4. Fifo!Move(<<>>)
      BY <2>3, <3>2, <3>3 DEF Fifo!Move, q
    <3> QED
      BY <3>4 DEF Fifo!Next
  <2>4. ASSUME NEW p \in Packets, WriteRefused(p) PROVE Fifo!Next
    BY <2>3, <2>4 DEF WriteRefused
  <2>5. CASE OnEventEPOLLOUT \/ OnCanWriteReturns \/ KernelTransmits
    BY <2>3, <2>5 DEF OnEventEPOLLOUT, OnCanWriteReturns, KernelTransmits, ringVars
  <2>6. CASE UNCHANGED writerVars
    BY <2>6 DEF writerVars, ringVars, Fifo!fifoVars
  <2> QED
    BY <2>1, <2>2, <2>4, <2>5, <2>6 DEF WriterNext, WritePacket
<1> QED
  BY <1>1, <1>2, WriterInvInit, WriterInvStep, PTL DEF WriterSpec, ImplementsFifo, Fifo!Spec
=============================================================================
