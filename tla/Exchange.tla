------------------------------ MODULE Exchange ------------------------------
(***************************************************************************)
(* One request from StartHttp to the packet with its FIN: Upload, the      *)
(* ResponseRelay and the worker's PacketWriter together, over HTTP/3, where *)
(* all of a response travels in frames of its stream.                      *)
(*                                                                         *)
(* What joins them is outside the sources.  libcurl reads the answer of    *)
(* the request it has sent, and a transfer ends for both sides at once.    *)
(* The connection puts what the stream sends into packets, numbered here   *)
(* in that order; it makes none while the writer is blocked or while it    *)
(* keeps packets the writer refused, which it writes first, oldest first.  *)
(* While OnCanWrite runs, connections write and no other callback runs.    *)
(* The network loses nothing: what QUIC does about loss is its own.        *)
(***************************************************************************)
EXTENDS Integers, Sequences, FiniteSetsExt, Sums, ResponseRelay, PacketWriter

CONSTANTS
  Inputs, Invalid, UploadMax, MaxAttempts  \* see Upload

ASSUME InputsAssumption ==
  \A q \in Inputs : q.body \in Nat /\ q.length \in {-1, q.body}
ASSUME UploadBoundsAssumption == UploadMax \in Nat \ {0} /\ MaxAttempts \in Nat
\* There are packet numbers for every answer, a unit of it in each.
ASSUME PacketsAssumption ==
  \A a \in Answers : 1 .. UnitSumsOver(TRUE, a)[Len(a)] \subseteq Packets

VARIABLES
  request, request_body_pos, easy, phase, attempts, got,  \* see Upload
  frames,   \* packet -> the frame in it: [units, fin]
  arrived   \* packets that have left the worker

U == INSTANCE Upload

uploadVars == <<request, request_body_pos, easy, phase, attempts, got>>
packetVars == <<frames, arrived>>
vars       == <<uploadVars, relayVars, writerVars, packetVars>>

Init ==
  /\ U!Init /\ RelayInit /\ WriterInit
  /\ http3
  /\ frames = <<>> /\ arrived = {}

-----------------------------------------------------------------------------

\* A step of the upload alone.  A request that was given up is over for the
\* stream as well.
Uploads ==
  /\ \/ U!StartHttp \/ U!StartHttpIgnored
     \/ U!CurlSendsHeaders
     \/ \E n \in 1..UploadMax : U!ReadQuicCallback(n)
  /\ UNCHANGED <<relayVars, writerVars, packetVars>>

\* libcurl sends the request again, while nothing has been answered.
SendsAgain ==
  /\ at = 1 /\ transfer = "running"
  /\ U!CurlSendsAgain
  /\ IF phase' = "over" THEN TransferEnds ELSE UNCHANGED relayVars
  /\ UNCHANGED <<writerVars, packetVars>>

\* libcurl makes the next callback of the answer; it may fail the transfer.
\* The origin may answer before it has the whole request.
Answered ==
  /\ phase \in {"sending", "sent"}
  /\ Callbacks
  /\ IF transfer' = "over" THEN U!CurlEnds ELSE UNCHANGED uploadVars
  /\ UNCHANGED <<writerVars, packetVars>>

ExchangeEnds ==
  /\ TransferEnds /\ U!CurlEnds
  /\ UNCHANGED <<writerVars, packetVars>>

-----------------------------------------------------------------------------

\* The packets whose bytes the step gives to the kernel.
Leaving == {wire'[i][1] : i \in 1..Len(wire')}

\* The connection makes a packet of what the stream sends.
SendPacket ==
  /\ held = {}
  /\ \E n \in 0..buffered :
       /\ StreamSends(n)
       /\ frames' = Append(frames, [units |-> n, fin |-> told'])
  /\ WritePacket(Len(frames'))
  /\ arrived' = arrived \cup Leaving
  /\ UNCHANGED uploadVars

\* QuicConnection writes a packet again that the writer refused.
WriteAgain ==
  /\ held # {}
  /\ WritePacket(Min(held))
  /\ arrived' = arrived \cup Leaving
  /\ UNCHANGED <<uploadVars, relayVars, frames>>

\* The timer, EPOLLOUT and the kernel.
WriterStep(A) ==
  /\ A
  /\ arrived' = arrived \cup Leaving
  /\ UNCHANGED <<uploadVars, relayVars, frames>>

\* The units in some packets, of those with the frames fs.
UnitsIn(fs, packets) ==
  PartialSums([p \in 1..Len(fs) |-> IF p \in packets THEN fs[p].units ELSE 0],
              Len(fs))[Len(fs)]

ArrivedUnits == UnitsIn(frames, arrived)

\* The client acknowledges what it has.
Acked ==
  /\ \E n \in 1 .. ArrivedUnits - acked : OnStreamFrameAcked(n)
  /\ UNCHANGED <<uploadVars, writerVars, packetVars>>

Closed ==
  /\ CloseBackendResponseStream
  /\ UNCHANGED <<uploadVars, writerVars, packetVars>>

Next ==
  \/ ~on_can_write /\ (Uploads \/ SendsAgain \/ Answered \/ ExchangeEnds \/ Acked \/ Closed)
  \/ SendPacket \/ WriteAgain
  \/ WriterStep(SendMMsgTimerOnEvent)
  \/ WriterStep(OnEventEPOLLOUT)
  \/ WriterStep(OnCanWriteReturns)
  \/ WriterStep(KernelTransmits)

Spec == Init /\ [][Next]_vars

-----------------------------------------------------------------------------

Frame == [units : Nat \ {0}, fin : BOOLEAN]

\* Every variable has its type, no packet is empty, and no answer runs out of
\* packet numbers.
TypeOK ==
  /\ U!TypeOK /\ RelayTypeOK /\ WriterTypeOK
  /\ frames \in Seq(Frame)
  /\ 1..Len(frames) \subseteq Packets
  /\ arrived \subseteq 1..Len(frames)

FinArrived == \E p \in arrived : frames[p].fin

\* A client that has a FIN has the whole response: however the pieces of the
\* answer fall into packets, and however packets are cached, refused, sent in
\* part and written again, none that came before the FIN is missing
\* (WriteQuicCallback, HttpHeaderCallback, WritePacket, Flush).
FinSaysAll ==
  Understood(answer) /\ FinArrived => Complete /\ ArrivedUnits = Units(answer)

\* What the client's stream lacks is cached or kept: nothing that the stream
\* sent has vanished between the connection and the kernel (WritePacket, Flush).
NoPacketVanishes ==
  \A p \in 1..Len(frames) :
    p \in arrived \cup held \cup {buffered_writes[i].packet : i \in 1..Len(buffered_writes)}

\* A body that was sent is whole and in order, with an answer that may come
\* before all of it is read (ReadQuicCallback; see Upload).
UploadIntact == U!UploadIntact

\* The length the origin was told is the length of what it gets (StartHttp; see
\* Upload).
LengthKept == U!LengthKept

-----------------------------------------------------------------------------
(***************************************************************************)
(* Liveness.  The origin answers or fails, flow control opens, connections *)
(* write what they have, and the loop and the kernel are fair.             *)
(***************************************************************************)

Fairness ==
  /\ WF_vars(~on_can_write /\ Answered)
  /\ WF_vars(SendPacket) /\ WF_vars(WriteAgain)
  /\ WF_vars(WriterStep(SendMMsgTimerOnEvent))
  /\ WF_vars(WriterStep(OnEventEPOLLOUT)) /\ WF_vars(WriterStep(OnCanWriteReturns))
  /\ WF_vars(WriterStep(KernelTransmits))

FairSpec == Spec /\ Fairness

\* A connection is to write a packet again that has left the worker: WritePacket
\* answered "blocked" for a packet that it kept.  As long as the kernel takes one
\* packet at a time, each is a copy of the one before, and the next never comes.
WritesAgainForNothing == held \cap arrived # {}

\* The end of a response with a content-length that the origin delivered reaches
\* the client, unless its stream is gone or nobody tells it (EmptyUntold): it
\* waits for flow control, for a place in the ring, for the timer, for EPOLLOUT,
\* but for nothing that may not come.  Only a connection that from some time on
\* always has such a packet to write again may keep it waiting for ever
\* (WriteQuicCallback, HttpHeaderCallback, WritePacket, SendMMsgTimer::OnEvent).
ResponseArrives ==
  \/ <>[]WritesAgainForNothing
  \/ Complete /\ EndIsKnown(answer) ~> FinArrived \/ strm = "destroyed"
=============================================================================
