--------------------------- MODULE ExchangeProofs ---------------------------
(***************************************************************************)
(* What is proved about the request side of an Exchange for every request, *)
(* however long its body, whatever pieces libcurl reads it in, and         *)
(* whatever the response and the packet writer do meanwhile.               *)
(***************************************************************************)
EXTENDS Exchange, ResponseRelayProofs, PacketWriterProofs

\* The first n bytes of a body.
Prefix(n) == [i \in 1..n |-> i]

\* What libcurl was told of the request.
Told ==
  /\ easy.upload = U!HasUpload(request)
  /\ easy.upload => easy.infilesize = request.body

\* The inductive invariant.  Nothing has been read of a body whose request is
\* still to be sent: a request that is sent again is one of which nothing was.
UploadInv ==
  /\ request \in Inputs
  /\ phase \in {"idle", "connecting", "sending", "sent", "over"}
  /\ phase \in {"idle", "connecting"} => request_body_pos = 0 /\ got = <<>>
  /\ phase \in {"connecting", "sending", "sent"} => Told
  /\ phase = "sending" => easy.upload
  /\ phase \in {"sending", "sent"} =>
       /\ request_body_pos \in 0..request.body
       /\ got = Prefix(request_body_pos)
       /\ ~easy.upload => request_body_pos = 0
  /\ phase = "sent" /\ easy.upload => request_body_pos = request.body

\* The length and the elements of a prefix.
LEMMA PrefixIs ==
  ASSUME NEW n \in Nat
  PROVE  /\ Prefix(n) \in Seq(Nat) /\ Len(Prefix(n)) = n
         /\ \A i \in 1..n : Prefix(n)[i] = i
BY DEF Prefix

\* The next k bytes after the first n make a prefix of n + k.
LEMMA PrefixGrows ==
  ASSUME NEW b \in Nat, NEW n \in 0..b, NEW k \in 0 .. b - n
  PROVE  Prefix(n) \o SubSeq(Prefix(b), n + 1, n + k) = Prefix(n + k)
<1> DEFINE s == Prefix(n)
           t == SubSeq(Prefix(b), n + 1, n + k)
           r == Prefix(n + k)
<1>1. s \in Seq(Nat) /\ Len(s) = n /\ \A i \in 1..n : s[i] = i
  BY PrefixIs
<1>2. t \in Seq(Nat) /\ Len(t) = k /\ \A i \in 1..k : t[i] = n + i
  <2> DEFINE all == Prefix(b)
  <2>1. all \in Seq(Nat) /\ Len(all) = b /\ \A i \in 1..b : all[i] = i
    BY PrefixIs
  <2> HIDE DEF all
  <2>2. /\ SubSeq(all, n + 1, n + k) \in Seq(Nat) /\ Len(SubSeq(all, n + 1, n + k)) = k
        /\ \A i \in 1..k : SubSeq(all, n + 1, n + k)[i] = all[n + i]
    BY <2>1
  <2> QED
    BY <2>1, <2>2 DEF all
<1>3. r \in Seq(Nat) /\ Len(r) = n + k /\ \A i \in 1 .. n + k : r[i] = i
  BY PrefixIs
<1> HIDE DEF s, t, r
<1>4. /\ s \o t \in Seq(Nat) /\ Len(s \o t) = n + k
      /\ \A i \in 1 .. n + k : (s \o t)[i] = IF i <= n THEN s[i] ELSE t[i - n]
  BY <1>1, <1>2, ConcatProperties
<1>5. ASSUME NEW i \in 1 .. n + k PROVE (s \o t)[i] = r[i]
  <2>1. CASE i <= n
    BY <1>1, <1>3, <1>4, <2>1
  <2>2. CASE ~(i <= n)
    <3>1. i - n \in 1..k /\ n + (i - n) = i
      BY <2>2
    <3> QED
      BY <1>2, <1>3, <1>4, <2>2, <3>1
  <2> QED
    BY <2>1, <2>2
<1>6. s \o t = r
  BY <1>3, <1>4, <1>5, SeqEqual
<1> QED
  BY <1>6 DEF s, t, r

-----------------------------------------------------------------------------

\* ReadQuicCallback goes on where it stopped.
LEMMA ReadKeepsUpload ==
  ASSUME UploadInv, NEW size \in 1..UploadMax, U!ReadQuicCallback(size)
  PROVE  UploadInv'
<1> DEFINE b == request.body
           n == request_body_pos
           k == U!Copied(size)
<1>1. /\ phase = "sending" /\ request \in Inputs
      /\ easy.upload /\ easy.infilesize = b /\ Told
      /\ n \in 0..b /\ got = Prefix(n)
  BY DEF UploadInv, U!ReadQuicCallback, Told
<1>2. b \in Nat /\ size \in Nat /\ size > 0 /\ n \in Nat
  BY <1>1, InputsAssumption, UploadBoundsAssumption
<1>3. U!request_body = Prefix(b) /\ Len(U!request_body) = b
  BY <1>1, <1>2, PrefixIs DEF U!request_body, Prefix
<1>4. Len(got) = n /\ n < b
  BY <1>1, <1>2, PrefixIs DEF U!ReadQuicCallback
<1>5. k \in 1 .. b - n
  BY <1>2, <1>3, <1>4 DEF U!Copied
<1>6. got' = Prefix(n + k) /\ request_body_pos' = n + k
  <2>1. got' = Prefix(n) \o SubSeq(Prefix(b), n + 1, n + k) /\ request_body_pos' = n + k
    BY <1>1, <1>3 DEF U!ReadQuicCallback
  <2> HIDE DEF b, n, k
  <2>2. Prefix(n) \o SubSeq(Prefix(b), n + 1, n + k) = Prefix(n + k)
    <3>1. b \in Nat /\ n \in 0..b /\ k \in 0 .. b - n
      BY <1>1, <1>2, <1>5
    <3> QED
      BY <3>1, PrefixGrows
  <2> QED
    BY <2>1, <2>2
<1> HIDE DEF b, k
<1>7. n + k \in 1..b
  BY <1>2, <1>4, <1>5
<1>8. Len(got') = n + k
  BY <1>2, <1>6, <1>7, PrefixIs
<1>9. phase' = IF n + k = b THEN "sent" ELSE "sending"
  <2>1. got' # got
    BY <1>2, <1>4, <1>5, <1>8
  <2> QED
    BY <1>1, <1>8, <2>1 DEF U!ReadQuicCallback
<1>10. UNCHANGED <<request, easy>>
  BY DEF U!ReadQuicCallback
<1> QED
  BY <1>1, <1>6, <1>7, <1>9, <1>10 DEF UploadInv, Told, U!HasUpload, b

\* The other steps of the upload.  A request is sent again only if the origin
\* has got nothing of its body.
LEMMA UploadKeepsUpload ==
  ASSUME UploadInv,
         \/ U!StartHttp \/ U!StartHttpIgnored \/ U!CurlSendsHeaders
         \/ U!CurlSendsAgain \/ U!CurlEnds
  PROVE  UploadInv'
<1>1. CASE U!StartHttp
  BY <1>1 DEF UploadInv, Told, U!StartHttp, U!HasUpload
<1>2. CASE U!StartHttpIgnored \/ U!CurlEnds
  BY <1>2 DEF UploadInv, U!StartHttpIgnored, U!CurlEnds
<1>3. CASE U!CurlSendsHeaders
  <2>1. Prefix(0) = <<>>
    BY DEF Prefix
  <2>2. /\ phase = "connecting" /\ request_body_pos = 0 /\ Told /\ request \in Inputs
        /\ got' = <<>> /\ UNCHANGED <<request, request_body_pos, easy>>
        /\ phase' = IF easy.upload THEN "sending" ELSE "sent"
    BY <1>3 DEF UploadInv, U!CurlSendsHeaders
  <2>3. 0 \in 0..request.body
    BY <2>2, InputsAssumption
  <2> QED
    BY <2>1, <2>2, <2>3 DEF UploadInv, Told, U!HasUpload
<1>4. CASE U!CurlSendsAgain
  <2>1. /\ phase \in {"sending", "sent"} /\ Told /\ request \in Inputs
        /\ request_body_pos \in 0..request.body /\ got = Prefix(request_body_pos)
        /\ phase' = IF got = <<>> THEN "connecting" ELSE "over"
        /\ UNCHANGED <<request, request_body_pos, easy, got>>
    BY <1>4 DEF UploadInv, U!CurlSendsAgain
  <2>2. got = <<>> => request_body_pos = 0
    <3>1. request_body_pos \in Nat
      BY <2>1, InputsAssumption
    <3>2. Len(got) = request_body_pos
      BY <2>1, <3>1, PrefixIs
    <3> QED
      BY <3>2
  <2> QED
    BY <2>1, <2>2 DEF UploadInv, Told, U!HasUpload
<1> QED
  BY <1>1, <1>2, <1>3, <1>4

\* Nothing else of an Exchange touches the upload.
LEMMA UnchangedKeepsUpload == UploadInv /\ UNCHANGED uploadVars => UploadInv'
BY DEF UploadInv, Told, uploadVars, U!HasUpload

\* A request that has not been started has been read nothing of.
LEMMA UploadInvInit == Init => UploadInv
BY DEF Init, UploadInv, U!Init

\* Every step of an Exchange is one of the upload's or leaves it alone.
LEMMA UploadInvStep == UploadInv /\ [Next]_vars => UploadInv'
<1> SUFFICES ASSUME UploadInv, [Next]_vars PROVE UploadInv'
  OBVIOUS
<1>1. CASE Uploads
  BY <1>1, ReadKeepsUpload, UploadKeepsUpload DEF Uploads
<1>2. CASE SendsAgain
  BY <1>2, UploadKeepsUpload DEF SendsAgain
<1>3. CASE Answered
  BY <1>3, UploadKeepsUpload, UnchangedKeepsUpload DEF Answered
<1>4. CASE ExchangeEnds
  BY <1>4, UploadKeepsUpload DEF ExchangeEnds
<1>5. CASE SendPacket \/ WriteAgain \/ Acked \/ Closed
  BY <1>5, UnchangedKeepsUpload DEF SendPacket, WriteAgain, Acked, Closed
<1>6. CASE \/ WriterStep(SendMMsgTimerOnEvent)
           \/ WriterStep(OnEventEPOLLOUT)
           \/ WriterStep(OnCanWriteReturns)
           \/ WriterStep(KernelTransmits)
  BY <1>6, UnchangedKeepsUpload DEF WriterStep
<1>7. CASE UNCHANGED vars
  BY <1>7, UnchangedKeepsUpload DEF vars
<1> QED
  BY <1>1, <1>2, <1>3, <1>4, <1>5, <1>6, <1>7 DEF Next

-----------------------------------------------------------------------------

\* For every request and every size of the pieces: a body that was sent is the
\* client's, although the position in it is never set back.
THEOREM BodyIsIntact == Spec => []UploadIntact
<1>1. UploadInv => UploadIntact
  BY DEF UploadInv, UploadIntact, U!UploadIntact, Prefix
<1> QED
  BY <1>1, UploadInvInit, UploadInvStep, PTL DEF Spec

\* For every request whose body goes with its method: the content-length that
\* was forwarded is the length of what follows.
THEOREM LengthIsKept == Spec => []LengthKept
<1>1. UploadInv => LengthKept
  <2> SUFFICES ASSUME UploadInv, phase = "sent", request.length >= 0,
                      request.method \in {"POST", "PUT", "PATCH"} \/ request.body = 0
               PROVE  Len(got) = request.length
    BY DEF LengthKept, U!LengthKept
  <2>1. request.body \in Nat /\ request.length = request.body
    BY InputsAssumption DEF UploadInv
  <2>2. request_body_pos = request.body
    <3>1. CASE easy.upload
      BY <3>1 DEF UploadInv
    <3>2. CASE ~easy.upload
      <4>1. ~U!HasUpload(request) /\ request_body_pos = 0
        BY <3>2 DEF UploadInv, Told
      <4> QED
        BY <2>1, <4>1 DEF U!HasUpload
    <3> QED
      BY <3>1, <3>2
  <2> QED
    BY <2>1, <2>2, PrefixIs DEF UploadInv
<1> QED
  BY <1>1, UploadInvInit, UploadInvStep, PTL DEF Spec
-----------------------------------------------------------------------------
(***************************************************************************)
(* The response.  Relay and writer take only their own steps, so that what *)
(* is proved of them holds here; what has to be added is which packets     *)
(* there are and the order in which they leave.                            *)
(***************************************************************************)

Numbers == 1..Len(frames)

\* Frames hold what the stream has sent, and the last of them its FIN.
FramesInv ==
  /\ http3
  /\ frames \in Seq(Frame)
  /\ Len(frames) <= unacked + acked
  /\ UnitsIn(frames, Numbers) = unacked + acked
  /\ \A p \in Numbers : frames[p].fin => p = Len(frames) /\ told
  /\ fin_buffered /\ ~write_closed => buffered > 0
  /\ told => write_closed /\ fin_buffered

\* The units in the packets of a set are a natural number.
LEMMA UnitsInNat ==
  ASSUME NEW fs \in Seq(Frame), NEW packets
  PROVE  UnitsIn(fs, packets) \in Nat
<1> DEFINE v == [p \in 1..Len(fs) |-> IF p \in packets THEN fs[p].units ELSE 0]
           n == Len(fs)
<1>1. n \in Nat /\ n \in 0..n
  OBVIOUS
<1>2. ASSUME NEW p \in 1..n PROVE v[p] \in Nat
  <2>1. fs[p] \in Frame
    OBVIOUS
  <2> QED
    BY <2>1 DEF Frame
<1>3. UnitsIn(fs, packets) = PartialSums(v, n)[n]
  BY DEF UnitsIn
<1> HIDE DEF v, n
<1> QED
  BY <1>1, <1>2, <1>3, PartialSumsNat

\* A new frame adds its units.
LEMMA UnitsInAppend ==
  ASSUME NEW fs \in Seq(Frame), NEW f \in Frame
  PROVE  UnitsIn(Append(fs, f), 1..Len(Append(fs, f))) = UnitsIn(fs, 1..Len(fs)) + f.units
<1> DEFINE n  == Len(fs)
           gs == Append(fs, f)
           v  == [p \in 1..n |-> IF p \in 1..n THEN fs[p].units ELSE 0]
           w  == [p \in 1..Len(gs) |-> IF p \in 1..Len(gs) THEN gs[p].units ELSE 0]
<1>1. n \in Nat /\ n + 1 \in Nat /\ Len(gs) = n + 1 /\ gs[n + 1] = f
      /\ \A p \in 1..n : gs[p] = fs[p]
  OBVIOUS
<1>2. UnitsIn(fs, 1..n) = PartialSums(v, n)[n]
  BY DEF UnitsIn
<1>3. UnitsIn(gs, 1..Len(gs)) = PartialSums(w, n + 1)[n + 1]
  BY <1>1 DEF UnitsIn
<1> HIDE DEF gs, n
<1>4. \A p \in 1..n : v[p] = w[p]
  BY <1>1
<1>5. w[n + 1] = f.units
  BY <1>1
<1> HIDE DEF v, w
<1>6. PartialSums(v, n)[n] = PartialSums(w, n + 1)[n]
  BY <1>1, <1>4, PartialSumsAgree
<1>7. PartialSums(w, n + 1)[n + 1] = PartialSums(w, n + 1)[(n + 1) - 1] + w[n + 1]
  BY <1>1, PartialSumsDef
<1>8. (n + 1) - 1 = n
  BY <1>1
<1> QED
  BY <1>2, <1>3, <1>5, <1>6, <1>7, <1>8 DEF gs, n

\* Every step of an Exchange is one of the relay's or leaves it alone.
LEMMA RelaySteps ==
  ASSUME FramesInv, RelayInv, [Next]_vars
  PROVE  [RelayNext]_relayVars
<1>1. CASE Uploads \/ WriteAgain
  BY <1>1 DEF Uploads, WriteAgain
<1>2. CASE SendsAgain
  BY <1>2 DEF SendsAgain, RelayNext
<1>3. CASE Answered \/ ExchangeEnds \/ Closed
  BY <1>3 DEF Answered, ExchangeEnds, Closed, RelayNext
<1>4. CASE SendPacket
  BY <1>4 DEF SendPacket, RelayNext
<1>5. CASE Acked
  <2>1. PICK n \in 1 .. ArrivedUnits - acked : OnStreamFrameAcked(n)
    BY <1>5 DEF Acked
  <2>2. ArrivedUnits \in Nat /\ acked \in Nat /\ unacked \in Nat
    BY UnitsInNat DEF FramesInv, ArrivedUnits, RelayInv, RelayTypeOK
  <2>3. n \in 1..unacked
    BY <2>1, <2>2 DEF OnStreamFrameAcked
  <2> QED
    BY <2>1, <2>3 DEF RelayNext
<1>6. CASE \/ WriterStep(SendMMsgTimerOnEvent)
           \/ WriterStep(OnEventEPOLLOUT)
           \/ WriterStep(OnCanWriteReturns)
           \/ WriterStep(KernelTransmits)
  BY <1>6 DEF WriterStep
<1>7. CASE UNCHANGED vars
  BY <1>7 DEF vars
<1> QED
  BY <1>1, <1>2, <1>3, <1>4, <1>5, <1>6, <1>7 DEF Next

\* A callback puts units into the stream, at least one with a FIN, and nothing
\* on the wire.
LEMMA CallbacksKeepFrames ==
  ASSUME FramesInv, RelayInv, Callbacks, UNCHANGED packetVars
  PROVE  FramesInv'
<1>1. UNCHANGED <<http3, frames, unacked, acked, told>>
  BY DEF FramesInv, packetVars, Callbacks, HeaderLine, BadStatusLine, EndOfHeaders,
     WriteQuicCallback, CallbackWithoutStream, streamVars, WriteHeaders, StreamTakes
<1>2. ASSUME NEW n \in Nat \ {0}, NEW fin, StreamTakes(n, fin)
      PROVE  /\ fin_buffered' /\ ~write_closed' => buffered' > 0
             /\ told' => write_closed' /\ fin_buffered'
  <2>1. CASE fin_buffered \/ write_closed
    <3>1. UNCHANGED <<buffered, fin_buffered, write_closed, told>>
      BY <1>2, <2>1 DEF StreamTakes
    <3> QED
      BY <3>1 DEF FramesInv
  <2>2. CASE ~(fin_buffered \/ write_closed)
    <3>1. buffered' = buffered + n /\ UNCHANGED told
      BY <1>2, <2>2 DEF StreamTakes
    <3>2. buffered \in Nat
      BY DEF RelayInv, RelayTypeOK
    <3>3. buffered' > 0
      BY <3>1, <3>2
    <3> QED
      BY <2>2, <3>1, <3>3 DEF FramesInv
  <2> QED
    BY <2>1, <2>2
<1>3. /\ fin_buffered' /\ ~write_closed' => buffered' > 0
      /\ told' => write_closed' /\ fin_buffered'
  <2>1. CASE EndOfHeaders
    <3>1. StreamTakes(1, HeadersFin(content_length'))
      BY <2>1 DEF EndOfHeaders, WriteHeaders, FramesInv
    <3> QED
      BY <1>2, <3>1
  <2>2. CASE WriteQuicCallback
    <3>1. StreamTakes(answer[at].value, had_send_length' = content_length)
      BY <2>2 DEF WriteQuicCallback
    <3>2. answer[at].value \in Nat \ {0}
      <4>1. WellFormed(answer) /\ Len(answer) \in Nat /\ at \in 1..Len(answer) + 1
        BY AnswersAssumption DEF RelayInv, RelayTypeOK, WellFormed
      <4>2. at \in 1..Len(answer) /\ answer[at].kind = "body"
        BY <2>2, <4>1 DEF WriteQuicCallback, Delivers, Complete
      <4> QED
        BY <4>1, <4>2 DEF WellFormed
    <3> QED
      BY <1>2, <3>1, <3>2
  <2>3. CASE HeaderLine \/ BadStatusLine \/ CallbackWithoutStream
    <3>1. UNCHANGED <<buffered, fin_buffered, write_closed, told>>
      BY <2>3 DEF HeaderLine, BadStatusLine, CallbackWithoutStream, streamVars
    <3> QED
      BY <3>1 DEF FramesInv
  <2> QED
    BY <2>1, <2>2, <2>3 DEF Callbacks
<1> QED
  BY <1>1, <1>3 DEF FramesInv, Numbers

\* A packet holds at least one unit, and the FIN only with the last.
LEMMA SendKeepsFrames ==
  ASSUME FramesInv, RelayInv, NEW n \in 0..buffered, StreamSends(n),
         frames' = Append(frames, [units |-> n, fin |-> told'])
  PROVE  FramesInv'
<1> DEFINE f == [units |-> n, fin |-> told']
<1>1. buffered \in Nat /\ unacked \in Nat /\ acked \in Nat
      /\ fin_buffered \in BOOLEAN /\ told \in BOOLEAN
  BY DEF RelayInv, RelayTypeOK
<1>2. n \in Nat \ {0} /\ ~write_closed /\ ~told
  BY <1>1 DEF FramesInv, StreamSends
<1>3. /\ buffered' = buffered - n /\ unacked' = unacked + n
      /\ UNCHANGED <<http3, acked, fin_buffered>>
      /\ told' = (fin_buffered /\ buffered' = 0) /\ write_closed' = told'
  BY DEF StreamSends
<1>4. f \in Frame /\ f.units = n /\ f.fin = told'
  <2>1. told' \in BOOLEAN
    BY <1>3
  <2> QED
    BY <1>2, <2>1 DEF Frame
<1> HIDE DEF f
<1>5. frames \in Seq(Frame) /\ Len(frames) \in Nat /\ frames' = Append(frames, f)
  BY DEF FramesInv, f
<1>6. /\ frames' \in Seq(Frame) /\ Len(frames') = Len(frames) + 1
      /\ frames'[Len(frames) + 1] = f
      /\ \A p \in 1..Len(frames) : frames'[p] = frames[p]
  BY <1>4, <1>5
<1>7. Len(frames') <= unacked' + acked'
  BY <1>1, <1>2, <1>3, <1>5, <1>6 DEF FramesInv
<1>8. UnitsIn(frames', Numbers') = unacked' + acked'
  <2>1. UnitsIn(frames', 1..Len(frames')) = UnitsIn(frames, 1..Len(frames)) + n
    BY <1>4, <1>5, UnitsInAppend
  <2> QED
    BY <1>1, <1>2, <1>3, <2>1 DEF FramesInv, Numbers
<1>9. ASSUME NEW p \in 1..Len(frames'), frames'[p].fin
      PROVE  p = Len(frames') /\ told'
  <2>1. CASE p \in 1..Len(frames)
    BY <1>2, <1>6, <1>9, <2>1 DEF FramesInv, Numbers
  <2>2. CASE p = Len(frames')
    BY <1>4, <1>6, <1>9, <2>2
  <2> QED
    BY <1>5, <1>6, <2>1, <2>2
<1>10. fin_buffered' /\ ~write_closed' => buffered' > 0
  <2>1. buffered' \in Nat
    BY <1>1, <1>3
  <2>2. fin_buffered' /\ ~write_closed' => buffered' # 0
    BY <1>3
  <2> QED
    BY <2>1, <2>2
<1>11. told' => write_closed' /\ fin_buffered'
  BY <1>3
<1> QED
  BY <1>3, <1>6, <1>7, <1>8, <1>9, <1>10, <1>11 DEF FramesInv, Numbers

\* Every step keeps FramesInv.
LEMMA StepFramesInv ==
  ASSUME FramesInv, RelayInv, [Next]_vars
  PROVE  FramesInv'
<1>1. ASSUME UNCHANGED <<relayVars, frames>>
      PROVE  FramesInv'
  <2>1. UNCHANGED <<http3, frames, buffered, unacked, acked, fin_buffered, write_closed, told>>
    BY <1>1 DEF relayVars, streamVars
  <2> QED
    BY <2>1 DEF FramesInv, Numbers
<1>2. ASSUME TransferEnds \/ CloseBackendResponseStream, UNCHANGED packetVars
      PROVE  FramesInv'
  <2>1. UNCHANGED <<http3, frames, buffered, unacked, acked, fin_buffered, write_closed, told>>
    BY <1>2 DEF TransferEnds, CloseBackendResponseStream, packetVars, streamVars
  <2> QED
    BY <2>1 DEF FramesInv, Numbers
<1>3. CASE SendsAgain \/ ExchangeEnds \/ Closed
  BY <1>1, <1>2, <1>3 DEF SendsAgain, ExchangeEnds, Closed, packetVars
<1>4. CASE Answered
  BY <1>4, CallbacksKeepFrames DEF Answered
<1>5. CASE SendPacket
  BY <1>5, SendKeepsFrames DEF SendPacket
<1>6. CASE Acked
  <2>1. PICK n \in 1 .. ArrivedUnits - acked : OnStreamFrameAcked(n)
    BY <1>6 DEF Acked
  <2>2. ArrivedUnits \in Nat /\ acked \in Nat /\ unacked \in Nat
    BY UnitsInNat DEF FramesInv, ArrivedUnits, RelayInv, RelayTypeOK
  <2>3. unacked' + acked' = unacked + acked
    BY <2>1, <2>2 DEF OnStreamFrameAcked
  <2>4. UNCHANGED <<http3, frames, buffered, fin_buffered, told>>
    BY <1>6, <2>1 DEF OnStreamFrameAcked, Acked, packetVars
  <2>5. write_closed => write_closed'
    BY <2>1 DEF OnStreamFrameAcked
  <2> QED
    BY <2>3, <2>4, <2>5 DEF FramesInv, Numbers
<1>7. CASE \/ Uploads \/ WriteAgain
           \/ WriterStep(SendMMsgTimerOnEvent)
           \/ WriterStep(OnEventEPOLLOUT)
           \/ WriterStep(OnCanWriteReturns)
           \/ WriterStep(KernelTransmits)
  BY <1>1, <1>7 DEF Uploads, WriteAgain, WriterStep, packetVars
<1>8. CASE UNCHANGED vars
  BY <1>1, <1>8 DEF vars, packetVars
<1> QED
  BY <1>3, <1>4, <1>5, <1>6, <1>7, <1>8 DEF Next

-----------------------------------------------------------------------------
(***************************************************************************)
(* The order in which packets leave.  A packet that is written again is    *)
(* the last that was made, so the ring never holds one whose predecessors  *)
(* are not gone or before it.                                              *)
(***************************************************************************)

PacketsOf(buf) == {buf[i].packet : i \in 1..Len(buf)}

\* All packets before one that has left have left, and all before one that is
\* buffered have left or are buffered before it.
InOrder(gone, buf) ==
  /\ \A p \in gone : \A q \in 1..p : q \in gone
  /\ \A i \in 1..Len(buf) : \A q \in 1..buf[i].packet :
       q \in gone \/ \E j \in 1..i : buf[j].packet = q

\* Of the packets only the last may be kept by its connection.
OrderInv ==
  /\ arrived \subseteq Numbers
  /\ held \subseteq Numbers \cap {Len(frames)}
  /\ PacketsOf(buffered_writes) \subseteq Numbers
  /\ InOrder(arrived, buffered_writes)
  /\ NoPacketVanishes

\* Flushing moves packets from the ring to the client, and keeps their order.
LEMMA FlushKeepsOrder ==
  ASSUME NEW whole \in Seq(Entry), Flushes(whole), InOrder(arrived, whole),
         arrived' = arrived \cup Leaving
  PROVE  /\ InOrder(arrived', buffered_writes')
         /\ arrived' \cup PacketsOf(buffered_writes') = arrived \cup PacketsOf(whole)
<1>1. PICK n \in 0..Len(whole) :
        /\ Len(wire') = n
        /\ \A i \in 1..n : wire'[i] = <<whole[i].packet, whole[i].packet>>
        /\ Len(buffered_writes') = Len(whole) - n
        /\ \A i \in 1 .. Len(whole) - n : buffered_writes'[i] = whole[i + n]
  BY DEF Flushes
<1> DEFINE L   == Len(whole)
           buf == buffered_writes'
<1>2. L \in Nat /\ n \in 0..L /\ Len(buf) = L - n
  BY <1>1
<1>3. arrived' = arrived \cup {whole[i].packet : i \in 1..n}
  <2>1. \A i \in 1..n : wire'[i][1] = whole[i].packet
    BY <1>1
  <2>2. Leaving = {wire'[i][1] : i \in 1..n}
    BY <1>1 DEF Leaving
  <2>3. {wire'[i][1] : i \in 1..n} = {whole[i].packet : i \in 1..n}
    BY <2>1
  <2> QED
    BY <2>2, <2>3
<1>4. \A i \in 1 .. L - n : buf[i] = whole[i + n] /\ i + n \in 1..L
  BY <1>1, <1>2
<1>5. \A j \in n + 1 .. L : j - n \in 1 .. L - n /\ buf[j - n] = whole[j]
  <2> SUFFICES ASSUME NEW j \in n + 1 .. L
               PROVE  j - n \in 1 .. L - n /\ buf[j - n] = whole[j]
    OBVIOUS
  <2>1. j - n \in 1 .. L - n /\ (j - n) + n = j
    BY <1>2
  <2> QED
    BY <1>4, <2>1
<1> HIDE DEF L, buf
<1>6. ASSUME NEW p \in arrived', NEW q \in 1..p
      PROVE  q \in arrived'
  <2>1. CASE p \in arrived
    BY <1>3, <1>6, <2>1 DEF InOrder
  <2>2. ASSUME NEW i \in 1..n, p = whole[i].packet
        PROVE  q \in arrived'
    <3>1. i \in 1..L
      BY <1>2
    <3>2. q \in arrived \/ \E j \in 1..i : whole[j].packet = q
      BY <1>6, <2>2, <3>1 DEF InOrder, L
    <3>3. \A j \in 1..i : j \in 1..n
      BY <1>2
    <3> QED
      BY <1>3, <3>2, <3>3
  <2> QED
    BY <1>3, <1>6, <2>1, <2>2
<1>7. ASSUME NEW i \in 1 .. L - n, NEW q \in 1..buf[i].packet
      PROVE  q \in arrived' \/ \E j \in 1..i : buf[j].packet = q
  <2>1. buf[i] = whole[i + n] /\ i + n \in 1..L
    BY <1>4
  <2>2. q \in arrived \/ \E j \in 1 .. i + n : whole[j].packet = q
    BY <1>7, <2>1 DEF InOrder, L
  <2>3. ASSUME NEW j \in 1 .. i + n, whole[j].packet = q
        PROVE  q \in arrived' \/ \E k \in 1..i : buf[k].packet = q
    <3>1. CASE j \in 1..n
      BY <1>3, <2>3, <3>1
    <3>2. CASE j \in n + 1 .. L
      <4>1. j - n \in 1..i
        BY <1>2, <2>3, <3>2
      <4>2. buf[j - n].packet = q
        BY <1>5, <2>3, <3>2
      <4> QED
        BY <4>1, <4>2
    <3> QED
      BY <1>2, <2>1, <3>1, <3>2
  <2> QED
    BY <1>3, <2>2, <2>3
<1>8. InOrder(arrived', buf)
  BY <1>2, <1>6, <1>7 DEF InOrder
<1>9. ASSUME NEW p \in PacketsOf(whole)
      PROVE  p \in arrived' \cup PacketsOf(buf)
  <2>1. PICK i \in 1..L : whole[i].packet = p
    BY DEF PacketsOf, L
  <2>2. CASE i \in 1..n
    BY <1>3, <2>1, <2>2
  <2>3. CASE i \in n + 1 .. L
    <3>1. i - n \in 1..Len(buf) /\ buf[i - n].packet = p
      BY <1>2, <1>5, <2>1, <2>3
    <3> QED
      BY <3>1 DEF PacketsOf
  <2> QED
    BY <1>2, <2>2, <2>3
<1>10. ASSUME NEW p \in PacketsOf(buf)
       PROVE  p \in PacketsOf(whole)
  <2>1. PICK i \in 1 .. L - n : buf[i].packet = p
    BY <1>2 DEF PacketsOf
  <2> QED
    BY <1>4, <2>1 DEF PacketsOf, L
<1>11. ASSUME NEW p \in arrived'
       PROVE  p \in arrived \cup PacketsOf(whole)
  <2>1. ASSUME NEW i \in 1..n PROVE whole[i].packet \in PacketsOf(whole)
    <3>1. i \in 1..L
      BY <1>2
    <3> QED
      BY <3>1 DEF PacketsOf, L
  <2> QED
    BY <1>3, <1>11, <2>1
<1>12. arrived' \cup PacketsOf(buf) = arrived \cup PacketsOf(whole)
  BY <1>3, <1>9, <1>10, <1>11
<1> QED
  BY <1>8, <1>12 DEF buf

\* A flush of the ring as it is.
LEMMA FlushKeepsOrderInv ==
  ASSUME WriterInv, OrderInv, Flushes(buffered_writes), arrived' = arrived \cup Leaving,
         UNCHANGED <<frames, held>>
  PROVE  OrderInv'
<1>1. buffered_writes \in Seq(Entry)
  BY DEF WriterInv, Ring
<1>2. /\ InOrder(arrived', buffered_writes')
      /\ arrived' \cup PacketsOf(buffered_writes') = arrived \cup PacketsOf(buffered_writes)
  BY <1>1, FlushKeepsOrder DEF OrderInv
<1>3. NoPacketVanishes'
  <2>1. \A p \in Numbers : p \in arrived \cup held \cup PacketsOf(buffered_writes)
    BY DEF OrderInv, NoPacketVanishes, Numbers, PacketsOf
  <2>2. \A p \in Numbers : p \in arrived' \cup held \cup PacketsOf(buffered_writes')
    BY <1>2, <2>1
  <2> QED
    BY <2>2 DEF NoPacketVanishes, Numbers, PacketsOf
<1> QED
  BY <1>2, <1>3 DEF OrderInv, Numbers

\* Nothing is written.
LEMMA QuietKeepsOrder ==
  ASSUME OrderInv, arrived' = arrived \cup Leaving, wire' = <<>>,
         UNCHANGED <<frames, held, buffered_writes>>
  PROVE  OrderInv'
<1>1. Leaving = {}
  BY DEF Leaving
<1>2. arrived' = arrived
  BY <1>1
<1>3. InOrder(arrived', buffered_writes') /\ PacketsOf(buffered_writes') = PacketsOf(buffered_writes)
  BY <1>2 DEF OrderInv
<1>4. NoPacketVanishes'
  BY <1>2 DEF OrderInv, NoPacketVanishes
<1>5. Numbers' = Numbers
  BY DEF Numbers
<1> QED
  BY <1>2, <1>3, <1>4, <1>5 DEF OrderInv

\* A write of packet p, the last one, when those before it have left or are
\* buffered: p is kept or joins them.
LEMMA WriteKeepsOrder ==
  ASSUME WriterInv, OrderInv, NEW p \in Nat \ {0}, p \in Packets, WritePacket(p),
         arrived' = arrived \cup Leaving,
         Len(frames') = p, Len(frames) \in Nat, Len(frames) <= p,
         held \subseteq {p},
         \A q \in 1..p : q = p \/ q \in arrived \cup PacketsOf(buffered_writes)
  PROVE  OrderInv'
<1>1. Numbers' = 1..p /\ Numbers \subseteq 1..p /\ p \in 1..p
  BY DEF Numbers
<1>2. CASE WriteRefused(p)
  <2>1. held' = {p} /\ wire' = <<>> /\ buffered_writes' = buffered_writes
    BY <1>2 DEF WriteRefused
  <2>2. arrived' = arrived
    BY <2>1 DEF Leaving
  <2>3. NoPacketVanishes'
    BY <1>1, <2>1, <2>2 DEF NoPacketVanishes, Numbers, PacketsOf
  <2>4. InOrder(arrived', buffered_writes')
    BY <2>1, <2>2 DEF OrderInv
  <2>5. PacketsOf(buffered_writes') = PacketsOf(buffered_writes)
    BY <2>1
  <2>6. arrived' \subseteq 1..p /\ PacketsOf(buffered_writes') \subseteq 1..p
    BY <1>1, <2>2, <2>5 DEF OrderInv
  <2> QED
    BY <1>1, <2>1, <2>3, <2>4, <2>6 DEF OrderInv
<1>3. CASE WriteStored(p)
  <2> DEFINE e     == NewEntry(p)
             whole == Append(buffered_writes, e)
             L     == Len(buffered_writes)
  <2>1. e \in Entry /\ e.packet = p
    BY NewEntryIs
  <2>2. buffered_writes \in Seq(Entry) /\ L \in Nat
    BY DEF WriterInv, Ring
  <2>3. Flushes(whole)
    BY <1>3, StoreFlushes
  <2> HIDE DEF e
  <2>4. whole \in Seq(Entry) /\ Len(whole) = L + 1 /\ whole[L + 1] = e
        /\ \A i \in 1..L : whole[i] = buffered_writes[i]
    BY <2>1, <2>2
  <2> HIDE DEF whole, L
  <2>5. InOrder(arrived, whole)
    <3>1. ASSUME NEW i \in 1..L, NEW q \in 1..whole[i].packet
          PROVE  q \in arrived \/ \E j \in 1..i : whole[j].packet = q
      <4>1. whole[i] = buffered_writes[i]
        BY <2>4
      <4>2. q \in arrived \/ \E j \in 1..i : buffered_writes[j].packet = q
        BY <3>1, <4>1 DEF OrderInv, InOrder, L
      <4>3. \A j \in 1..i : j \in 1..L
        BY <2>2
      <4> QED
        BY <2>4, <4>2, <4>3
    <3>2. ASSUME NEW q \in 1..p
          PROVE  q \in arrived \/ \E j \in 1 .. L + 1 : whole[j].packet = q
      <4>1. CASE q = p
        BY <2>1, <2>2, <2>4, <4>1
      <4>2. CASE q \in PacketsOf(buffered_writes)
        <5>1. PICK j \in 1..L : buffered_writes[j].packet = q
          BY <4>2 DEF PacketsOf, L
        <5>2. j \in 1 .. L + 1 /\ whole[j].packet = q
          BY <2>2, <2>4, <5>1
        <5> QED
          BY <5>2
      <4> QED
        BY <3>2, <4>1, <4>2
    <3>3. ASSUME NEW i \in 1 .. L + 1, NEW q \in 1..whole[i].packet
          PROVE  q \in arrived \/ \E j \in 1..i : whole[j].packet = q
      <4>1. CASE i \in 1..L
        BY <3>1, <3>3, <4>1
      <4>2. CASE i = L + 1
        BY <2>1, <2>4, <3>2, <3>3, <4>2
      <4> QED
        BY <2>2, <4>1, <4>2
    <3> QED
      BY <2>4, <3>3 DEF OrderInv, InOrder
  <2>6. PacketsOf(whole) = PacketsOf(buffered_writes) \cup {p}
    <3>1. ASSUME NEW q \in PacketsOf(whole)
          PROVE  q \in PacketsOf(buffered_writes) \cup {p}
      <4>1. PICK i \in 1 .. L + 1 : whole[i].packet = q
        BY <2>4 DEF PacketsOf
      <4>2. CASE i \in 1..L
        BY <2>4, <4>1, <4>2 DEF PacketsOf, L
      <4>3. CASE i = L + 1
        BY <2>1, <2>4, <4>1, <4>3
      <4> QED
        BY <2>2, <4>2, <4>3
    <3>2. ASSUME NEW q \in PacketsOf(buffered_writes)
          PROVE  q \in PacketsOf(whole)
      <4>1. PICK i \in 1..L : buffered_writes[i].packet = q
        BY DEF PacketsOf, L
      <4>2. i \in 1..Len(whole) /\ whole[i].packet = q
        BY <2>2, <2>4, <4>1
      <4> QED
        BY <4>2 DEF PacketsOf
    <3>3. p \in PacketsOf(whole)
      <4>1. L + 1 \in 1..Len(whole) /\ whole[L + 1].packet = p
        BY <2>1, <2>2, <2>4
      <4> QED
        BY <4>1 DEF PacketsOf
    <3> QED
      BY <3>1, <3>2, <3>3
  <2>7. /\ InOrder(arrived', buffered_writes')
        /\ arrived' \cup PacketsOf(buffered_writes')
             = arrived \cup PacketsOf(buffered_writes) \cup {p}
    BY <2>3, <2>4, <2>5, <2>6, FlushKeepsOrder
  <2>8. held' \subseteq {p}
    BY <1>3 DEF WriteStored
  <2>9. NoPacketVanishes'
    <3>1. \A q \in 1..p : q \in arrived' \cup PacketsOf(buffered_writes')
      BY <2>7
    <3> QED
      BY <1>1, <3>1 DEF NoPacketVanishes, Numbers, PacketsOf
  <2>10. arrived' \subseteq 1..p /\ PacketsOf(buffered_writes') \subseteq 1..p
    BY <1>1, <2>7 DEF OrderInv
  <2> QED
    BY <1>1, <2>7, <2>8, <2>9, <2>10 DEF OrderInv
<1> QED
  BY <1>2, <1>3 DEF WritePacket

-----------------------------------------------------------------------------
(***************************************************************************)
(* The whole of an Exchange.                                               *)
(***************************************************************************)

ExchangeInv ==
  /\ U!TypeOK /\ UploadInv
  /\ RelayInv /\ WriterInv
  /\ FramesInv /\ OrderInv

\* What the upload has read and sent has its type.
LEMMA StepUploadType ==
  ASSUME U!TypeOK, UploadInv', [Next]_vars
  PROVE  U!TypeOK'
<1>1. ASSUME UNCHANGED uploadVars
      PROVE  U!TypeOK'
  BY <1>1 DEF uploadVars, U!TypeOK
<1>2. CASE U!StartHttp
  <2>1. U!HasUpload(request) \in BOOLEAN /\ request.body \in Nat
    BY InputsAssumption DEF U!HasUpload, U!TypeOK
  <2> QED
    BY <1>2, <2>1 DEF U!StartHttp, U!TypeOK
<1>3. CASE U!StartHttpIgnored \/ U!CurlEnds
  BY <1>3 DEF U!StartHttpIgnored, U!CurlEnds, U!TypeOK
<1>4. CASE U!CurlSendsHeaders
  <2>1. attempts' \in 0..MaxAttempts
    BY <1>4, UploadBoundsAssumption DEF U!CurlSendsHeaders, U!TypeOK
  <2> QED
    BY <1>4, <2>1 DEF U!CurlSendsHeaders, U!TypeOK
<1>5. CASE U!CurlSendsAgain
  BY <1>5 DEF U!CurlSendsAgain, U!TypeOK
<1>6. ASSUME NEW n \in 1..UploadMax, U!ReadQuicCallback(n)
      PROVE  U!TypeOK'
  <2>1. phase' \in {"sending", "sent"} /\ UNCHANGED <<request, easy, attempts>>
    BY <1>6 DEF U!ReadQuicCallback
  <2>2. request' \in Inputs /\ request'.body \in Nat
    BY <2>1, InputsAssumption DEF U!TypeOK
  <2>3. request_body_pos' \in 0..request'.body /\ got' = Prefix(request_body_pos')
    BY <2>1 DEF UploadInv
  <2>4. request_body_pos' \in Nat
    BY <2>2, <2>3
  <2>5. got' \in Seq(Nat)
    BY <2>3, <2>4, PrefixIs
  <2> QED
    BY <2>1, <2>4, <2>5 DEF U!TypeOK
<1>7. CASE Uploads \/ SendsAgain \/ Answered \/ ExchangeEnds
  BY <1>1, <1>2, <1>3, <1>4, <1>5, <1>6, <1>7 DEF Uploads, SendsAgain, Answered, ExchangeEnds
<1>8. CASE SendPacket \/ WriteAgain \/ Acked \/ Closed
  BY <1>1, <1>8 DEF SendPacket, WriteAgain, Acked, Closed
<1>9. CASE \/ WriterStep(SendMMsgTimerOnEvent)
           \/ WriterStep(OnEventEPOLLOUT)
           \/ WriterStep(OnCanWriteReturns)
           \/ WriterStep(KernelTransmits)
  BY <1>1, <1>9 DEF WriterStep
<1>10. CASE UNCHANGED vars
  BY <1>1, <1>10 DEF vars
<1> QED
  BY <1>7, <1>8, <1>9, <1>10 DEF Next

\* As many packets as the answer has units have numbers.
LEMMA NumbersSuffice ==
  ASSUME FramesInv, RelayInv, NEW n \in Nat, n <= buffered + unacked + acked
  PROVE  1..n \subseteq Packets
<1>1. answer \in Answers /\ WellFormed(answer) /\ Len(answer) \in Nat
      /\ at \in 1..Len(answer) + 1
  BY AnswersAssumption DEF RelayInv, RelayTypeOK, WellFormed
<1>2. at - 1 \in 0..Len(answer) /\ Len(answer) \in 0..Len(answer)
  BY <1>1
<1> DEFINE sums == UnitSums(answer)
<1>3. sums[at - 1] <= sums[Len(answer)] /\ sums[at - 1] \in Nat /\ sums[Len(answer)] \in Nat
  BY <1>1, <1>2, UnitSumsStep
<1>4. buffered + unacked + acked <= sums[at - 1]
      /\ buffered \in Nat /\ unacked \in Nat /\ acked \in Nat
  BY DEF RelayInv, RelayTypeOK, UnitsBounded
<1>5. sums = UnitSumsOver(TRUE, answer)
  <2>1. http3 = TRUE
    BY DEF FramesInv, RelayInv, RelayTypeOK
  <2> QED
    BY <2>1 DEF UnitSums
<1> HIDE DEF sums
<1>6. n <= sums[Len(answer)]
  BY <1>3, <1>4
<1>7. 1..sums[Len(answer)] \subseteq Packets
  BY <1>1, <1>5, PacketsAssumption
<1> QED
  BY <1>3, <1>6, <1>7

\* The packet a connection writes: the one it has made, or the one it keeps.
LEMMA WrittenIs ==
  ASSUME ExchangeInv, FramesInv', SendPacket \/ WriteAgain
  PROVE  /\ WritePacket(Len(frames')) /\ Len(frames') \in Nat \ {0} /\ Len(frames') \in Packets
         /\ arrived' = arrived \cup Leaving
         /\ Len(frames) \in Nat /\ Len(frames) <= Len(frames')
         /\ held \subseteq {Len(frames')}
         /\ \A q \in 1..Len(frames') :
              q = Len(frames') \/ q \in arrived \cup PacketsOf(buffered_writes)
<1>1. frames \in Seq(Frame) /\ Len(frames) \in Nat
  BY DEF ExchangeInv, FramesInv
<1>2. \A q \in Numbers : q \in arrived \cup held \cup PacketsOf(buffered_writes)
  BY DEF ExchangeInv, OrderInv, NoPacketVanishes, Numbers, PacketsOf
<1>3. CASE SendPacket
  <2>1. PICK n \in 0..buffered :
          StreamSends(n) /\ frames' = Append(frames, [units |-> n, fin |-> told'])
    BY <1>3 DEF SendPacket
  <2>2. WritePacket(Len(frames')) /\ arrived' = arrived \cup Leaving /\ held = {}
    BY <1>3 DEF SendPacket
  <2>3. Len(frames') = Len(frames) + 1
    BY <1>1, <2>1
  <2>4. Len(frames') <= buffered + unacked + acked
    <3>1. buffered \in Nat /\ unacked \in Nat /\ acked \in Nat
      BY DEF ExchangeInv, RelayInv, RelayTypeOK
    <3>2. unacked' = unacked + n /\ acked' = acked
      BY <2>1 DEF StreamSends
    <3>3. Len(frames') <= unacked' + acked'
      BY DEF FramesInv
    <3> QED
      BY <1>1, <2>3, <3>1, <3>2, <3>3
  <2>5. Len(frames') \in Nat \ {0} /\ Len(frames') \in 1..Len(frames')
    BY <1>1, <2>3
  <2>6. Len(frames') \in Packets
    BY <2>4, <2>5, NumbersSuffice DEF ExchangeInv
  <2>7. \A q \in 1..Len(frames') : q = Len(frames') \/ q \in Numbers
    BY <1>1, <2>3 DEF Numbers
  <2> QED
    BY <1>1, <1>2, <2>2, <2>3, <2>5, <2>6, <2>7
<1>4. CASE WriteAgain
  <2>1. held # {} /\ WritePacket(Min(held)) /\ arrived' = arrived \cup Leaving
        /\ frames' = frames
    BY <1>4 DEF WriteAgain
  <2>2. held = {Len(frames)} /\ Len(frames) \in Numbers
    BY <2>1 DEF ExchangeInv, OrderInv
  <2>3. Min(held) = Len(frames)
    <3>1. Len(frames) \in held /\ \A y \in held : Len(frames) <= y
      BY <1>1, <2>2
    <3> QED
      BY <2>2, <3>1 DEF Min
  <2>4. Len(frames) \in Packets
    <3>1. buffered \in Nat /\ unacked \in Nat /\ acked \in Nat
      BY DEF ExchangeInv, RelayInv, RelayTypeOK
    <3>2. Len(frames) <= unacked + acked
      BY DEF ExchangeInv, FramesInv
    <3>3. Numbers \subseteq Packets
      BY <1>1, <3>1, <3>2, NumbersSuffice DEF ExchangeInv, Numbers
    <3> QED
      BY <2>2, <3>3
  <2>5. Len(frames) \in Nat \ {0}
    BY <1>1, <2>2 DEF Numbers
  <2>6. \A q \in 1..Len(frames) : q = Len(frames) \/ q \in arrived \cup PacketsOf(buffered_writes)
    BY <1>2, <2>2 DEF Numbers
  <2>7. Len(frames) <= Len(frames)
    BY <1>1
  <2> QED
    BY <2>1, <2>2, <2>3, <2>4, <2>5, <2>6, <2>7
<1> QED
  BY <1>3, <1>4

\* Every step of an Exchange is one of the writer's or leaves it alone.
LEMMA WriterSteps ==
  ASSUME ExchangeInv, FramesInv', [Next]_vars
  PROVE  [WriterNext]_writerVars
<1>1. CASE Uploads \/ SendsAgain \/ Answered \/ ExchangeEnds \/ Acked \/ Closed
  BY <1>1 DEF Uploads, SendsAgain, Answered, ExchangeEnds, Acked, Closed
<1>2. CASE SendPacket \/ WriteAgain
  BY <1>2, WrittenIs DEF WriterNext
<1>3. CASE \/ WriterStep(SendMMsgTimerOnEvent)
           \/ WriterStep(OnEventEPOLLOUT)
           \/ WriterStep(OnCanWriteReturns)
           \/ WriterStep(KernelTransmits)
  BY <1>3 DEF WriterStep, WriterNext
<1>4. CASE UNCHANGED vars
  BY <1>4 DEF vars
<1> QED
  BY <1>1, <1>2, <1>3, <1>4 DEF Next

\* Every step keeps OrderInv.
LEMMA StepOrderInv ==
  ASSUME ExchangeInv, FramesInv', [Next]_vars
  PROVE  OrderInv'
<1> USE DEF ExchangeInv
<1>1. ASSUME UNCHANGED <<writerVars, packetVars>>
      PROVE  OrderInv'
  <2>1. UNCHANGED <<held, buffered_writes, frames, arrived>>
    BY <1>1 DEF writerVars, ringVars, packetVars
  <2>2. NoPacketVanishes' /\ Numbers' = Numbers
    BY <2>1 DEF OrderInv, NoPacketVanishes, Numbers
  <2>3. InOrder(arrived', buffered_writes')
        /\ PacketsOf(buffered_writes') = PacketsOf(buffered_writes)
    BY <2>1 DEF OrderInv
  <2> QED
    BY <2>1, <2>2, <2>3 DEF OrderInv
<1>2. CASE Uploads \/ SendsAgain \/ Answered \/ ExchangeEnds \/ Acked \/ Closed
  BY <1>1, <1>2 DEF Uploads, SendsAgain, Answered, ExchangeEnds, Acked, Closed
<1>3. CASE SendPacket \/ WriteAgain
  BY <1>3, WrittenIs, WriteKeepsOrder
<1>4. CASE WriterStep(SendMMsgTimerOnEvent)
  BY <1>4, TimerFlushes, FlushKeepsOrderInv DEF WriterStep, SendMMsgTimerOnEvent
<1>5. CASE \/ WriterStep(OnEventEPOLLOUT) \/ WriterStep(OnCanWriteReturns)
           \/ WriterStep(KernelTransmits)
  BY <1>5, QuietKeepsOrder DEF WriterStep, OnEventEPOLLOUT, OnCanWriteReturns,
     KernelTransmits, ringVars
<1>6. CASE UNCHANGED vars
  BY <1>1, <1>6 DEF vars
<1> QED
  BY <1>2, <1>3, <1>4, <1>5, <1>6 DEF Next

\* ExchangeInv holds at the start.
LEMMA InitExchangeInv == Init => ExchangeInv
<1> SUFFICES ASSUME Init
             PROVE  ExchangeInv
  OBVIOUS
<1>1. U!TypeOK
  <2>1. 0 \in 0..MaxAttempts
    BY UploadBoundsAssumption
  <2> QED
    BY <2>1 DEF Init, U!Init, U!TypeOK
<1>2. UploadInv /\ RelayInv /\ WriterInv
  BY UploadInvInit, RelayInvInit, WriterInvInit DEF Init
<1>3. FramesInv
  <2>1. frames \in Seq(Frame) /\ Len(frames) = 0 /\ Numbers = {}
    BY DEF Init, Numbers
  <2>2. unacked + acked = 0 /\ ~fin_buffered /\ ~told /\ http3
    BY DEF Init, RelayInit
  <2>3. UnitsIn(frames, Numbers) = 0
    BY <2>1, PartialSumsDef DEF UnitsIn
  <2> QED
    BY <2>1, <2>2, <2>3 DEF FramesInv
<1>4. OrderInv
  <2>1. frames = <<>> /\ arrived = {} /\ held = {} /\ buffered_writes = <<>>
    BY DEF Init, WriterInit
  <2> QED
    BY <2>1 DEF OrderInv, InOrder, PacketsOf, NoPacketVanishes, Numbers
<1> QED
  BY <1>1, <1>2, <1>3, <1>4 DEF ExchangeInv

\* Every step keeps ExchangeInv.
LEMMA StepExchangeInv == ExchangeInv /\ [Next]_vars => ExchangeInv'
<1> SUFFICES ASSUME ExchangeInv, [Next]_vars
             PROVE  ExchangeInv'
  OBVIOUS
<1>1. UploadInv'
  BY UploadInvStep DEF ExchangeInv
<1>2. U!TypeOK'
  BY <1>1, StepUploadType DEF ExchangeInv
<1>3. FramesInv'
  BY StepFramesInv DEF ExchangeInv
<1>4. RelayInv'
  BY RelaySteps, RelayInvStep DEF ExchangeInv
<1>5. WriterInv'
  BY <1>3, WriterSteps, WriterInvStep DEF ExchangeInv
<1>6. OrderInv'
  BY <1>3, StepOrderInv
<1> QED
  BY <1>1, <1>2, <1>3, <1>4, <1>5, <1>6 DEF ExchangeInv

\* ExchangeInv holds in every reachable state.
THEOREM ExchangeInvariance == Spec => []ExchangeInv
BY InitExchangeInv, StepExchangeInv, PTL DEF Spec

\* For any answers, requests, ring and send buffer: every variable has its
\* type, and no answer runs out of packet numbers.
THEOREM TypeCorrect == Spec => []TypeOK
<1>1. ExchangeInv => TypeOK
  <2> SUFFICES ASSUME ExchangeInv
               PROVE  TypeOK
    OBVIOUS
  <2>1. RelayTypeOK /\ WriterTypeOK
    BY DEF ExchangeInv, RelayInv, WriterInv
  <2>2. frames \in Seq(Frame) /\ Len(frames) \in Nat
    BY DEF ExchangeInv, FramesInv
  <2>3. 1..Len(frames) \subseteq Packets
    <3>1. buffered \in Nat /\ unacked \in Nat /\ acked \in Nat
      BY <2>1 DEF RelayTypeOK
    <3>2. Len(frames) <= unacked + acked
      BY DEF ExchangeInv, FramesInv
    <3> QED
      BY <2>2, <3>1, <3>2, NumbersSuffice DEF ExchangeInv
  <2> QED
    BY <2>1, <2>2, <2>3 DEF TypeOK, ExchangeInv, OrderInv, Numbers
<1> QED
  BY <1>1, ExchangeInvariance, PTL

\* For every ring, send buffer and order of writes, flushes and events: what
\* the stream has sent has left the worker, or is cached, or is kept.
THEOREM NoneVanishes == Spec => []NoPacketVanishes
<1>1. ExchangeInv => NoPacketVanishes
  BY DEF ExchangeInv, OrderInv
<1> QED
  BY <1>1, ExchangeInvariance, PTL

\* For every answer the code understands, wherever libcurl cuts its body,
\* whatever flow control lets go in a packet and however the writer flushes: a
\* client that has a FIN has all of the response.
THEOREM FinIsWhole == Spec => []FinSaysAll
<1>1. ExchangeInv => FinSaysAll
  <2> SUFFICES ASSUME ExchangeInv, Understood(answer), NEW p \in arrived, frames[p].fin
               PROVE  Complete /\ ArrivedUnits = Units(answer)
    BY DEF FinSaysAll, FinArrived
  <2>1. p = Len(frames) /\ told /\ p \in Numbers
    BY DEF ExchangeInv, OrderInv, FramesInv
  <2>2. write_closed /\ fin_buffered
    BY <2>1 DEF ExchangeInv, FramesInv
  <2>3. Complete /\ buffered = 0
    BY <2>2 DEF ExchangeInv, RelayInv, FinMeansComplete, NothingLost
  <2>4. arrived = Numbers
    <3>1. 1..p \subseteq arrived
      BY DEF ExchangeInv, OrderInv, InOrder
    <3> QED
      BY <2>1, <3>1 DEF ExchangeInv, OrderInv, Numbers
  <2>5. ArrivedUnits = unacked + acked
    BY <2>4 DEF ExchangeInv, FramesInv, ArrivedUnits
  <2>6. unacked \in Nat /\ acked \in Nat /\ Len(answer) \in Nat /\ at \in 1..Len(answer) + 1
    BY AnswersAssumption DEF ExchangeInv, RelayInv, RelayTypeOK, WellFormed
  <2>7. unacked + acked = UnitSums(answer)[at - 1]
    <3>1. buffered + unacked + acked = UnitSums(answer)[at - 1]
      BY DEF ExchangeInv, RelayInv, UnitsGiven
    <3>2. buffered + unacked + acked = unacked + acked
      BY <2>3, <2>6
    <3> QED
      BY <3>1, <3>2
  <2>8. at - 1 = Len(answer)
    BY <2>3, <2>6 DEF Complete
  <2> QED
    BY <2>3, <2>5, <2>7, <2>8 DEF Units
<1> QED
  BY <1>1, ExchangeInvariance, PTL

\* Put together, the relay and the writer still behave as they do alone, with an
\* environment that may do anything: what is proved of each holds of an
\* Exchange, that it implements its abstract specification included.
THEOREM KeepsItsParts == Spec => RelaySpec /\ WriterSpec
<1>1. Init => RelayInit /\ WriterInit
  BY DEF Init
<1>2. ExchangeInv /\ ExchangeInv' /\ [Next]_vars => [RelayNext]_relayVars /\ [WriterNext]_writerVars
  <2> SUFFICES ASSUME ExchangeInv, ExchangeInv', [Next]_vars
               PROVE  [RelayNext]_relayVars /\ [WriterNext]_writerVars
    OBVIOUS
  <2>1. FramesInv /\ RelayInv /\ FramesInv'
    BY DEF ExchangeInv
  <2> QED
    BY <2>1, RelaySteps, WriterSteps
<1> QED
  BY <1>1, <1>2, ExchangeInvariance, PTL DEF Spec, RelaySpec, WriterSpec

\* The client's stream is what ResponseStream promises, and the packets on the
\* wire are those of LosslessFifo, also when responses are sent in packets.
THEOREM PartsRefine == Spec => ImplementsResponse /\ ImplementsFifo
BY KeepsItsParts, RefinesStream, RefinesFifo, PTL
=============================================================================
