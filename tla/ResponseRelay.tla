---------------------------- MODULE ResponseRelay ----------------------------
(***************************************************************************)
(* One proxied response: the callbacks through which QuicProxyCurl turns   *)
(* what libcurl reads from the origin into writes on a QuicProxyStream,    *)
(* and OnStreamFrameAcked, which ends a stream no write has ended.         *)
(*                                                                         *)
(* An answer is the sequence of callbacks libcurl makes: header lines,     *)
(* each block closed by an empty line, and pieces of body.  There is one   *)
(* block per response libcurl reads: with CURLOPT_FOLLOWLOCATION, and for  *)
(* an interim 1xx, the final block comes after others.  libcurl drops the  *)
(* body of a response it follows.                                          *)
(*                                                                         *)
(* By ProxyBackend!LinksAgree the two pointers between the stream and the  *)
(* proxy are null together, so quic_proxy_curl stands for both.            *)
(***************************************************************************)
EXTENDS Integers, Sequences, Sums

CONSTANT Answers  \* what libcurl may deliver: sequences of [kind, value]

Ends(a)       == {i \in 1..Len(a) : a[i].kind = "end"}
LastEnd(a)    == CHOOSE i \in Ends(a) : \A j \in Ends(a) : j <= i
InFinal(a, i) == i <= LastEnd(a) /\ \A j \in Ends(a) \ {LastEnd(a)} : i > j

\* The bytes of body in the first items of an answer.
BodySums(a) ==
  PartialSums([i \in 1..Len(a) |-> IF a[i].kind = "body" THEN a[i].value ELSE 0], Len(a))

\* libcurl's order of callbacks, with no trailers: every block has a status
\* line; the body follows the last block, in pieces that are not empty; and if
\* it is there at all, for a HEAD it is not, it has the announced length.
WellFormed(a) ==
  /\ Len(a) \in Nat
  /\ \A i \in 1..Len(a) :
       /\ a[i].kind = "length" => a[i].value \in Nat
       /\ a[i].kind = "body" => a[i].value \in Nat \ {0}
       /\ a[i].kind = "body" <=> Ends(a) # {} /\ \A j \in Ends(a) : j < i
       /\ a[i].kind = "end" =>
            \E j \in 1..i : a[j].kind = "status" /\ \A k \in j .. i - 1 : a[k].kind # "end"
       /\ a[i].kind = "length" /\ Ends(a) # {} /\ InFinal(a, i) =>
            \/ a[i].value = BodySums(a)[Len(a)]
            \/ \A j \in 1..Len(a) : a[j].kind # "body"

ASSUME AnswersAssumption == \A a \in Answers : WellFormed(a)

\* What their status lines say.
StatusesOf(a) == {a[i].value : i \in {j \in 1..Len(a) : a[j].kind = "status"}}
Statuses      == UNION {StatusesOf(a) : a \in Answers}

VARIABLES
  http3,             \* headers travel in frames of the stream itself, not in
                     \* those of the session's headers stream
  answer, at,        \* what libcurl delivers, and the index of what is next
  transfer,          \* "running" | "over"
  spdy_headers,      \* the fields of spdy_headers_ the callbacks look at
  content_length, had_send_length,
  quic_proxy_curl,   \* the stream and the proxy point at each other
  \* the QUIC stream
  strm,              \* "live" | "destroyed"
  buffered,          \* units written and not sent: BufferedDataBytes()
  unacked,           \* units sent and not acknowledged
  acked,             \* units acknowledged
  fin_buffered,      \* a write carried the FIN
  fin_sent,          \* fin_sent(), which OnStreamFrameAcked may set as well
  write_closed,      \* CloseWriteSide was called
  told,              \* a FIN was put on the wire
  dropped            \* the stream has refused a write

curlVars   == <<answer, at, transfer, spdy_headers, content_length, had_send_length>>
streamVars == <<http3, strm, buffered, unacked, acked, fin_buffered, fin_sent,
                write_closed, told, dropped>>
relayVars  == <<curlVars, quic_proxy_curl, streamVars>>

Headers   == [status : Statuses \cup {""}, length : Nat \cup {-1}, chunked : BOOLEAN]
NoHeaders == [status |-> "", length |-> -1, chunked |-> FALSE]

RelayInit ==
  /\ http3 \in BOOLEAN
  /\ answer \in Answers
  /\ at = 1
  /\ transfer = "running"
  /\ spdy_headers = NoHeaders
  /\ content_length = 0
  /\ had_send_length = 0
  /\ quic_proxy_curl = TRUE
  /\ strm = "live"
  /\ buffered = 0 /\ unacked = 0 /\ acked = 0
  /\ fin_buffered = FALSE /\ fin_sent = FALSE /\ write_closed = FALSE
  /\ told = FALSE /\ dropped = FALSE

Complete == at > Len(answer)

-----------------------------------------------------------------------------
(***************************************************************************)
(* The stream's side of a write.                                           *)
(***************************************************************************)

\* n units and perhaps the FIN are taken, unless the stream was ended before.
StreamTakes(n, fin) ==
  IF fin_buffered \/ write_closed
  THEN /\ dropped' = TRUE
       /\ UNCHANGED <<http3, strm, buffered, unacked, acked, fin_buffered, fin_sent,
                      write_closed, told>>
  ELSE /\ buffered' = buffered + n
       /\ fin_buffered' = fin
       /\ UNCHANGED <<http3, strm, unacked, acked, fin_sent, write_closed, told, dropped>>

\* Headers take one unit of the stream, or none of it: then the FIN leaves with
\* them on the headers stream.
WriteHeaders(fin) ==
  IF http3 \/ ~fin \/ fin_buffered \/ write_closed
  THEN StreamTakes(IF http3 THEN 1 ELSE 0, fin)
  ELSE /\ fin_buffered' = TRUE /\ fin_sent' = TRUE
       /\ write_closed' = TRUE /\ told' = TRUE
       /\ UNCHANGED <<http3, strm, buffered, unacked, acked, dropped>>

-----------------------------------------------------------------------------
(***************************************************************************)
(* libcurl's callbacks.                                                    *)
(***************************************************************************)

\* libcurl makes its next callback, of this kind, and the stream is there.
Delivers(kind) ==
  /\ transfer = "running" /\ ~Complete
  /\ answer[at].kind = kind
  /\ quic_proxy_curl
  /\ at' = at + 1
  /\ UNCHANGED <<answer, transfer, quic_proxy_curl>>

\* HttpHeaderCallback on a line that does not end the block.  A status line
\* sets :status; of the fields, content-length and transfer-encoding are read
\* later, and a line that is no field ("nofield") is skipped in a release build.
HeaderLine ==
  /\ \/ /\ Delivers("status")
        /\ spdy_headers' = [spdy_headers EXCEPT !.status = answer[at].value]
     \/ /\ Delivers("length")
        /\ spdy_headers' = [spdy_headers EXCEPT !.length = answer[at].value]
     \/ /\ Delivers("chunked")
        /\ spdy_headers' = [spdy_headers EXCEPT !.chunked = TRUE]
     \/ /\ Delivers("other") \/ Delivers("nofield")
        /\ UNCHANGED spdy_headers
  /\ UNCHANGED <<content_length, had_send_length, streamVars>>

\* A status line without a space: in a release build the callback returns 0 and
\* libcurl fails the transfer, after which CheckCurlMultiInfo unlinks the proxy.
BadStatusLine ==
  /\ transfer = "running" /\ ~Complete
  /\ answer[at].kind = "badstatus"
  /\ quic_proxy_curl
  /\ transfer' = "over"
  /\ quic_proxy_curl' = FALSE
  /\ UNCHANGED <<answer, at, spdy_headers, content_length, had_send_length, streamVars>>

\* LOG(DFATAL), which stands on both lines, ends the process in a debug build.
DFatal ==
  /\ transfer = "running" /\ ~Complete
  /\ answer[at].kind \in {"badstatus", "nofield"}
  /\ quic_proxy_curl
  /\ transfer' = "over" /\ strm' = "destroyed"
  /\ quic_proxy_curl' = FALSE
  /\ UNCHANGED <<answer, at, spdy_headers, content_length, had_send_length,
                 http3, buffered, unacked, acked, fin_buffered, fin_sent,
                 write_closed, told, dropped>>

\* Mutant: an interim response ends the stream like any other empty one.
HeadersFin_NoInterim(length) ==
  length = 0 /\ spdy_headers.status # "200" /\ ~spdy_headers.chunked

\* The FIN goes with the headers when no body is expected.
HeadersFin(length) ==
  /\ length = 0
  /\ spdy_headers.status \notin {"200", "100"}
  /\ ~spdy_headers.chunked

\* Mutant: a block without a content-length is not told apart.
EndOfHeaders_NoFind ==
  /\ Delivers("end")
  /\ content_length' = spdy_headers.length
  /\ WriteHeaders(HeadersFin(content_length'))
  /\ spdy_headers' = NoHeaders
  /\ UNCHANGED had_send_length

\* HttpHeaderCallback on the empty line: content_length_ keeps its old value
\* when the block has no content-length, and spdy_headers_ is moved away.
EndOfHeaders ==
  /\ Delivers("end")
  /\ content_length' = IF spdy_headers.length >= 0
                       THEN spdy_headers.length ELSE content_length
  /\ WriteHeaders(HeadersFin(content_length'))
  /\ spdy_headers' = NoHeaders
  /\ UNCHANGED had_send_length

\* Mutant: the piece is counted after the comparison.
Write_CountsLate ==
  /\ Delivers("body")
  /\ had_send_length' = had_send_length + answer[at].value
  /\ StreamTakes(answer[at].value, had_send_length = content_length)
  /\ UNCHANGED <<spdy_headers, content_length>>

\* WriteQuicCallback: the piece that completes content_length_ bytes carries
\* the FIN.
WriteQuicCallback ==
  /\ Delivers("body")
  /\ had_send_length' = had_send_length + answer[at].value
  /\ StreamTakes(answer[at].value, had_send_length' = content_length)
  /\ UNCHANGED <<spdy_headers, content_length>>

\* Either callback returns CURLE_WRITE_ERROR once the stream is gone.
CallbackWithoutStream ==
  /\ transfer = "running" /\ ~Complete
  /\ ~quic_proxy_curl
  /\ transfer' = "over"
  /\ UNCHANGED <<answer, at, spdy_headers, content_length, had_send_length,
                 quic_proxy_curl, streamVars>>

\* The transfer ends, after the whole answer or earlier because the origin
\* fails; CheckCurlMultiInfo unlinks the proxy, whatever the result was.
TransferEnds ==
  /\ transfer = "running"
  /\ transfer' = "over"
  /\ quic_proxy_curl' = FALSE
  /\ UNCHANGED <<answer, at, spdy_headers, content_length, had_send_length, streamVars>>

-----------------------------------------------------------------------------
(***************************************************************************)
(* The stream.                                                             *)
(***************************************************************************)

\* Flow control lets n units go.  The FIN goes with the last one.
StreamSends(n) ==
  /\ strm = "live" /\ ~write_closed
  /\ n <= buffered
  /\ n > 0 \/ (fin_buffered /\ buffered = 0)
  /\ buffered' = buffered - n
  /\ unacked' = unacked + n
  /\ LET fin == fin_buffered /\ buffered' = 0
     IN  /\ fin_sent' = fin
         /\ write_closed' = fin
         /\ told' = fin
  /\ UNCHANGED <<curlVars, quic_proxy_curl, http3, strm, acked, fin_buffered, dropped>>

\* Mutant: data waiting for flow control does not keep the stream open.
Acked_IgnoresBuffer(n) ==
  /\ strm = "live" /\ n <= unacked
  /\ unacked' = unacked - n /\ acked' = acked + n
  /\ IF ~quic_proxy_curl /\ ~fin_sent
     THEN fin_sent' = TRUE /\ write_closed' = TRUE
     ELSE UNCHANGED <<fin_sent, write_closed>>
  /\ UNCHANGED <<curlVars, quic_proxy_curl, http3, strm, buffered, fin_buffered,
                 told, dropped>>

\* Mutant: a running transfer does not keep the stream open.
Acked_IgnoresProxy(n) ==
  /\ strm = "live" /\ n <= unacked
  /\ unacked' = unacked - n /\ acked' = acked + n
  /\ IF ~fin_sent /\ buffered = 0
     THEN fin_sent' = TRUE /\ write_closed' = TRUE
     ELSE UNCHANGED <<fin_sent, write_closed>>
  /\ UNCHANGED <<curlVars, quic_proxy_curl, http3, strm, buffered, fin_buffered,
                 told, dropped>>

\* ContinueDownload does nothing.  With no proxy left, a stream that is not
\* finished and has nothing to send is marked finished; no FIN is sent.
OnStreamFrameAcked(n) ==
  /\ strm = "live" /\ n <= unacked
  /\ unacked' = unacked - n /\ acked' = acked + n
  /\ IF ~quic_proxy_curl /\ ~fin_sent /\ buffered = 0
     THEN fin_sent' = TRUE /\ write_closed' = TRUE
     ELSE UNCHANGED <<fin_sent, write_closed>>
  /\ UNCHANGED <<curlVars, quic_proxy_curl, http3, strm, buffered, fin_buffered,
                 told, dropped>>

\* The client resets the stream or the connection goes: the stream is deleted
\* and CloseBackendResponseStream clears both pointers.
CloseBackendResponseStream ==
  /\ strm = "live"
  /\ strm' = "destroyed"
  /\ quic_proxy_curl' = FALSE
  /\ UNCHANGED <<curlVars, http3, buffered, unacked, acked, fin_buffered, fin_sent,
                 write_closed, told, dropped>>

Callbacks ==
  \/ HeaderLine \/ BadStatusLine \/ EndOfHeaders \/ WriteQuicCallback
  \/ CallbackWithoutStream

RelayNext ==
  \/ Callbacks
  \/ DFatal
  \/ TransferEnds
  \/ \E n \in 0..buffered : StreamSends(n)
  \/ \E n \in 1..unacked : OnStreamFrameAcked(n)
  \/ CloseBackendResponseStream

RelaySpec == RelayInit /\ [][RelayNext]_relayVars

-----------------------------------------------------------------------------
(***************************************************************************)
(* Safety.  Which answers the code understands is said of the final block, *)
(* the one before the body, and of those before it.                        *)
(***************************************************************************)

Has(a, k)   == \E i \in 1..Len(a) : InFinal(a, i) /\ a[i].kind = k
Status(a)   == {a[i].value : i \in {j \in 1..Len(a) : InFinal(a, j) /\ a[j].kind = "status"}}

\* Every block before the final one is a bare 100, and the final response is
\* delimited by a content-length or by chunks, or is a 200: not a redirect that
\* libcurl follows, nor a 1xx other than 100, nor an error response that ends
\* when the origin closes the connection.
Understood(a) ==
  /\ Ends(a) # {}
  /\ \A i \in 1..Len(a) : ~InFinal(a, i) /\ i < LastEnd(a) =>
       /\ a[i].kind # "length"
       /\ a[i].kind = "status" => a[i].value = "100"
  /\ Has(a, "length") \/ Has(a, "chunked") \/ Status(a) = {"200"}

\* Every variable has its type.
RelayTypeOK ==
  /\ http3 \in BOOLEAN
  /\ answer \in Answers /\ at \in 1..Len(answer) + 1
  /\ transfer \in {"running", "over"}
  /\ spdy_headers \in Headers
  /\ content_length \in Nat /\ had_send_length \in Nat
  /\ quic_proxy_curl \in BOOLEAN
  /\ strm \in {"live", "destroyed"}
  /\ buffered \in Nat /\ unacked \in Nat /\ acked \in Nat
  /\ fin_buffered \in BOOLEAN /\ fin_sent \in BOOLEAN /\ write_closed \in BOOLEAN
  /\ told \in BOOLEAN /\ dropped \in BOOLEAN

\* A FIN tells the client that the response is complete, so none is written
\* before the last callback of an answer the code understands, wherever libcurl
\* cuts the body and whatever interim responses came first (HttpHeaderCallback,
\* WriteQuicCallback).
FinMeansComplete ==
  Understood(answer) /\ fin_buffered => Complete

\* Nothing of a response is lost in the proxy: no write reaches a stream that
\* OnStreamFrameAcked or an earlier FIN has ended, and none is ended while it
\* still has units to send.
NothingLost ==
  /\ Understood(answer) => ~dropped
  /\ write_closed => buffered = 0

-----------------------------------------------------------------------------
(***************************************************************************)
(* The relay implements ResponseStream.                                    *)
(***************************************************************************)

\* The units of the stream that the first items of an answer make: one for the
\* headers of each block when they travel in it, and the body's.
UnitSumsOver(inStream, a) ==
  PartialSums([i \in 1..Len(a) |-> IF a[i].kind = "body" THEN a[i].value
                                   ELSE IF a[i].kind = "end" /\ inStream THEN 1 ELSE 0],
              Len(a))

UnitSums(a) == UnitSumsOver(http3, a)
Units(a)    == UnitSums(a)[Len(a)]

Stream == INSTANCE ResponseStream WITH
            size  <- Units(answer),
            given <- IF Understood(answer) THEN buffered + unacked + acked ELSE 0,
            ended <- Understood(answer) /\ fin_buffered

\* For an answer the code understands, the stream is given the units of the
\* answer and nothing after its end, and is ended by the write that makes it
\* whole, however libcurl cuts the answer and the network acknowledges it.
ImplementsResponse == Stream!Spec

-----------------------------------------------------------------------------
(***************************************************************************)
(* Liveness.  The origin answers or fails, flow control opens, the client  *)
(* acknowledges.                                                           *)
(***************************************************************************)

RelayFairness ==
  /\ WF_relayVars(Callbacks)
  /\ WF_relayVars(Complete /\ TransferEnds)
  /\ WF_relayVars(\E n \in 0..buffered : StreamSends(n))
  /\ WF_relayVars(\E n \in 1..unacked : OnStreamFrameAcked(n))

RelayFairSpec == RelaySpec /\ RelayFairness

\* The final block's content-length says where the body ends: not so for a HEAD,
\* whose response announces a body that does not come.
Delimited(a) ==
  /\ Understood(a) /\ Has(a, "length")
  /\ \A i \in 1..Len(a) :
       InFinal(a, i) /\ a[i].kind = "length" => a[i].value = BodySums(a)[Len(a)]

\* The exception.  The rule for empty bodies in HttpHeaderCallback leaves out the
\* FIN for a 200, a 100 and chunks; with a content-length of 0 WriteQuicCallback
\* is never called, and the client is not told that the response is over.
EmptyUntold(a) ==
  /\ BodySums(a)[Len(a)] = 0
  /\ Status(a) \cap {"200", "100"} # {} \/ Has(a, "chunked")

EndIsKnown(a) == Delimited(a) /\ ~EmptyUntold(a)

\* The client is told the end of a response with a content-length that the
\* origin delivered in full, unless the stream is gone or the response is an
\* EmptyUntold one (the two places that compute a fin).
EndIsTold ==
  Complete /\ EndIsKnown(answer) ~> told \/ strm = "destroyed"

\* "quic_proxy_curl_ is nullptr and close this stream": when the transfer of a
\* complete response is over, its stream is closed (OnStreamFrameAcked).
UnlinkedIsClosed ==
  Complete /\ ~quic_proxy_curl ~> write_closed \/ strm = "destroyed"
=============================================================================
