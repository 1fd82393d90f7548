------------------------------- MODULE Upload -------------------------------
(***************************************************************************)
(* The request side of one transfer: StartHttp gives libcurl the client's  *)
(* request, and ReadQuicCallback hands out the body when libcurl asks for  *)
(* more of it.                                                             *)
(*                                                                         *)
(* A body is the sequence 1, 2, ... of its bytes.  libcurl, the connection *)
(* to the origin and the origin itself are outside the sources.  libcurl   *)
(* may have to send a request again: the reused connection was dead, or    *)
(* the origin redirects.  It cannot take back what it has read of a body,  *)
(* because StartHttp sets neither CURLOPT_SEEKFUNCTION nor                 *)
(* CURLOPT_IOCTLFUNCTION, and fails such a transfer.                       *)
(*                                                                         *)
(* Exchange, which composes it, assumes what the constants are.            *)
(***************************************************************************)
EXTENDS Integers, Sequences

CONSTANTS
  Inputs,      \* requests: [method, body, length]; length -1 is no content-length
  Invalid,     \* methods that IsValidHeaderName refuses, the empty one included
  UploadMax,   \* bytes libcurl asks ReadQuicCallback for at most
  MaxAttempts  \* bound: times libcurl sends the request

VARIABLES
  request,
  request_body_pos,
  easy,      \* what libcurl was told: [added, upload, infilesize]
  phase,     \* "idle" | "connecting" | "sending" | "sent" | "over"
  attempts,  \* times the request line and headers went out
  got        \* the bytes of the body the origin has on this connection

uploadVars == <<request, request_body_pos, easy, phase, attempts, got>>

request_body == IF easy.upload THEN [i \in 1..request.body |-> i] ELSE <<>>

Init ==
  /\ request \in Inputs
  /\ request_body_pos = 0
  /\ easy = [added |-> FALSE, upload |-> FALSE, infilesize |-> -1]
  /\ phase = "idle"
  /\ attempts = 0
  /\ got = <<>>

-----------------------------------------------------------------------------

\* Mutant: PATCH is forgotten.
HasUpload_NoPatch(q) == q.method \in {"POST", "PUT"} /\ q.body > 0

\* The request's body is for libcurl to send.
HasUpload(q) == q.method \in {"POST", "PUT", "PATCH"} /\ q.body > 0

\* All headers are forwarded, content-length among them; the body is kept only
\* with some methods.
StartHttp ==
  /\ phase = "idle"
  /\ request.method \notin Invalid
  /\ easy' = [added |-> TRUE, upload |-> HasUpload(request),
              infilesize |-> IF HasUpload(request) THEN request.body ELSE -1]
  /\ phase' = "connecting"
  /\ UNCHANGED <<request, request_body_pos, attempts, got>>

\* "Headers invalid or empty, ignoring": libcurl is not given the handle, and
\* nothing tells the stream.
StartHttpIgnored ==
  /\ phase = "idle"
  /\ request.method \in Invalid
  /\ phase' = "over"
  /\ UNCHANGED <<request, request_body_pos, easy, attempts, got>>

\* libcurl has a connection and sends the request line and the headers.
CurlSendsHeaders ==
  /\ phase = "connecting"
  /\ attempts < MaxAttempts
  /\ attempts' = attempts + 1
  /\ got' = <<>>
  /\ phase' = IF easy.upload THEN "sending" ELSE "sent"
  /\ UNCHANGED <<request, request_body_pos, easy>>

\* copy_this_much
Copied(buffer_size) ==
  LET left == Len(request_body) - request_body_pos
  IN  IF left > buffer_size THEN buffer_size ELSE left

\* Mutant: the body is read from its beginning each time.
ReadQuicCallback_FromStart(buffer_size) ==
  /\ phase = "sending"
  /\ Len(got) < easy.infilesize
  /\ got' = got \o SubSeq(request_body, 1, Copied(buffer_size))
  /\ request_body_pos' = request_body_pos + Copied(buffer_size)
  /\ phase' = IF got' = got \/ Len(got') = easy.infilesize THEN "sent" ELSE "sending"
  /\ UNCHANGED <<request, easy, attempts>>

\* libcurl asks for buffer_size bytes.  When it is given none, or has all that
\* CURLOPT_INFILESIZE promised, the request is complete.
ReadQuicCallback(buffer_size) ==
  /\ phase = "sending"
  /\ Len(got) < easy.infilesize
  /\ got' = got \o SubSeq(request_body, request_body_pos + 1,
                          request_body_pos + Copied(buffer_size))
  /\ request_body_pos' = request_body_pos + Copied(buffer_size)
  /\ phase' = IF got' = got \/ Len(got') = easy.infilesize THEN "sent" ELSE "sending"
  /\ UNCHANGED <<request, easy, attempts>>

\* The request has to be sent again: the connection died before anything was
\* answered, or the answer is a redirect.  What was read of the body is lost.
CurlSendsAgain ==
  /\ phase \in {"sending", "sent"}
  /\ attempts < MaxAttempts
  /\ phase' = IF got = <<>> THEN "connecting" ELSE "over"
  /\ UNCHANGED <<request, request_body_pos, easy, attempts, got>>

\* The transfer ends, well or not.
CurlEnds ==
  /\ phase \in {"connecting", "sending", "sent"}
  /\ phase' = "over"
  /\ UNCHANGED <<request, request_body_pos, easy, attempts, got>>

-----------------------------------------------------------------------------

\* Every variable has its type.
TypeOK ==
  /\ request \in Inputs
  /\ request_body_pos \in Nat
  /\ easy \in [added : BOOLEAN, upload : BOOLEAN, infilesize : Nat \cup {-1}]
  /\ phase \in {"idle", "connecting", "sending", "sent", "over"}
  /\ attempts \in 0..MaxAttempts
  /\ got \in Seq(Nat)

\* A body that libcurl has sent is the client's, whole and in order, however
\* many pieces it was read in and however often the request had to be sent
\* again, although request_body_pos_ never goes back (ReadQuicCallback).
UploadIntact ==
  phase = "sent" /\ easy.upload => got = [i \in 1..request.body |-> i]

\* The content-length of the client is forwarded as it came, and as many bytes
\* follow.  Of a body that comes with another method the length is forwarded
\* and the bytes are not (StartHttp).
LengthKept ==
  /\ phase = "sent" /\ request.length >= 0
  /\ request.method \in {"POST", "PUT", "PATCH"} \/ request.body = 0
  => Len(got) = request.length
=============================================================================
