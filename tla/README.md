# quic_proxy: models, checks and proofs

`quic_proxy_server` takes QUIC requests from clients and fetches them over HTTP
from one backend. The sources are in `src/proxy_quic/`; they sit on Chromium's
QUIC code, on libcurl and on the kernel, none of which is in the repository.
This directory holds TLA+ models of the program, the TLC configurations that
check them and TLAPS proofs about them.

To check a run: `tlc -config <cfg> <MC module>`; to check the proofs:
`tlapm <module>Proofs.tla`. `PROJECT.json` lists runs, mutants, the source lines
of every definition, hazards and theorems.

## The system

A master process forks one worker per CPU. A worker has one thread, an epoll
loop (`QuicEpollServer`), one UDP socket and one libcurl multi handle.

| Part | State | Operations | Talks to |
|---|---|---|---|
| Supervisor: `main`, `worker` | child processes | fork loop, wait loop | kernel |
| Server and reader: `QuicProxyServer`, `QuicProxyPacketReader` | UDP socket, `mmsg_hdr_`, dispatcher | listen, `OnEvent`, `ReadAndDispatchPackets`, `Shutdown` | epoll, dispatcher, writer |
| Dispatcher and session: `QuicProxyDispatcher`, `QuicProxySession` | none of their own | `CreateQuicSession`, `CreateIncomingStream` | Chromium's QUIC |
| Stream: `QuicProxyStream` | `quic_proxy_curl_` | `OnStreamFrameAcked` | session, transfer |
| Backend: `QuicProxyBackend` | `proxy_http_hash_`, `proxy_http_dead_list_`, `still_running_` | fetch, close, socket and timer callbacks, `CheckCurlMultiInfo` | libcurl, epoll |
| Transfer: `QuicProxyCurl` | `sockfd_`, `quic_stream_`, header and length fields | `StartHttp`, `OnEvent`, header, write and read callbacks | libcurl, stream |
| libcurl's timer: `QuicCurlTimer` | a timerfd | `OnEvent` | libcurl |
| Packet writer: `QuicProxyPacketWriter`, `SendMMsgTimer` | ring of 32 slots, deque, timerfd | `WritePacket`, `Flush`, timer `OnEvent` | connections, kernel |
| `logrun.pl` | none | starts log rotation and the server | |

How they interact. A client hello makes the dispatcher create a session; a
request makes a stream call `FetchResponseFromBackend`, which creates a
`QuicProxyCurl` and gives its handle to libcurl. libcurl asks, through
callbacks, for descriptors to be polled and for a timeout; the loop calls
`curl_multi_socket_action` when one is due; libcurl calls the header and write
callbacks, which write to the stream. The connections hand packets to the one
writer of the worker, which copies them and sends them in batches.

What is hard. No threads share memory, yet:

* `curl_multi_socket_action` re-enters the backend any number of times, and
  `CheckCurlMultiInfo` may retire the object whose `OnEvent` is running.
* Streams and transfers end in either order and hold raw pointers to each other.
* `epoll_wait` returns several events, and handling one may invalidate another.
* Timers are set by libcurl and by `OnEvent`, and may expire at any moment.
* The UDP socket and two timers are edge-triggered: what is not taken now may
  never be reported again.
* `sendmmsg` may take a part of the ring, or nothing.
* Acknowledgements race with the end of a transfer.
* libcurl may send a request again whose body it has read in part.
* After `fork` both processes run the same text, and all workers share one port.

What makes each part correct:

* Backend: no pointer outlives its object; epoll watches what libcurl asked
  for; no timeout is lost; every launched transfer is picked up.
* Relay: a FIN is written only when the response is complete; nothing written is
  lost; who waits for a response with a length is told its end.
* Writer: packets leave once per store, in order, with their own bytes; a
  blocked writer is woken; cached packets do not stay.
* Upload: the origin gets the client's body, whole, and its length.
* Server: no datagram and no client hello waits without an event to come; what
  the kernel drops is counted once.
* Supervisor: as many workers as CPUs, no two pinned to the same one, each
  replaced when it ends; clients find a worker.
* Together: a client that sees the end of a response has all of it, and sees it
  once the origin has answered.

## Modules

| Module | Models | Runs | Proofs |
|---|---|---|---|
| `ProxyBackend` | backend, transfer objects, libcurl's timer, with libcurl and epoll as environment | `MCProxyBackend*.cfg` | `ProxyBackendProofs` |
| `RequestLifecycle` | what the backend promises about one object per request | refined by `ProxyBackend` | |
| `ResponseRelay` | the callbacks that write to one stream, and that stream | `MCResponseRelay*.cfg` | `ResponseRelayProofs` |
| `ResponseStream` | what a response promises to the client's stream | refined by `ResponseRelay` | |
| `PacketWriter` | writer and its timer, with connections and kernel as environment | `MCPacketWriter*.cfg` | `PacketWriterProofs` |
| `LosslessFifo` | what the writer promises | refined by `PacketWriter` | |
| `Upload` | the request given to libcurl and its body | in `Exchange` | in `ExchangeProofs` |
| `Sums` | sums along a sequence, for `ResponseRelay` and `Exchange` | in theirs | `SumsProofs` |
| `Exchange` | one request: `Upload`, `ResponseRelay` and `PacketWriter` composed | `MCExchange.cfg` | `ExchangeProofs` |
| `Server` | registration, read loop, reader, receive queue | `MCServer.cfg` | `ServerProofs` |
| `Supervisor` | `main` and `worker`, and the port the workers share | `MCSupervisor*.cfg` | `SupervisorProofs` |

### ProxyBackend

Sets and functions over `Requests` stand for the objects: a request names a
stream, its `QuicProxyCurl` and its easy handle. `quic_stream` is the set of
transfers whose pointer is not null, `quic_proxy_curl` the same from the
stream's side. One `OnEvent` is a sequence of steps (`pc`): the call of
`curl_multi_socket_action` ("curl"), in which the `Curl...` actions let libcurl
do what it may, `CheckCurlMultiInfo` ("check"), the rest ("tail"). QUIC events
happen between two callbacks, because streams are deleted from an alarm.

libcurl is modelled by what it may do to the code: it starts added handles,
announces, changes and gives up sockets (keeping them cached or closing them),
asks for timeouts and for none, calls the callbacks and ends transfers. `curl_multi_remove_handle`,
which `CheckCurlMultiInfo` calls, may ask for a timeout too. Two facts
about it are assumed: a handle that is added makes it ask for an immediate
timeout, and when `curl_multi_socket_action` returns no handle is left
unstarted or half torn down. `ready` holds the events fetched and not
dispatched, from which QuicEpollServer removes a descriptor that is
unregistered. The process dies in `FetchInitFails` (a null pointer is used after
`curl_easy_init` failed); nothing happens after that.

* `backend_safety`: 3 requests, 2 descriptors, symmetric. Three requests are the
  least with which a descriptor is reused while one proxy is on the dead list
  and another is in its `OnEvent`; two descriptors the least for two events in
  one batch. Timeouts -1, 0 and 1000 cover the three branches of
  `CurlMultiTimerCB`, the last one where the milliseconds are a whole second.
  `ImplementsLifecycle`, the refinement of `RequestLifecycle`, is checked there
  too; it is a safety property that treats all requests alike.
* `backend_live`: two requests and one descriptor, without symmetry.
* `backend_two_socks` (violation): with `SocksPerTransfer = 2` libcurl holds two
  sockets for one transfer, as it does for a happy-eyeballs connect.
  `CurlAddSock` overwrites the single `sockfd_`, `CurlRemoveSock` unregisters
  `sockfd_` and not the socket it is called for, and
  `DCHECK_EQ(fd, sockfd_)` in `OnEvent` fails. All other runs are for
  `SocksPerTransfer = 1`, as for a backend with one address; so are the three
  theorems about sockets, and no others.

Liveness needs that the kernel reports what is ready, that the loop dispatches
what it fetched, that libcurl starts what is added, tears down what failed and
returns. It does not need that the origin ever answers.

`CHECK_DEADLOCK FALSE`: a worker without requests and with a disarmed timer
rests, and so does one that died.

### ResponseRelay

An answer is the list of callbacks libcurl makes for it. `WellFormed`, an
assumption on the constant `Answers`, is libcurl's side of the bargain: each
block has a status line, the body follows the last block in pieces that are not
empty, and where there is a body it has the announced length. Trailers, which
libcurl gives to the same header callback, are left out. One piece of body is
one call of `WriteQuicCallback`, and MC enumerates every way to cut bodies of up
to three bytes. Earlier blocks (none, a 100, a 103, redirects with and without a
length) and final responses (200 or 404; with a length, chunked, or ended by the
end of the connection; with and without a body; a HEAD response; a line that is
no field) are combined freely. `LOG(DFATAL)`, on the lines libcurl should not
give, ends the process in a debug build (`DFatal`) and is passed over in a
release build, where a bad status line fails the transfer (`BadStatusLine`). The stream is modelled by what `QuicStream` does with a write: units
wait for flow control, are sent, are acknowledged, and the FIN goes with the
last. With HTTP/3 headers are units of the stream; with gQUIC they are not, and
`OnStreamFrameAcked` never hears of them.

`Understood` says for which answers the code gets the end of the response
right. For the others it does not, which TLC shows when the condition is
dropped: a redirect or a 103 without a length, or a 404 that ends with the
connection, gets a FIN with its headers and its body is refused
(`quic_proxy_curl.cc:229-237`); after a redirect with a length, a response
without one gets its FIN at the wrong byte, because `content_length_` is never
reset (`:208`). No text of the repository promises otherwise, so these are
hazards and not findings.

* `relay`: `FinMeansComplete` and `NothingLost`; `EndIsTold`, for responses
  whose content-length says where the body ends (`Delimited`; not for a HEAD,
  whose length announces a body that does not come), with one exception that
  its statement names (`EmptyUntold`): a 200 or 100 with length 0, or one that is
  also chunked, gets no FIN with its headers (`quic_proxy_curl.cc:230-236`), and
  no body follows that could bring one. Its client waits until an
  acknowledgement comes after the transfer's end, as for a chunked response. No
  text of the repository promises more, so it is a hazard and not a finding.
  And `ImplementsResponse`. For an answer that
  is `Understood` the abstract stream's `size` is the units the answer makes,
  `given` what the stream took (waiting, in flight or acknowledged, whence the
  counter `acked`), and `ended` that a write brought the FIN. An interim header
  block is a write of its own; no write may pass the end.
* `relay_early_ack` (violation of the comment at `quic_proxy_stream.cc:45`): a
  chunked response gets no FIN from `WriteQuicCallback`; its stream is left to
  `OnStreamFrameAcked`, which closes it only if an acknowledgement comes after
  the transfer's end. When all have come before, the stream stays open.

Fairness: libcurl makes the callbacks of an answer or fails, flow control opens,
the client acknowledges.

### PacketWriter

`buffered_writes` holds a slot and, apart from it, the packet's length and
addresses; the bytes are read from the slot when `Flush` sends. `on_can_write`
is the time in which `OnCanWrite` lets the blocked connections write; no other
event is handled then, and `HasPendingWrites` is asked at its end. `wire` is what
the last step sent, a pair of bytes and addresses. `held` are the packets whose
connection was told that the write blocked.

* `writer`: a ring of 3, a position that wraps after two rounds
  (`SizeModulus = 6`; in the code 2^64 and 32), a send buffer of 2, so that a
  full ring is always sent in parts, and one packet that cannot be sent.
  `ImplementsFifo` counts stores: a packet stored twice, as happens when
  `WritePacket` answers "blocked" for a packet it has kept, goes out twice.
  With an unsendable packet at the head (`Jammed`) nothing is ever sent again,
  which is a hazard no document speaks of: `BlockedIsWoken`, `CacheMoves` and
  `UnblocksEventually` say that this is all that stops the writer.
* `writer_long_interval` (violation): `--sendmmsgtimer_interval` of a second or
  more makes `timerfd_settime` fail, unnoticed, and the cache is never
  refreshed.

Fairness: the kernel transmits, the loop serves the timer and EPOLLOUT, and
`OnCanWrite` comes to its end: it calls each blocked connection, which writes
until all have written or the writer is blocked. That connections write
otherwise is not assumed.

### Upload and Exchange

`Upload` is the side of a transfer that `StartHttp` and `ReadQuicCallback` make:
which methods have a body, what libcurl is told of it, and how it is read in
pieces. libcurl may have to send a request again. No seek or ioctl callback is
set, so it fails such a transfer if it has read anything of the body; this rule
of libcurl's, and not the code, is why `request_body_pos_` need not go back.

`Exchange` extends `ResponseRelay` and `PacketWriter`, whose definitions are
named apart (`RelayInit`, `WriterInit`, ...) so that it can use what is proved of
them, instantiates `Upload`, and joins the three by what lies between: libcurl reads an answer of the request it has sent (it
may come before all of the body is read), a transfer ends for both sides at
once, and the connection puts what the stream sends into numbered packets, which
it writes again when the writer refuses them. It is for HTTP/3 only, because
with gQUIC the headers travel in another stream. The network loses nothing:
repairing loss is QUIC's, not this code's.

* `exchange`: a ring of 2 and a send buffer of 1, the least with which a ring is
  sent in part and a stored packet is answered with "blocked"; three requests
  (PATCH with a body in pieces, DELETE with a body that is not forwarded, an
  invalid method), two attempts; five answers, of at most four units. A packet
  has a number, and carries at least one unit, so that as many numbers as the
  longest answer has units suffice (`PacketsAssumption`); `TypeOK` says that no
  answer runs out of them. `FinSaysAll` says that who
  has the FIN has all units before it, `NoPacketVanishes` that what is not there
  is cached or kept, `UploadIntact` and `LengthKept` what the origin gets.
  `LengthKept` leaves out bodies that come with other methods: their length is
  forwarded and they are not (`quic_proxy_curl.cc:61`, `:114`).
* `ResponseArrives`, in the same run: the end of a response with a content-length
  reaches the client, but for the `EmptyUntold` ones, which get no FIN. There is
  one way in which it may not, and without the exception for it TLC finds the
  property violated. `WritePacket` returns
  `WRITE_STATUS_BLOCKED` for a packet that it has stored
  (`quic_proxy_packet_writer.cc:37`). The connection writes that packet again
  after `OnCanWrite`; the ring is full of its copies by then, and if the kernel
  has freed one place the copy takes it and the answer is "blocked" again. This
  may go on for ever, with the same packet on the wire each time. In such a
  behaviour there is, from some time on, always a packet to write again that has
  left already (`WritesAgainForNothing`). The property excepts the behaviours in
  which it is so for ever (`<>[]`), not those in which it is so for a while, and
  what is checked is that nothing else keeps a response back. No text of the repository promises otherwise, so
  it is a hazard and not a finding.

While `OnCanWrite` lets connections write, nothing but their writes happens.

Fairness: the origin answers or fails, flow control opens, connections write
what they have, the loop serves timer and EPOLLOUT, the kernel transmits. It is
not assumed that the client acknowledges. `CHECK_DEADLOCK FALSE`: a request that
is over rests.

### Server

One `OnEvent` is one step up to the read loop and one per call of `recvmmsg`, so
that datagrams arrive in between. `epollin` is an edge. The headers' control
space is kept from one read to the next, as in `mmsg_hdr_`. The receive queue is
bounded; the kernel counts what it drops (`overflows`) and stamps what it queues
with the count, which `GetOverflowFromMsghdr` reads from the first header of a
batch. `Intact` is the reader's check of
a datagram; its last part, that the control data tells the address the datagram
was sent to, cannot fail for control data that is whole, and is left out.
`CreateQuicSession` gives a client hello its session, under the allowance
of sessions per event.

* `server`: 6 datagrams, a queue of 3 and batches of 2, one session per event, so
  that there are events with several full batches, last batches that are exactly
  full, overflows before, between and after the reads of an event, and more
  hellos than an event serves; control data of two sizes, with a count and
  without; a hello that is too long and an empty datagram. `CountTrails` is about
  a count that comes again with every later datagram: it may lag, but not double.
  `ChloServed` is liveness under the fairness of the loop alone.

`CHECK_DEADLOCK FALSE`: when all datagrams have come the worker rests.

### Supervisor

Process numbers are reused by the kernel. `looping` is a child of the second
loop whose `worker()` returned: the code has no `exit` there, and the child runs
the master's loop without children. A child of the first loop pins itself to a
CPU (`cpu`), if `sched_setaffinity` does not fail, which nobody looks at; a child
of the second loop has the master's affinity and may run on any.

All workers bind the same port with `SO_REUSEADDR`. What that does is the
kernel's, and external to the sources: of UDP sockets that share a port in this
way, Linux gives every datagram to the one bound last (`Receivers`). `bound` is
the order of binding, from which a process that dies is removed, `sessions` the connections each process has. A client whose
datagrams reach a worker that does not know it connects anew.

* `supervisor`: 3 CPUs and 4 process numbers, so that a replacement gets the
  number of the child it replaces or another; 2 clients; 3 deaths, 2 refusals and
  2 failed forks, enough for a replacement that fails in its turn.
  `OnePerCpu`: no two workers are pinned to one CPU, only children of the first
  loop are pinned, and no child is forgotten. It does not say that no CPU runs
  two workers: a replacement may run beside a pinned worker, while the CPU of the
  one it replaces has none. No text promises otherwise.
  `PortIsServed`: a child that could not listen returns from `worker()` with its
  descriptor open, and one of the second loop lives on; the port stays with the
  workers that listen, because every failing path comes before or at `bind`.
  `ClientsServed`: whoever dies, a client ends up with a connection to the worker
  that gets its datagrams, provided that anybody listens. It does not promise
  that a connection survives the restart of another worker, and it does not.
* `multi_core` (violation of `README-en.md:11`, "Use SO_REUSEADDR to improve the
  ability of services to use multiple cores"): two workers listen and one gets
  all datagrams.
* `supervisor_listens` (violation of the comment at
  `quic_proxy_server_bin.cc:5-6`): one CPU, one death, one restart that cannot
  bind, and nobody listens any more.

Fairness: processes are scheduled and clients try again. `RestoresWorkers` and
`ClientsServed` are about what happens after the bounded failures have stopped.
`CHECK_DEADLOCK FALSE`: then nothing more happens.

## Proofs

Proved with TLAPS, for all values of the constants that satisfy the named
assumptions: every invariant and every refinement that a passing run checks.

**`ProxyBackendProofs`.** Two inductive invariants, one on top of the other.
`CoreInv` speaks of objects, lists and timer. To the three invariants it proves
it adds that a stream which asked for nothing has no proxy, that libcurl knows
only handles of proxies in the hash, what is settled when
`curl_multi_socket_action` has returned, and that `still_running_` is then the
number of handles libcurl runs (`Counted`), because of the timeouts that
`curl_multi_remove_handle` may still ask for. It holds however many sockets a
transfer has, and gives `LinksKept`, `RetiredSafely`, `TimeoutKept` and
`RefinesLifecycle`, which matches `CheckCurlMultiInfo` with `Retire` or
`Reclaim`, depending on whether it read a message. `SocketInv` adds, for
`SocksPerTransfer = 1`, that a socket in use is open, belongs to a transfer
libcurl runs, and is its `sockfd_`, and that the proxy whose `OnEvent` runs stays
in the hash until the messages are read; it gives `PointersSafe`, `PollingCorrect` and `DispatchCorrect`.
The run `backend_two_socks` shows that the last needs this hypothesis.

**`PacketWriterProofs`.** `WriterInv` says that the entries of the deque are the
last slots before the position, in order, modulo the ring size; that this
survives the wrap rests on the ring size dividing the modulus
(`CacheAssumption`). It gives `WriterTypeCorrect`, `RingIntegrity` and
`BlockedWriterIsWoken`. In a ring every pointer leads to the packet it was made
for, so `RefinesFifo` is about sequences: what the first flush of a write sends,
what the second sends and what stays are three consecutive parts of the old
queue with the new packet at its end (`StoreMoves`).

**`SumsProofs`.** The library's induction theorems cannot be used, because they
take an operator. Here induction is over sets of numbers (`SetInduction`, from
`WFMin` of the library): the set of those lengths for which a claim holds. So
`PartialSums`, which is a recursive function and not a recursive operator, is
shown to be the function its definition means, to grow, and to depend on nothing
but the numbers summed. These are lemmas, for `ResponseRelayProofs` and
`ExchangeProofs`.

**`ResponseRelayProofs`.** `FinMeansComplete` is about the last callback of an
answer of any length, and nothing in the proxy's state says where the answer
ends. `RelayInv` ties each variable to what was delivered: `spdy_headers_` to the
lines of the block being read (`HeadersAsRead`), `content_length_` to the final
block (`LengthAsRead`), `had_send_length_` to the body so far (`BodyCounted`), the
stream's counters to the units so far (`UnitsGiven`; `UnitsBounded` for answers
that are not understood), and a closed stream to one of the two causes
(`ClosedBy`). A FIN with the headers then needs a final block that says
"length 0", so that no body follows (`FinAtEnd`); a FIN with a piece needs the
announced length to be reached, and as no piece is empty that piece is the last
(`FinAtBody`). `FinIsLast`, `NoneLost`, `RelayTypeCorrect` and `RefinesStream`
follow. They rest on `AnswersAssumption`.

**`ServerProofs`.** `IInv` adds to the three invariants that the stamps in the
queue do not go down and that nothing is buffered before the first event; it
gives `NothingIsStranded`, `CountIsRight` and `DropsHaveCause`. `TypeCorrect` is
inductive alone, but for `Picked`, a recursive function, which takes a
`SetInduction` of its own.

**`SupervisorProofs`.** `OneWorkerPerCpu` from the count of children, with the
fact that no fork has failed while the first loop runs, and from `PinInv`: who is
pinned is a child of the first loop, its CPU is below `forked`, and no other has
it. `TypeCorrect` and
`PortServed` from `SocketInv`: `bound` has every listening worker once.

**`ExchangeProofs`.** `ExchangeInv` is `RelayInv` and `WriterInv`, reused as they
are, with three parts that join them:
* `UploadInv`: the origin has exactly the bytes before `request_body_pos_`, and
  nothing was read of a request still to be sent (`BodyIsIntact`, `LengthIsKept`).
* `FramesInv`: the packets made so far carry just what the stream has sent, none
  is empty, and only the last may have the FIN.
* `OrderInv`: packets leave the worker in the order in which they were made;
  those that left, the one the connection keeps and those in the ring are all
  there are (`NoneVanishes`). Each flush sends a prefix of the ring
  (`FlushKeepsOrder`), and a write stores its packet behind all others.

Together: if a packet with the FIN has arrived, all packets have, and they carry
all the stream was given, which is the whole answer (`FinIsWhole`).
`KeepsItsParts` shows that an exchange is a behaviour of the relay's and of the
writer's specification, so that their theorems hold of it, the two refinements
included (`PartsRefine`).

Only model-checked: all liveness, which is out of the prover's reach
(`LaunchEventually`, `AbortedIsRetired`, `CacheMoves`, `UnblocksEventually`,
`EndIsTold`, `ChloServed`, `RestoresWorkers`, `ClientsServed`, `ResponseArrives`).

## Not modelled

* `ProgressQuicCallback` is never registered, `ContinueDownload` is empty.
* Names, values and order of headers; URLs; logging; timestamps.
* `InitializeBackend`, flags, `--test` and `--daemon`: configuration before the
  first event.
* `QuicProxyServer::Shutdown` and the destructors: no code of the program
  reaches them.
* Of dispatcher and session, all but the two functions that create sessions and
  streams: what they do otherwise is QUIC code that is not in the repository.
* EPOLLIN and EPOLLOUT of one event in one step: `Server` has the one,
  `PacketWriter` the other, and they share no state but the dispatcher's.
* The reader's check of `self_ip` (`quic_proxy_packet_reader.cc:117-120`), which
  whole control data always passes.
* Packet loss and repair, which are QUIC's.
* A system clock that is set back under the writer's timer.
* gQUIC in `Exchange`; `ResponseRelay` has it.
* `logrun.pl`, a script that starts programs.

## Plan

Done: `ProxyBackend`, `PacketWriter`, `ResponseRelay`, `Server`, `Supervisor`,
`Upload`, `Exchange`, the abstract specifications, and the proofs above.

Next, modelling: `Exchange` with gQUIC's headers stream; several transfers under
`ProxyBackend` whose streams share one `PacketWriter`.

Next, proofs: safety facts on which the liveness properties rest, such as that a
cached packet always has an armed timer; that every client hello given to the
dispatcher has a session or waits for one.
