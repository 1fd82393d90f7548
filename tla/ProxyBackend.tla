---------------------------- MODULE ProxyBackend ----------------------------
(***************************************************************************)
(* QuicProxyBackend, QuicProxyCurl and QuicCurlTimer inside one worker     *)
(* process: which objects exist, who points at whom, which descriptors     *)
(* epoll watches, and when libcurl's timeout is armed.                     *)
(*                                                                         *)
(* A worker has one thread.  Its event loop runs one callback at a time    *)
(* and each callback runs to its end, but curl_multi_socket_action calls   *)
(* back into the backend any number of times before it returns, so one     *)
(* OnEvent is several steps here (pc):                                     *)
(*    "idle"   the loop is between two callbacks                           *)
(*    "curl"   inside curl_multi_socket_action                             *)
(*    "check"  it returned, CheckCurlMultiInfo is next                     *)
(*    "tail"   the lines of OnEvent after CheckCurlMultiInfo               *)
(*    "down"   the process died; the master forks one that starts at Init  *)
(* `who' is the QuicProxyCurl whose OnEvent runs; NoReq is QuicCurlTimer.  *)
(*                                                                         *)
(* A request r names a QUIC stream, the QuicProxyCurl created for it and   *)
(* that object's easy handle: a stream fetches at most once.  What the     *)
(* callbacks write to the stream is not in this module.                    *)
(***************************************************************************)
EXTENDS Integers, FiniteSets

CONSTANTS
  Requests,         \* requests, one per QUIC stream
  Socks,            \* descriptor numbers libcurl may get for its sockets
  NoReq,            \* a null QuicProxyCurl* / CURL*
  NoSock,           \* sockfd_ = -1
  Whats,            \* poll requests libcurl makes: subsets of {"IN", "OUT"}
  Timeouts,         \* timeout_ms values libcurl asks for
  SocksPerTransfer  \* sockets libcurl may hold for one transfer at a time

ASSUME NoReqAssumption   == NoReq \notin Requests
ASSUME NoSockAssumption  == NoSock \notin Socks
ASSUME WhatsAssumption   == Whats \subseteq SUBSET {"IN", "OUT"}
ASSUME TimeoutsAssumption == Timeouts \subseteq Int
ASSUME SocksPerTransferAssumption == SocksPerTransfer \in Nat \ {0}
ASSUME FiniteAssumption == IsFiniteSet(Requests) /\ IsFiniteSet(Socks)

VARIABLES
  \* QuicProxyStream and QuicProxyCurl objects
  strm,                  \* "idle" | "live" | "destroyed"
  quic_proxy_curl,       \* requests whose stream's quic_proxy_curl_ is not null
  quic_stream,           \* requests whose proxy's quic_stream_ is not null
  sockfd,                \* proxy r's sockfd_
  \* QuicProxyBackend
  proxy_http_hash,       \* requests whose proxy is in proxy_http_hash_
  proxy_http_dead_list,  \* requests whose proxy is in proxy_http_dead_list_
  still_running,         \* still_running_
  \* libcurl's multi handle
  multi,                 \* "out" | "added" | "running" | "aborted" | "done"
  sock_user,             \* the transfer that uses a socket
  sock_open,             \* open sockets; open and unused = connection cache
  sockp,                 \* the pointer curl_multi_assign stored
  what,                  \* what libcurl last asked to poll for
  curl_timeout,          \* libcurl counts on a timeout it asked for
  \* QuicEpollServer
  cb_map,                \* callback object registered for a descriptor
  mask,                  \* event mask registered for a descriptor
  ready,                 \* fetched socket events that are not dispatched yet
  \* QuicCurlTimer's timerfd
  armed, ticks, timer_ready,
  \* the worker's thread
  pc, who

objVars   == <<strm, quic_proxy_curl, quic_stream, sockfd>>
backVars  == <<proxy_http_hash, proxy_http_dead_list, still_running>>
curlVars  == <<multi, sock_user, sock_open, sockp, what, curl_timeout>>
epollVars == <<cb_map, mask, ready>>
timerVars == <<armed, ticks, timer_ready>>
vars == <<objVars, backVars, curlVars, epollVars, timerVars, pc, who>>

Alive(r)   == r \in proxy_http_hash \cup proxy_http_dead_list
Done       == {r \in Requests : multi[r] = "done"}
NumAlive   == Cardinality({r \in Requests : multi[r] \in {"added", "running", "aborted"}})
SocksOf(r) == {s \in Socks : sock_user[s] = r}

\* The timer starts with an interval of one second.
InitializeCurlTimer == armed = TRUE /\ ticks = FALSE /\ timer_ready = FALSE

\* A worker that main() has just forked, before its first event.
Init ==
  /\ strm            = [r \in Requests |-> "idle"]
  /\ quic_proxy_curl = {}
  /\ quic_stream     = {}
  /\ sockfd          = [r \in Requests |-> NoSock]
  /\ proxy_http_hash = {}
  /\ proxy_http_dead_list = {}
  /\ still_running   = 0
  /\ multi           = [r \in Requests |-> "out"]
  /\ sock_user       = [s \in Socks |-> NoReq]
  /\ sock_open       = {}
  /\ sockp           = [s \in Socks |-> NoReq]
  /\ what            = [s \in Socks |-> {}]
  /\ curl_timeout    = FALSE
  /\ cb_map          = [s \in Socks |-> NoReq]
  /\ mask            = [s \in Socks |-> {}]
  /\ ready           = {}
  /\ InitializeCurlTimer
  /\ pc              = "idle"
  /\ who             = NoReq

-----------------------------------------------------------------------------
(***************************************************************************)
(* The timer descriptor.                                                   *)
(***************************************************************************)

\* Mutant: a zero timeout_ms is copied like any other.
ItValue_ZeroCopied(timeout_ms) ==
  IF timeout_ms >= 0
  THEN [sec |-> timeout_ms \div 1000, nsec |-> (timeout_ms % 1000) * 1000000]
  ELSE [sec |-> 0, nsec |-> 0]

\* it_value of the itimerspec CurlMultiTimerCB fills in.
ItValue(timeout_ms) ==
  IF timeout_ms > 0
  THEN [sec |-> timeout_ms \div 1000, nsec |-> (timeout_ms % 1000) * 1000000]
  ELSE [sec |-> 0, nsec |-> IF timeout_ms = 0 THEN 1 ELSE 0]

\* timerfd_settime: a zero it_value disarms; unread expirations are dropped.
SetTime(it_value) ==
  /\ armed' = (it_value.sec > 0 \/ it_value.nsec > 0)
  /\ ticks' = FALSE
  /\ UNCHANGED timer_ready

CurlMultiTimerCB(timeout_ms) == SetTime(ItValue(timeout_ms))

-----------------------------------------------------------------------------
(***************************************************************************)
(* QUIC events.  The session deletes streams from an alarm of the event    *)
(* loop, so neither of these runs inside a libcurl callback.               *)
(***************************************************************************)

\* The end of StartHttp gives the handle to libcurl, which always asks for an
\* immediate timeout when a handle is added.
StartHttp(r) ==
  /\ multi' = [multi EXCEPT ![r] = "added"]
  /\ curl_timeout' = TRUE
  /\ CurlMultiTimerCB(0)

\* CreateProxyCurl succeeds, and so does StartHttp.
FetchResponseFromBackend(r) ==
  /\ pc = "idle"
  /\ strm[r] = "idle"
  /\ strm' = [strm EXCEPT ![r] = "live"]
  /\ proxy_http_hash' = proxy_http_hash \cup {r}
  /\ quic_proxy_curl' = quic_proxy_curl \cup {r}
  /\ quic_stream' = quic_stream \cup {r}
  /\ StartHttp(r)
  /\ UNCHANGED <<sockfd, proxy_http_dead_list, still_running, sock_user,
                 sock_open, sockp, what, epollVars, pc, who>>

\* StartHttp returns early on an invalid :method: the proxy stays in the hash
\* and libcurl never hears of it.
FetchInvalidMethod(r) ==
  /\ pc = "idle"
  /\ strm[r] = "idle"
  /\ strm' = [strm EXCEPT ![r] = "live"]
  /\ proxy_http_hash' = proxy_http_hash \cup {r}
  /\ quic_proxy_curl' = quic_proxy_curl \cup {r}
  /\ quic_stream' = quic_stream \cup {r}
  /\ UNCHANGED <<sockfd, proxy_http_dead_list, still_running, curlVars,
                 epollVars, timerVars, pc, who>>

\* curl_easy_init fails: CreateProxyCurl returns false, which is only logged,
\* and proxy->StartHttp then runs on a null pointer.  The process dies.
FetchInitFails(r) ==
  /\ pc = "idle"
  /\ strm[r] = "idle"
  /\ pc' = "down"
  /\ UNCHANGED <<objVars, backVars, curlVars, epollVars, timerVars, who>>

\* Mutant: the proxy keeps its pointer to the destroyed stream.
Close_ProxyKeepsStream(r) ==
  /\ pc = "idle"
  /\ strm[r] = "live"
  /\ strm' = [strm EXCEPT ![r] = "destroyed"]
  /\ quic_proxy_curl' = quic_proxy_curl \ {r}
  /\ UNCHANGED <<quic_stream, sockfd, backVars, curlVars, epollVars, timerVars, pc, who>>

\* ~QuicSimpleServerStream calls CloseBackendResponseStream.
CloseBackendResponseStream(r) ==
  /\ pc = "idle"
  /\ strm[r] = "live"
  /\ strm' = [strm EXCEPT ![r] = "destroyed"]
  /\ \/ /\ r \in quic_proxy_curl
        /\ quic_stream' = quic_stream \ {r}
        /\ quic_proxy_curl' = quic_proxy_curl \ {r}
     \/ /\ r \notin quic_proxy_curl
        /\ UNCHANGED <<quic_stream, quic_proxy_curl>>
  /\ UNCHANGED <<sockfd, backVars, curlVars, epollVars, timerVars, pc, who>>

-----------------------------------------------------------------------------
(***************************************************************************)
(* The event loop.  epoll_wait returns some ready sockets and, if the      *)
(* timer has expired, the timer; the callbacks then run one by one.        *)
(***************************************************************************)

TimerExpires ==
  /\ armed /\ ~ticks
  /\ pc # "down"
  /\ ticks' = TRUE
  /\ UNCHANGED <<objVars, backVars, curlVars, epollVars, armed, timer_ready, pc, who>>

EpollWait ==
  /\ pc = "idle" /\ ready = {} /\ ~timer_ready
  /\ ready' \in SUBSET {s \in sock_open : cb_map[s] # NoReq}
  /\ timer_ready' = ticks
  /\ ready' # {} \/ timer_ready'
  /\ UNCHANGED <<objVars, backVars, curlVars, cb_map, mask, armed, ticks, pc, who>>

\* QuicProxyCurl::OnEvent enters curl_multi_socket_action.
OnEvent(s) ==
  /\ pc = "idle"
  /\ s \in ready
  /\ ready' = ready \ {s}
  /\ who' = cb_map[s]
  /\ pc' = "curl"
  /\ UNCHANGED <<objVars, backVars, curlVars, cb_map, mask, timerVars>>

\* QuicCurlTimer::OnEvent: read the expirations, then let libcurl handle the
\* timeout.  libcurl forgets the timeout it asked for.
TimerOnEvent ==
  /\ pc = "idle" /\ timer_ready
  /\ ticks
  /\ timer_ready' = FALSE
  /\ ticks' = FALSE
  /\ curl_timeout' = FALSE
  /\ who' = NoReq
  /\ pc' = "curl"
  /\ UNCHANGED <<objVars, backVars, multi, sock_user, sock_open, sockp, what,
                 epollVars, armed>>

\* The timer was set again after the event was fetched: read() gives EAGAIN.
TimerOnEventEAGAIN ==
  /\ pc = "idle" /\ timer_ready
  /\ ~ticks
  /\ timer_ready' = FALSE
  /\ UNCHANGED <<objVars, backVars, curlVars, epollVars, armed, ticks, pc, who>>

-----------------------------------------------------------------------------
(***************************************************************************)
(* Inside curl_multi_socket_action: libcurl moves transfers on and calls   *)
(* the socket, timer, header and write callbacks.                          *)
(***************************************************************************)

RegisterFD(s, r, m) ==
  /\ cb_map' = [cb_map EXCEPT ![s] = r]
  /\ mask' = [mask EXCEPT ![s] = m]
  /\ ready' = ready \ {s}

UnregisterFD(s) ==
  /\ cb_map' = [cb_map EXCEPT ![s] = NoReq]
  /\ mask' = [mask EXCEPT ![s] = {}]
  /\ ready' = ready \ {s}

\* Mutant: the mask of the registration stays, CurlSetSock is not called.
CurlAddSock_NoSetSock(s, easy, w) ==
  /\ sockfd' = [sockfd EXCEPT ![easy] = s]
  /\ RegisterFD(s, easy, {"IN", "OUT"})
  /\ sockp' = [sockp EXCEPT ![s] = easy]

\* Mutant: set_sockfd is only called for a proxy's first socket.
CurlAddSock_FirstSockfd(s, easy, w) ==
  /\ sockfd' = [sockfd EXCEPT ![easy] = IF @ = NoSock THEN s ELSE @]
  /\ RegisterFD(s, easy, w)
  /\ sockp' = [sockp EXCEPT ![s] = easy]

\* RegisterFD(s, proxy, IN | OUT), then CurlSetSock cuts the mask to w.
CurlAddSock(s, easy, w) ==
  IF easy \in proxy_http_hash
  THEN /\ sockfd' = [sockfd EXCEPT ![easy] = s]
       /\ RegisterFD(s, easy, w)
       /\ sockp' = [sockp EXCEPT ![s] = easy]
  ELSE UNCHANGED <<sockfd, epollVars, sockp>>

\* StartRead/StopRead/StartWrite/StopWrite do nothing for an unknown fd.
CurlSetSock(s, w) ==
  /\ mask' = [mask EXCEPT ![s] = IF cb_map[s] # NoReq THEN w ELSE @]
  /\ UNCHANGED <<cb_map, ready>>

\* what # CURL_POLL_REMOVE: a first announcement or a change.
CurlSockCB(s, easy, w) ==
  IF sockp[s] = NoReq
  THEN CurlAddSock(s, easy, w)
  ELSE CurlSetSock(s, w) /\ UNCHANGED <<sockfd, sockp>>

\* Mutant: the descriptor is left registered when it is kept for reuse.
CurlRemoveSock_StaysRegistered(proxy) == UNCHANGED epollVars

\* what = CURL_POLL_REMOVE.  The callback is given the proxy libcurl stored for
\* the socket, and unregisters that proxy's sockfd_.
CurlRemoveSock(proxy) ==
  IF proxy # NoReq /\ sockfd[proxy] # NoSock
  THEN UnregisterFD(sockfd[proxy])
  ELSE UNCHANGED epollVars

\* libcurl picks up a handle that was added.
CurlStart(r) ==
  /\ pc = "curl"
  /\ multi[r] = "added"
  /\ multi' = [multi EXCEPT ![r] = "running"]
  /\ UNCHANGED <<objVars, backVars, sock_user, sock_open, sockp, what,
                 curl_timeout, epollVars, timerVars, pc, who>>

\* A transfer gets a socket, new or from the connection cache.
CurlAnnounces(r, s, w) ==
  /\ pc = "curl"
  /\ multi[r] = "running"
  /\ sock_user[s] = NoReq
  /\ Cardinality(SocksOf(r)) < SocksPerTransfer
  /\ sock_user' = [sock_user EXCEPT ![s] = r]
  /\ sock_open' = sock_open \cup {s}
  /\ what' = [what EXCEPT ![s] = w]
  /\ CurlSockCB(s, r, w)
  /\ UNCHANGED <<strm, quic_proxy_curl, quic_stream, backVars, multi,
                 curl_timeout, timerVars, pc, who>>

\* libcurl waits for something else on a socket it already announced.
CurlPollsFor(s, w) ==
  /\ pc = "curl"
  /\ sock_user[s] # NoReq
  /\ what[s] # w
  /\ what' = [what EXCEPT ![s] = w]
  /\ CurlSockCB(s, sock_user[s], w)
  /\ UNCHANGED <<strm, quic_proxy_curl, quic_stream, backVars, multi,
                 sock_user, sock_open, curl_timeout, timerVars, pc, who>>

\* A transfer gives a socket up: CURL_POLL_REMOVE.  libcurl drops the
\* pointer it stored and either closes the socket or keeps it in the cache.
CurlGivesUp(s) ==
  /\ pc = "curl"
  /\ sock_user[s] # NoReq
  /\ CurlRemoveSock(sockp[s])
  /\ sock_user' = [sock_user EXCEPT ![s] = NoReq]
  /\ sockp' = [sockp EXCEPT ![s] = NoReq]
  /\ what' = [what EXCEPT ![s] = {}]
  /\ sock_open' \in {sock_open, sock_open \ {s}}
  /\ UNCHANGED <<objVars, backVars, multi, curl_timeout, timerVars, pc, who>>

\* libcurl drops a cached connection; it stored no pointer, so no callback.
CurlClosesCached(s) ==
  /\ pc = "curl"
  /\ s \in sock_open /\ sock_user[s] = NoReq
  /\ sock_open' = sock_open \ {s}
  /\ UNCHANGED <<objVars, backVars, multi, sock_user, sockp, what,
                 curl_timeout, epollVars, timerVars, pc, who>>

\* libcurl changes its mind about the next timeout.  A started handle needs
\* none, one that was only added does.
CurlAsksFor(timeout_ms) ==
  /\ timeout_ms < 0 => curl_timeout /\ \A r \in Requests : multi[r] # "added"
  /\ timeout_ms >= 0 => NumAlive > 0
  /\ curl_timeout' = (timeout_ms >= 0)
  /\ CurlMultiTimerCB(timeout_ms)

CurlUpdateTimer(timeout_ms) ==
  /\ pc = "curl"
  /\ CurlAsksFor(timeout_ms)
  /\ UNCHANGED <<objVars, backVars, multi, sock_user, sock_open, sockp, what,
                 epollVars, pc, who>>

\* HttpHeaderCallback or WriteQuicCallback runs for a proxy whose stream is
\* gone: it returns CURLE_WRITE_ERROR, libcurl sees a short write and fails
\* the transfer.
CallbackWithoutStream(r) ==
  /\ pc = "curl"
  /\ multi[r] = "running" /\ SocksOf(r) # {}
  /\ r \notin quic_stream
  /\ multi' = [multi EXCEPT ![r] = "aborted"]
  /\ UNCHANGED <<objVars, backVars, sock_user, sock_open, sockp, what,
                 curl_timeout, epollVars, timerVars, pc, who>>

\* The transfer ends, well or not; its CURLMSG_DONE waits to be read.
CurlCompletes(r) ==
  /\ pc = "curl"
  /\ multi[r] \in {"running", "aborted"}
  /\ SocksOf(r) = {}
  /\ multi' = [multi EXCEPT ![r] = "done"]
  /\ UNCHANGED <<objVars, backVars, sock_user, sock_open, sockp, what,
                 curl_timeout, epollVars, timerVars, pc, who>>

\* curl_multi_socket_action stores the number of live handles and returns.
\* It has started what was due, ended what failed, and asked for no timeout
\* when nothing is left to time out.
SocketActionReturns ==
  /\ pc = "curl"
  /\ \A r \in Requests : multi[r] \notin {"added", "aborted"}
  /\ NumAlive = 0 => ~curl_timeout
  /\ still_running' = NumAlive
  /\ pc' = "check"
  /\ UNCHANGED <<objVars, proxy_http_hash, proxy_http_dead_list, curlVars,
                 epollVars, timerVars, who>>

-----------------------------------------------------------------------------
(***************************************************************************)
(* After curl_multi_socket_action.                                         *)
(***************************************************************************)

\* Mutant: the easy handle is left in the multi handle.
RetireDone_NotRemoved ==
  /\ proxy_http_dead_list' = proxy_http_dead_list \cup (Done \cap proxy_http_hash)
  /\ proxy_http_hash' = proxy_http_hash \ Done
  /\ quic_proxy_curl' = quic_proxy_curl \ Done
  /\ quic_stream' = quic_stream \ Done
  /\ UNCHANGED <<sockfd, multi>>

\* Mutant: only a proxy that still has its stream leaves the hash.
RetireDone_OnlyLinked ==
  /\ multi' = [r \in Requests |-> IF r \in Done THEN "out" ELSE multi[r]]
  /\ proxy_http_dead_list' = proxy_http_dead_list \cup (Done \cap quic_stream)
  /\ proxy_http_hash' = proxy_http_hash \ (Done \cap quic_stream)
  /\ quic_proxy_curl' = quic_proxy_curl \ Done
  /\ quic_stream' = quic_stream \ Done
  /\ UNCHANGED sockfd

\* Every finished proxy moves from the hash to the dead list and is unlinked
\* from its stream.
RetireDone ==
  /\ multi' = [r \in Requests |-> IF r \in Done THEN "out" ELSE multi[r]]
  /\ proxy_http_dead_list' = proxy_http_dead_list \cup (Done \cap proxy_http_hash)
  /\ proxy_http_hash' = proxy_http_hash \ Done
  /\ quic_proxy_curl' = quic_proxy_curl \ (Done \cap quic_stream)
  /\ quic_stream' = quic_stream \ Done
  /\ UNCHANGED sockfd

\* proxy_http_dead_list_.clear() destroys the proxies on it.
ClearDeadList ==
  /\ proxy_http_dead_list' = {}
  /\ sockfd' = [r \in Requests |->
                  IF r \in proxy_http_dead_list THEN NoSock ELSE sockfd[r]]
  /\ quic_stream' = quic_stream \ proxy_http_dead_list
  /\ UNCHANGED <<quic_proxy_curl, proxy_http_hash, multi>>

\* Mutant: a finished proxy is freed as soon as its message is read.
Check_FreesAtOnce ==
  /\ pc = "check"
  /\ multi' = [r \in Requests |-> IF r \in Done THEN "out" ELSE multi[r]]
  /\ proxy_http_hash' = proxy_http_hash \ Done
  /\ quic_proxy_curl' = quic_proxy_curl \ Done
  /\ quic_stream' = quic_stream \ Done
  /\ sockfd' = [r \in Requests |-> IF r \in Done THEN NoSock ELSE sockfd[r]]
  /\ pc' = "tail"
  /\ UNCHANGED <<strm, proxy_http_dead_list, still_running, sock_user, sock_open,
                 sockp, what, curl_timeout, epollVars, timerVars, who>>

\* A check that read a message frees nothing, and curl_multi_remove_handle may
\* change the timeout; one that read none frees all that earlier checks retired.
CheckCurlMultiInfo ==
  /\ pc = "check"
  /\ \/ /\ Done # {} /\ RetireDone
        /\ \/ \E t \in Timeouts : CurlAsksFor(t)
           \/ UNCHANGED <<curl_timeout, timerVars>>
     \/ /\ Done = {} /\ ClearDeadList
        /\ UNCHANGED <<curl_timeout, timerVars>>
  /\ pc' = "tail"
  /\ UNCHANGED <<strm, still_running, sock_user, sock_open, sockp, what,
                 epollVars, who>>

\* Mutant: every socket event disarms the timer.
OnEventReturns_AlwaysDisarms ==
  /\ pc = "tail"
  /\ \/ who # NoReq /\ SetTime([sec |-> 0, nsec |-> 0])
     \/ who = NoReq /\ UNCHANGED timerVars
  /\ pc' = "idle"
  /\ who' = NoReq
  /\ UNCHANGED <<objVars, backVars, curlVars, epollVars>>

\* QuicProxyCurl::OnEvent disarms the timer when nothing runs any more;
\* QuicCurlTimer::OnEvent has nothing left to do.
OnEventReturns ==
  /\ pc = "tail"
  /\ \/ /\ who # NoReq /\ still_running <= 0
        /\ SetTime([sec |-> 0, nsec |-> 0])
     \/ /\ who = NoReq \/ still_running > 0
        /\ UNCHANGED timerVars
  /\ pc' = "idle"
  /\ who' = NoReq
  /\ UNCHANGED <<objVars, backVars, curlVars, epollVars>>

-----------------------------------------------------------------------------

QuicEvents ==
  \E r \in Requests :
    \/ FetchResponseFromBackend(r)
    \/ FetchInvalidMethod(r)
    \/ FetchInitFails(r)
    \/ CloseBackendResponseStream(r)

EventLoop ==
  \/ TimerExpires
  \/ EpollWait
  \/ \E s \in Socks : OnEvent(s)
  \/ TimerOnEvent
  \/ TimerOnEventEAGAIN

InsideLibcurl ==
  \/ \E r \in Requests :
       \/ CurlStart(r)
       \/ \E s \in Socks, w \in Whats : CurlAnnounces(r, s, w)
       \/ CallbackWithoutStream(r)
       \/ CurlCompletes(r)
  \/ \E s \in Socks :
       \/ \E w \in Whats : CurlPollsFor(s, w)
       \/ CurlGivesUp(s)
       \/ CurlClosesCached(s)
  \/ \E t \in Timeouts : CurlUpdateTimer(t)
  \/ SocketActionReturns

AfterLibcurl == CheckCurlMultiInfo \/ OnEventReturns

Next == QuicEvents \/ EventLoop \/ InsideLibcurl \/ AfterLibcurl

Spec == Init /\ [][Next]_vars

-----------------------------------------------------------------------------
(***************************************************************************)
(* Safety.                                                                 *)
(***************************************************************************)

\* Every variable has its type.
TypeOK ==
  /\ strm \in [Requests -> {"idle", "live", "destroyed"}]
  /\ quic_proxy_curl \subseteq Requests
  /\ quic_stream \subseteq Requests
  /\ sockfd \in [Requests -> Socks \cup {NoSock}]
  /\ proxy_http_hash \subseteq Requests
  /\ proxy_http_dead_list \subseteq Requests
  /\ still_running \in Nat
  /\ multi \in [Requests -> {"out", "added", "running", "aborted", "done"}]
  /\ sock_user \in [Socks -> Requests \cup {NoReq}]
  /\ sock_open \subseteq Socks
  /\ sockp \in [Socks -> Requests \cup {NoReq}]
  /\ what \in [Socks -> Whats \cup {{}}]
  /\ curl_timeout \in BOOLEAN
  /\ cb_map \in [Socks -> Requests \cup {NoReq}]
  /\ mask \in [Socks -> Whats \cup {{}}]
  /\ ready \subseteq Socks
  /\ armed \in BOOLEAN /\ ticks \in BOOLEAN /\ timer_ready \in BOOLEAN
  /\ pc \in {"idle", "curl", "check", "tail", "down"}
  /\ who \in Requests \cup {NoReq}

\* A stream and its QuicProxyCurl point at each other or not at all, and while
\* they do both objects exist: neither set_stream(nullptr) nor
\* set_proxy_curl(nullptr) is ever missed (CloseBackendResponseStream,
\* CheckCurlMultiInfo, ~QuicProxyCurl).
LinksAgree ==
  /\ quic_stream = quic_proxy_curl
  /\ \A r \in quic_stream : strm[r] = "live" /\ r \in proxy_http_hash

\* No raw QuicProxyCurl pointer outlives its object: not the callback epoll
\* would call, not the pointer libcurl hands to CurlSockCB, not the easy
\* handle's private pointer, not the `this' of the OnEvent that is running,
\* which CheckCurlMultiInfo could free under it.
NoDanglingProxy ==
  /\ \A s \in Socks : cb_map[s] # NoReq => cb_map[s] \in proxy_http_hash
  /\ \A s \in Socks : sockp[s] # NoReq => sockp[s] \in proxy_http_hash
  /\ \A r \in Requests : multi[r] # "out" => r \in proxy_http_hash
  /\ who # NoReq => Alive(who)

\* A proxy is either reachable through the hash or waiting to be freed, never
\* both, and what waits to be freed has left libcurl; between two callbacks
\* no finished transfer is left unread (CheckCurlMultiInfo).
RetiredLeftLibcurl ==
  /\ proxy_http_hash \cap proxy_http_dead_list = {}
  /\ \A r \in proxy_http_dead_list : multi[r] = "out"
  /\ pc \in {"idle", "tail"} => \A r \in Requests : multi[r] \notin {"done", "aborted"}

\* epoll watches exactly the sockets libcurl uses, for exactly what libcurl
\* waits for, on behalf of the transfer that uses them (CurlAddSock,
\* CurlSetSock, CurlRemoveSock against libcurl's own bookkeeping).
PolledAsAsked ==
  \A s \in Socks :
    /\ cb_map[s] = sock_user[s] /\ sockp[s] = sock_user[s]
    /\ mask[s] = what[s]

\* Every event waiting to be dispatched reaches a proxy that takes the
\* descriptor for its own: the DCHECK_EQ(fd, sockfd_) of QuicProxyCurl::OnEvent
\* holds, whatever the callbacks dispatched before it did.
DispatchMatchesSockfd ==
  \A s \in ready : cb_map[s] # NoReq /\ sockfd[cb_map[s]] = s

\* The timer is set whenever libcurl counts on being called back, and libcurl
\* counts on it while a launched transfer waits to be picked up: no
\* timerfd_settime, the one at the end of QuicProxyCurl::OnEvent included,
\* takes away a timeout that is still needed.
TimeoutNotLost ==
  /\ curl_timeout => armed
  /\ (\E r \in Requests : multi[r] = "added") /\ pc # "curl" => curl_timeout

-----------------------------------------------------------------------------
(***************************************************************************)
(* Liveness.  The kernel delivers what epoll_wait can return, the loop     *)
(* dispatches what it fetched, and curl_multi_socket_action returns.       *)
(***************************************************************************)

\* libcurl tears a failed transfer down before it returns.
CurlEndsAborted(r) ==
  /\ multi[r] = "aborted"
  /\ \/ \E s \in SocksOf(r) : CurlGivesUp(s)
     \/ CurlCompletes(r)

Fairness ==
  /\ WF_vars(TimerExpires)
  /\ WF_vars(EpollWait)
  /\ \A s \in Socks : WF_vars(OnEvent(s))
  /\ WF_vars(TimerOnEvent) /\ WF_vars(TimerOnEventEAGAIN)
  /\ \A r \in Requests : WF_vars(CurlStart(r)) /\ WF_vars(CurlEndsAborted(r))
  /\ WF_vars(NumAlive = 0 /\ CurlUpdateTimer(-1))
  /\ WF_vars(SocketActionReturns)
  /\ WF_vars(CheckCurlMultiInfo)
  /\ WF_vars(OnEventReturns)

FairSpec == Spec /\ Fairness

\* A request handed to libcurl is picked up: the loop is woken for it even
\* when nothing else happens on any socket (CurlMultiTimerCB with 0 must not
\* disarm the timer).  A worker that died picks nothing up.
LaunchEventually ==
  \A r \in Requests : multi[r] = "added" ~> multi[r] # "added" \/ pc = "down"

\* Once a callback has failed a transfer whose stream is gone, its proxy is
\* retired: the transfer is torn down, its message read, the hash entry erased.
AbortedIsRetired ==
  \A r \in Requests : multi[r] = "aborted" ~> r \notin proxy_http_hash

-----------------------------------------------------------------------------
(***************************************************************************)
(* The backend implements RequestLifecycle.                                *)
(***************************************************************************)

Phase == [r \in Requests |->
            IF strm[r] = "idle" THEN "new"
            ELSE IF r \in proxy_http_hash THEN "active"
            ELSE IF r \in proxy_http_dead_list THEN "retired" ELSE "freed"]

Lifecycle == INSTANCE RequestLifecycle WITH phase <- Phase, attached <- quic_stream

\* Whatever the order of QUIC events, socket events, timeouts and libcurl's
\* callbacks, each object is created, unlinked, retired and freed in that order.
ImplementsLifecycle == Lifecycle!Spec
=============================================================================
