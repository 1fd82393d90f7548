------------------------- MODULE ProxyBackendProofs -------------------------
(***************************************************************************)
(* What is proved about ProxyBackend for every set of requests and         *)
(* sockets: type correctness, the agreement of objects, lists and timer,   *)
(* and the refinement of RequestLifecycle; and, for transfers that hold    *)
(* one socket at a time, that no pointer dangles and epoll does as told.   *)
(***************************************************************************)
EXTENDS ProxyBackend, FiniteSetTheorems, TLAPS

(***************************************************************************)
(* Lemmas about the operators.                                             *)
(***************************************************************************)

\* The number of live handles is a number, and zero exactly when libcurl has
\* nothing added, running or aborted.
LEMMA NumAliveNat ==
  /\ NumAlive \in Nat
  /\ NumAlive = 0 =>
       \A r \in Requests : multi[r] \notin {"added", "running", "aborted"}
<1> DEFINE S == {r \in Requests : multi[r] \in {"added", "running", "aborted"}}
<1>1. IsFiniteSet(S)
  BY FiniteAssumption, FS_Subset
<1>2. Cardinality(S) \in Nat /\ (Cardinality(S) = 0 <=> S = {})
  BY <1>1, FS_CardinalityType, FS_EmptySet
<1> QED
  BY <1>2 DEF NumAlive

\* A transfer that may hold one socket and is about to get one holds none.
LEMMA NoSocketYet ==
  ASSUME NEW r \in Requests, Cardinality(SocksOf(r)) < 1
  PROVE  SocksOf(r) = {}
<1>1. IsFiniteSet(SocksOf(r))
  BY FiniteAssumption, FS_Subset DEF SocksOf
<1>2. Cardinality(SocksOf(r)) \in Nat
  BY <1>1, FS_CardinalityType
<1>3. Cardinality(SocksOf(r)) = 0
  BY <1>2
<1> QED
  BY <1>1, <1>3, FS_EmptySet

\* CurlMultiTimerCB arms the timer for every timeout that is not negative, the
\* zero its comment speaks of and the whole seconds included.
LEMMA TimerCBArms ==
  ASSUME NEW t \in Int, t >= 0, CurlMultiTimerCB(t)
  PROVE  armed'
<1>1. ItValue(t).sec > 0 \/ ItValue(t).nsec > 0
  <2>1. t = 1000 * (t \div 1000) + (t % 1000)
        /\ t \div 1000 \in Int /\ t % 1000 \in 0..999
    BY SMT
  <2>2. t > 0 => t \div 1000 > 0 \/ (t % 1000) * 1000000 > 0
    BY <2>1, SMT
  <2> QED
    BY <2>1, <2>2, SMT DEF ItValue
<1> QED
  BY <1>1, Zenon DEF CurlMultiTimerCB, SetTime

\* timerfd_settime leaves the fetched event alone and sets two Booleans.
LEMMA SetTimeType ==
  ASSUME NEW it_value, SetTime(it_value)
  PROVE  armed' \in BOOLEAN /\ ticks' \in BOOLEAN /\ timer_ready' = timer_ready
BY DEF SetTime

\* libcurl's wish for another timeout keeps the types.
LEMMA AskType ==
  ASSUME TypeOK, NEW t \in Timeouts, CurlAsksFor(t)
  PROVE  curl_timeout' \in BOOLEAN /\ armed' \in BOOLEAN /\ ticks' \in BOOLEAN
         /\ timer_ready' \in BOOLEAN
<1>1. armed' \in BOOLEAN /\ ticks' \in BOOLEAN /\ timer_ready' = timer_ready
  BY SetTimeType DEF CurlAsksFor, CurlMultiTimerCB
<1>2. curl_timeout' \in BOOLEAN
  BY TimeoutsAssumption DEF CurlAsksFor
<1> QED
  BY <1>1, <1>2 DEF TypeOK

-----------------------------------------------------------------------------
\* A worker that was just forked is well typed.
LEMMA TypeInit == Init => TypeOK
<1> SUFFICES ASSUME Init PROVE TypeOK
  OBVIOUS
<1> USE DEF Init, InitializeCurlTimer
<1>1. what \in [Socks -> Whats \cup {{}}] /\ mask \in [Socks -> Whats \cup {{}}]
  OBVIOUS
<1>2. sock_user \in [Socks -> Requests \cup {NoReq}] /\ sockp \in [Socks -> Requests \cup {NoReq}]
      /\ cb_map \in [Socks -> Requests \cup {NoReq}] /\ who \in Requests \cup {NoReq}
  OBVIOUS
<1>3. multi \in [Requests -> {"out", "added", "running", "aborted", "done"}]
      /\ strm \in [Requests -> {"idle", "live", "destroyed"}]
      /\ sockfd \in [Requests -> Socks \cup {NoSock}]
  OBVIOUS
<1> QED
  BY <1>1, <1>2, <1>3 DEF TypeOK

\* Every step of every callback keeps every variable in its type.
LEMMA TypeStep == ASSUME TypeOK, [Next]_vars PROVE TypeOK'
<1> USE WhatsAssumption DEF TypeOK, vars, objVars, backVars, curlVars, epollVars, timerVars
<1>1. ASSUME NEW r \in Requests, FetchResponseFromBackend(r) PROVE TypeOK'
  BY <1>1 DEF FetchResponseFromBackend, StartHttp, CurlMultiTimerCB, SetTime
<1>2. ASSUME NEW r \in Requests, FetchInvalidMethod(r) PROVE TypeOK'
  BY <1>2 DEF FetchInvalidMethod
<1>3. ASSUME NEW r \in Requests, FetchInitFails(r) PROVE TypeOK'
  BY <1>3 DEF FetchInitFails
<1>4. ASSUME NEW r \in Requests, CloseBackendResponseStream(r) PROVE TypeOK'
  BY <1>4 DEF CloseBackendResponseStream
<1>5. ASSUME TimerExpires PROVE TypeOK'
  BY <1>5 DEF TimerExpires
<1>6. ASSUME EpollWait PROVE TypeOK'
  BY <1>6 DEF EpollWait
<1>7. ASSUME NEW s \in Socks, OnEvent(s) PROVE TypeOK'
  BY <1>7 DEF OnEvent
<1>8. ASSUME TimerOnEvent PROVE TypeOK'
  BY <1>8 DEF TimerOnEvent
<1>9. ASSUME TimerOnEventEAGAIN PROVE TypeOK'
  BY <1>9 DEF TimerOnEventEAGAIN
<1>10. ASSUME NEW r \in Requests, CurlStart(r) PROVE TypeOK'
  BY <1>10 DEF CurlStart
<1>11. ASSUME NEW r \in Requests, NEW s \in Socks, NEW w \in Whats,
    CurlAnnounces(r, s, w) PROVE TypeOK'
  BY <1>11 DEF CurlAnnounces, CurlSockCB, CurlAddSock, CurlSetSock, RegisterFD
<1>12. ASSUME NEW r \in Requests, CallbackWithoutStream(r) PROVE TypeOK'
  BY <1>12 DEF CallbackWithoutStream
<1>13. ASSUME NEW r \in Requests, CurlCompletes(r) PROVE TypeOK'
  BY <1>13 DEF CurlCompletes
<1>14. ASSUME NEW s \in Socks, NEW w \in Whats, CurlPollsFor(s, w) PROVE TypeOK'
  BY <1>14 DEF CurlPollsFor, CurlSockCB, CurlAddSock, CurlSetSock, RegisterFD
<1>15. ASSUME NEW s \in Socks, CurlGivesUp(s) PROVE TypeOK'
  BY <1>15 DEF CurlGivesUp, CurlRemoveSock, UnregisterFD
<1>16. ASSUME NEW s \in Socks, CurlClosesCached(s) PROVE TypeOK'
  BY <1>16 DEF CurlClosesCached
<1>17. ASSUME NEW t \in Timeouts, CurlUpdateTimer(t) PROVE TypeOK'
  BY <1>17, AskType DEF CurlUpdateTimer
<1>18. ASSUME SocketActionReturns PROVE TypeOK'
  BY NumAliveNat, <1>18 DEF SocketActionReturns
<1>19. ASSUME CheckCurlMultiInfo PROVE TypeOK'
  <2>1. curl_timeout' \in BOOLEAN /\ armed' \in BOOLEAN /\ ticks' \in BOOLEAN
        /\ timer_ready' \in BOOLEAN
    BY <1>19, AskType DEF CheckCurlMultiInfo
  <2> QED
    BY <1>19, <2>1 DEF CheckCurlMultiInfo, RetireDone, ClearDeadList, Done
<1>20. ASSUME OnEventReturns PROVE TypeOK'
  BY <1>20 DEF OnEventReturns, SetTime
<1>21. CASE UNCHANGED vars
  BY <1>21
<1> QED
  BY <1>1, <1>2, <1>3, <1>4, <1>5, <1>6, <1>7, <1>8, <1>9, <1>10, <1>11, <1>12,
      <1>13, <1>14, <1>15, <1>16, <1>17, <1>18, <1>19, <1>20, <1>21 DEF Next,
      QuicEvents, EventLoop, InsideLibcurl, AfterLibcurl

\* Every reachable state has the types TypeOK says, for every number of
\* requests, sockets and sockets per transfer.
THEOREM TypeCorrect == Spec => []TypeOK
BY TypeInit, TypeStep, PTL DEF Spec

-----------------------------------------------------------------------------
(***************************************************************************)
(* The inductive invariant of what does not depend on how many sockets a   *)
(* transfer holds: the objects, the lists, libcurl's handles, the timer.   *)
(***************************************************************************)

\* A stream that never asked for anything has no proxy.
UnusedIsBlank ==
  \A r \in Requests :
    strm[r] = "idle" => r \notin proxy_http_hash /\ r \notin proxy_http_dead_list

\* libcurl only knows the easy handles of proxies in the hash.
KnownIsHashed == \A r \in Requests : multi[r] # "out" => r \in proxy_http_hash

\* When curl_multi_socket_action has returned, nothing waits to be started or
\* torn down, and still_running_ tells whether a timeout can be due.
Settled ==
  pc \in {"check", "tail"} =>
    /\ \A r \in Requests : multi[r] \notin {"added", "aborted"}
    /\ still_running = 0 => ~curl_timeout

\* Until CheckCurlMultiInfo runs, still_running_ is the number libcurl has.
Counted == pc = "check" => still_running = NumAlive

CoreInv ==
  /\ TypeOK
  /\ LinksAgree
  /\ RetiredLeftLibcurl
  /\ TimeoutNotLost
  /\ UnusedIsBlank
  /\ KnownIsHashed
  /\ Settled
  /\ Counted

\* libcurl's count does not change between curl_multi_socket_action and the check.
LEMMA StepCounted ==
  ASSUME Counted, [Next]_vars
  PROVE  Counted'
<1>1. CASE SocketActionReturns
  BY <1>1 DEF SocketActionReturns, curlVars, Counted, NumAlive
<1>2. ASSUME \/ pc' # "check"
             \/ pc = "check" /\ UNCHANGED <<multi, still_running>>
      PROVE  Counted'
  BY <1>2 DEF Counted, NumAlive
<1> USE DEF vars, objVars, backVars, curlVars, epollVars, timerVars
<1>3. CASE QuicEvents
  BY <1>2, <1>3 DEF QuicEvents, FetchResponseFromBackend, FetchInvalidMethod, FetchInitFails,
     CloseBackendResponseStream
<1>4. CASE EventLoop
  BY <1>2, <1>4 DEF EventLoop, TimerExpires, EpollWait, OnEvent, TimerOnEvent,
     TimerOnEventEAGAIN
<1>5. CASE InsideLibcurl /\ ~SocketActionReturns
  BY <1>2, <1>5 DEF InsideLibcurl, CurlStart, CurlAnnounces, CallbackWithoutStream,
     CurlCompletes, CurlPollsFor, CurlGivesUp, CurlClosesCached, CurlUpdateTimer
<1>6. CASE AfterLibcurl
  BY <1>2, <1>6 DEF AfterLibcurl, CheckCurlMultiInfo, OnEventReturns
<1>7. CASE UNCHANGED vars
  BY <1>2, <1>7 DEF Counted, NumAlive
<1> QED
  BY <1>1, <1>3, <1>4, <1>5, <1>6, <1>7 DEF Next

\* A timeout that libcurl asks for is armed, and is asked for only while
\* something runs.
LEMMA AskArms ==
  ASSUME TypeOK, NEW t \in Timeouts, CurlAsksFor(t)
  PROVE  curl_timeout' => armed' /\ NumAlive > 0
<1>1. t \in Int /\ curl_timeout' = (t >= 0) /\ (t >= 0 => NumAlive > 0)
  BY TimeoutsAssumption DEF CurlAsksFor
<1>2. t >= 0 => armed'
  BY <1>1, TimerCBArms DEF CurlAsksFor
<1> QED
  BY <1>1, <1>2

\* CoreInv is inductive.
LEMMA CoreInductive ==
  ASSUME CoreInv, TypeOK', [Next]_vars
  PROVE  CoreInv'
<1>0. Counted'
  BY StepCounted DEF CoreInv
<1> USE <1>0 DEF CoreInv
<1> USE DEF TypeOK, vars, objVars, backVars, curlVars, epollVars, timerVars
<1> USE DEF LinksAgree, RetiredLeftLibcurl, TimeoutNotLost, UnusedIsBlank, KnownIsHashed, Settled
<1>1. ASSUME NEW r \in Requests, FetchResponseFromBackend(r) PROVE CoreInv'
  <2>1. armed'
    BY <1>1, TimerCBArms DEF FetchResponseFromBackend, StartHttp
  <2>2. TimeoutNotLost'
    BY <1>1, <2>1 DEF FetchResponseFromBackend, StartHttp
  <2>3. LinksAgree' /\ RetiredLeftLibcurl' /\ UnusedIsBlank' /\ KnownIsHashed' /\ Settled'
    BY <1>1 DEF FetchResponseFromBackend, StartHttp, CurlMultiTimerCB, SetTime
  <2> QED
    BY <2>2, <2>3
<1>2. ASSUME NEW r \in Requests, FetchInvalidMethod(r) PROVE CoreInv'
  BY <1>2 DEF FetchInvalidMethod
<1>3. ASSUME NEW r \in Requests, FetchInitFails(r) PROVE CoreInv'
  BY <1>3 DEF FetchInitFails
<1>4. ASSUME NEW r \in Requests, CloseBackendResponseStream(r) PROVE CoreInv'
  <2>1. LinksAgree'
    <3>1. CASE r \in quic_proxy_curl
      BY <1>4, <3>1 DEF CloseBackendResponseStream
    <3>2. CASE r \notin quic_proxy_curl
      BY <1>4, <3>2 DEF CloseBackendResponseStream
    <3> QED
      BY <3>1, <3>2
  <2>2. RetiredLeftLibcurl' /\ TimeoutNotLost' /\ UnusedIsBlank' /\ KnownIsHashed' /\ Settled'
    BY <1>4 DEF CloseBackendResponseStream
  <2> QED
    BY <2>1, <2>2
<1>5. CASE EventLoop
  BY <1>5 DEF EventLoop, TimerExpires, EpollWait, OnEvent, TimerOnEvent, TimerOnEventEAGAIN
<1>6. ASSUME NEW r \in Requests,
             \/ CurlStart(r) \/ CallbackWithoutStream(r) \/ CurlCompletes(r)
      PROVE  CoreInv'
  BY <1>6 DEF CurlStart, CallbackWithoutStream, CurlCompletes
<1>7. ASSUME NEW r \in Requests, NEW s \in Socks, NEW w \in Whats, CurlAnnounces(r, s, w)
      PROVE  CoreInv'
  BY <1>7 DEF CurlAnnounces
<1>8. ASSUME NEW s \in Socks,
             \/ \E w \in Whats : CurlPollsFor(s, w)
             \/ CurlGivesUp(s) \/ CurlClosesCached(s)
      PROVE  CoreInv'
  BY <1>8 DEF CurlPollsFor, CurlGivesUp, CurlClosesCached
<1>9. ASSUME NEW t \in Timeouts, CurlUpdateTimer(t) PROVE CoreInv'
  <2>1. curl_timeout' => armed'
    BY <1>9, AskArms DEF CurlUpdateTimer
  <2>2. TimeoutNotLost'
    BY <1>9, <2>1 DEF CurlUpdateTimer
  <2>3. LinksAgree' /\ RetiredLeftLibcurl' /\ UnusedIsBlank' /\ KnownIsHashed' /\ Settled'
    BY <1>9 DEF CurlUpdateTimer
  <2> QED
    BY <2>2, <2>3
<1>10. ASSUME SocketActionReturns PROVE CoreInv'
  BY <1>10, NumAliveNat DEF SocketActionReturns
<1>11. ASSUME CheckCurlMultiInfo PROVE CoreInv'
  <2>1. LinksAgree'
    <3>1. CASE Done # {} /\ RetireDone
      BY <3>1, <1>11 DEF CheckCurlMultiInfo, RetireDone
    <3>2. CASE Done = {} /\ ClearDeadList
      BY <3>2, <1>11 DEF CheckCurlMultiInfo, ClearDeadList
    <3> QED
      BY <3>1, <3>2, <1>11 DEF CheckCurlMultiInfo
  <2>2. curl_timeout' => armed' /\ still_running' # 0
    <3>1. CASE UNCHANGED <<curl_timeout, timerVars>>
      BY <1>11, <3>1 DEF CheckCurlMultiInfo
    <3>2. ASSUME NEW t \in Timeouts, CurlAsksFor(t)
          PROVE  curl_timeout' => armed' /\ still_running' # 0
      BY <1>11, <3>2, AskArms DEF CheckCurlMultiInfo, Counted
    <3> QED
      BY <1>11, <3>1, <3>2 DEF CheckCurlMultiInfo
  <2>3. RetiredLeftLibcurl' /\ TimeoutNotLost' /\ UnusedIsBlank' /\ KnownIsHashed' /\ Settled'
    BY <1>11, <2>2 DEF CheckCurlMultiInfo, RetireDone, ClearDeadList, Done
  <2> QED
    BY <2>1, <2>3
<1>12. ASSUME OnEventReturns PROVE CoreInv'
  BY <1>12 DEF OnEventReturns, SetTime
<1>13. CASE UNCHANGED vars
  BY <1>13
<1> QED
  BY <1>1, <1>2, <1>3, <1>4, <1>5, <1>6, <1>7, <1>8, <1>9, <1>10, <1>11, <1>12, <1>13
     DEF Next, QuicEvents, InsideLibcurl, AfterLibcurl

\* CoreInv holds in every reachable state, however many sockets libcurl gives
\* a transfer.
THEOREM CoreInvariance == Spec => []CoreInv
<1>1. Init => CoreInv
  <2> SUFFICES ASSUME Init PROVE CoreInv
    OBVIOUS
  <2>1. TypeOK
    BY TypeInit
  <2>2. LinksAgree /\ RetiredLeftLibcurl /\ TimeoutNotLost
    BY DEF Init, InitializeCurlTimer, LinksAgree, RetiredLeftLibcurl, TimeoutNotLost
  <2>3. UnusedIsBlank /\ KnownIsHashed /\ Settled /\ Counted
    BY DEF Init, UnusedIsBlank, KnownIsHashed, Settled, Counted
  <2> QED
    BY <2>1, <2>2, <2>3 DEF CoreInv
<1>2. CoreInv /\ [Next]_vars => CoreInv'
  BY TypeStep, CoreInductive DEF CoreInv
<1> QED
  BY <1>1, <1>2, PTL DEF Spec

\* A stream and its QuicProxyCurl point at each other or not at all, and both
\* exist while they do: no order of stream closes, finished transfers and
\* cleared dead lists leaves one of the two pointers behind.
THEOREM LinksKept == Spec => []LinksAgree
<1>1. CoreInv => LinksAgree
  BY DEF CoreInv
<1> QED
  BY <1>1, CoreInvariance, PTL

\* CheckCurlMultiInfo frees only proxies that libcurl has let go of, and reads
\* every finished transfer before the loop goes on.
THEOREM RetiredSafely == Spec => []RetiredLeftLibcurl
<1>1. CoreInv => RetiredLeftLibcurl
  BY DEF CoreInv
<1> QED
  BY <1>1, CoreInvariance, PTL

\* No call of timerfd_settime takes away a timeout libcurl still needs.
THEOREM TimeoutKept == Spec => []TimeoutNotLost
<1>1. CoreInv => TimeoutNotLost
  BY DEF CoreInv
<1> QED
  BY <1>1, CoreInvariance, PTL

-----------------------------------------------------------------------------
(***************************************************************************)
(* What depends on the sockets, for transfers that hold one at a time: the *)
(* proxy remembers a single sockfd_.                                       *)
(***************************************************************************)

\* A socket in use belongs to a transfer libcurl runs, is open, and is the one
\* the proxy remembers.  This is where one socket per transfer is needed.
UsersRun ==
  \A s \in Socks : sock_user[s] # NoReq =>
    /\ multi[sock_user[s]] \in {"running", "aborted"}
    /\ s \in sock_open
    /\ sockfd[sock_user[s]] = s

\* The proxy whose OnEvent runs stays in the hash until its messages are read.
HandlerInHash ==
  pc \in {"curl", "check"} /\ who # NoReq => who \in proxy_http_hash

SocketInv ==
  /\ NoDanglingProxy
  /\ PolledAsAsked
  /\ DispatchMatchesSockfd
  /\ UsersRun
  /\ HandlerInHash

\* SocketInv is inductive where CoreInv holds.
LEMMA SocketInductive ==
  ASSUME SocksPerTransfer = 1, CoreInv, SocketInv, TypeOK', [Next]_vars
  PROVE  SocketInv'
<1> USE NoReqAssumption, NoSockAssumption
    DEF CoreInv, SocketInv, TypeOK, Alive, vars, objVars, backVars, curlVars, epollVars,
        timerVars
<1> USE DEF RetiredLeftLibcurl, UnusedIsBlank, KnownIsHashed, NoDanglingProxy, PolledAsAsked,
            DispatchMatchesSockfd, UsersRun, HandlerInHash
<1>1. ASSUME NEW r \in Requests,
             \/ FetchResponseFromBackend(r) \/ FetchInvalidMethod(r) \/ FetchInitFails(r)
      PROVE  SocketInv'
  BY <1>1 DEF FetchResponseFromBackend, StartHttp, FetchInvalidMethod, FetchInitFails
<1>2. ASSUME NEW r \in Requests, CloseBackendResponseStream(r) PROVE SocketInv'
  BY <1>2 DEF CloseBackendResponseStream
<1>3. CASE TimerExpires \/ EpollWait \/ TimerOnEvent \/ TimerOnEventEAGAIN
  BY <1>3 DEF TimerExpires, EpollWait, TimerOnEvent, TimerOnEventEAGAIN
<1>4. ASSUME NEW s \in Socks, OnEvent(s) PROVE SocketInv'
  BY <1>4 DEF OnEvent
<1>5. ASSUME NEW r \in Requests, CurlStart(r) \/ CallbackWithoutStream(r)
      PROVE  SocketInv'
  BY <1>5 DEF CurlStart, CallbackWithoutStream
<1>6. ASSUME NEW r \in Requests, NEW s \in Socks, NEW w \in Whats, CurlAnnounces(r, s, w)
      PROVE  SocketInv'
  <2>1. \A x \in Socks : sock_user[x] # r
    BY <1>6, NoSocketYet DEF CurlAnnounces, SocksOf
  <2>2. UsersRun'
    BY <1>6, <2>1 DEF CurlAnnounces, CurlSockCB, CurlAddSock, RegisterFD
  <2>3. DispatchMatchesSockfd'
    BY <1>6, <2>1 DEF CurlAnnounces, CurlSockCB, CurlAddSock, RegisterFD
  <2>4. NoDanglingProxy' /\ PolledAsAsked' /\ HandlerInHash'
    BY <1>6 DEF CurlAnnounces, CurlSockCB, CurlAddSock, RegisterFD
  <2> QED
    BY <2>2, <2>3, <2>4
<1>7. ASSUME NEW r \in Requests, CurlCompletes(r) PROVE SocketInv'
  <2>1. \A x \in Socks : sock_user[x] # r
    BY <1>7 DEF CurlCompletes, SocksOf
  <2> QED
    BY <1>7, <2>1 DEF CurlCompletes
<1>8. ASSUME NEW s \in Socks, NEW w \in Whats, CurlPollsFor(s, w) PROVE SocketInv'
  BY <1>8 DEF CurlPollsFor, CurlSockCB, CurlAddSock, CurlSetSock, RegisterFD
<1>9. ASSUME NEW s \in Socks, CurlGivesUp(s) PROVE SocketInv'
  BY <1>9 DEF CurlGivesUp, CurlRemoveSock, UnregisterFD
<1>10. ASSUME NEW s \in Socks, CurlClosesCached(s) PROVE SocketInv'
  BY <1>10 DEF CurlClosesCached
<1>11. ASSUME NEW t \in Timeouts, CurlUpdateTimer(t) PROVE SocketInv'
  BY <1>11 DEF CurlUpdateTimer
<1>12. ASSUME SocketActionReturns \/ OnEventReturns PROVE SocketInv'
  BY <1>12 DEF SocketActionReturns, OnEventReturns
<1>13. ASSUME CheckCurlMultiInfo PROVE SocketInv'
  BY <1>13 DEF CheckCurlMultiInfo, RetireDone, ClearDeadList, Done
<1>14. CASE UNCHANGED vars
  BY <1>14
<1> QED
  BY <1>1, <1>2, <1>3, <1>4, <1>5, <1>6, <1>7, <1>8, <1>9, <1>10, <1>11, <1>12, <1>13, <1>14
     DEF Next, QuicEvents, EventLoop, InsideLibcurl, AfterLibcurl

\* SocketInv holds in every reachable state.
THEOREM SocketInvariance ==
  ASSUME SocksPerTransfer = 1
  PROVE  Spec => []SocketInv
<1>1. Init => SocketInv
  BY DEF Init, SocketInv, NoDanglingProxy, PolledAsAsked, DispatchMatchesSockfd, UsersRun,
         HandlerInHash
<1>2. CoreInv /\ SocketInv /\ [Next]_vars => SocketInv'
  BY TypeStep, SocketInductive DEF CoreInv
<1> QED
  BY <1>1, <1>2, CoreInvariance, PTL DEF Spec

\* No pointer to a QuicProxyCurl outlives it, neither epoll's nor libcurl's nor
\* that of the callback that runs.
THEOREM PointersSafe ==
  ASSUME SocksPerTransfer = 1
  PROVE  Spec => []NoDanglingProxy
<1>1. SocketInv => NoDanglingProxy
  BY DEF SocketInv
<1> QED
  BY <1>1, SocketInvariance, PTL

\* epoll's registrations follow libcurl's socket callbacks exactly.
THEOREM PollingCorrect ==
  ASSUME SocksPerTransfer = 1
  PROVE  Spec => []PolledAsAsked
<1>1. SocketInv => PolledAsAsked
  BY DEF SocketInv
<1> QED
  BY <1>1, SocketInvariance, PTL

\* An event fetched before other callbacks ran still reaches the proxy whose
\* sockfd_ it is (the DCHECK_EQ of QuicProxyCurl::OnEvent).
THEOREM DispatchCorrect ==
  ASSUME SocksPerTransfer = 1
  PROVE  Spec => []DispatchMatchesSockfd
<1>1. SocketInv => DispatchMatchesSockfd
  BY DEF SocketInv
<1> QED
  BY <1>1, SocketInvariance, PTL

-----------------------------------------------------------------------------
(***************************************************************************)
(* Refinement of RequestLifecycle.                                         *)
(***************************************************************************)

\* The phases only depend on the stream's state and the two lists.
LEMMA PhaseUnchanged ==
  ASSUME UNCHANGED <<strm, proxy_http_hash, proxy_http_dead_list>>
  PROVE  Phase' = Phase
BY DEF Phase

\* Reading messages retires exactly the finished transfers.
LEMMA RetireRefines ==
  ASSUME CoreInv, CheckCurlMultiInfo, Done # {}, RetireDone
  PROVE  Lifecycle!Retire(Done)
<1> USE DEF CoreInv, TypeOK, LinksAgree, KnownIsHashed, RetiredLeftLibcurl, UnusedIsBlank
<1>1. Done \subseteq proxy_http_hash /\ Done \subseteq Requests
  BY DEF Done
<1>2. \A r \in Requests : r \in Done => Phase[r] = "active"
  BY <1>1 DEF Phase
<1>3. Done # {} /\ Done \subseteq Lifecycle!InPhase("active")
  BY <1>1, <1>2 DEF Lifecycle!InPhase
<1>4. Phase' = [r \in Requests |-> IF r \in Done THEN "retired" ELSE Phase[r]]
  <2>1. strm' = strm /\ proxy_http_hash' = proxy_http_hash \ Done
        /\ proxy_http_dead_list' = proxy_http_dead_list \cup Done
    BY <1>1 DEF CheckCurlMultiInfo, RetireDone
  <2>2. \A r \in Done : strm[r] # "idle"
    BY <1>1
  <2> QED
    BY <1>1, <2>1, <2>2 DEF Phase
<1>5. quic_stream' = quic_stream \ Done
  BY DEF RetireDone
<1> QED
  BY <1>3, <1>4, <1>5 DEF Lifecycle!Retire

\* A check that read nothing frees exactly the retired proxies.
LEMMA ReclaimRefines ==
  ASSUME CoreInv, CheckCurlMultiInfo, Done = {}, ClearDeadList
  PROVE  Lifecycle!Reclaim \/ UNCHANGED Lifecycle!lifecycleVars
<1> USE DEF CoreInv, TypeOK, LinksAgree, KnownIsHashed, RetiredLeftLibcurl, UnusedIsBlank
<1>1. strm' = strm /\ proxy_http_hash' = proxy_http_hash /\ proxy_http_dead_list' = {}
  BY DEF CheckCurlMultiInfo, ClearDeadList
<1>2. quic_stream' = quic_stream
  BY DEF ClearDeadList
<1>3. Phase' = [r \in Requests |-> IF Phase[r] = "retired" THEN "freed" ELSE Phase[r]]
  BY <1>1 DEF Phase
<1>4. CASE Lifecycle!InPhase("retired") # {}
  BY <1>2, <1>3, <1>4 DEF Lifecycle!Reclaim
<1>5. CASE Lifecycle!InPhase("retired") = {}
  <2>1. \A r \in Requests : Phase[r] # "retired"
    BY <1>5 DEF Lifecycle!InPhase
  <2>2. Phase' = Phase
    BY <1>3, <2>1 DEF Phase
  <2> QED
    BY <1>2, <2>2 DEF Lifecycle!lifecycleVars
<1> QED
  BY <1>4, <1>5

\* Creating a proxy, with or without a valid method, accepts the request.
LEMMA AcceptRefines ==
  ASSUME CoreInv, NEW r \in Requests, FetchResponseFromBackend(r) \/ FetchInvalidMethod(r)
  PROVE  Lifecycle!Accept(r)
<1> USE DEF CoreInv, TypeOK, FetchResponseFromBackend, StartHttp, FetchInvalidMethod
<1>1. strm[r] = "idle" /\ strm' = [strm EXCEPT ![r] = "live"]
      /\ proxy_http_hash' = proxy_http_hash \cup {r}
      /\ proxy_http_dead_list' = proxy_http_dead_list
      /\ quic_stream' = quic_stream \cup {r}
  OBVIOUS
<1>2. Phase[r] = "new"
  BY <1>1 DEF Phase
<1>3. Phase' = [Phase EXCEPT ![r] = "active"]
  BY <1>1 DEF Phase
<1> QED
  BY <1>1, <1>2, <1>3 DEF Lifecycle!Accept

\* The destruction of a stream detaches its transfer, if it still has one.
LEMMA DetachRefines ==
  ASSUME CoreInv, NEW r \in Requests, CloseBackendResponseStream(r)
  PROVE  Lifecycle!Detach(r) \/ UNCHANGED Lifecycle!lifecycleVars
<1> USE DEF CoreInv, TypeOK, LinksAgree, CloseBackendResponseStream, backVars
<1>1. strm[r] = "live" /\ strm' = [strm EXCEPT ![r] = "destroyed"]
      /\ proxy_http_hash' = proxy_http_hash
      /\ proxy_http_dead_list' = proxy_http_dead_list
  OBVIOUS
<1>2. Phase' = Phase
  BY <1>1 DEF Phase
<1>3. CASE r \in quic_proxy_curl
  BY <1>2, <1>3 DEF Lifecycle!Detach
<1>4. CASE r \notin quic_proxy_curl
  BY <1>2, <1>4 DEF Lifecycle!lifecycleVars
<1> QED
  BY <1>3, <1>4

\* The backend implements RequestLifecycle: every step of every callback is one
\* of its steps or changes nothing it speaks of.
THEOREM RefinesLifecycle == Spec => ImplementsLifecycle
<1>1. Init => Lifecycle!Init
  BY DEF Init, Lifecycle!Init, Phase
<1>2. CoreInv /\ [Next]_vars => [Lifecycle!Next]_(Lifecycle!lifecycleVars)
  <2> SUFFICES ASSUME CoreInv, [Next]_vars
               PROVE  Lifecycle!Next \/ UNCHANGED Lifecycle!lifecycleVars
    OBVIOUS
  <2>1. ASSUME NEW r \in Requests, FetchResponseFromBackend(r) \/ FetchInvalidMethod(r)
        PROVE  Lifecycle!Next
    BY <2>1, AcceptRefines DEF Lifecycle!Next
  <2>2. ASSUME NEW r \in Requests, CloseBackendResponseStream(r)
        PROVE  Lifecycle!Next \/ UNCHANGED Lifecycle!lifecycleVars
    BY <2>2, DetachRefines DEF Lifecycle!Next
  <2>3. CASE CheckCurlMultiInfo
    <3>1. CASE Done # {} /\ RetireDone
      <4>1. Done \in SUBSET Requests
        BY DEF Done
      <4> QED
        BY <2>3, <3>1, <4>1, RetireRefines DEF Lifecycle!Next
    <3>2. CASE Done = {} /\ ClearDeadList
      BY <2>3, <3>2, ReclaimRefines DEF Lifecycle!Next
    <3> QED
      BY <2>3, <3>1, <3>2 DEF CheckCurlMultiInfo
  <2>4. CASE UNCHANGED <<strm, proxy_http_hash, proxy_http_dead_list, quic_stream>>
    BY <2>4, PhaseUnchanged DEF Lifecycle!lifecycleVars
  <2>5. ASSUME NEW r \in Requests,
               \/ FetchInitFails(r)
               \/ CurlStart(r) \/ CallbackWithoutStream(r) \/ CurlCompletes(r)
               \/ \E s \in Socks, w \in Whats : CurlAnnounces(r, s, w)
        PROVE  UNCHANGED <<strm, proxy_http_hash, proxy_http_dead_list, quic_stream>>
    BY <2>5 DEF FetchInitFails, CurlStart, CallbackWithoutStream, CurlCompletes,
                CurlAnnounces, objVars, backVars
  <2>6. ASSUME EventLoop \/ SocketActionReturns \/ OnEventReturns
        PROVE  UNCHANGED <<strm, proxy_http_hash, proxy_http_dead_list, quic_stream>>
    BY <2>6 DEF EventLoop, TimerExpires, EpollWait, OnEvent, TimerOnEvent,
                TimerOnEventEAGAIN, SocketActionReturns, OnEventReturns, objVars, backVars
  <2>7. ASSUME NEW s \in Socks,
               \/ \E w \in Whats : CurlPollsFor(s, w)
               \/ CurlGivesUp(s) \/ CurlClosesCached(s)
        PROVE  UNCHANGED <<strm, proxy_http_hash, proxy_http_dead_list, quic_stream>>
    BY <2>7 DEF CurlPollsFor, CurlGivesUp, CurlClosesCached, objVars, backVars
  <2>8. ASSUME NEW t \in Timeouts, CurlUpdateTimer(t)
        PROVE  UNCHANGED <<strm, proxy_http_hash, proxy_http_dead_list, quic_stream>>
    BY <2>8 DEF CurlUpdateTimer, objVars, backVars
  <2>9. CASE UNCHANGED vars
    BY <2>9, <2>4 DEF vars, objVars, backVars
  <2> QED
    BY <2>1, <2>2, <2>3, <2>4, <2>5, <2>6, <2>7, <2>8, <2>9
       DEF Next, QuicEvents, InsideLibcurl, AfterLibcurl
<1> QED
  BY <1>1, <1>2, CoreInvariance, PTL DEF Spec, ImplementsLifecycle, Lifecycle!Spec
=============================================================================
