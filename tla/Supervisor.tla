----------------------------- MODULE Supervisor -----------------------------
(***************************************************************************)
(* main(): the master forks one worker per CPU, then waits for children    *)
(* and forks a new worker for each that ends.  The code after fork() is    *)
(* the same text for both processes, so a restarted child whose worker()   *)
(* returns goes on in the master's own loop, as a master without children. *)
(*                                                                         *)
(* All workers bind the same port with SO_REUSEADDR.  Of UDP sockets that  *)
(* share a port that way, Linux gives every datagram to the one that was   *)
(* bound last, whichever client it comes from; a worker that has not the   *)
(* connection refuses it, and the client connects anew.                    *)
(*                                                                         *)
(* A worker of the first loop is pinned to a CPU of its own; the master is *)
(* not, and a replacement is not either.                                   *)
(*                                                                         *)
(* --test and --daemon are left out: with --test there is no master.       *)
(***************************************************************************)
EXTENDS Integers, FiniteSets, SequencesExt

CONSTANTS
  Pids,             \* process numbers; the kernel reuses them
  CpuCount,         \* get_nprocs()
  Clients,
  MaxDeaths,        \* bound: workers that die
  MaxRefusals,      \* bound: CreateUDPSocketAndListen calls that fail
  MaxForkFailures   \* bound: fork calls that fail

ASSUME CpuAssumption == CpuCount \in Nat \ {0}
ASSUME PidsAssumption == IsFiniteSet(Pids) /\ Cardinality(Pids) >= CpuCount
ASSUME BoundsAssumption == {MaxDeaths, MaxRefusals, MaxForkFailures} \subseteq Nat

VARIABLES
  master,         \* "forking" | "waiting" | "exited"
  forked,         \* i of the first loop
  state,          \* pid -> "none" | "starting" | "listening" | "looping" | "zombie"
  restarted,      \* pids forked by the second loop
  cpu,            \* pid -> the CPU it is pinned to
  bound,          \* pids whose socket is bound to --port, in that order
  sessions,       \* pid -> clients it has a connection with
  deaths, refusals, fork_failures

AnyCpu == CpuCount  \* not pinned

counters == <<deaths, refusals, fork_failures>>
sockets  == <<bound, sessions>>
vars == <<master, forked, state, restarted, cpu, sockets, counters>>

In(st) == {p \in Pids : state[p] = st}

Init ==
  /\ master = "forking" /\ forked = 0
  /\ state = [p \in Pids |-> "none"]
  /\ restarted = {} /\ cpu = [p \in Pids |-> AnyCpu]
  /\ bound = <<>> /\ sessions = [p \in Pids |-> {}]
  /\ deaths = 0 /\ refusals = 0 /\ fork_failures = 0

-----------------------------------------------------------------------------

\* sched_setaffinity binds the child to CPU i, or fails, as for a CPU that the
\* process may not use, and nobody looks at its result.
SetAffinity(p, i) == \E c \in {i, AnyCpu} : cpu' = [cpu EXCEPT ![p] = c]

\* Mutant: the loop runs once more.
ForkWorker_OnceMore(p) ==
  /\ master = "forking"
  /\ state[p] = "none"
  /\ state' = [state EXCEPT ![p] = "starting"]
  /\ forked' = forked + 1
  /\ master' = IF forked' > CpuCount THEN "waiting" ELSE "forking"
  /\ SetAffinity(p, forked)
  /\ UNCHANGED <<restarted, sockets, counters>>

\* One turn of the first loop, and what the child does before worker().
ForkWorker(p) ==
  /\ master = "forking"
  /\ state[p] = "none"
  /\ state' = [state EXCEPT ![p] = "starting"]
  /\ forked' = forked + 1
  /\ master' = IF forked' = CpuCount THEN "waiting" ELSE "forking"
  /\ SetAffinity(p, forked)
  /\ UNCHANGED <<restarted, sockets, counters>>

\* A fork of the first loop fails: the master exits, and leaves the workers it
\* has forked without one.
ForkWorkerFails ==
  /\ master = "forking"
  /\ fork_failures < MaxForkFailures
  /\ master' = "exited"
  /\ fork_failures' = fork_failures + 1
  /\ UNCHANGED <<forked, state, restarted, cpu, sockets, deaths, refusals>>

\* CreateUDPSocketAndListen succeeds: worker() never returns.
WorkerListens(p) ==
  /\ state[p] = "starting"
  /\ state' = [state EXCEPT ![p] = "listening"]
  /\ bound' = Append(bound, p)
  /\ UNCHANGED <<master, forked, restarted, cpu, sessions, counters>>

\* Mutant: it fails when the socket is bound already, and leaves it so.
WorkerReturns_Bound(p) ==
  /\ state[p] = "starting"
  /\ refusals < MaxRefusals
  /\ refusals' = refusals + 1
  /\ state' = [state EXCEPT ![p] = IF p \in restarted THEN "looping" ELSE "zombie"]
  /\ bound' = IF p \in restarted THEN Append(bound, p) ELSE bound
  /\ UNCHANGED <<master, forked, restarted, cpu, sessions, deaths, fork_failures>>

\* It fails, with a socket that it does not close but that is not bound, and
\* worker() returns.  A child of the first loop calls exit; one of the second
\* runs on into wait().
WorkerReturns(p) ==
  /\ state[p] = "starting"
  /\ refusals < MaxRefusals
  /\ refusals' = refusals + 1
  /\ state' = [state EXCEPT ![p] = IF p \in restarted THEN "looping" ELSE "zombie"]
  /\ UNCHANGED <<master, forked, restarted, cpu, sockets, deaths, fork_failures>>

\* The socket the kernel gives datagrams to.
Receivers == IF bound = <<>> THEN {} ELSE {Last(bound)}

\* A client without a connection to the worker its datagrams reach makes one.
\* What is left of its old one times out.
ClientConnects(c, p) ==
  /\ p \in Receivers /\ state[p] = "listening"
  /\ c \notin sessions[p]
  /\ sessions' = [q \in Pids |-> IF q = p THEN sessions[q] \cup {c} ELSE sessions[q] \ {c}]
  /\ UNCHANGED <<master, forked, state, restarted, cpu, bound, counters>>

\* A process is killed or crashes, and its socket and its connections are gone.
WorkerDies(p) ==
  /\ state[p] \in {"starting", "listening", "looping"}
  /\ deaths < MaxDeaths
  /\ deaths' = deaths + 1
  /\ state' = [state EXCEPT ![p] = "zombie"]
  /\ IF state[p] = "listening"
     THEN \E i \in 1..Len(bound) : bound[i] = p /\ bound' = RemoveAt(bound, i)
     ELSE UNCHANGED bound
  /\ sessions' = [sessions EXCEPT ![p] = {}]
  /\ UNCHANGED <<master, forked, restarted, cpu, refusals, fork_failures>>

\* Mutant: a child that was waited for is not replaced.
Restart_NoFork(p, q) ==
  /\ master = "waiting"
  /\ state[p] = "zombie" /\ q = p
  /\ state' = [state EXCEPT ![p] = "none"]
  /\ cpu' = [cpu EXCEPT ![p] = AnyCpu]
  /\ UNCHANGED <<master, forked, restarted, sockets, counters>>

\* Mutant: the replacement is pinned to where the first loop's counter ended.
Restart_PinnedToLast(p, q) ==
  /\ master = "waiting"
  /\ state[p] = "zombie"
  /\ q = p \/ state[q] = "none"
  /\ state' = [state EXCEPT ![p] = "none", ![q] = "starting"]
  /\ restarted' = (restarted \ {p}) \cup {q}
  /\ cpu' = [cpu EXCEPT ![p] = AnyCpu, ![q] = CpuCount - 1]
  /\ UNCHANGED <<master, forked, sockets, counters>>

\* wait() returns the child p; the fork that follows gives q, which has the
\* master's affinity.
Restart(p, q) ==
  /\ master = "waiting"
  /\ state[p] = "zombie"
  /\ q = p \/ state[q] = "none"
  /\ state' = [state EXCEPT ![p] = "none", ![q] = "starting"]
  /\ restarted' = (restarted \ {p}) \cup {q}
  /\ cpu' = [cpu EXCEPT ![p] = AnyCpu]
  /\ UNCHANGED <<master, forked, sockets, counters>>

\* wait() returns the child p; the fork that follows fails, which the loop
\* takes for the parent's side of a fork.
RestartFails(p) ==
  /\ master = "waiting"
  /\ state[p] = "zombie"
  /\ fork_failures < MaxForkFailures
  /\ fork_failures' = fork_failures + 1
  /\ state' = [state EXCEPT ![p] = "none"]
  /\ restarted' = restarted \ {p}
  /\ cpu' = [cpu EXCEPT ![p] = AnyCpu]
  /\ UNCHANGED <<master, forked, sockets, deaths, refusals>>

\* Mutant: -1 == pid is not told apart, and a process without children forks.
WaitFails_Forks ==
  /\ In("looping") # {}
  /\ \E q \in In("none") : state' = [state EXCEPT ![q] = "starting"]
  /\ UNCHANGED <<master, forked, restarted, cpu, sockets, counters>>

\* wait() gives -1 where there is no child: in a master that lost all of them,
\* or a child that came to run its loop.  Both go round.
WaitFails ==
  /\ \/ master = "waiting" /\ \A p \in Pids : state[p] = "none"
     \/ In("looping") # {}
  /\ UNCHANGED vars

Next ==
  \/ \E p \in Pids :
       \/ ForkWorker(p) \/ WorkerListens(p) \/ WorkerReturns(p) \/ WorkerDies(p)
       \/ \E q \in Pids : Restart(p, q)
       \/ RestartFails(p)
       \/ \E c \in Clients : ClientConnects(c, p)
  \/ ForkWorkerFails
  \/ WaitFails

Spec == Init /\ [][Next]_vars

-----------------------------------------------------------------------------

\* Every variable has its type.
TypeOK ==
  /\ master \in {"forking", "waiting", "exited"}
  /\ forked \in 0..CpuCount
  /\ state \in [Pids -> {"none", "starting", "listening", "looping", "zombie"}]
  /\ restarted \subseteq Pids
  /\ cpu \in [Pids -> 0..CpuCount]
  /\ bound \in Seq(Pids)
  /\ sessions \in [Pids -> SUBSET Clients]
  /\ deaths \in 0..MaxDeaths /\ refusals \in 0..MaxRefusals
  /\ fork_failures \in 0..MaxForkFailures

\* Pinned to a CPU of the machine.
Pinned == {p \in Pids : cpu[p] # AnyCpu}

\* No CPU has two workers pinned to it, and no child is forgotten: every child
\* the first loop forked still exists in some form, or its replacement does,
\* except for one per fork that failed.  Pinned are children of the first loop
\* only: a replacement may run anywhere, beside another worker too, while the
\* CPU of the worker it replaces has none (the two loops of main).
OnePerCpu ==
  /\ LET children == Cardinality(Pids \ In("none"))
     IN  children = forked - (IF master = "waiting" THEN fork_failures ELSE 0)
  /\ Pinned \cap (In("none") \cup restarted) = {}
  /\ \A p, q \in Pinned : cpu[p] = cpu[q] => p = q

\* The port belongs to those who serve it: the sockets bound to it are those of
\* the listening workers, one of each, so that no child which gave up, or died,
\* or runs on in main, swallows the clients' datagrams (worker, the restarts of
\* main).
PortIsServed == ToSet(bound) = In("listening") /\ IsInjective(bound)

\* "Use SO_REUSEADDR to improve the ability of services to use multiple cores":
\* when several workers listen, several get clients (CreateUDPSocketAndListen).
UsesMultipleCores == Cardinality(In("listening")) > 1 => Cardinality(Receivers) > 1

-----------------------------------------------------------------------------
(***************************************************************************)
(* Liveness.  The kernel schedules the processes, and clients try again.   *)
(***************************************************************************)

Fairness ==
  /\ \A p \in Pids : WF_vars(WorkerListens(p))
  /\ WF_vars(\E p \in Pids : ForkWorker(p))
  /\ WF_vars(\E p, q \in Pids : Restart(p, q))
  /\ \A c \in Clients : WF_vars(\E p \in Pids : ClientConnects(c, p))

FairSpec == Spec /\ Fairness

\* Once failures stop, as many workers listen again as there are CPUs, less one
\* per fork that failed and one per restarted child that could not listen.
\* Without a master nothing is promised.
RestoresWorkers ==
  <>[](\/ master = "exited"
       \/ Cardinality(In("listening")) + Cardinality(In("looping")) + fork_failures
            = CpuCount)

\* Once failures stop, every client ends up with a connection to the worker that
\* gets its datagrams, if anybody listens, although a worker that dies takes its
\* connections along and one that binds later cuts off those of the others
\* (CreateUDPSocketAndListen, worker).
ClientsServed ==
  <>[](In("listening") = {} \/ \A c \in Clients : \E p \in Receivers : c \in sessions[p])

\* "It listens forever on --port": again and again, some worker listens.
ListensForever == []<>(In("listening") # {})
=============================================================================
