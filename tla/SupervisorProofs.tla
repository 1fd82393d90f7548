-------------------------- MODULE SupervisorProofs --------------------------
(***************************************************************************)
(* What is proved about Supervisor for any number of CPUs and of process   *)
(* numbers, and any bounds on the failures.                                *)
(***************************************************************************)
EXTENDS Supervisor, FiniteSetTheorems, SequenceTheorems, TLAPS

States == {"none", "starting", "listening", "looping", "zombie"}

Children(st) == {p \in Pids : st[p] # "none"}

\* The inductive invariant.  A fork that fails in the first loop ends it, so
\* that none has failed while it runs; the forks counted against OnePerCpu are
\* those of the second loop.
IInv ==
  /\ state \in [Pids -> States]
  /\ forked \in Nat /\ fork_failures \in Nat
  /\ master = "forking" => fork_failures = 0
  /\ Cardinality(Children(state))
       = forked - (IF master = "waiting" THEN fork_failures ELSE 0)

\* Process numbers are finitely many.
LEMMA ChildrenFinite ==
  ASSUME NEW st
  PROVE  IsFiniteSet(Children(st)) /\ Cardinality(Children(st)) \in Nat
BY PidsAssumption, FS_Subset, FS_CardinalityType DEF Children

\* A process that comes is one child more.
LEMMA ChildComes ==
  ASSUME NEW st \in [Pids -> States], NEW p \in Pids, st[p] = "none"
  PROVE  Cardinality(Children([st EXCEPT ![p] = "starting"])) = Cardinality(Children(st)) + 1
<1>1. Children([st EXCEPT ![p] = "starting"]) = Children(st) \cup {p} /\ p \notin Children(st)
  BY DEF Children, States
<1> QED
  BY <1>1, ChildrenFinite, FS_AddElement

\* A child that is waited for is one less.
LEMMA ChildGoes ==
  ASSUME NEW st \in [Pids -> States], NEW p \in Pids, st[p] # "none"
  PROVE  Cardinality(Children([st EXCEPT ![p] = "none"])) = Cardinality(Children(st)) - 1
<1>1. Children([st EXCEPT ![p] = "none"]) = Children(st) \ {p} /\ p \in Children(st)
  BY DEF Children, States
<1> QED
  BY <1>1, ChildrenFinite, FS_RemoveElement

\* One turn of the first loop.
LEMMA ForkKeepsIInv ==
  ASSUME IInv, NEW p \in Pids, ForkWorker(p)
  PROVE  IInv'
<1>1. state \in [Pids -> States] /\ forked \in Nat /\ fork_failures = 0
  BY DEF IInv, ForkWorker
<1>2. Cardinality(Children(state')) = Cardinality(Children(state)) + 1
  BY <1>1, ChildComes DEF ForkWorker
<1>3. state' \in [Pids -> States]
  BY <1>1 DEF ForkWorker, States
<1>4. Cardinality(Children(state)) = forked
  BY <1>1 DEF IInv, ForkWorker
<1> QED
  BY <1>1, <1>2, <1>3, <1>4 DEF IInv, ForkWorker, counters

\* A child that is waited for and its replacement are one and one.
LEMMA RestartKeepsIInv ==
  ASSUME IInv, NEW p \in Pids, NEW q \in Pids, Restart(p, q)
  PROVE  IInv'
<1> DEFINE between == [state EXCEPT ![p] = "none"]
<1>1. /\ state \in [Pids -> States] /\ state[p] # "none"
      /\ between \in [Pids -> States] /\ between[q] = "none"
  BY DEF IInv, Restart, States
<1>2. state' = [between EXCEPT ![q] = "starting"]
  BY DEF Restart
<1>3. Cardinality(Children(between)) = Cardinality(Children(state)) - 1
  BY <1>1, ChildGoes
<1> HIDE DEF between
<1>4. Cardinality(Children(state')) = Cardinality(Children(state))
  <2>1. Cardinality(Children(state')) = Cardinality(Children(between)) + 1
    BY <1>1, <1>2, ChildComes
  <2> QED
    BY <1>3, <2>1, ChildrenFinite
<1>5. state' \in [Pids -> States]
  BY <1>1, <1>2 DEF States
<1> QED
  BY <1>4, <1>5 DEF IInv, Restart, counters

\* A fork that fails in the second loop leaves a child unreplaced, and counts.
LEMMA RestartFailsKeepsIInv ==
  ASSUME IInv, NEW p \in Pids, RestartFails(p)
  PROVE  IInv'
<1>1. state \in [Pids -> States] /\ state[p] # "none" /\ master = "waiting"
      /\ state' = [state EXCEPT ![p] = "none"]
      /\ forked \in Nat /\ fork_failures \in Nat
  BY DEF IInv, RestartFails
<1>2. Cardinality(Children(state')) = Cardinality(Children(state)) - 1
  BY <1>1, ChildGoes
<1>3. state' \in [Pids -> States]
  BY <1>1 DEF States
<1>4. Cardinality(Children(state)) = forked - fork_failures
  BY <1>1 DEF IInv
<1>5. fork_failures' = fork_failures + 1 /\ forked' = forked /\ master' = master
  BY DEF RestartFails
<1> QED
  BY <1>1, <1>2, <1>3, <1>4, <1>5 DEF IInv

\* A step that moves a child from one state to another, neither of them "none".
LEMMA SameChildren ==
  ASSUME IInv, NEW p \in Pids, NEW s \in States \ {"none"},
         state[p] # "none", state' = [state EXCEPT ![p] = s],
         UNCHANGED <<master, forked, fork_failures>>
  PROVE  IInv'
<1>1. Children(state') = Children(state) /\ state' \in [Pids -> States]
  BY DEF IInv, Children, States
<1> QED
  BY <1>1 DEF IInv

\* The master begins without children.
LEMMA InitIInv == Init => IInv
<1> SUFFICES ASSUME Init PROVE IInv
  OBVIOUS
<1>1. Children(state) = {}
  BY DEF Init, Children
<1>2. Cardinality(Children(state)) = 0
  BY <1>1, FS_EmptySet
<1>3. state \in [Pids -> States]
  BY DEF Init, States
<1> QED
  BY <1>2, <1>3 DEF Init, IInv

\* Every step keeps the count.
LEMMA StepIInv == IInv /\ [Next]_vars => IInv'
<1> SUFFICES ASSUME IInv, [Next]_vars PROVE IInv'
  OBVIOUS
<1>1. ASSUME NEW p \in Pids, WorkerListens(p) \/ WorkerReturns(p) \/ WorkerDies(p)
      PROVE  IInv'
  <2>1. PICK s \in States \ {"none"} :
          state[p] # "none" /\ state' = [state EXCEPT ![p] = s]
    BY <1>1 DEF WorkerListens, WorkerReturns, WorkerDies, States
  <2>2. UNCHANGED <<master, forked, fork_failures>>
    BY <1>1 DEF WorkerListens, WorkerReturns, WorkerDies, counters
  <2> QED
    BY <2>1, <2>2, SameChildren
<1>2. ASSUME UNCHANGED state, UNCHANGED <<forked, fork_failures>>, UNCHANGED master
      PROVE  IInv'
  BY <1>2 DEF IInv
<1>3. ASSUME NEW p \in Pids, NEW c \in Clients, ClientConnects(c, p) PROVE IInv'
  BY <1>2, <1>3 DEF ClientConnects, counters
<1>4. CASE ForkWorkerFails
  BY <1>4 DEF ForkWorkerFails, IInv
<1>5. CASE WaitFails \/ UNCHANGED vars
  BY <1>2, <1>5 DEF WaitFails, vars, counters
<1> QED
  BY <1>1, <1>3, <1>4, <1>5, ForkKeepsIInv, RestartKeepsIInv, RestartFailsKeepsIInv DEF Next

-----------------------------------------------------------------------------
(***************************************************************************)
(* The sockets.                                                            *)
(***************************************************************************)

\* The last turn of the first loop ends it, so one that runs has turns left.
SocketInv ==
  /\ TypeOK
  /\ master = "forking" => forked < CpuCount
  /\ PortIsServed

\* The elements of two sequences put one after the other.
LEMMA ConcatIs ==
  ASSUME NEW T, NEW u \in Seq(T), NEW v \in Seq(T)
  PROVE  /\ u \o v \in Seq(T) /\ Len(u \o v) = Len(u) + Len(v)
         /\ \A j \in 1 .. Len(u) + Len(v) :
              (u \o v)[j] = IF j <= Len(u) THEN u[j] ELSE v[j - Len(u)]
  BY ConcatProperties

\* What is left of a sequence without one of its elements.
LEMMA RemoveAtIs ==
  ASSUME NEW T, NEW s \in Seq(T), IsInjective(s), NEW i \in 1..Len(s)
  PROVE  /\ RemoveAt(s, i) \in Seq(T)
         /\ ToSet(RemoveAt(s, i)) = ToSet(s) \ {s[i]}
         /\ IsInjective(RemoveAt(s, i))
<1> DEFINE r == RemoveAt(s, i)
<1>1. /\ r \in Seq(T) /\ Len(r) = Len(s) - 1
      /\ \A j \in 1 .. i - 1 : r[j] = s[j]
      /\ \A j \in i .. Len(s) - 1 : r[j] = s[j + 1]
  <2> DEFINE u == SubSeq(s, 1, i - 1)
             v == SubSeq(s, i + 1, Len(s))
  <2>1. Len(s) \in Nat /\ i \in Int /\ r = u \o v
    BY DEF RemoveAt
  <2>2. u \in Seq(T) /\ Len(u) = i - 1 /\ \A j \in 1 .. i - 1 : u[j] = s[j]
    OBVIOUS
  <2>3. v \in Seq(T) /\ Len(v) = Len(s) - i /\ \A j \in 1 .. Len(s) - i : v[j] = s[j + i]
    OBVIOUS
  <2> HIDE DEF u, v, r
  <2>4. /\ r \in Seq(T) /\ Len(r) = Len(u) + Len(v)
        /\ \A j \in 1..Len(u) : r[j] = u[j]
        /\ \A j \in Len(u) + 1 .. Len(u) + Len(v) : r[j] = v[j - Len(u)]
    <3>1. u \in Seq(T) /\ v \in Seq(T) /\ Len(u) \in Nat /\ Len(v) \in Nat
      BY <2>2, <2>3
    <3>2. /\ u \o v \in Seq(T) /\ Len(u \o v) = Len(u) + Len(v)
          /\ \A j \in 1 .. Len(u) + Len(v) :
               (u \o v)[j] = IF j <= Len(u) THEN u[j] ELSE v[j - Len(u)]
      BY ONLY <3>1, ConcatIs
    <3>3. /\ r \in Seq(T) /\ Len(r) = Len(u) + Len(v)
          /\ \A j \in 1 .. Len(u) + Len(v) : r[j] = IF j <= Len(u) THEN u[j] ELSE v[j - Len(u)]
      BY ONLY <2>1, <3>2, Zenon
    <3>4. ASSUME NEW j \in 1..Len(u) PROVE r[j] = u[j]
      <4>1. j \in 1 .. Len(u) + Len(v) /\ j <= Len(u)
        BY <3>1
      <4> QED
        BY ONLY <3>3, <4>1, Zenon
    <3>5. ASSUME NEW j \in Len(u) + 1 .. Len(u) + Len(v) PROVE r[j] = v[j - Len(u)]
      <4>1. j \in 1 .. Len(u) + Len(v) /\ ~(j <= Len(u))
        BY <3>1
      <4> QED
        BY ONLY <3>3, <4>1, Zenon
    <3> QED
      BY ONLY <3>3, <3>4, <3>5, Zenon
  <2>5. ASSUME NEW j \in i .. Len(s) - 1
        PROVE  r[j] = s[j + 1]
    <3>1. j - Len(u) \in 1 .. Len(s) - i /\ j - Len(u) + i = j + 1
          /\ j \in Len(u) + 1 .. Len(u) + Len(v)
      BY <2>1, <2>2, <2>3
    <3> QED
      BY <2>3, <2>4, <3>1
  <2> QED
    BY <2>1, <2>2, <2>3, <2>4, <2>5
<1> HIDE DEF r
<1>2. DOMAIN r = 1 .. Len(s) - 1 /\ DOMAIN s = 1..Len(s) /\ Len(s) \in Nat
  BY <1>1
<1>3. \A j, k \in 1..Len(s) : s[j] = s[k] => j = k
  BY <1>2 DEF IsInjective
<1>4. \A j \in 1 .. Len(s) - 1 : \E k \in 1..Len(s) \ {i} :
        r[j] = s[k] /\ k = IF j < i THEN j ELSE j + 1
  <2> TAKE j \in 1 .. Len(s) - 1
  <2>1. CASE j < i
    BY <1>1, <1>2, <2>1
  <2>2. CASE ~(j < i)
    BY <1>1, <1>2, <2>2
  <2> QED
    BY <2>1, <2>2
<1>5. \A k \in 1..Len(s) \ {i} : \E j \in 1 .. Len(s) - 1 : r[j] = s[k]
  <2> TAKE k \in 1..Len(s) \ {i}
  <2>1. CASE k < i
    BY <1>1, <1>2, <2>1
  <2>2. CASE k > i
    <3>1. k - 1 \in i .. Len(s) - 1 /\ k - 1 \in 1 .. Len(s) - 1 /\ k - 1 + 1 = k
      BY <1>2, <2>2
    <3>2. r[k - 1] = s[k]
      BY <1>1, <3>1
    <3> QED
      BY <3>1, <3>2
  <2> QED
    BY <2>1, <2>2
<1>6. ToSet(r) = ToSet(s) \ {s[i]}
  <2>1. ToSet(r) = {r[j] : j \in 1 .. Len(s) - 1} /\ ToSet(s) = {s[j] : j \in 1..Len(s)}
    BY <1>2 DEF ToSet
  <2>2. ASSUME NEW x \in ToSet(r)
        PROVE  x \in ToSet(s) \ {s[i]}
    <3>1. PICK j \in 1 .. Len(s) - 1 : x = r[j]
      BY <2>1
    <3>2. PICK k \in 1..Len(s) \ {i} : r[j] = s[k]
      BY <1>4
    <3> QED
      BY <1>3, <2>1, <3>1, <3>2
  <2>3. ASSUME NEW x \in ToSet(s) \ {s[i]}
        PROVE  x \in ToSet(r)
    <3>1. PICK k \in 1..Len(s) \ {i} : x = s[k]
      BY <2>1
    <3> QED
      BY <1>5, <2>1, <3>1
  <2> QED
    BY <2>2, <2>3
<1>7. IsInjective(r)
  <2> SUFFICES ASSUME NEW a \in 1 .. Len(s) - 1, NEW b \in 1 .. Len(s) - 1, r[a] = r[b]
               PROVE  a = b
    BY <1>2 DEF IsInjective
  <2>1. PICK j \in 1..Len(s) \ {i} : r[a] = s[j] /\ j = IF a < i THEN a ELSE a + 1
    BY <1>4
  <2>2. PICK k \in 1..Len(s) \ {i} : r[b] = s[k] /\ k = IF b < i THEN b ELSE b + 1
    BY <1>4
  <2>3. j = k
    BY <1>3, <2>1, <2>2
  <2> QED
    BY <2>1, <2>2, <2>3
<1> QED
  BY <1>1, <1>6, <1>7 DEF r

\* A socket that is bound comes last.
LEMMA AppendIs ==
  ASSUME NEW T, NEW s \in Seq(T), IsInjective(s), NEW e \in T, e \notin ToSet(s)
  PROVE  /\ Append(s, e) \in Seq(T)
         /\ ToSet(Append(s, e)) = ToSet(s) \cup {e}
         /\ IsInjective(Append(s, e))
<1> DEFINE r == Append(s, e)
<1>1. /\ r \in Seq(T) /\ Len(r) = Len(s) + 1 /\ r[Len(s) + 1] = e
      /\ \A j \in 1..Len(s) : r[j] = s[j]
  OBVIOUS
<1> HIDE DEF r
<1>2. DOMAIN r = 1 .. Len(s) + 1 /\ DOMAIN s = 1..Len(s) /\ Len(s) \in Nat
  BY <1>1
<1>3. /\ \A j, k \in 1..Len(s) : s[j] = s[k] => j = k
      /\ \A j \in 1..Len(s) : s[j] # e
  BY <1>2 DEF IsInjective, ToSet
<1>4. \A j \in 1 .. Len(s) + 1 : j \in 1..Len(s) \/ j = Len(s) + 1
  BY <1>2
<1>5. ToSet(r) = ToSet(s) \cup {e}
  BY <1>1, <1>2, <1>4 DEF ToSet
<1>6. IsInjective(r)
  BY <1>1, <1>2, <1>3, <1>4 DEF IsInjective
<1> QED
  BY <1>1, <1>5, <1>6 DEF r

\* A step that binds and closes no socket, and makes no worker listen or cease.
LEMMA SameSockets ==
  ASSUME SocketInv, TypeOK', UNCHANGED bound, In("listening")' = In("listening"),
         master' = "forking" => forked' < CpuCount
  PROVE  SocketInv'
BY DEF SocketInv, PortIsServed

\* No worker listens at first, and no socket is bound.
LEMMA InitSocketInv == Init => SocketInv
<1> SUFFICES ASSUME Init
             PROVE  SocketInv
  OBVIOUS
<1>1. TypeOK
  BY CpuAssumption, BoundsAssumption DEF Init, TypeOK, AnyCpu
<1>2. In("listening") = {} /\ bound = <<>>
  BY DEF Init, In
<1>3. PortIsServed
  BY <1>2 DEF PortIsServed, ToSet, IsInjective
<1> QED
  BY <1>1, <1>3, CpuAssumption DEF Init, SocketInv

\* Every step keeps the sockets with those who listen.
LEMMA StepSocketInv == ASSUME SocketInv, [Next]_vars PROVE SocketInv'
<1> USE DEF In
<1>1. /\ TypeOK /\ state \in [Pids -> States]
      /\ bound \in Seq(Pids) /\ ToSet(bound) = In("listening") /\ IsInjective(bound)
  BY DEF SocketInv, TypeOK, States, PortIsServed
<1>2. ASSUME NEW p \in Pids, ForkWorker(p)
      PROVE  SocketInv'
  <2>1. forked' \in 0..CpuCount /\ (master' = "forking" => forked' < CpuCount)
        /\ master' \in {"forking", "waiting"}
    BY <1>1, <1>2, CpuAssumption DEF ForkWorker, SocketInv, TypeOK
  <2>2. state' \in [Pids -> States] /\ In("listening")' = In("listening")
    BY <1>1, <1>2 DEF ForkWorker, States
  <2>3. cpu' \in [Pids -> 0..CpuCount]
    BY <1>1, <1>2, CpuAssumption DEF ForkWorker, SetAffinity, AnyCpu, TypeOK
  <2>4. TypeOK'
    BY <1>1, <1>2, <2>1, <2>2, <2>3 DEF ForkWorker, TypeOK, States, sockets, counters
  <2> QED
    BY <1>2, <2>1, <2>2, <2>4, SameSockets DEF ForkWorker, sockets
<1>3. CASE ForkWorkerFails
  <2>1. fork_failures' \in 0..MaxForkFailures
    BY <1>1, <1>3, BoundsAssumption DEF ForkWorkerFails, TypeOK
  <2> QED
    BY <1>1, <1>3, <2>1 DEF ForkWorkerFails, SocketInv, TypeOK, PortIsServed, sockets
<1>4. ASSUME NEW p \in Pids, WorkerListens(p)
      PROVE  SocketInv'
  <2>1. state' \in [Pids -> States] /\ In("listening")' = In("listening") \cup {p}
        /\ p \notin In("listening")
    BY <1>1, <1>4 DEF WorkerListens, States
  <2>2. bound' \in Seq(Pids) /\ ToSet(bound') = ToSet(bound) \cup {p} /\ IsInjective(bound')
    BY <1>1, <1>4, <2>1, AppendIs DEF WorkerListens
  <2>3. TypeOK'
    BY <1>1, <1>4, <2>1, <2>2 DEF WorkerListens, TypeOK, States, counters
  <2> QED
    BY <1>1, <1>4, <2>1, <2>2, <2>3 DEF WorkerListens, SocketInv, PortIsServed
<1>5. ASSUME NEW p \in Pids, WorkerReturns(p)
      PROVE  SocketInv'
  <2>1. refusals' \in 0..MaxRefusals
    BY <1>1, <1>5, BoundsAssumption DEF WorkerReturns, TypeOK
  <2>2. state' \in [Pids -> States] /\ In("listening")' = In("listening")
    BY <1>1, <1>5 DEF WorkerReturns, States
  <2>3. TypeOK'
    BY <1>1, <1>5, <2>1, <2>2 DEF WorkerReturns, TypeOK, States, sockets
  <2> QED
    BY <1>5, <2>2, <2>3, SameSockets DEF WorkerReturns, SocketInv, sockets
<1>6. ASSUME NEW p \in Pids, WorkerDies(p)
      PROVE  SocketInv'
  <2>1. deaths' \in 0..MaxDeaths
    BY <1>1, <1>6, BoundsAssumption DEF WorkerDies, TypeOK
  <2>2. state' \in [Pids -> States] /\ In("listening")' = In("listening") \ {p}
    BY <1>1, <1>6 DEF WorkerDies, States
  <2>3. bound' \in Seq(Pids) /\ ToSet(bound') = ToSet(bound) \ {p} /\ IsInjective(bound')
    <3>1. CASE state[p] = "listening"
      <4>1. PICK i \in 1..Len(bound) : bound[i] = p /\ bound' = RemoveAt(bound, i)
        BY <1>6, <3>1 DEF WorkerDies
      <4> QED
        BY <1>1, <4>1, RemoveAtIs
    <3>2. CASE state[p] # "listening"
      BY <1>1, <1>6, <3>2 DEF WorkerDies
    <3> QED
      BY <3>1, <3>2
  <2>4. sessions' \in [Pids -> SUBSET Clients]
    BY <1>1, <1>6 DEF WorkerDies, TypeOK
  <2>5. TypeOK'
    BY <1>1, <1>6, <2>1, <2>2, <2>3, <2>4 DEF WorkerDies, TypeOK, States
  <2> QED
    BY <1>1, <1>6, <2>2, <2>3, <2>5 DEF WorkerDies, SocketInv, PortIsServed
<1>7. ASSUME NEW p \in Pids, NEW q \in Pids, Restart(p, q)
      PROVE  SocketInv'
  <2>1. state' \in [Pids -> States] /\ In("listening")' = In("listening")
    BY <1>1, <1>7 DEF Restart, States
  <2>2. cpu' \in [Pids -> 0..CpuCount]
    BY <1>1, <1>7, CpuAssumption DEF Restart, AnyCpu, TypeOK
  <2>3. TypeOK'
    BY <1>1, <1>7, <2>1, <2>2 DEF Restart, TypeOK, States, sockets, counters
  <2> QED
    BY <1>7, <2>1, <2>3, SameSockets DEF Restart, SocketInv, sockets
<1>8. ASSUME NEW p \in Pids, RestartFails(p)
      PROVE  SocketInv'
  <2>1. fork_failures' \in 0..MaxForkFailures
    BY <1>1, <1>8, BoundsAssumption DEF RestartFails, TypeOK
  <2>2. state' \in [Pids -> States] /\ In("listening")' = In("listening")
    BY <1>1, <1>8 DEF RestartFails, States
  <2>3. cpu' \in [Pids -> 0..CpuCount]
    BY <1>1, <1>8, CpuAssumption DEF RestartFails, AnyCpu, TypeOK
  <2>4. TypeOK'
    BY <1>1, <1>8, <2>1, <2>2, <2>3 DEF RestartFails, TypeOK, States, sockets
  <2> QED
    BY <1>8, <2>2, <2>4, SameSockets DEF RestartFails, SocketInv, sockets
<1>9. ASSUME NEW p \in Pids, NEW c \in Clients, ClientConnects(c, p)
      PROVE  SocketInv'
  <2>1. sessions' \in [Pids -> SUBSET Clients]
    BY <1>1, <1>9 DEF ClientConnects, TypeOK
  <2> QED
    BY <1>1, <1>9, <2>1 DEF ClientConnects, SocketInv, TypeOK, PortIsServed, counters
<1>10. CASE WaitFails \/ UNCHANGED vars
  BY <1>1, <1>10 DEF WaitFails, vars, SocketInv, TypeOK, PortIsServed, sockets, counters
<1> QED
  BY <1>2, <1>3, <1>4, <1>5, <1>6, <1>7, <1>8, <1>9, <1>10 DEF Next

-----------------------------------------------------------------------------
(***************************************************************************)
(* The CPUs.                                                               *)
(***************************************************************************)

\* The turns of the first loop made so far have pinned their children to the
\* CPUs before `forked', one each, and nobody else is pinned.
PinInv ==
  /\ \A p \in restarted : state[p] # "none"
  /\ \A p \in Pinned : state[p] # "none" /\ p \notin restarted /\ cpu[p] < forked
  /\ \A p, q \in Pinned : cpu[p] = cpu[q] => p = q

\* Nobody is pinned at first.
LEMMA InitPinInv == Init => PinInv
BY DEF Init, PinInv, Pinned

\* A step that pins no process keeps those apart that were.
LEMMA NoneIsPinned ==
  ASSUME PinInv, SocketInv, UNCHANGED forked,
         \A p \in Pids : cpu'[p] = cpu[p] \/ cpu'[p] = AnyCpu,
         \A p \in restarted' : state'[p] # "none",
         \A p \in Pids : cpu'[p] # AnyCpu => state'[p] # "none" /\ p \notin restarted'
  PROVE  PinInv'
<1>1. \A p \in Pinned' : p \in Pinned /\ cpu'[p] = cpu[p]
  BY DEF Pinned, AnyCpu
<1> QED
  BY <1>1 DEF PinInv, Pinned, AnyCpu

\* Every step keeps the pinned apart.
LEMMA StepPinInv == ASSUME PinInv, SocketInv, [Next]_vars PROVE PinInv'
<1>1. /\ state \in [Pids -> States] /\ restarted \subseteq Pids
      /\ forked \in 0..CpuCount /\ cpu \in [Pids -> 0..CpuCount]
  BY DEF SocketInv, TypeOK, States
<1>2. /\ \A p \in restarted : state[p] # "none"
      /\ \A p \in Pids : cpu[p] # AnyCpu => state[p] # "none" /\ p \notin restarted
                                            /\ cpu[p] < forked
  BY DEF PinInv, Pinned
<1>3. ASSUME NEW p \in Pids, ForkWorker(p)
      PROVE  PinInv'
  <2>1. PICK c \in {forked, AnyCpu} : cpu' = [cpu EXCEPT ![p] = c]
    BY <1>3 DEF ForkWorker, SetAffinity
  <2>2. /\ state[p] = "none" /\ state' = [state EXCEPT ![p] = "starting"]
        /\ forked' = forked + 1 /\ restarted' = restarted
    BY <1>3 DEF ForkWorker
  <2>3. \A q \in Pinned' : (q \in Pinned /\ q # p) \/ (q = p /\ cpu'[q] = forked)
    BY <1>1, <2>1 DEF Pinned, AnyCpu
  <2>4. \A q \in Pids : q # p => cpu'[q] = cpu[q] /\ state'[q] = state[q]
    BY <1>1, <2>1, <2>2
  <2>5. \A q \in Pinned : cpu[q] < forked /\ q \in Pids
    BY DEF PinInv, Pinned
  <2>6. p \notin restarted
    BY <1>2, <2>2
  <2>7. \A q \in restarted' : state'[q] # "none"
    BY <1>1, <1>2, <2>2, <2>4, <2>6
  <2>8. ASSUME NEW q \in Pinned'
        PROVE  state'[q] # "none" /\ q \notin restarted' /\ cpu'[q] < forked'
    <3>1. CASE q = p
      BY <1>1, <2>2, <2>3, <2>5, <2>6, <3>1
    <3>2. CASE q # p
      <4>1. q \in Pinned /\ cpu'[q] = cpu[q] /\ state'[q] = state[q] /\ cpu[q] \in 0..CpuCount
        BY <1>1, <2>3, <2>4, <2>5, <3>2
      <4> QED
        BY <1>1, <2>2, <4>1 DEF PinInv
    <3> QED
      BY <3>1, <3>2
  <2>9. ASSUME NEW q \in Pinned', NEW r \in Pinned', cpu'[q] = cpu'[r]
        PROVE  q = r
    <3>1. CASE q # p /\ r # p
      BY <2>3, <2>4, <2>5, <2>9, <3>1 DEF PinInv
    <3>2. CASE q = p /\ r # p
      <4>1. cpu'[q] = forked /\ cpu'[r] < forked /\ forked \in Int
        BY <1>1, <2>3, <2>4, <2>5, <3>2
      <4> QED
        BY <2>9, <4>1
    <3>3. CASE q # p /\ r = p
      <4>1. cpu'[r] = forked /\ cpu'[q] < forked /\ forked \in Int
        BY <1>1, <2>3, <2>4, <2>5, <3>3
      <4> QED
        BY <2>9, <4>1
    <3> QED
      BY <3>1, <3>2, <3>3
  <2> QED
    BY <2>7, <2>8, <2>9 DEF PinInv
<1>4. ASSUME NEW p \in Pids, NEW q \in Pids, Restart(p, q)
      PROVE  PinInv'
  <2>1. /\ state[p] = "zombie" /\ (q = p \/ state[q] = "none")
        /\ state' = [state EXCEPT ![p] = "none", ![q] = "starting"]
        /\ restarted' = (restarted \ {p}) \cup {q}
        /\ cpu' = [cpu EXCEPT ![p] = AnyCpu] /\ forked' = forked
    BY <1>4 DEF Restart
  <2>2. \A r \in Pids : (cpu'[r] = cpu[r] /\ r # p) \/ cpu'[r] = AnyCpu
    BY <1>1, <2>1
  <2>3. cpu'[q] = AnyCpu
    BY <1>1, <1>2, <2>1
  <2>4. \A r \in restarted' : state'[r] # "none"
    BY <1>1, <1>2, <2>1
  <2>5. \A r \in Pids : cpu'[r] # AnyCpu => state'[r] # "none" /\ r \notin restarted'
    BY <1>1, <1>2, <2>1, <2>2, <2>3
  <2> QED
    BY <2>1, <2>2, <2>4, <2>5, NoneIsPinned
<1>5. ASSUME NEW p \in Pids, RestartFails(p)
      PROVE  PinInv'
  <2>1. /\ state' = [state EXCEPT ![p] = "none"] /\ restarted' = restarted \ {p}
        /\ cpu' = [cpu EXCEPT ![p] = AnyCpu] /\ forked' = forked
    BY <1>5 DEF RestartFails
  <2>2. \A r \in Pids : (cpu'[r] = cpu[r] /\ r # p) \/ cpu'[r] = AnyCpu
    BY <1>1, <2>1
  <2>3. \A r \in restarted' : state'[r] # "none"
    BY <1>1, <1>2, <2>1
  <2>4. \A r \in Pids : cpu'[r] # AnyCpu => state'[r] # "none" /\ r \notin restarted'
    BY <1>1, <1>2, <2>1, <2>2
  <2> QED
    BY <2>1, <2>2, <2>3, <2>4, NoneIsPinned
<1>6. ASSUME UNCHANGED <<forked, restarted, cpu>>,
             \A p \in Pids : state[p] # "none" => state'[p] # "none"
      PROVE  PinInv'
  BY <1>1, <1>2, <1>6, NoneIsPinned
<1>7. ASSUME NEW p \in Pids, WorkerListens(p) \/ WorkerReturns(p) \/ WorkerDies(p)
      PROVE  PinInv'
  <2>1. PICK s \in States \ {"none"} : state' = [state EXCEPT ![p] = s]
    BY <1>7 DEF WorkerListens, WorkerReturns, WorkerDies, States
  <2>2. UNCHANGED <<forked, restarted, cpu>>
    BY <1>7 DEF WorkerListens, WorkerReturns, WorkerDies
  <2> QED
    BY <1>1, <1>6, <2>1, <2>2
<1>8. ASSUME NEW p \in Pids, NEW c \in Clients, ClientConnects(c, p)
      PROVE  PinInv'
  BY <1>6, <1>8 DEF ClientConnects
<1>9. CASE ForkWorkerFails \/ WaitFails \/ UNCHANGED vars
  BY <1>6, <1>9 DEF ForkWorkerFails, WaitFails, vars
<1> QED
  BY <1>3, <1>4, <1>5, <1>7, <1>8, <1>9 DEF Next

\* What the three invariants say of CPUs and children.
LEMMA InvIsOnePerCpu == ASSUME IInv, PinInv PROVE OnePerCpu
<1>1. Children(state) = Pids \ In("none")
  BY DEF Children, In
<1>2. Pinned \cap (In("none") \cup restarted) = {}
  BY DEF PinInv, In
<1> QED
  BY <1>1, <1>2 DEF IInv, PinInv, OnePerCpu

-----------------------------------------------------------------------------

\* For any number of CPUs, whatever dies and however often: there are as many
\* children as were forked, less one per replacement that could not be forked,
\* and those that are pinned are children of the first loop, on CPUs of their own.
THEOREM OneWorkerPerCpu == Spec => []OnePerCpu
BY InvIsOnePerCpu, InitIInv, StepIInv, InitSocketInv, StepSocketInv,
   InitPinInv, StepPinInv, PTL DEF Spec

\* For any number of CPUs and any failures: every variable has its type.
THEOREM TypeCorrect == Spec => []TypeOK
<1>1. SocketInv => TypeOK
  BY DEF SocketInv
<1> QED
  BY <1>1, InitSocketInv, StepSocketInv, PTL DEF Spec

\* For any number of CPUs, in whatever order workers listen, die and return:
\* the sockets bound to the port are those of the workers that listen.
THEOREM PortServed == Spec => []PortIsServed
<1>1. SocketInv => PortIsServed
  BY DEF SocketInv
<1> QED
  BY <1>1, InitSocketInv, StepSocketInv, PTL DEF Spec
=============================================================================
