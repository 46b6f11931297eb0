--------------------------- MODULE WorkerPoolProofs ---------------------------
(***************************************************************************)
(* Theorems about WorkerPool, for every set of jobs, finite set of pools   *)
(* and limit: its types and pool sizes, then its jobs (a job is in one     *)
(* place, jobs start in order, a shutdown leaves no pool open).  They are  *)
(* proved of ApiSpec, where single pools may be shut down too; Spec allows *)
(* fewer steps.                                                            *)
(***************************************************************************)
EXTENDS WorkerPool, TLAPS, FiniteSetTheorems, SequenceTheorems

USE PoolsAssumption, PoolOfAssumption, MaxWorkersAssumption, NoJobAssumption,
    ErrorEndsWorkerAssumption

\* The workers after job j is put on idle worker i of pool p, or on a new
\* worker of pool p.
Reused(ws, p, i, j) == [ws EXCEPT ![p][i].job = j]
Added(ws, p, j) == [ws EXCEPT ![p] = Append(@, [job |-> j, alive |-> TRUE])]

\* The workers after worker i of pool p is freed.
Freed(ws, p, i, al) == [ws EXCEPT ![p][i] = [job |-> NoJob, alive |-> al]]

\* Both keep the workers well typed.
LEMMA ReusedType ==
  ASSUME NEW ws \in [Pools -> Seq(Worker)], NEW p \in Pools,
         NEW i \in DOMAIN ws[p], NEW j \in Jobs
  PROVE  Reused(ws, p, i, j) \in [Pools -> Seq(Worker)]
<1>1. ws[p] \in Seq(Worker)
  OBVIOUS
<1>2. ws[p][i] \in Worker
  BY <1>1
<1>3. [ws[p][i] EXCEPT !.job = j] \in Worker
  BY <1>2 DEF Worker
<1>4. [ws[p] EXCEPT ![i] = [ws[p][i] EXCEPT !.job = j]] \in Seq(Worker)
  BY <1>1, <1>3
<1> QED
  BY <1>4 DEF Reused

\* Adding a worker keeps the pools well typed.
LEMMA AddedType ==
  ASSUME NEW ws \in [Pools -> Seq(Worker)], NEW p \in Pools, NEW j \in Jobs
  PROVE  Added(ws, p, j) \in [Pools -> Seq(Worker)]
<1>1. [job |-> j, alive |-> TRUE] \in Worker
  BY DEF Worker
<1>2. Append(ws[p], [job |-> j, alive |-> TRUE]) \in Seq(Worker)
  BY <1>1
<1> QED
  BY <1>2 DEF Added

\* A tick keeps the types of what it changes.
LEMMA TickType ==
  ASSUME NEW ws \in [Pools -> Seq(Worker)], NEW active \in Int,
         NEW pending \in Seq(Jobs), Tick(ws, active, pending)
  PROVE  /\ workers' \in [Pools -> Seq(Worker)]
         /\ activeWorkers' \in Int
         /\ pendingJobs' \in Seq(Jobs)
<1>1. CASE workers' = ws /\ activeWorkers' = active /\ pendingJobs' = pending
  BY <1>1
<1>2. CASE /\ pending # <<>>
           /\ StartNext(ws, pending)
           /\ activeWorkers' = active + 1
           /\ pendingJobs' = Tail(pending)
  <2> DEFINE j == Head(pending)
             p == PoolOf[j]
  <2>1. j \in Jobs /\ p \in Pools /\ Tail(pending) \in Seq(Jobs)
    BY <1>2
  <2>2. \/ \E i \in DOMAIN ws[p] : workers' = Reused(ws, p, i, j)
        \/ workers' = Added(ws, p, j)
    BY <1>2 DEF StartNext, Reused, Added
  <2> HIDE DEF j, p
  <2>3. ASSUME NEW i \in DOMAIN ws[p]
        PROVE  Reused(ws, p, i, j) \in [Pools -> Seq(Worker)]
    BY <2>1, ReusedType
  <2>4. Added(ws, p, j) \in [Pools -> Seq(Worker)]
    BY <2>1, AddedType
  <2> QED
    BY <1>2, <2>1, <2>2, <2>3, <2>4
<1> QED
  BY <1>1, <1>2 DEF Tick

-----------------------------------------------------------------------------
\* At startup the state is well typed.
LEMMA TypeInit == Init => TypeOK
<1> SUFFICES ASSUME Init PROVE TypeOK
  OBVIOUS
<1>1. <<>> \in Seq(Worker) /\ <<>> \in Seq(Jobs)
  OBVIOUS
<1>2. workers \in [Pools -> Seq(Worker)] /\ pendingJobs \in Seq(Jobs)
  BY <1>1 DEF Init
<1>3. promise \in [Jobs -> PromiseStates]
  BY DEF Init, PromiseStates
<1>4. allPools \subseteq Pools /\ poolShutdown \subseteq Pools /\ activeWorkers \in Int
  BY DEF Init
<1>5. shutdown \in BOOLEAN /\ uncaught \in BOOLEAN
  BY Zenon DEF Init
<1> QED
  BY <1>2, <1>3, <1>4, <1>5 DEF TypeOK

\* Every call of the pools' exported functions keeps the state well typed.
LEMMA TypeStep == TypeOK /\ [ApiNext]_vars => TypeOK'
<1> SUFFICES ASSUME TypeOK, [ApiNext]_vars PROVE TypeOK'
  OBVIOUS
<1> USE DEF TypeOK
<1>1. ASSUME NEW p \in Pools, CreateWorkerPool(p) PROVE TypeOK'
  BY <1>1 DEF CreateWorkerPool
<1>2. ASSUME NEW j \in Jobs, RunJob(j) PROVE TypeOK'
  <2>1. Append(pendingJobs, j) \in Seq(Jobs)
    OBVIOUS
  <2>2. /\ workers' \in [Pools -> Seq(Worker)]
        /\ activeWorkers' \in Int
        /\ pendingJobs' \in Seq(Jobs)
    BY <1>2, <2>1, TickType DEF RunJob
  <2>3. promise' \in [Jobs -> PromiseStates]
    BY <1>2 DEF RunJob, PromiseStates
  <2> QED
    BY <1>2, <2>2, <2>3 DEF RunJob
<1>3. ASSUME NEW j \in Jobs, RunJobRefused(j) PROVE TypeOK'
  BY <1>3 DEF RunJobRefused, PromiseStates
<1>4. ASSUME NEW p \in Pools, NEW i \in DOMAIN workers[p], Reply(p, i) PROVE TypeOK'
  <2>1. PICK out \in {"resolved", "rejected"}, al \in BOOLEAN :
          WorkerDone(p, i, out, al)
    BY <1>4 DEF Reply, OnMessage, OnError
  <2> DEFINE freed == [workers EXCEPT ![p][i] = [job |-> NoJob, alive |-> al]]
  <2>2. freed \in [Pools -> Seq(Worker)]
    <3>1. workers[p] \in Seq(Worker) /\ [job |-> NoJob, alive |-> al] \in Worker
      BY DEF Worker
    <3>2. [workers[p] EXCEPT ![i] = [job |-> NoJob, alive |-> al]] \in Seq(Worker)
      BY <3>1
    <3> QED
      BY <3>2
  <2>3. promise' \in [Jobs -> PromiseStates]
    BY <2>1 DEF WorkerDone, PromiseStates
  <2>4. /\ workers' \in [Pools -> Seq(Worker)]
        /\ activeWorkers' \in Int
        /\ pendingJobs' \in Seq(Jobs)
        /\ uncaught' \in BOOLEAN
    <3> HIDE DEF freed
    <3>1. CASE ~shutdown
      <4>1. Tick(freed, activeWorkers - 1, pendingJobs) /\ UNCHANGED uncaught
        BY <2>1, <3>1 DEF WorkerDone, freed
      <4>2. activeWorkers - 1 \in Int /\ pendingJobs \in Seq(Jobs)
        OBVIOUS
      <4>3. /\ workers' \in [Pools -> Seq(Worker)]
            /\ activeWorkers' \in Int
            /\ pendingJobs' \in Seq(Jobs)
        BY <4>1, <4>2, <2>2, TickType
      <4> QED
        BY <4>1, <4>3
    <3>2. CASE shutdown
      <4>1. /\ workers' = freed
            /\ activeWorkers' = activeWorkers - 1
            /\ uncaught' = TRUE
            /\ UNCHANGED pendingJobs
        BY <2>1, <3>2 DEF WorkerDone, freed
      <4> QED
        BY <4>1, <2>2
    <3> QED
      BY <3>1, <3>2
  <2> QED
    BY <2>1, <2>3, <2>4 DEF WorkerDone
<1>5. ASSUME NEW ps \in SUBSET Pools PROVE Terminate(ps) \in [Pools -> Seq(Worker)]
  <2> SUFFICES ASSUME NEW p \in Pools, p \in ps
               PROVE  [i \in DOMAIN workers[p] |->
                         [workers[p][i] EXCEPT !.alive = FALSE]] \in Seq(Worker)
    BY DEF Terminate
  <2>1. workers[p] \in Seq(Worker)
    OBVIOUS
  <2>2. DOMAIN workers[p] = 1..Len(workers[p]) /\ Len(workers[p]) \in Nat
    BY <2>1
  <2>3. ASSUME NEW i \in 1..Len(workers[p])
        PROVE  [workers[p][i] EXCEPT !.alive = FALSE] \in Worker
    <3>1. workers[p][i] \in Worker
      BY <2>1
    <3> QED
      BY <3>1 DEF Worker
  <2>4. [i \in 1..Len(workers[p]) |-> [workers[p][i] EXCEPT !.alive = FALSE]]
          \in [1..Len(workers[p]) -> Worker]
    BY <2>3
  <2> QED
    BY <2>2, <2>4, SeqDef
<1>6. ASSUME NEW p \in Pools, ShutdownPool(p) PROVE TypeOK'
  BY <1>5, <1>6 DEF ShutdownPool
<1>7. ASSUME CleanupAllPools PROVE TypeOK'
  BY <1>5, <1>7 DEF CleanupAllPools
<1>8. CASE UNCHANGED vars
  BY <1>8 DEF vars
<1> QED
  BY <1>1, <1>2, <1>3, <1>4, <1>6, <1>7, <1>8 DEF ApiNext, Next

\* The state of the pools is always well typed.
THEOREM ApiTypeCorrect == ApiSpec => []TypeOK
<1>1. Init => TypeOK
  BY TypeInit
<1> QED
  BY <1>1, TypeStep, PTL DEF ApiSpec

\* So it is in the program, which never shuts down a single pool.
THEOREM TypeCorrect == Spec => []TypeOK
<1>1. Init => TypeOK
  BY TypeInit
<1>2. TypeOK /\ [Next]_vars => TypeOK'
  BY TypeStep DEF ApiNext
<1> QED
  BY <1>1, <1>2, PTL DEF Spec

-----------------------------------------------------------------------------
\* A slot is busy when the worker at it holds a job.
LEMMA BusyMember ==
  ASSUME NEW ws \in [Pools -> Seq(Worker)], NEW p \in Pools, NEW i
  PROVE  <<p, i>> \in Busy(ws) <=> i \in DOMAIN ws[p] /\ ws[p][i].job # NoJob
BY DEF Busy, BusyIn

\* A busy slot is the pair of a pool and a place in it.
LEMMA BusyPairs ==
  ASSUME NEW ws, NEW s \in Busy(ws)
  PROVE  \E p \in Pools : \E i \in DOMAIN ws[p] : s = <<p, i>>
BY DEF Busy, BusyIn

\* A job given to an idle worker makes one more slot busy.
LEMMA BusyReused ==
  ASSUME NEW ws \in [Pools -> Seq(Worker)], NEW p \in Pools,
         NEW i \in DOMAIN ws[p], IsFirstIdle(ws[p], i), NEW j \in Jobs
  PROVE  /\ Busy(Reused(ws, p, i, j)) = Busy(ws) \cup {<<p, i>>}
         /\ <<p, i>> \notin Busy(ws)
<1> DEFINE new == Reused(ws, p, i, j)
<1>1. new \in [Pools -> Seq(Worker)]
  BY ReusedType
<1>2. ASSUME NEW q \in Pools, NEW k
      PROVE  <<q, k>> \in Busy(new) <=> <<q, k>> \in Busy(ws) \/ <<q, k>> = <<p, i>>
  <2>1. ws[q] \in Seq(Worker) /\ ws[p][i] \in Worker
    OBVIOUS
  <2>2. CASE q = p /\ k = i
    <3>1. new[p][i].job = j /\ i \in DOMAIN new[p]
      BY <2>1 DEF Reused, Worker
    <3> QED
      BY <3>1, <2>2, <1>1, BusyMember
  <2>3. CASE ~(q = p /\ k = i)
    <3>1. DOMAIN new[q] = DOMAIN ws[q]
      BY <2>1 DEF Reused
    <3>2. k \in DOMAIN ws[q] => new[q][k] = ws[q][k]
      BY <2>1, <2>3 DEF Reused
    <3> HIDE DEF new
    <3> QED
      BY <3>1, <3>2, <2>3, <1>1, BusyMember
  <2> QED
    BY <2>2, <2>3
<1>3. <<p, i>> \notin Busy(ws)
  BY BusyMember DEF IsFirstIdle
<1> HIDE DEF new
<1>4. Busy(new) = Busy(ws) \cup {<<p, i>>}
  BY <1>2, BusyPairs
<1> QED
  BY <1>3, <1>4 DEF new

\* A job given to a new worker makes one more slot busy.
LEMMA BusyAdded ==
  ASSUME NEW ws \in [Pools -> Seq(Worker)], NEW p \in Pools, NEW j \in Jobs
  PROVE  /\ Busy(Added(ws, p, j)) = Busy(ws) \cup {<<p, Len(ws[p]) + 1>>}
         /\ <<p, Len(ws[p]) + 1>> \notin Busy(ws)
<1> DEFINE new == Added(ws, p, j)
           i == Len(ws[p]) + 1
<1>1. new \in [Pools -> Seq(Worker)]
  BY AddedType
<1>2. ASSUME NEW q \in Pools, NEW k
      PROVE  <<q, k>> \in Busy(new) <=> <<q, k>> \in Busy(ws) \/ <<q, k>> = <<p, i>>
  <2>1. ws[q] \in Seq(Worker) /\ [job |-> j, alive |-> TRUE] \in Worker
    BY DEF Worker
  <2>2. CASE q = p /\ k = i
    <3>1. new[p][i].job = j /\ i \in DOMAIN new[p]
      BY <2>1 DEF Added
    <3> QED
      BY <3>1, <2>2, <1>1, BusyMember
  <2>3. CASE ~(q = p /\ k = i)
    <3>1. k \in DOMAIN new[q] <=> k \in DOMAIN ws[q]
      BY <2>1, <2>3 DEF Added
    <3>2. k \in DOMAIN ws[q] => new[q][k] = ws[q][k]
      BY <2>1, <2>3 DEF Added
    <3> HIDE DEF new, i
    <3> QED
      BY <3>1, <3>2, <2>3, <1>1, BusyMember
  <2> QED
    BY <2>2, <2>3
<1>3. <<p, i>> \notin Busy(ws)
  BY BusyMember
<1> HIDE DEF new, i
<1>4. Busy(new) = Busy(ws) \cup {<<p, i>>}
  BY <1>2, BusyPairs
<1> QED
  BY <1>3, <1>4 DEF new, i

\* A worker that answers frees its slot and no other.
LEMMA BusyFreed ==
  ASSUME NEW ws \in [Pools -> Seq(Worker)], NEW p \in Pools,
         NEW i \in DOMAIN ws[p], NEW al \in BOOLEAN
  PROVE  /\ Freed(ws, p, i, al) \in [Pools -> Seq(Worker)]
         /\ Busy(Freed(ws, p, i, al)) = Busy(ws) \ {<<p, i>>}
<1> DEFINE idle == [job |-> NoJob, alive |-> al]
           new == [ws EXCEPT ![p][i] = idle]
<1>1. new \in [Pools -> Seq(Worker)]
  <2>1. ws[p] \in Seq(Worker) /\ idle \in Worker
    BY DEF Worker
  <2>2. [ws[p] EXCEPT ![i] = idle] \in Seq(Worker)
    BY <2>1
  <2> QED
    BY <2>2
<1>2. ASSUME NEW q \in Pools, NEW k
      PROVE  <<q, k>> \in Busy(new) <=> <<q, k>> \in Busy(ws) /\ <<q, k>> # <<p, i>>
  <2>1. ws[q] \in Seq(Worker)
    OBVIOUS
  <2>2. CASE q = p /\ k = i
    <3>1. new[p][i].job = NoJob
      BY <2>1
    <3> QED
      BY <3>1, <2>2, <1>1, BusyMember
  <2>3. CASE ~(q = p /\ k = i)
    <3>1. DOMAIN new[q] = DOMAIN ws[q]
      BY <2>1
    <3>2. k \in DOMAIN ws[q] => new[q][k] = ws[q][k]
      BY <2>1, <2>3
    <3> HIDE DEF new
    <3> QED
      BY <3>1, <3>2, <2>3, <1>1, BusyMember
  <2> QED
    BY <2>2, <2>3
<1> HIDE DEF new
<1>4. Busy(new) = Busy(ws) \ {<<p, i>>}
  BY <1>2, BusyPairs
<1> QED
  BY <1>1, <1>4 DEF new, Freed

\* Terminating workers frees no slot and keeps every pool's length.
LEMMA BusyTerminated ==
  ASSUME workers \in [Pools -> Seq(Worker)], NEW ps \in SUBSET Pools
  PROVE  /\ Terminate(ps) \in [Pools -> Seq(Worker)]
         /\ \A p \in Pools : /\ DOMAIN Terminate(ps)[p] = DOMAIN workers[p]
                            /\ \A i \in DOMAIN workers[p] :
                                 Terminate(ps)[p][i].job = workers[p][i].job
         /\ Busy(Terminate(ps)) = Busy(workers)
<1> DEFINE new == Terminate(ps)
<1>1. ASSUME NEW p \in Pools
      PROVE  /\ new[p] \in Seq(Worker)
             /\ DOMAIN new[p] = DOMAIN workers[p]
             /\ \A i \in DOMAIN workers[p] : new[p][i].job = workers[p][i].job
  <2>1. workers[p] \in Seq(Worker)
    OBVIOUS
  <2>2. DOMAIN workers[p] = 1..Len(workers[p]) /\ Len(workers[p]) \in Nat
    BY <2>1
  <2>3. ASSUME NEW i \in 1..Len(workers[p])
        PROVE  /\ [workers[p][i] EXCEPT !.alive = FALSE] \in Worker
               /\ [workers[p][i] EXCEPT !.alive = FALSE].job = workers[p][i].job
    <3>1. workers[p][i] \in Worker
      BY <2>1
    <3> QED
      BY <3>1 DEF Worker
  <2> DEFINE dead == [i \in 1..Len(workers[p]) |-> [workers[p][i] EXCEPT !.alive = FALSE]]
  <2>4. dead \in [1..Len(workers[p]) -> Worker]
    BY <2>3
  <2>5. dead \in Seq(Worker)
    BY <2>2, <2>4, SeqDef
  <2>6. \A i \in DOMAIN workers[p] : dead[i].job = workers[p][i].job
    BY <2>2, <2>3
  <2>7. new[p] = dead \/ new[p] = workers[p]
    BY <2>2 DEF Terminate
  <2> QED
    BY <2>1, <2>2, <2>4, <2>5, <2>6, <2>7
<1>2. new \in [Pools -> Seq(Worker)]
  BY <1>1 DEF Terminate
<1> HIDE DEF new
<1>3. Busy(new) = Busy(workers)
  <2>1. ASSUME NEW q \in Pools, NEW k
        PROVE  <<q, k>> \in Busy(new) <=> <<q, k>> \in Busy(workers)
    <3>1. <<q, k>> \in Busy(new) <=> k \in DOMAIN new[q] /\ new[q][k].job # NoJob
      BY <1>2, BusyMember
    <3>2. <<q, k>> \in Busy(workers)
            <=> k \in DOMAIN workers[q] /\ workers[q][k].job # NoJob
      BY BusyMember
    <3> QED
      BY <3>1, <3>2, <1>1
  <2>2. \A s \in Busy(new) : s \in Busy(workers)
    BY <2>1, BusyPairs
  <2>3. \A s \in Busy(workers) : s \in Busy(new)
    BY <2>1, BusyPairs
  <2> QED
    BY <2>2, <2>3
<1> QED
  BY <1>1, <1>2, <1>3 DEF new

-----------------------------------------------------------------------------
\* n counts the busy workers of ws and no pool of ws has more than MaxWorkers.
Counted(ws, n) ==
  /\ IsFiniteSet(Busy(ws))
  /\ n = Cardinality(Busy(ws))
  /\ n <= MaxWorkers
  /\ \A p \in Pools : Len(ws[p]) <= MaxWorkers

\* A pool whose workers are all busy has as many workers as slots at most.
LEMMA AllBusyBound ==
  ASSUME NEW ws \in [Pools -> Seq(Worker)], NEW n, Counted(ws, n),
         NEW p \in Pools, BusyIn(ws[p]) = DOMAIN ws[p]
  PROVE  Len(ws[p]) <= n
<1> DEFINE len == Len(ws[p])
           f == [i \in 1..len |-> <<p, i>>]
<1>1. ws[p] \in Seq(Worker) /\ len \in Nat /\ DOMAIN ws[p] = 1..len
  OBVIOUS
<1>2. f \in [1..len -> Busy(ws)]
  BY <1>1 DEF Busy
<1>3. f \in Injection(1..len, Busy(ws))
  BY <1>2 DEF Injection, IsInjective
<1>4. Cardinality(1..len) <= Cardinality(Busy(ws))
  BY <1>3, FS_Injection DEF Counted
<1> HIDE DEF len
<1>5. Cardinality(1..len) = len
  <2>1. 1 \in Int /\ len \in Int
    BY <1>1
  <2>2. Cardinality(1..len) = IF 1 > len THEN 0 ELSE len - 1 + 1
    BY <2>1, FS_Interval
  <2> QED
    BY <1>1, <2>2
<1> QED
  BY <1>4, <1>5 DEF Counted, len

\* A tick counts the slot it takes, keeps the pools small, and leaves nothing
\* to start when its caller left one free slot or one pending job at most.
LEMMA TickCounts ==
  ASSUME NEW ws \in [Pools -> Seq(Worker)], NEW n \in Int, Counted(ws, n),
         NEW pending \in Seq(Jobs), Tick(ws, n, pending)
  PROVE  /\ Counted(workers', activeWorkers')
         /\ n >= MaxWorkers - 1 \/ Len(pending) <= 1 =>
              activeWorkers' = MaxWorkers \/ pendingJobs' = <<>>
<1>1. n <= MaxWorkers /\ IsFiniteSet(Busy(ws)) /\ n = Cardinality(Busy(ws))
  BY DEF Counted
<1>2. CASE /\ n >= MaxWorkers \/ pending = <<>>
           /\ workers' = ws /\ activeWorkers' = n /\ pendingJobs' = pending
  BY <1>1, <1>2
<1>3. CASE /\ n < MaxWorkers /\ pending # <<>>
           /\ StartNext(ws, pending)
           /\ activeWorkers' = n + 1
           /\ pendingJobs' = Tail(pending)
  <2> DEFINE j == Head(pending)
             p == PoolOf[j]
  <2>1. j \in Jobs /\ p \in Pools
    BY <1>3
  <2>2. \/ \E i \in DOMAIN ws[p] : IsFirstIdle(ws[p], i) /\ workers' = Reused(ws, p, i, j)
        \/ BusyIn(ws[p]) = DOMAIN ws[p] /\ workers' = Added(ws, p, j)
    BY <1>3 DEF StartNext, Reused, Added
  <2> HIDE DEF j, p
  <2>3. ASSUME NEW s, Busy(workers') = Busy(ws) \cup {s}, s \notin Busy(ws)
        PROVE  /\ IsFiniteSet(Busy(workers'))
               /\ n + 1 = Cardinality(Busy(workers'))
    BY <1>1, <2>3, FS_AddElement
  <2>4. ASSUME NEW i \in DOMAIN ws[p], IsFirstIdle(ws[p], i),
               workers' = Reused(ws, p, i, j)
        PROVE  Counted(workers', n + 1)
    <3> DEFINE slot == <<p, i>>
    <3>0. Busy(workers') = Busy(ws) \cup {slot} /\ slot \notin Busy(ws)
      BY <2>1, <2>4, BusyReused
    <3> HIDE DEF slot
    <3>1. IsFiniteSet(Busy(workers')) /\ n + 1 = Cardinality(Busy(workers'))
      BY <3>0, <2>3
    <3>2. \A q \in Pools : Len(workers'[q]) = Len(ws[q])
      BY <2>1, <2>4 DEF Reused
    <3> QED
      BY <1>3, <3>1, <3>2 DEF Counted
  <2>5. ASSUME BusyIn(ws[p]) = DOMAIN ws[p], workers' = Added(ws, p, j)
        PROVE  Counted(workers', n + 1)
    <3>1. IsFiniteSet(Busy(workers')) /\ n + 1 = Cardinality(Busy(workers'))
      BY <2>1, <2>3, <2>5, BusyAdded
    <3>2. Len(ws[p]) <= n
      BY <2>1, <2>5, AllBusyBound
    <3>3. ASSUME NEW q \in Pools
          PROVE  Len(workers'[q]) = IF q = p THEN Len(ws[p]) + 1 ELSE Len(ws[q])
      <4>1. ws[q] \in Seq(Worker) /\ ws[p] \in Seq(Worker)
        BY <2>1
      <4> QED
        BY <2>5, <4>1 DEF Added
    <3>4. \A q \in Pools : Len(workers'[q]) <= MaxWorkers
      <4> SUFFICES ASSUME NEW q \in Pools PROVE Len(workers'[q]) <= MaxWorkers
        OBVIOUS
      <4>1. Len(ws[p]) \in Nat /\ Len(ws[q]) \in Nat /\ Len(ws[q]) <= MaxWorkers
        BY <2>1 DEF Counted
      <4>2. Len(workers'[q]) = IF q = p THEN Len(ws[p]) + 1 ELSE Len(ws[q])
        BY <3>3
      <4> QED
        BY <1>3, <3>2, <4>1, <4>2
    <3> QED
      BY <1>3, <3>1, <3>4 DEF Counted
  <2>6. Counted(workers', activeWorkers')
    BY <1>3, <2>2, <2>4, <2>5
  <2>7. Len(pending) <= 1 => Tail(pending) = <<>>
    BY <1>3
  <2> QED
    BY <1>3, <2>6, <2>7
<1> QED
  BY <1>2, <1>3 DEF Tick

\* An answer frees one slot.
LEMMA FreedCounts ==
  ASSUME NEW ws \in [Pools -> Seq(Worker)], NEW n \in Int, Counted(ws, n), NEW p \in Pools,
         NEW i \in DOMAIN ws[p], NEW al \in BOOLEAN, ws[p][i].job # NoJob
  PROVE  Counted(Freed(ws, p, i, al), n - 1)
<1> DEFINE freed == Freed(ws, p, i, al)
           slot == <<p, i>>
<1>1. slot \in Busy(ws)
  BY BusyMember
<1>2. freed \in [Pools -> Seq(Worker)] /\ Busy(freed) = Busy(ws) \ {slot}
  BY BusyFreed
<1>3. \A q \in Pools : Len(freed[q]) = Len(ws[q])
  BY DEF Freed
<1> HIDE DEF freed, slot
<1>4. IsFiniteSet(Busy(ws)) /\ n = Cardinality(Busy(ws))
  BY DEF Counted
<1>5. /\ IsFiniteSet(Busy(ws) \ {slot})
      /\ Cardinality(Busy(ws) \ {slot}) = Cardinality(Busy(ws)) - 1
  BY <1>1, <1>4, FS_RemoveElement
<1>6. n - 1 <= MaxWorkers
  BY DEF Counted
<1>7. Counted(freed, n - 1)
  BY <1>2, <1>3, <1>4, <1>5, <1>6 DEF Counted
<1> QED
  BY <1>7 DEF freed

-----------------------------------------------------------------------------
\* The inductive invariant: the counter counts, the pools are small, and no
\* tick left anything to start.
Slots == /\ TypeOK
         /\ Counted(workers, activeWorkers)
         /\ WorkConserving

\* The invariant holds at startup, and every step keeps it.
LEMMA SlotsInit == Init => Slots
<1> SUFFICES ASSUME Init PROVE Slots
  OBVIOUS
<1>1. TypeOK
  BY TypeInit
<1>2. Busy(workers) = {}
  BY DEF Init, Busy, BusyIn
<1>3. \A p \in Pools : Len(workers[p]) = 0
  BY DEF Init
<1>4. Counted(workers, activeWorkers)
  <2>1. activeWorkers = 0
    BY DEF Init
  <2> QED
    BY <1>2, <1>3, <2>1, FS_EmptySet DEF Counted
<1>5. WorkConserving
  BY DEF Init, WorkConserving
<1> QED
  BY <1>1, <1>4, <1>5 DEF Slots

\* One step per action; a tick is counted by TickCounts.
LEMMA SlotsStep == Slots /\ [ApiNext]_vars => Slots'
<1> SUFFICES ASSUME Slots, [ApiNext]_vars PROVE Slots'
  OBVIOUS
<1>1. TypeOK /\ TypeOK'
  BY TypeStep DEF Slots
<1> USE <1>1
<1>2. /\ workers \in [Pools -> Seq(Worker)] /\ activeWorkers \in Int
      /\ pendingJobs \in Seq(Jobs)
      /\ activeWorkers <= MaxWorkers
      /\ Counted(workers, activeWorkers)
      /\ ~shutdown => activeWorkers = MaxWorkers \/ pendingJobs = <<>>
  BY DEF Slots, TypeOK, Counted, WorkConserving
<1>3. ASSUME UNCHANGED <<workers, activeWorkers, pendingJobs, shutdown>>
      PROVE  Slots'
  BY <1>2, <1>3 DEF Slots, WorkConserving, Counted
<1>4. ASSUME NEW j \in Jobs, RunJob(j) PROVE Slots'
  <2> DEFINE queue == Append(pendingJobs, j)
  <2>1. queue \in Seq(Jobs) /\ Len(queue) = Len(pendingJobs) + 1
    BY <1>2
  <2>2. activeWorkers >= MaxWorkers - 1 \/ Len(queue) <= 1
    BY <1>2, <1>4, <2>1 DEF RunJob
  <2>3. Tick(workers, activeWorkers, queue)
    BY <1>4 DEF RunJob
  <2> HIDE DEF queue
  <2>4. /\ Counted(workers', activeWorkers')
        /\ activeWorkers' = MaxWorkers \/ pendingJobs' = <<>>
    BY <1>2, <2>1, <2>2, <2>3, TickCounts
  <2> QED
    BY <2>4 DEF Slots, WorkConserving
<1>5. ASSUME NEW p \in Pools, NEW i \in DOMAIN workers[p], Reply(p, i)
      PROVE  Slots'
  <2>1. PICK out \in {"resolved", "rejected"}, al \in BOOLEAN :
          WorkerDone(p, i, out, al)
    BY <1>5 DEF Reply, OnMessage, OnError
  <2> DEFINE freed == Freed(workers, p, i, al)
  <2>2. freed \in [Pools -> Seq(Worker)]
    BY <1>2, BusyFreed
  <2>3. \/ ~shutdown /\ Tick(freed, activeWorkers - 1, pendingJobs)
        \/ /\ shutdown /\ workers' = freed
           /\ activeWorkers' = activeWorkers - 1 /\ UNCHANGED pendingJobs
    BY <2>1 DEF WorkerDone, Freed
  <2>4. Counted(freed, activeWorkers - 1)
    BY <1>2, <2>1, FreedCounts DEF WorkerDone
  <2> HIDE DEF freed
  <2>5. CASE ~shutdown
    <3>1. Tick(freed, activeWorkers - 1, pendingJobs)
      BY <2>3, <2>5
    <3>2. activeWorkers - 1 \in Int
      BY <1>2
    <3>3. activeWorkers - 1 >= MaxWorkers - 1 \/ Len(pendingJobs) <= 1
      BY <1>2, <2>5
    <3>4. /\ Counted(workers', activeWorkers')
          /\ activeWorkers' = MaxWorkers \/ pendingJobs' = <<>>
      BY <1>2, <2>2, <2>4, <3>1, <3>2, <3>3, TickCounts
    <3> QED
      BY <3>4 DEF Slots, WorkConserving
  <2>6. CASE shutdown
    <3>1. Counted(workers', activeWorkers')
      BY <2>3, <2>4, <2>6
    <3>2. shutdown'
      BY <2>1, <2>6 DEF WorkerDone
    <3> QED
      BY <3>1, <3>2 DEF Slots, WorkConserving
  <2> QED
    BY <2>5, <2>6
<1>6. ASSUME NEW ps \in SUBSET Pools, workers' = Terminate(ps),
             UNCHANGED <<activeWorkers, pendingJobs>>, shutdown => shutdown'
      PROVE  Slots'
  <2>1. Busy(workers') = Busy(workers)
    BY <1>2, <1>6, BusyTerminated
  <2>2. ASSUME NEW p \in Pools PROVE Len(workers'[p]) = Len(workers[p])
    <3>1. DOMAIN workers'[p] = DOMAIN workers[p] /\ workers'[p] \in Seq(Worker)
      BY <1>2, <1>6, BusyTerminated
    <3>2. workers[p] \in Seq(Worker)
      BY <1>2
    <3> QED
      BY <3>1, <3>2
  <2>3. Counted(workers', activeWorkers')
    BY <1>2, <1>6, <2>1, <2>2 DEF Counted
  <2> QED
    BY <1>2, <1>6, <2>3 DEF Slots, WorkConserving
<1>7. ASSUME NEW p \in Pools, CreateWorkerPool(p) PROVE Slots'
  BY <1>3, <1>7 DEF CreateWorkerPool
<1>8. ASSUME NEW j \in Jobs, RunJobRefused(j) PROVE Slots'
  BY <1>3, <1>8 DEF RunJobRefused
<1>9. ASSUME NEW p \in Pools, ShutdownPool(p) PROVE Slots'
  BY <1>6, <1>9 DEF ShutdownPool
<1>10. ASSUME CleanupAllPools PROVE Slots'
  <2>1. allPools \in SUBSET Pools
    BY DEF TypeOK
  <2> QED
    BY <1>6, <1>10, <2>1 DEF CleanupAllPools
<1>11. CASE UNCHANGED vars
  BY <1>3, <1>11 DEF vars
<1> QED
  BY <1>4, <1>5, <1>7, <1>8, <1>9, <1>10, <1>11 DEF ApiNext, Next

\* The slot counter is the number of busy workers and never exceeds the
\* limit, however pools are created, used and shut down.
THEOREM SlotsCounted == ApiSpec => []SlotsMatchBusy
<1>1. Slots => SlotsMatchBusy
  BY DEF Slots, Counted, SlotsMatchBusy, BusySlots
<1> QED
  BY <1>1, SlotsInit, SlotsStep, PTL DEF ApiSpec

\* No job waits while a slot is free: what a tick's loop would start next
\* never exists, so one iteration is all of it.
THEOREM NoIdleSlot == ApiSpec => []WorkConserving
<1>1. Slots => WorkConserving
  BY DEF Slots
<1> QED
  BY <1>1, SlotsInit, SlotsStep, PTL DEF ApiSpec

\* A pool has never more workers than there are slots.
THEOREM PoolsStaySmall == ApiSpec => []PoolSizeBounded
<1>1. Slots => PoolSizeBounded
  BY DEF Slots, Counted, PoolSizeBounded
<1> QED
  BY <1>1, SlotsInit, SlotsStep, PTL DEF ApiSpec

-----------------------------------------------------------------------------
\* Worker i of pool p holds job j.
On(ws, p, i, j) == i \in DOMAIN ws[p] /\ ws[p][i].job = j

InQueue(queue, j) == \E k \in DOMAIN queue : queue[k] = j
OnWorker(ws, j) == \E p \in Pools : \E i \in DOMAIN ws[p] : On(ws, p, i, j)

\* new is ws with job j put on worker i of pool p, which held none.
Puts(ws, new, p, i, j) ==
  \A q \in Pools : \A x \in Jobs :
    /\ \A k : On(new, q, k, x) <=> On(ws, q, k, x) \/ (q = p /\ k = i /\ x = j)
    /\ q = p => ~On(ws, p, i, x)

\* A job given to an idle worker is put on that one.
LEMMA ReusedPuts ==
  ASSUME NEW ws \in [Pools -> Seq(Worker)], NEW p \in Pools,
         NEW i \in DOMAIN ws[p], IsFirstIdle(ws[p], i), NEW j \in Jobs
  PROVE  Puts(ws, Reused(ws, p, i, j), p, i, j)
<1> DEFINE new == Reused(ws, p, i, j)
<1>1. ASSUME NEW q \in Pools, NEW x \in Jobs, NEW k
      PROVE  On(new, q, k, x) <=> On(ws, q, k, x) \/ (q = p /\ k = i /\ x = j)
  <2>1. ws[q] \in Seq(Worker) /\ ws[p][i] \in Worker /\ ws[p][i].job = NoJob
    BY DEF IsFirstIdle
  <2>2. CASE q = p /\ k = i
    <3>1. new[p][i].job = j /\ i \in DOMAIN new[p]
      BY <2>1 DEF Reused, Worker
    <3> HIDE DEF new
    <3> QED
      BY <2>1, <2>2, <3>1 DEF On
  <2>3. CASE ~(q = p /\ k = i)
    <3>1. DOMAIN new[q] = DOMAIN ws[q]
      BY <2>1 DEF Reused
    <3>2. k \in DOMAIN ws[q] => new[q][k] = ws[q][k]
      BY <2>1, <2>3 DEF Reused
    <3> HIDE DEF new
    <3> QED
      BY <2>3, <3>1, <3>2 DEF On
  <2> QED
    BY <2>2, <2>3
<1>2. \A x \in Jobs : ~On(ws, p, i, x)
  BY DEF On, IsFirstIdle
<1> HIDE DEF new
<1> QED
  BY <1>1, <1>2 DEF Puts, new

\* A job given to a new worker is put on that one.
LEMMA AddedPuts ==
  ASSUME NEW ws \in [Pools -> Seq(Worker)], NEW p \in Pools, NEW j \in Jobs
  PROVE  Puts(ws, Added(ws, p, j), p, Len(ws[p]) + 1, j)
<1> DEFINE new == Added(ws, p, j)
           i == Len(ws[p]) + 1
<1>1. ASSUME NEW q \in Pools, NEW x \in Jobs, NEW k
      PROVE  On(new, q, k, x) <=> On(ws, q, k, x) \/ (q = p /\ k = i /\ x = j)
  <2>1. /\ ws[q] \in Seq(Worker) /\ ws[p] \in Seq(Worker)
        /\ [job |-> j, alive |-> TRUE] \in Worker
    BY DEF Worker
  <2>2. CASE q = p /\ k = i
    <3>1. new[p][i].job = j /\ i \in DOMAIN new[p] /\ i \notin DOMAIN ws[p]
      BY <2>1 DEF Added
    <3> HIDE DEF new, i
    <3> QED
      BY <2>2, <3>1 DEF On
  <2>3. CASE ~(q = p /\ k = i)
    <3>1. k \in DOMAIN new[q] <=> k \in DOMAIN ws[q]
      BY <2>1, <2>3 DEF Added
    <3>2. k \in DOMAIN ws[q] => new[q][k] = ws[q][k]
      BY <2>1, <2>3 DEF Added
    <3> HIDE DEF new, i
    <3> QED
      BY <2>3, <3>1, <3>2 DEF On
  <2> QED
    BY <2>2, <2>3
<1>2. \A x \in Jobs : ~On(ws, p, i, x)
  BY DEF On
<1> HIDE DEF new, i
<1> QED
  BY <1>1, <1>2 DEF Puts, new, i

\* What a tick does to the jobs: nothing, or it moves the first of the queue
\* to a worker of that job's pool.
LEMMA TickPuts ==
  ASSUME NEW ws \in [Pools -> Seq(Worker)], NEW n \in Int,
         NEW pending \in Seq(Jobs), Tick(ws, n, pending)
  PROVE  \/ workers' = ws /\ pendingJobs' = pending
         \/ /\ pending # <<>> /\ pendingJobs' = Tail(pending)
            /\ \E i : Puts(ws, workers', PoolOf[Head(pending)], i, Head(pending))
<1>1. CASE workers' = ws /\ pendingJobs' = pending
  BY <1>1
<1>2. CASE /\ pending # <<>> /\ StartNext(ws, pending)
           /\ pendingJobs' = Tail(pending)
  <2> DEFINE j == Head(pending)
             p == PoolOf[j]
  <2>1. j \in Jobs /\ p \in Pools
    BY <1>2
  <2>2. \/ \E i \in DOMAIN ws[p] : IsFirstIdle(ws[p], i) /\ workers' = Reused(ws, p, i, j)
        \/ workers' = Added(ws, p, j)
    BY <1>2 DEF StartNext, Reused, Added
  <2> HIDE DEF j, p
  <2>3. ASSUME NEW i \in DOMAIN ws[p], IsFirstIdle(ws[p], i)
        PROVE  Puts(ws, Reused(ws, p, i, j), p, i, j)
    BY <2>1, <2>3, ReusedPuts
  <2>4. Puts(ws, Added(ws, p, j), p, Len(ws[p]) + 1, j)
    BY <2>1, AddedPuts
  <2>5. \E i : Puts(ws, workers', p, i, j)
    BY <2>2, <2>3, <2>4
  <2> QED
    BY <1>2, <2>5 DEF j, p
<1> QED
  BY <1>1, <1>2 DEF Tick

\* A worker that answers puts its job down, and no other worker does.
LEMMA FreedPuts ==
  ASSUME NEW ws \in [Pools -> Seq(Worker)], NEW p \in Pools,
         NEW i \in DOMAIN ws[p], NEW al \in BOOLEAN,
         NEW q \in Pools, NEW x \in Jobs, NEW k
  PROVE  On(Freed(ws, p, i, al), q, k, x) <=> On(ws, q, k, x) /\ ~(q = p /\ k = i)
<1> DEFINE new == Freed(ws, p, i, al)
<1>1. ws[q] \in Seq(Worker)
  OBVIOUS
<1>2. CASE q = p /\ k = i
  <2>1. new[p][i].job = NoJob
    BY <1>1 DEF Freed
  <2> HIDE DEF new
  <2> QED
    BY <1>2, <2>1 DEF On, new
<1>3. CASE ~(q = p /\ k = i)
  <2>1. DOMAIN new[q] = DOMAIN ws[q]
    BY <1>1 DEF Freed
  <2>2. k \in DOMAIN ws[q] => new[q][k] = ws[q][k]
    BY <1>1, <1>3 DEF Freed
  <2> HIDE DEF new
  <2> QED
    BY <1>3, <2>1, <2>2 DEF On, new
<1> QED
  BY <1>2, <1>3

-----------------------------------------------------------------------------
\* The jobs of the set `open` are each in one place of the queue or on one
\* worker of their pools, and no other job is anywhere.
HeldOnce(ws, queue, open) ==
  /\ \A j \in Jobs : j \in open <=> InQueue(queue, j) \/ OnWorker(ws, j)
  /\ \A j \in Jobs : ~(InQueue(queue, j) /\ OnWorker(ws, j))
  /\ \A k, l \in DOMAIN queue : queue[k] = queue[l] => k = l
  /\ \A j \in Jobs : \A p, q \in Pools : \A i, l :
       On(ws, p, i, j) /\ On(ws, q, l, j) => p = q /\ i = l
  /\ \A j \in Jobs : \A p \in Pools : \A i : On(ws, p, i, j) => p = PoolOf[j]

\* OnWorker without the bound of its quantifier.
LEMMA OnWorkerOn ==
  ASSUME NEW ws, NEW j
  PROVE  OnWorker(ws, j) <=> \E p \in Pools : \E i : On(ws, p, i, j)
BY DEF OnWorker, On

\* What a queue without its first job holds.
LEMMA InTail ==
  ASSUME NEW queue \in Seq(Jobs), queue # <<>>,
         \A k, l \in DOMAIN queue : queue[k] = queue[l] => k = l
  PROVE  /\ Head(queue) \in Jobs /\ InQueue(queue, Head(queue))
         /\ \A k, l \in DOMAIN Tail(queue) : Tail(queue)[k] = Tail(queue)[l] => k = l
         /\ \A j \in Jobs :
              InQueue(Tail(queue), j) <=> InQueue(queue, j) /\ j # Head(queue)
<1> DEFINE rest == Tail(queue)
<1>1. /\ rest \in Seq(Jobs) /\ Len(queue) \in Nat /\ Len(queue) > 0
      /\ DOMAIN rest = 1..(Len(queue) - 1) /\ DOMAIN queue = 1..Len(queue)
      /\ \A k \in DOMAIN rest : rest[k] = queue[k + 1]
      /\ Head(queue) = queue[1]
  OBVIOUS
<1> HIDE DEF rest
<1>2. Head(queue) \in Jobs /\ InQueue(queue, Head(queue))
  BY <1>1 DEF InQueue
<1>3. \A k, l \in DOMAIN rest : rest[k] = rest[l] => k = l
  BY <1>1
<1>4. ASSUME NEW j \in Jobs, InQueue(rest, j)
      PROVE  InQueue(queue, j) /\ j # Head(queue)
  BY <1>1, <1>4 DEF InQueue
<1>5. ASSUME NEW j \in Jobs, InQueue(queue, j), j # Head(queue)
      PROVE  InQueue(rest, j)
  <2>1. PICK k \in DOMAIN queue : queue[k] = j
    BY <1>5 DEF InQueue
  <2>2. k - 1 \in DOMAIN rest /\ rest[k - 1] = queue[k]
    BY <1>1, <1>5, <2>1
  <2> QED
    BY <2>1, <2>2 DEF InQueue
<1> QED
  BY <1>2, <1>3, <1>4, <1>5 DEF rest

\* A tick moves jobs and loses none.
LEMMA TickHolds ==
  ASSUME NEW ws \in [Pools -> Seq(Worker)], NEW n \in Int,
         NEW pending \in Seq(Jobs), NEW open, HeldOnce(ws, pending, open),
         Tick(ws, n, pending)
  PROVE  HeldOnce(workers', pendingJobs', open)
<1>1. CASE workers' = ws /\ pendingJobs' = pending
  BY <1>1
<1>2. ASSUME NEW i, pending # <<>>, pendingJobs' = Tail(pending),
             Puts(ws, workers', PoolOf[Head(pending)], i, Head(pending))
      PROVE  HeldOnce(workers', pendingJobs', open)
  <2> DEFINE h == Head(pending)
             p == PoolOf[h]
             new == workers'
             rest == pendingJobs'
  <2>1. \A k, l \in DOMAIN pending : pending[k] = pending[l] => k = l
    BY DEF HeldOnce
  <2>2. /\ h \in Jobs /\ InQueue(pending, h)
        /\ \A k, l \in DOMAIN rest : rest[k] = rest[l] => k = l
        /\ \A j \in Jobs : InQueue(rest, j) <=> InQueue(pending, j) /\ j # h
    BY <1>2, <2>1, InTail
  <2>3. p \in Pools
    BY <2>2
  <2>4. \A q \in Pools : \A j \in Jobs : \A k :
          On(new, q, k, j) <=> On(ws, q, k, j) \/ (q = p /\ k = i /\ j = h)
    BY <1>2 DEF Puts
  <2> HIDE DEF h, p, new, rest
  <2>5. \A j \in Jobs : OnWorker(new, j) <=> OnWorker(ws, j) \/ j = h
    BY <2>3, <2>4, OnWorkerOn
  <2>6. ~OnWorker(ws, h)
    BY <2>2 DEF HeldOnce
  <2>7. \A q \in Pools : \A k : ~On(ws, q, k, h)
    BY <2>6, OnWorkerOn
  <2>8. \A j \in Jobs : /\ j \in open <=> InQueue(rest, j) \/ OnWorker(new, j)
                        /\ ~(InQueue(rest, j) /\ OnWorker(new, j))
    BY <2>2, <2>5 DEF HeldOnce
  <2>9. \A j \in Jobs : \A q, r \in Pools : \A k, l :
          On(new, q, k, j) /\ On(new, r, l, j) => q = r /\ k = l
    <3> SUFFICES ASSUME NEW j \in Jobs, NEW q \in Pools, NEW r \in Pools,
                        NEW k, NEW l, On(new, q, k, j), On(new, r, l, j)
                 PROVE  q = r /\ k = l
      OBVIOUS
    <3>1. CASE j = h
      <4>1. ~On(ws, q, k, j) /\ ~On(ws, r, l, j)
        BY ONLY <2>7, <3>1
      <4> QED
        BY <2>4, <4>1
    <3>2. CASE j # h
      <4>1. On(ws, q, k, j) /\ On(ws, r, l, j)
        BY <2>4, <3>2
      <4> QED
        BY <4>1 DEF HeldOnce
    <3> QED
      BY <3>1, <3>2
  <2>10. \A j \in Jobs : \A q \in Pools : \A k : On(new, q, k, j) => q = PoolOf[j]
    BY <2>4 DEF HeldOnce, p
  <2>11. HeldOnce(new, rest, open)
    BY <2>2, <2>8, <2>9, <2>10 DEF HeldOnce
  <2> QED
    BY <2>11 DEF new, rest
<1> QED
  BY <1>1, <1>2, TickPuts

\* A job that is queued anew is in one place more.
LEMMA AppendHolds ==
  ASSUME NEW ws \in [Pools -> Seq(Worker)], NEW queue \in Seq(Jobs), NEW open,
         HeldOnce(ws, queue, open), NEW j \in Jobs, j \notin open
  PROVE  HeldOnce(ws, Append(queue, j), open \cup {j})
<1> DEFINE longer == Append(queue, j)
<1>1. /\ longer \in Seq(Jobs) /\ Len(queue) \in Nat
      /\ DOMAIN queue = 1..Len(queue) /\ DOMAIN longer = 1..(Len(queue) + 1)
      /\ longer[Len(queue) + 1] = j /\ \A k \in DOMAIN queue : longer[k] = queue[k]
  OBVIOUS
<1> HIDE DEF longer
<1>2. \A x \in Jobs : InQueue(longer, x) <=> InQueue(queue, x) \/ x = j
  <2> SUFFICES ASSUME NEW x \in Jobs
               PROVE  InQueue(longer, x) <=> InQueue(queue, x) \/ x = j
    OBVIOUS
  <2>1. ASSUME InQueue(longer, x) PROVE InQueue(queue, x) \/ x = j
    <3>1. PICK k \in DOMAIN longer : longer[k] = x
      BY <2>1 DEF InQueue
    <3>2. k = Len(queue) + 1 \/ k \in DOMAIN queue
      BY <1>1
    <3> QED
      BY <1>1, <3>1, <3>2 DEF InQueue
  <2>2. ASSUME InQueue(queue, x) PROVE InQueue(longer, x)
    <3>1. PICK k \in DOMAIN queue : queue[k] = x
      BY <2>2 DEF InQueue
    <3>2. k \in DOMAIN longer /\ longer[k] = x
      BY <1>1, <3>1
    <3> QED
      BY <3>2 DEF InQueue
  <2>3. ASSUME x = j PROVE InQueue(longer, x)
    <3>1. Len(queue) + 1 \in DOMAIN longer /\ longer[Len(queue) + 1] = x
      BY <1>1, <2>3
    <3> QED
      BY <3>1 DEF InQueue
  <2> QED
    BY <2>1, <2>2, <2>3
<1>3. ~InQueue(queue, j) /\ ~OnWorker(ws, j)
  BY DEF HeldOnce
<1>4. \A k, l \in DOMAIN longer : longer[k] = longer[l] => k = l
  <2>1. \A k \in DOMAIN queue : queue[k] # j
    BY <1>3 DEF InQueue
  <2>2. \A k, l \in DOMAIN queue : queue[k] = queue[l] => k = l
    BY DEF HeldOnce
  <2>3. SUFFICES ASSUME NEW k \in DOMAIN longer, NEW l \in DOMAIN longer,
                        longer[k] = longer[l]
                 PROVE  k = l
    OBVIOUS
  <2>4. /\ k = Len(queue) + 1 \/ (k \in DOMAIN queue /\ longer[k] = queue[k])
        /\ l = Len(queue) + 1 \/ (l \in DOMAIN queue /\ longer[l] = queue[l])
    BY <1>1
  <2>5. longer[Len(queue) + 1] = j
    BY <1>1
  <2> QED
    BY ONLY <2>1, <2>2, <2>3, <2>4, <2>5
<1> QED
  BY <1>2, <1>3, <1>4 DEF HeldOnce, longer

\* A worker that answers leaves its job in no place.
LEMMA FreeHolds ==
  ASSUME NEW ws \in [Pools -> Seq(Worker)], NEW queue \in Seq(Jobs), NEW open,
         HeldOnce(ws, queue, open), NEW p \in Pools, NEW i \in DOMAIN ws[p],
         NEW al \in BOOLEAN, ws[p][i].job \in Jobs
  PROVE  HeldOnce(Freed(ws, p, i, al), queue, open \ {ws[p][i].job})
<1> DEFINE j == ws[p][i].job
           new == Freed(ws, p, i, al)
<1>1. On(ws, p, i, j) /\ j \in Jobs
  BY DEF On
<1>2. \A q \in Pools : \A x \in Jobs : \A k :
        On(new, q, k, x) <=> On(ws, q, k, x) /\ ~(q = p /\ k = i)
  BY FreedPuts
<1> HIDE DEF j, new
<1>3. OnWorker(ws, j)
  BY <1>1, OnWorkerOn
<1>4. \A q \in Pools : \A k : On(ws, q, k, j) => q = p /\ k = i
  BY <1>1 DEF HeldOnce
<1>5. \A x \in Jobs : OnWorker(new, x) <=> OnWorker(ws, x) /\ x # j
  <2> SUFFICES ASSUME NEW x \in Jobs
               PROVE  OnWorker(new, x) <=> OnWorker(ws, x) /\ x # j
    OBVIOUS
  <2>1. CASE x = j
    BY <1>2, <1>4, <2>1, OnWorkerOn
  <2>2. CASE x # j
    <3>1. ~On(ws, p, i, x)
      BY <1>1, <2>2 DEF On
    <3> QED
      BY <1>2, <2>2, <3>1, OnWorkerOn
  <2> QED
    BY <2>1, <2>2
<1>6. ~InQueue(queue, j)
  BY <1>1, <1>3 DEF HeldOnce
<1>7. \A x \in Jobs :
        /\ x \in open \ {j} <=> InQueue(queue, x) \/ OnWorker(new, x)
        /\ ~(InQueue(queue, x) /\ OnWorker(new, x))
  BY <1>5, <1>6 DEF HeldOnce
<1>8. \A x \in Jobs : \A q, r \in Pools : \A k, l :
        On(new, q, k, x) /\ On(new, r, l, x) => q = r /\ k = l
  BY <1>2 DEF HeldOnce
<1>9. \A x \in Jobs : \A q \in Pools : \A k : On(new, q, k, x) => q = PoolOf[x]
  BY <1>2 DEF HeldOnce
<1>10. HeldOnce(new, queue, open \ {j})
  BY <1>7, <1>8, <1>9 DEF HeldOnce
<1> QED
  BY <1>10 DEF j, new

\* Only what the workers hold matters, not whether they run.
LEMMA SameJobs ==
  ASSUME NEW ws, NEW new, NEW queue, NEW open, HeldOnce(ws, queue, open),
         \A q \in Pools : \A x \in Jobs : \A k : On(new, q, k, x) <=> On(ws, q, k, x)
  PROVE  HeldOnce(new, queue, open)
<1>1. \A x \in Jobs : OnWorker(new, x) <=> OnWorker(ws, x)
  BY OnWorkerOn
<1> QED
  BY <1>1 DEF HeldOnce

-----------------------------------------------------------------------------
\* The inductive invariant: the jobs of the open promises are held once.
OpenJobs == {j \in Jobs : promise[j] = "open"}

Held == TypeOK /\ HeldOnce(workers, pendingJobs, OpenJobs)

\* It holds at startup, where there are no jobs.
LEMMA HeldInit == Init => Held
<1> SUFFICES ASSUME Init PROVE Held
  OBVIOUS
<1>1. TypeOK
  BY TypeInit
<1>2. OpenJobs = {}
  BY DEF Init, OpenJobs
<1>3. \A j \in Jobs : ~InQueue(pendingJobs, j)
  BY DEF Init, InQueue
<1>4. \A p \in Pools : \A i : \A j \in Jobs : ~On(workers, p, i, j)
  BY DEF Init, On
<1>5. \A j \in Jobs : ~OnWorker(workers, j)
  BY <1>4, OnWorkerOn
<1>6. DOMAIN pendingJobs = {}
  BY DEF Init
<1>7. HeldOnce(workers, pendingJobs, OpenJobs)
  BY <1>2, <1>3, <1>4, <1>5, <1>6 DEF HeldOnce
<1> QED
  BY <1>1, <1>7 DEF Held

\* One step per action; AppendHolds and FreeHolds say what the callers of the
\* tick leave it, TickHolds what it does.
LEMMA HeldStep == Held /\ [ApiNext]_vars => Held'
<1> SUFFICES ASSUME Held, [ApiNext]_vars PROVE Held'
  OBVIOUS
<1>1. TypeOK /\ TypeOK'
  BY TypeStep DEF Held
<1>2. /\ workers \in [Pools -> Seq(Worker)] /\ activeWorkers \in Int
      /\ pendingJobs \in Seq(Jobs) /\ promise \in [Jobs -> PromiseStates]
      /\ HeldOnce(workers, pendingJobs, OpenJobs)
  BY <1>1 DEF TypeOK, Held
<1>3. ASSUME HeldOnce(workers', pendingJobs', OpenJobs') PROVE Held'
  BY <1>1, <1>3 DEF Held
<1>4. ASSUME NEW j \in Jobs, RunJob(j) PROVE Held'
  <2> DEFINE queue == Append(pendingJobs, j)
             open == OpenJobs \cup {j}
  <2>1. j \notin OpenJobs /\ OpenJobs' = open
    BY <1>2, <1>4 DEF RunJob, OpenJobs
  <2>2. queue \in Seq(Jobs) /\ HeldOnce(workers, queue, open)
    BY <1>2, <2>1, AppendHolds
  <2>3. Tick(workers, activeWorkers, queue)
    BY <1>4 DEF RunJob
  <2> HIDE DEF queue, open
  <2>4. HeldOnce(workers', pendingJobs', open)
    BY <1>2, <2>2, <2>3, TickHolds
  <2> QED
    BY <1>3, <2>1, <2>4
<1>5. ASSUME NEW p \in Pools, NEW i \in DOMAIN workers[p], Reply(p, i)
      PROVE  Held'
  <2>1. PICK out \in {"resolved", "rejected"}, al \in BOOLEAN :
          WorkerDone(p, i, out, al)
    BY <1>5 DEF Reply, OnMessage, OnError
  <2> DEFINE j == workers[p][i].job
             freed == Freed(workers, p, i, al)
             open == OpenJobs \ {j}
  <2>2. j \in Jobs
    <3>1. workers[p][i] \in Worker
      BY <1>2
    <3> QED
      BY <2>1, <3>1 DEF WorkerDone, Worker
  <2>3. OpenJobs' = open
    BY <1>2, <2>1, <2>2 DEF WorkerDone, OpenJobs
  <2>4. /\ freed \in [Pools -> Seq(Worker)]
        /\ HeldOnce(freed, pendingJobs, open)
    BY <1>2, <2>2, BusyFreed, FreeHolds
  <2>5. \/ Tick(freed, activeWorkers - 1, pendingJobs)
        \/ workers' = freed /\ pendingJobs' = pendingJobs
    BY <2>1 DEF WorkerDone, Freed
  <2>6. activeWorkers - 1 \in Int
    BY <1>2
  <2> HIDE DEF j, freed, open
  <2>7. HeldOnce(workers', pendingJobs', open)
    BY <1>2, <2>4, <2>5, <2>6, TickHolds
  <2> QED
    BY <1>3, <2>3, <2>7
<1>6. ASSUME NEW ps \in SUBSET Pools, workers' = Terminate(ps),
             UNCHANGED <<pendingJobs, promise>>
      PROVE  Held'
  <2>1. \A p \in Pools : /\ DOMAIN workers'[p] = DOMAIN workers[p]
                         /\ \A i \in DOMAIN workers[p] :
                              workers'[p][i].job = workers[p][i].job
    BY <1>2, <1>6, BusyTerminated
  <2>2. \A q \in Pools : \A x \in Jobs : \A k :
          On(workers', q, k, x) <=> On(workers, q, k, x)
    BY <2>1 DEF On
  <2>3. HeldOnce(workers', pendingJobs, OpenJobs)
    BY <1>2, <2>2, SameJobs
  <2> QED
    BY <1>3, <1>6, <2>3 DEF OpenJobs
<1>7. ASSUME UNCHANGED <<workers, pendingJobs>>, OpenJobs' = OpenJobs PROVE Held'
  BY <1>2, <1>3, <1>7
<1>8. ASSUME NEW j \in Jobs, RunJobRefused(j) PROVE Held'
  <2>1. OpenJobs' = OpenJobs
    BY <1>2, <1>8 DEF RunJobRefused, OpenJobs
  <2> QED
    BY <1>7, <1>8, <2>1 DEF RunJobRefused
<1>9. ASSUME NEW p \in Pools, CreateWorkerPool(p) PROVE Held'
  BY <1>7, <1>9 DEF CreateWorkerPool, OpenJobs
<1>10. ASSUME NEW p \in Pools, ShutdownPool(p) PROVE Held'
  BY <1>6, <1>10 DEF ShutdownPool
<1>11. ASSUME CleanupAllPools PROVE Held'
  <2>1. allPools \in SUBSET Pools
    BY <1>1 DEF TypeOK
  <2> QED
    BY <1>6, <1>11, <2>1 DEF CleanupAllPools
<1>12. CASE UNCHANGED vars
  BY <1>7, <1>12 DEF vars, OpenJobs
<1> QED
  BY <1>4, <1>5, <1>8, <1>9, <1>10, <1>11, <1>12 DEF ApiNext, Next

\* The workers that hold a job, as a set of slots.
LEMMA PlacesOn ==
  ASSUME workers \in [Pools -> Seq(Worker)], NEW j \in Jobs
  PROVE  /\ \A s \in WorkerPlaces(j) : /\ s[1] \in Pools /\ s = <<s[1], s[2]>>
                                       /\ On(workers, s[1], s[2], j)
         /\ \A p \in Pools : \A i : On(workers, p, i, j) => <<p, i>> \in WorkerPlaces(j)
         /\ WorkerPlaces(j) # {} <=> OnWorker(workers, j)
<1>1. ASSUME NEW s \in WorkerPlaces(j)
      PROVE  /\ s[1] \in Pools /\ s = <<s[1], s[2]>>
             /\ On(workers, s[1], s[2], j)
  <2>1. s \in Busy(workers) /\ workers[s[1]][s[2]].job = j
    BY DEF WorkerPlaces, BusySlots
  <2>2. \E p \in Pools : \E i \in BusyIn(workers[p]) : s = <<p, i>>
    BY <2>1 DEF Busy
  <2>3. PICK p \in Pools : \E i \in BusyIn(workers[p]) : s = <<p, i>>
    BY <2>2
  <2>4. PICK i \in BusyIn(workers[p]) : s = <<p, i>>
    BY <2>3
  <2>5. i \in DOMAIN workers[p]
    BY DEF BusyIn
  <2> QED
    BY <2>1, <2>4, <2>5 DEF On
<1>2. ASSUME NEW p \in Pools, NEW i, On(workers, p, i, j)
      PROVE  <<p, i>> \in WorkerPlaces(j)
  <2>1. i \in BusyIn(workers[p])
    BY <1>2 DEF On, BusyIn
  <2>2. <<p, i>> \in Busy(workers)
    BY <2>1 DEF Busy
  <2> QED
    BY <1>2, <2>2 DEF WorkerPlaces, BusySlots, On
<1>3. WorkerPlaces(j) # {} <=> OnWorker(workers, j)
  BY <1>1, <1>2, OnWorkerOn
<1> QED
  BY <1>1, <1>2, <1>3

\* A job is in one place: in the queue, or on one worker of its pool, while its
\* promise is open, and nowhere else ever: none is lost, run twice, or
\* answered by another's handler.
THEOREM JobsHeldOnce == ApiSpec => []JobHeldOnce
<1>1. Held => JobHeldOnce
  <2> SUFFICES ASSUME Held, NEW j \in Jobs
               PROVE  /\ promise[j] = "open" <=> QueuePlaces(j) \cup WorkerPlaces(j) # {}
                      /\ QueuePlaces(j) = {} \/ WorkerPlaces(j) = {}
                      /\ \A k, l \in QueuePlaces(j) : k = l
                      /\ \A s, t \in WorkerPlaces(j) : s = t
                      /\ \A s \in WorkerPlaces(j) : s[1] = PoolOf[j]
    BY DEF JobHeldOnce
  <2>1. /\ workers \in [Pools -> Seq(Worker)]
        /\ HeldOnce(workers, pendingJobs, OpenJobs)
    BY DEF Held, TypeOK
  <2>2. /\ \A s \in WorkerPlaces(j) : /\ s[1] \in Pools /\ s = <<s[1], s[2]>>
                                       /\ On(workers, s[1], s[2], j)
        /\ WorkerPlaces(j) # {} <=> OnWorker(workers, j)
    BY <2>1, PlacesOn DEF WorkerPlaces, BusySlots
  <2>3. QueuePlaces(j) # {} <=> InQueue(pendingJobs, j)
    BY DEF QueuePlaces, InQueue
  <2>4. promise[j] = "open" <=> InQueue(pendingJobs, j) \/ OnWorker(workers, j)
    BY <2>1 DEF HeldOnce, OpenJobs
  <2>5. ~(InQueue(pendingJobs, j) /\ OnWorker(workers, j))
    BY <2>1 DEF HeldOnce
  <2>6. \A k, l \in QueuePlaces(j) : k = l
    BY <2>1 DEF HeldOnce, QueuePlaces
  <2>7. \A s, t \in WorkerPlaces(j) : s = t
    <3> SUFFICES ASSUME NEW s \in WorkerPlaces(j), NEW t \in WorkerPlaces(j)
                 PROVE  s = t
      OBVIOUS
    <3>1. s[1] = t[1] /\ s[2] = t[2]
      BY <2>1, <2>2 DEF HeldOnce
    <3> QED
      BY <2>2, <3>1
  <2>8. \A s \in WorkerPlaces(j) : s[1] = PoolOf[j]
    BY <2>1, <2>2 DEF HeldOnce
  <2> QED
    BY <2>2, <2>3, <2>4, <2>5, <2>6, <2>7, <2>8
<1> QED
  BY <1>1, HeldInit, HeldStep, PTL DEF ApiSpec

-----------------------------------------------------------------------------
\* What StartsInOrder asks when job j starts.
IsOldest(j) ==
  \A k \in DOMAIN pendingJobs :
    pendingJobs[k] # j => /\ QueuePlaces(j) # {}
                          /\ \A l \in QueuePlaces(j) : l < k

\* The job a tick starts is the first of the queue it is given.
LEMMA TickStartsFirst ==
  ASSUME NEW ws \in [Pools -> Seq(Worker)], NEW n \in Int,
         NEW pending \in Seq(Jobs), Tick(ws, n, pending),
         NEW j \in Jobs, ~OnWorker(ws, j), OnWorker(workers', j)
  PROVE  pending # <<>> /\ j = Head(pending)
<1>1. CASE workers' = ws
  BY <1>1
<1>2. ASSUME NEW i, pending # <<>>,
             Puts(ws, workers', PoolOf[Head(pending)], i, Head(pending))
      PROVE  pending # <<>> /\ j = Head(pending)
  <2>1. PICK p \in Pools : \E k : On(workers', p, k, j)
    BY OnWorkerOn
  <2>2. PICK k : On(workers', p, k, j)
    BY <2>1
  <2>3. ~On(ws, p, k, j)
    BY OnWorkerOn
  <2> QED
    BY <1>2, <2>2, <2>3 DEF Puts
<1> QED
  BY <1>1, <1>2, TickPuts

\* The first of the queue is older than the others, as it is there once.
LEMMA FirstIsOldest ==
  ASSUME Held, NEW j \in Jobs, pendingJobs # <<>> => j = Head(pendingJobs)
  PROVE  IsOldest(j)
<1>1. /\ pendingJobs \in Seq(Jobs)
      /\ \A k, l \in DOMAIN pendingJobs : pendingJobs[k] = pendingJobs[l] => k = l
  BY DEF Held, TypeOK, HeldOnce
<1>2. SUFFICES ASSUME NEW k \in DOMAIN pendingJobs, pendingJobs[k] # j
               PROVE  /\ QueuePlaces(j) # {}
                      /\ \A l \in QueuePlaces(j) : l < k
  BY DEF IsOldest
<1>3. /\ 1 \in DOMAIN pendingJobs /\ pendingJobs[1] = j
      /\ DOMAIN pendingJobs \subseteq Nat \ {0}
  BY <1>1, <1>2
<1>4. QueuePlaces(j) = {1}
  BY <1>1, <1>3 DEF QueuePlaces
<1> QED
  BY <1>2, <1>3, <1>4

\* One step per action that starts a job.
LEMMA StartStep ==
  ASSUME Held, [ApiNext]_vars, NEW j \in Jobs, ~OnWorker(workers, j),
         OnWorker(workers', j)
  PROVE  IsOldest(j)
<1>1. /\ workers \in [Pools -> Seq(Worker)] /\ activeWorkers \in Int
      /\ pendingJobs \in Seq(Jobs) /\ allPools \in SUBSET Pools
  BY DEF Held, TypeOK
<1>2. ASSUME NEW new \in Jobs, RunJob(new) PROVE IsOldest(j)
  <2> DEFINE queue == Append(pendingJobs, new)
  <2>1. queue \in Seq(Jobs) /\ (pendingJobs # <<>> => Head(queue) = Head(pendingJobs))
    BY <1>1
  <2>2. Tick(workers, activeWorkers, queue)
    BY <1>2 DEF RunJob
  <2> HIDE DEF queue
  <2>3. j = Head(queue)
    BY <1>1, <2>1, <2>2, TickStartsFirst
  <2> QED
    BY <2>1, <2>3, FirstIsOldest
<1>3. ASSUME NEW p \in Pools, NEW i \in DOMAIN workers[p], Reply(p, i)
      PROVE  IsOldest(j)
  <2>1. PICK out \in {"resolved", "rejected"}, al \in BOOLEAN :
          WorkerDone(p, i, out, al)
    BY <1>3 DEF Reply, OnMessage, OnError
  <2> DEFINE freed == Freed(workers, p, i, al)
  <2>2. freed \in [Pools -> Seq(Worker)]
    BY <1>1, BusyFreed
  <2>3. \A q \in Pools : \A k : ~On(freed, q, k, j)
    BY <1>1, FreedPuts, OnWorkerOn
  <2>4. Tick(freed, activeWorkers - 1, pendingJobs) \/ workers' = freed
    BY <2>1 DEF WorkerDone, Freed
  <2> HIDE DEF freed
  <2>5. ~OnWorker(freed, j)
    BY <2>3, OnWorkerOn
  <2>6. Tick(freed, activeWorkers - 1, pendingJobs)
    BY <2>4, <2>5
  <2>7. activeWorkers - 1 \in Int
    BY <1>1
  <2>8. j = Head(pendingJobs)
    BY <1>1, <2>2, <2>5, <2>6, <2>7, TickStartsFirst
  <2> QED
    BY <2>8, FirstIsOldest
<1>4. ASSUME NEW ps \in SUBSET Pools, workers' = Terminate(ps) PROVE FALSE
  <2>1. \A p \in Pools : /\ DOMAIN workers'[p] = DOMAIN workers[p]
                         /\ \A i \in DOMAIN workers[p] :
                              workers'[p][i].job = workers[p][i].job
    BY <1>1, <1>4, BusyTerminated
  <2> QED
    BY <2>1 DEF OnWorker, On
<1>5. ASSUME workers' = workers PROVE FALSE
  BY <1>5
<1>6. ASSUME NEW p \in Pools, CreateWorkerPool(p) \/ ShutdownPool(p) PROVE FALSE
  BY <1>4, <1>5, <1>6 DEF CreateWorkerPool, ShutdownPool
<1>7. ASSUME NEW new \in Jobs, RunJobRefused(new) PROVE FALSE
  BY <1>5, <1>7 DEF RunJobRefused
<1>8. ASSUME CleanupAllPools PROVE FALSE
  BY <1>1, <1>4, <1>8 DEF CleanupAllPools
<1>9. CASE UNCHANGED vars
  BY <1>5, <1>9 DEF vars
<1> QED
  BY <1>2, <1>3, <1>6, <1>7, <1>8, <1>9 DEF ApiNext, Next

\* Jobs go on workers in the order runJob queued them, whichever pool they
\* are for: the tick takes the head of the one queue, and no other step
\* starts a job.
THEOREM JobsStartInOrder == ApiSpec => StartsInOrder
<1> DEFINE A == \A j \in Jobs :
       WorkerPlaces(j) = {} /\ WorkerPlaces(j)' # {} =>
         \A k \in DOMAIN pendingJobs :
           pendingJobs[k] # j => /\ QueuePlaces(j) # {}
                                 /\ \A l \in QueuePlaces(j) : l < k
<1>1. Held /\ Held' /\ [ApiNext]_vars => A
  <2> SUFFICES ASSUME Held, Held', [ApiNext]_vars, NEW j \in Jobs,
                      WorkerPlaces(j) = {}, WorkerPlaces(j)' # {}
               PROVE  IsOldest(j)
    BY DEF IsOldest
  <2>1. ~OnWorker(workers, j)
    BY PlacesOn DEF Held, TypeOK
  <2>2. OnWorker(workers', j)
    <3>1. PICK s \in WorkerPlaces(j)' : TRUE
      OBVIOUS
    <3>2. s \in Busy(workers') /\ workers'[s[1]][s[2]].job = j
      BY DEF WorkerPlaces, BusySlots
    <3>3. PICK p \in Pools : \E i \in DOMAIN workers'[p] : s = <<p, i>>
      BY <3>2, BusyPairs
    <3>4. PICK i \in DOMAIN workers'[p] : s = <<p, i>>
      BY <3>3
    <3> QED
      BY <3>2, <3>4 DEF OnWorker, On
  <2> QED
    BY <2>1, <2>2, StartStep
<1>2. Held /\ Held' /\ [ApiNext]_vars => [A]_vars
  BY <1>1
<1> QED
  BY <1>2, HeldInit, HeldStep, PTL DEF ApiSpec, StartsInOrder

-----------------------------------------------------------------------------
\* Only pools of the set `pools` have workers, or jobs that wait for one.
Stocked(ws, queue, pools) ==
  /\ \A p \in Pools : ws[p] # <<>> => p \in pools
  /\ \A k \in DOMAIN queue : PoolOf[queue[k]] \in pools

\* A tick gives workers to no other pool.
LEMMA TickStocks ==
  ASSUME NEW ws \in [Pools -> Seq(Worker)], NEW n \in Int,
         NEW pending \in Seq(Jobs), NEW pools, Stocked(ws, pending, pools),
         Tick(ws, n, pending)
  PROVE  Stocked(workers', pendingJobs', pools)
<1>1. CASE workers' = ws /\ pendingJobs' = pending
  BY <1>1
<1>2. CASE /\ pending # <<>> /\ StartNext(ws, pending)
           /\ pendingJobs' = Tail(pending)
  <2> DEFINE pool == PoolOf[Head(pending)]
  <2>1. pool \in pools
    BY <1>2 DEF Stocked
  <2>2. \A p \in Pools : p # pool => workers'[p] = ws[p]
    BY <1>2 DEF StartNext
  <2>3. \A p \in Pools : workers'[p] # <<>> => p \in pools
    BY <2>1, <2>2 DEF Stocked
  <2>4. ASSUME NEW k \in DOMAIN pendingJobs'
        PROVE  PoolOf[pendingJobs'[k]] \in pools
    <3>1. k + 1 \in DOMAIN pending /\ pendingJobs'[k] = pending[k + 1]
      BY <1>2
    <3> QED
      BY <3>1 DEF Stocked
  <2> QED
    BY <2>3, <2>4 DEF Stocked
<1> QED
  BY <1>1, <1>2 DEF Tick

\* The inductive invariant: only pools that were created have workers or jobs,
\* none is shut down before the global shutdown, and all are after it.
AllDown == allPools = {} /\ \A p \in Pools : \A i \in DOMAIN workers[p] :
                                             ~workers[p][i].alive

Downed ==
  /\ TypeOK
  /\ ~uncaught
  /\ shutdown => AllDown
  /\ ~shutdown => poolShutdown = {}
  /\ Stocked(workers, pendingJobs, Created)

\* It holds at startup, where there are no pools.
LEMMA DownedInit == Init => Downed
BY TypeInit DEF Init, Downed, Stocked

\* One step per action of the pools as the program uses them.
LEMMA DownedStep == Downed /\ [Next]_vars => Downed'
<1> SUFFICES ASSUME Downed, [Next]_vars PROVE Downed'
  OBVIOUS
<1>1. TypeOK /\ TypeOK'
  BY TypeStep DEF Downed, ApiNext
<1>2. /\ workers \in [Pools -> Seq(Worker)] /\ activeWorkers \in Int
      /\ pendingJobs \in Seq(Jobs) /\ shutdown \in BOOLEAN
      /\ allPools \subseteq Pools
  BY <1>1 DEF TypeOK
<1>3. ASSUME NEW p \in Pools, CreateWorkerPool(p) PROVE Downed'
  <2>1. ~shutdown /\ ~shutdown' /\ poolShutdown' = {} /\ ~uncaught'
    BY <1>3 DEF CreateWorkerPool, Downed
  <2>2. Created \subseteq Created'
    BY <1>3 DEF CreateWorkerPool, Created
  <2>3. Stocked(workers', pendingJobs', Created')
    BY <1>3, <2>2 DEF CreateWorkerPool, Stocked, Downed
  <2> QED
    BY <1>1, <2>1, <2>3 DEF Downed
<1>4. ASSUME NEW j \in Jobs, RunJob(j) PROVE Downed'
  <2> DEFINE queue == Append(pendingJobs, j)
  <2>1. /\ queue \in Seq(Jobs) /\ Len(pendingJobs) \in Nat
        /\ DOMAIN queue = 1..(Len(pendingJobs) + 1)
        /\ queue[Len(pendingJobs) + 1] = j
        /\ \A k \in DOMAIN pendingJobs : queue[k] = pendingJobs[k]
        /\ DOMAIN pendingJobs = 1..Len(pendingJobs)
    BY <1>2
  <2>2. Tick(workers, activeWorkers, queue)
    BY <1>4 DEF RunJob
  <2> HIDE DEF queue
  <2>3. \A k \in DOMAIN queue : k \in DOMAIN pendingJobs \/ queue[k] = j
    BY <2>1
  <2>4. PoolOf[j] \in Created
    BY <1>4 DEF RunJob
  <2>5. Stocked(workers, queue, Created)
    BY <2>1, <2>3, <2>4 DEF Stocked, Downed
  <2>6. Stocked(workers', pendingJobs', Created)
    BY <1>2, <2>1, <2>2, <2>5, TickStocks
  <2> QED
    BY <1>1, <1>4, <2>6 DEF RunJob, Downed, Created
<1>5. ASSUME NEW j \in Jobs, RunJobRefused(j) PROVE Downed'
  BY <1>1, <1>5 DEF RunJobRefused, Downed, AllDown, Created, Stocked
<1>6. ASSUME NEW p \in Pools, NEW i \in DOMAIN workers[p], Reply(p, i)
      PROVE  Downed'
  <2>1. PICK out \in {"resolved", "rejected"}, al \in BOOLEAN :
          WorkerDone(p, i, out, al)
    BY <1>6 DEF Reply, OnMessage, OnError
  <2>2. ~shutdown
    BY <2>1 DEF WorkerDone, Downed, AllDown
  <2> DEFINE freed == Freed(workers, p, i, al)
  <2>3. freed \in [Pools -> Seq(Worker)]
    BY <1>2, BusyFreed
  <2>4. Tick(freed, activeWorkers - 1, pendingJobs) /\ uncaught' = uncaught
    BY <2>1, <2>2 DEF WorkerDone, Freed
  <2>5. \A q \in Pools : freed[q] # <<>> => workers[q] # <<>>
    <3> SUFFICES ASSUME NEW q \in Pools, workers[q] = <<>> PROVE freed[q] = <<>>
      OBVIOUS
    <3>1. q # p
      OBVIOUS
    <3> QED
      BY <1>2, <3>1 DEF Freed
  <2>6. Stocked(freed, pendingJobs, Created)
    BY <2>5 DEF Stocked, Downed
  <2> HIDE DEF freed
  <2>7. activeWorkers - 1 \in Int
    BY <1>2
  <2>8. Stocked(workers', pendingJobs', Created)
    BY <1>2, <2>3, <2>4, <2>6, <2>7, TickStocks
  <2>9. UNCHANGED <<allPools, poolShutdown, shutdown>>
    BY <2>1 DEF WorkerDone
  <2> QED
    BY <1>1, <2>2, <2>4, <2>8, <2>9 DEF Downed, Created
<1>7. ASSUME CleanupAllPools PROVE Downed'
  <2>1. /\ ~shutdown /\ shutdown' /\ allPools' = {} /\ ~uncaught'
        /\ workers' = Terminate(allPools) /\ pendingJobs' = pendingJobs
        /\ poolShutdown' = poolShutdown \cup allPools
    BY <1>7 DEF CleanupAllPools, Downed
  <2>2. Created = allPools /\ Created' = Created
    BY <2>1 DEF Created, Downed
  <2>3. ASSUME NEW p \in Pools, workers[p] = <<>>
        PROVE  workers'[p] = <<>>
    BY <1>2, <2>1, <2>3 DEF Terminate
  <2>4. Stocked(workers', pendingJobs', Created')
    BY <2>1, <2>2, <2>3 DEF Stocked, Downed
  <2>5. ASSUME NEW p \in Pools, NEW i \in DOMAIN workers'[p]
        PROVE  ~workers'[p][i].alive
    <3>1. CASE p \in allPools
      <4>1. workers'[p] = [k \in DOMAIN workers[p] |->
                             [workers[p][k] EXCEPT !.alive = FALSE]]
        BY <2>1, <3>1 DEF Terminate
      <4>2. i \in DOMAIN workers[p] /\ workers[p][i] \in Worker
        BY <1>2, <4>1
      <4> QED
        BY <4>1, <4>2 DEF Worker
    <3>2. CASE p \notin allPools
      <4>1. workers'[p] = <<>>
        BY <2>2, <2>3, <3>2 DEF Downed, Stocked
      <4> QED
        BY <4>1
    <3> QED
      BY <3>1, <3>2
  <2>6. AllDown'
    BY <2>1, <2>5 DEF AllDown
  <2> QED
    BY <1>1, <2>1, <2>4, <2>6 DEF Downed
<1>8. CASE UNCHANGED vars
  BY <1>1, <1>8 DEF vars, Downed, AllDown, Created, Stocked
<1> QED
  BY <1>3, <1>4, <1>5, <1>6, <1>7, <1>8 DEF Next

\* After the global shutdown every pool is shut down and no worker runs, so
\* no handler is left to meet the throw of the tick.
THEOREM ShutdownIsComplete == Spec => []NoOpenPoolLeft
<1>1. Downed => NoOpenPoolLeft
  BY DEF Downed, AllDown, NoOpenPoolLeft
<1> QED
  BY <1>1, DownedInit, DownedStep, PTL DEF Spec

-----------------------------------------------------------------------------
\* The jobs that are on workers, and the ones that were answered: what the
\* scheduler sees of the pools.
OnJobs(ws) == {j \in Jobs : OnWorker(ws, j)}
Answered(pr) == {j \in Jobs : pr[j] \in {"resolved", "rejected"}}

\* As many jobs are on workers as slots are busy.
LEMMA OnJobsCounted ==
  ASSUME NEW ws \in [Pools -> Seq(Worker)], NEW n, Counted(ws, n),
         NEW queue, NEW open, HeldOnce(ws, queue, open)
  PROVE  Cardinality(OnJobs(ws)) = n
<1> DEFINE S == Busy(ws)
           f == [s \in S |-> ws[s[1]][s[2]].job]
<1>1. ASSUME NEW s \in S
      PROVE  /\ s[1] \in Pools /\ s = <<s[1], s[2]>>
             /\ f[s] \in Jobs /\ On(ws, s[1], s[2], f[s])
  <2>1. PICK p \in Pools : \E i \in DOMAIN ws[p] : s = <<p, i>>
    BY BusyPairs
  <2>2. PICK i \in DOMAIN ws[p] : s = <<p, i>>
    BY <2>1
  <2>3. ws[p][i].job # NoJob /\ ws[p][i] \in Worker
    BY <2>2, BusyMember
  <2> QED
    BY <2>2, <2>3 DEF On, Worker
<1>2. \A s \in S : f[s] \in OnJobs(ws)
  BY <1>1, OnWorkerOn DEF OnJobs
<1>3. \A s, t \in S : f[s] = f[t] => s = t
  <2> SUFFICES ASSUME NEW s \in S, NEW t \in S, f[s] = f[t] PROVE s = t
    OBVIOUS
  <2> HIDE DEF f
  <2>1. s[1] = t[1] /\ s[2] = t[2]
    BY <1>1 DEF HeldOnce
  <2> QED
    BY <1>1, <2>1
<1>4. \A j \in OnJobs(ws) : \E s \in S : f[s] = j
  <2> SUFFICES ASSUME NEW j \in Jobs, OnWorker(ws, j) PROVE \E s \in S : f[s] = j
    BY DEF OnJobs
  <2>1. PICK p \in Pools : \E i \in DOMAIN ws[p] : On(ws, p, i, j)
    BY DEF OnWorker
  <2>2. PICK i \in DOMAIN ws[p] : On(ws, p, i, j)
    BY <2>1
  <2>3. <<p, i>> \in S
    BY <2>2, BusyMember DEF On
  <2>4. f[<<p, i>>] = j
    BY <2>2, <2>3 DEF On
  <2> QED
    BY <2>3, <2>4
<1>5. f \in Bijection(S, OnJobs(ws))
  <2>1. f \in [S -> OnJobs(ws)]
    BY <1>2
  <2> HIDE DEF f, S
  <2> QED
    BY <1>3, <1>4, <2>1 DEF Bijection, Injection, Surjection, IsInjective
<1>6. IsFiniteSet(S) /\ Cardinality(S) = n
  BY DEF Counted
<1> HIDE DEF f, S
<1>7. ExistsBijection(S, OnJobs(ws))
  BY <1>5 DEF ExistsBijection
<1> QED
  BY <1>6, <1>7, FS_Bijection

\* A tick serves the queue: it starts its first job if fewer than MaxWorkers
\* run, and else changes nothing.
LEMMA TickServes ==
  ASSUME NEW ws \in [Pools -> Seq(Worker)], NEW n \in Int, Counted(ws, n),
         NEW pending \in Seq(Jobs), NEW open, HeldOnce(ws, pending, open),
         Tick(ws, n, pending)
  PROVE  IF Cardinality(OnJobs(ws)) < MaxWorkers /\ pending # <<>>
           THEN OnJobs(workers') = OnJobs(ws) \cup {Head(pending)} /\ pendingJobs' = Tail(pending)
           ELSE OnJobs(workers') = OnJobs(ws) /\ pendingJobs' = pending
<1>1. Cardinality(OnJobs(ws)) = n
  BY OnJobsCounted
<1>2. CASE ~(n < MaxWorkers /\ pending # <<>>)
  <2>1. workers' = ws /\ pendingJobs' = pending
    BY <1>2 DEF Tick
  <2> QED
    BY <1>1, <1>2, <2>1
<1>3. CASE n < MaxWorkers /\ pending # <<>>
  <2>1. pendingJobs' = Tail(pending)
    BY <1>3 DEF Tick
  <2>2. pendingJobs' # pending
    BY <1>3, <2>1
  <2>3. PICK i : Puts(ws, workers', PoolOf[Head(pending)], i, Head(pending))
    BY <2>2, TickPuts
  <2>4. Head(pending) \in Jobs /\ PoolOf[Head(pending)] \in Pools
    BY <1>3
  <2>5. \A j \in Jobs : OnWorker(workers', j) <=> OnWorker(ws, j) \/ j = Head(pending)
    BY <2>3, <2>4, OnWorkerOn DEF Puts
  <2>6. OnJobs(workers') = OnJobs(ws) \cup {Head(pending)}
    BY <2>4, <2>5 DEF OnJobs
  <2> QED
    BY <1>1, <1>3, <2>1, <2>6
<1> QED
  BY <1>2, <1>3

\* An answer takes its job off the workers.
LEMMA FreedOnJobs ==
  ASSUME NEW ws \in [Pools -> Seq(Worker)], NEW queue, NEW open, HeldOnce(ws, queue, open),
         NEW p \in Pools, NEW i \in DOMAIN ws[p], NEW al \in BOOLEAN, ws[p][i].job \in Jobs
  PROVE  OnJobs(Freed(ws, p, i, al)) = OnJobs(ws) \ {ws[p][i].job}
<1> DEFINE j == ws[p][i].job
           new == Freed(ws, p, i, al)
<1>1. On(ws, p, i, j) /\ j \in Jobs
  BY DEF On
<1>2. \A q \in Pools : \A x \in Jobs : \A k :
        On(new, q, k, x) <=> On(ws, q, k, x) /\ ~(q = p /\ k = i)
  BY FreedPuts
<1>3. \A x \in Jobs : On(ws, p, i, x) => x = j
  BY DEF On
<1> HIDE DEF j, new
<1>4. \A q \in Pools : \A k : On(ws, q, k, j) => q = p /\ k = i
  BY <1>1 DEF HeldOnce
<1>5. ASSUME NEW x \in Jobs PROVE OnWorker(new, x) <=> OnWorker(ws, x) /\ x # j
  BY <1>2, <1>3, <1>4, OnWorkerOn
<1>6. OnJobs(new) = OnJobs(ws) \ {j}
  BY <1>5 DEF OnJobs
<1> QED
  BY <1>6 DEF j, new

\* The refinement mapping, in these terms.
LEMMA SchedulerSees ==
  /\ TypeOK => {j \in Jobs : WorkerPlaces(j) # {}} = OnJobs(workers)
  /\ TypeOK' => {j \in Jobs : WorkerPlaces(j) # {}}' = OnJobs(workers')
<1>1. ASSUME NEW ws \in [Pools -> Seq(Worker)]
      PROVE  {j \in Jobs : {s \in Busy(ws) : ws[s[1]][s[2]].job = j} # {}} = OnJobs(ws)
  <2> SUFFICES ASSUME NEW j \in Jobs
               PROVE  {s \in Busy(ws) : ws[s[1]][s[2]].job = j} # {} <=> OnWorker(ws, j)
    BY DEF OnJobs
  <2>1. ASSUME NEW s \in Busy(ws), ws[s[1]][s[2]].job = j PROVE OnWorker(ws, j)
    <3>1. PICK p \in Pools : \E i \in DOMAIN ws[p] : s = <<p, i>>
      BY BusyPairs
    <3>2. PICK i \in DOMAIN ws[p] : s = <<p, i>>
      BY <3>1
    <3> QED
      BY <2>1, <3>2 DEF OnWorker, On
  <2>2. ASSUME OnWorker(ws, j) PROVE \E s \in Busy(ws) : ws[s[1]][s[2]].job = j
    <3>1. PICK p \in Pools : \E i \in DOMAIN ws[p] : On(ws, p, i, j)
      BY <2>2 DEF OnWorker
    <3>2. PICK i \in DOMAIN ws[p] : On(ws, p, i, j)
      BY <3>1
    <3>3. <<p, i>> \in Busy(ws) /\ ws[p][i].job = j
      BY <3>2, BusyMember DEF On
    <3> QED
      BY <3>3
  <2> QED
    BY <2>1, <2>2
<1>2. TypeOK => {j \in Jobs : WorkerPlaces(j) # {}} = OnJobs(workers)
  BY <1>1 DEF TypeOK, WorkerPlaces, BusySlots
<1>3. TypeOK' => {j \in Jobs : WorkerPlaces(j) # {}}' = OnJobs(workers')
  BY <1>1 DEF TypeOK, WorkerPlaces, BusySlots
<1> QED
  BY <1>2, <1>3

\* JobScheduler counts as this module does.
LEMMA SameCardinality ==
  ASSUME NEW S PROVE Scheduler!Cardinality(S) = Cardinality(S)
BY DEF Cardinality, Scheduler!Cardinality

\* The scheduler before the first pool is created.
LEMMA SchedulerInit == Init => Scheduler!Init
<1> SUFFICES ASSUME Init PROVE Scheduler!Init
  OBVIOUS
<1>1. \A j \in Jobs : ~OnWorker(workers, j)
  BY DEF Init, OnWorker, On
<1>2. {j \in Jobs : WorkerPlaces(j) # {}} = {}
  BY <1>1, SchedulerSees, TypeInit DEF OnJobs
<1>3. {j \in Jobs : promise[j] \in {"resolved", "rejected"}} = {}
  BY DEF Init
<1> QED
  BY <1>2, <1>3 DEF Scheduler!Init, Init

\* runJob submits, an event handler answers, the global shutdown closes, and
\* no other step changes what the scheduler sees.
LEMMA SchedulerStep ==
  ASSUME Slots, Held, Downed, [Next]_vars
  PROVE  [Scheduler!Next]_(Scheduler!vars)
<1> DEFINE running == {j \in Jobs : WorkerPlaces(j) # {}}
           answered == {j \in Jobs : promise[j] \in {"resolved", "rejected"}}
<1>1. /\ TypeOK /\ TypeOK'
      /\ workers \in [Pools -> Seq(Worker)] /\ activeWorkers \in Int
      /\ pendingJobs \in Seq(Jobs) /\ promise \in [Jobs -> PromiseStates]
      /\ Counted(workers, activeWorkers) /\ HeldOnce(workers, pendingJobs, OpenJobs)
  BY TypeStep DEF Slots, Held, TypeOK, ApiNext
<1>2. running = OnJobs(workers) /\ running' = OnJobs(workers')
  BY <1>1, SchedulerSees
<1>3. answered = Answered(promise) /\ answered' = Answered(promise')
  BY DEF Answered
<1> HIDE DEF running, answered
<1>4. ASSUME OnJobs(workers') = OnJobs(workers), Answered(promise') = Answered(promise),
             UNCHANGED <<pendingJobs, shutdown>>
      PROVE  UNCHANGED Scheduler!vars
  BY <1>2, <1>3, <1>4 DEF Scheduler!vars, running, answered
<1>5. ASSUME NEW j \in Jobs, RunJob(j) PROVE Scheduler!Submit(j)
  <2> DEFINE queue == Append(pendingJobs, j)
  <2>1. j \notin OpenJobs /\ promise' = [promise EXCEPT ![j] = "open"]
    BY <1>5 DEF RunJob, OpenJobs
  <2>2. ~InQueue(pendingJobs, j) /\ ~OnWorker(workers, j)
    BY <1>1, <2>1 DEF HeldOnce
  <2>3. ~Scheduler!Seen(j)
    <3>1. j \notin running
      BY <1>2, <2>2 DEF OnJobs
    <3>2. j \notin answered
      BY <1>3, <1>5 DEF Answered, RunJob
    <3>3. \A k \in DOMAIN pendingJobs : pendingJobs[k] # j
      BY <2>2 DEF InQueue
    <3> QED
      BY <3>1, <3>2, <3>3 DEF Scheduler!Seen, running, answered
  <2>4. queue \in Seq(Jobs) /\ HeldOnce(workers, queue, OpenJobs \cup {j})
    BY <1>1, <2>1, AppendHolds
  <2>5. Tick(workers, activeWorkers, queue)
    BY <1>5 DEF RunJob
  <2>6. IF Cardinality(OnJobs(workers)) < MaxWorkers /\ queue # <<>>
          THEN OnJobs(workers') = OnJobs(workers) \cup {Head(queue)} /\ pendingJobs' = Tail(queue)
          ELSE OnJobs(workers') = OnJobs(workers) /\ pendingJobs' = queue
    BY <1>1, <2>4, <2>5, TickServes
  <2>7. Scheduler!Serve(queue, running)
    BY <1>2, <2>6, SameCardinality DEF Scheduler!Serve, running
  <2>8. answered' = answered
    BY <1>1, <1>3, <1>5, <2>1 DEF Answered, RunJob
  <2>9. ~shutdown /\ shutdown' = shutdown
    BY <1>5 DEF RunJob
  <2> QED
    BY <2>3, <2>7, <2>8, <2>9 DEF Scheduler!Submit, running, answered
<1>6. ASSUME NEW p \in Pools, NEW i \in DOMAIN workers[p], Reply(p, i)
      PROVE  \E j \in Jobs : Scheduler!Answer(j)
  <2>1. PICK out \in {"resolved", "rejected"}, al \in BOOLEAN :
          WorkerDone(p, i, out, al)
    BY <1>6 DEF Reply, OnMessage, OnError
  <2>2. PICK j : j = workers[p][i].job
    OBVIOUS
  <2>3. PICK freed : freed = Freed(workers, p, i, al)
    OBVIOUS
  <2>4. ~shutdown
    BY <2>1 DEF WorkerDone, Downed, AllDown
  <2>5. j \in Jobs /\ j # NoJob
    <3>1. workers[p][i] \in Worker
      BY <1>1
    <3> QED
      BY <2>1, <2>2, <3>1 DEF WorkerDone, Worker
  <2>6. /\ freed \in [Pools -> Seq(Worker)]
        /\ HeldOnce(freed, pendingJobs, OpenJobs \ {j})
        /\ OnJobs(freed) = OnJobs(workers) \ {j}
    <3>1. freed \in [Pools -> Seq(Worker)]
      BY <1>1, <2>3, BusyFreed
    <3>2. HeldOnce(freed, pendingJobs, OpenJobs \ {j})
      BY <1>1, <2>2, <2>3, <2>5, FreeHolds
    <3>3. OnJobs(freed) = OnJobs(workers) \ {j}
      BY <1>1, <2>2, <2>3, <2>5, FreedOnJobs
    <3> QED
      BY <3>1, <3>2, <3>3
  <2>7. Counted(freed, activeWorkers - 1) /\ activeWorkers - 1 \in Int
    <3>1. workers[p][i].job # NoJob
      BY <2>2, <2>5
    <3>2. Counted(Freed(workers, p, i, al), activeWorkers - 1)
      BY <1>1, <3>1, FreedCounts
    <3> QED
      BY <1>1, <2>3, <3>2
  <2>8. Tick(freed, activeWorkers - 1, pendingJobs)
    BY <2>1, <2>3, <2>4 DEF WorkerDone, Freed
  <2>9. IF Cardinality(OnJobs(freed)) < MaxWorkers /\ pendingJobs # <<>>
          THEN /\ OnJobs(workers') = OnJobs(freed) \cup {Head(pendingJobs)}
               /\ pendingJobs' = Tail(pendingJobs)
          ELSE OnJobs(workers') = OnJobs(freed) /\ pendingJobs' = pendingJobs
    BY <1>1, <2>6, <2>7, <2>8, TickServes
  <2>10. Scheduler!Serve(pendingJobs, running \ {j})
    BY <1>2, <2>6, <2>9, SameCardinality DEF Scheduler!Serve, running
  <2>11. j \in running
    <3>1. On(workers, p, i, j)
      BY <2>2 DEF On
    <3> QED
      BY <1>2, <2>5, <3>1 DEF OnJobs, OnWorker
  <2>12. answered' = answered \cup {j}
    <3>1. promise' = [promise EXCEPT ![j] = out]
      BY <2>1, <2>2 DEF WorkerDone
    <3> QED
      BY <1>1, <1>3, <2>5, <3>1 DEF Answered
  <2>13. shutdown' = shutdown
    BY <2>1 DEF WorkerDone
  <2>14. Scheduler!Answer(j)
    BY <2>4, <2>10, <2>11, <2>12, <2>13 DEF Scheduler!Answer, running, answered
  <2> QED
    BY <2>5, <2>14
<1>7. ASSUME CleanupAllPools PROVE Scheduler!Close
  <2>1. allPools \in SUBSET Pools /\ workers' = Terminate(allPools)
    BY <1>1, <1>7 DEF TypeOK, CleanupAllPools
  <2>2. \A p \in Pools : /\ DOMAIN workers'[p] = DOMAIN workers[p]
                         /\ \A i \in DOMAIN workers[p] :
                              workers'[p][i].job = workers[p][i].job
    BY <1>1, <2>1, BusyTerminated
  <2>3. OnJobs(workers') = OnJobs(workers)
    BY <2>2 DEF OnJobs, OnWorker, On
  <2>4. running' = running /\ answered' = answered
    BY <1>2, <1>3, <1>7, <2>3 DEF CleanupAllPools
  <2> QED
    BY <1>7, <2>4 DEF Scheduler!Close, CleanupAllPools, running, answered
<1>8. ASSUME NEW j \in Jobs, RunJobRefused(j) PROVE UNCHANGED Scheduler!vars
  <2>1. Answered(promise') = Answered(promise)
    BY <1>1, <1>8 DEF RunJobRefused, Answered
  <2> QED
    BY <1>4, <1>8, <2>1 DEF RunJobRefused
<1>9. ASSUME NEW p \in Pools, CreateWorkerPool(p) PROVE UNCHANGED Scheduler!vars
  BY <1>4, <1>9 DEF CreateWorkerPool
<1>10. CASE UNCHANGED vars
  BY <1>4, <1>10 DEF vars
<1> QED
  BY <1>5, <1>6, <1>7, <1>8, <1>9, <1>10 DEF Next, Scheduler!Next

\* The pools do what a plain scheduler does: with workers, slots and ticks
\* forgotten, runJob appends to one queue and starts its first job when fewer
\* than MaxWorkers run, each handler answers one running job and starts the
\* next, and nothing else happens but the one shutdown that closes it.
THEOREM PoolsSchedule == Spec => SchedulerSpec
<1> DEFINE Inv == Slots /\ Held /\ Downed
<1>1. Init => Inv
  BY SlotsInit, HeldInit, DownedInit
<1>2. Inv /\ [Next]_vars => Inv'
  BY SlotsStep, HeldStep, DownedStep DEF ApiNext
<1>3. Inv /\ [Next]_vars => [Scheduler!Next]_(Scheduler!vars)
  BY SchedulerStep
<1> HIDE DEF Inv
<1> QED
  BY <1>1, <1>2, <1>3, SchedulerInit, PTL DEF Spec, SchedulerSpec, Scheduler!Spec
==============================================================================
