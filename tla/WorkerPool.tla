------------------------------ MODULE WorkerPool ------------------------------
(***************************************************************************)
(* src/utils/worker_pool.ts: the pools of Web Workers that derive the JSON *)
(* schemas of scripts and module configs in the background.  All pools     *)
(* share one slot counter and one queue of pending jobs; each event        *)
(* handler of the single-threaded event loop is one action, the tick it    *)
(* ends with included.                                                     *)
(***************************************************************************)
EXTENDS Integers, Sequences, FiniteSets

CONSTANTS
  Jobs,             \* the calls of runJob, each made at most once
  Pools,            \* the pools createWorkerPool makes
  PoolOf,           \* the pool each job is given
  MaxWorkers,       \* MAX_WORKERS
  NoJob,            \* what an idle worker runs
  ErrorEndsWorker   \* does the runtime close a worker on an uncaught error?

ASSUME PoolsAssumption == IsFiniteSet(Pools)
ASSUME PoolOfAssumption == PoolOf \in [Jobs -> Pools]
ASSUME MaxWorkersAssumption == MaxWorkers \in Nat \ {0}
ASSUME NoJobAssumption == NoJob \notin Jobs
ASSUME ErrorEndsWorkerAssumption == ErrorEndsWorker \in BOOLEAN

VARIABLES
  allPools,         \* GLOBAL_STATE.allPools: registered, not shut down
  poolShutdown,     \* the pools whose `shutdown` flag is set
  workers,          \* pool.workers: the sequence of each pool's workers
  shutdown,         \* GLOBAL_STATE.shutdown
  pendingJobs,      \* GLOBAL_STATE.pendingJobs
  activeWorkers,    \* GLOBAL_STATE.activeWorkers
  promise,          \* what became of the promise runJob returned
  uncaught          \* a worker's event handler has thrown

vars == <<allPools, poolShutdown, workers, shutdown, pendingJobs,
          activeWorkers, promise, uncaught>>

\* A WorkerInstance: the job its handlers hold while `busy` is set, and
\* whether the runtime still runs it (not terminated, not closed).
Worker == [job : Jobs \cup {NoJob}, alive : BOOLEAN]

PromiseStates == {"none", "refused", "open", "resolved", "rejected"}

\* The pools createWorkerPool has returned.
Created == allPools \cup poolShutdown

\* The busy workers of a pool, and of all pools w as <<pool, index>>.
BusyIn(ws) == {i \in DOMAIN ws : ws[i].job # NoJob}
Busy(w) == UNION {{p} \X BusyIn(w[p]) : p \in Pools}
BusySlots == Busy(workers)

-----------------------------------------------------------------------------
Init ==
  /\ allPools = {}
  /\ poolShutdown = {}
  /\ workers = [p \in Pools |-> <<>>]
  /\ shutdown = FALSE
  /\ pendingJobs = <<>>
  /\ activeWorkers = 0
  /\ promise = [j \in Jobs |-> "none"]
  /\ uncaught = FALSE

\* pool.workers.find((worker) => !worker.busy)
IsFirstIdle(ws, i) ==
  /\ i \in DOMAIN ws
  /\ ws[i].job = NoJob
  /\ \A k \in 1..(i - 1) : ws[k].job # NoJob

\* Mutants of the definitions that follow them: each is what a plausible slip
\* in the code would make of it, and breaks the property it is named for.
\* A pool that never reuses a worker.
StartNextOnNewWorker(ws, pending) ==
  LET job == Head(pending)
  IN  workers' = [ws EXCEPT ![PoolOf[job]] =
                    Append(@, [job |-> job, alive |-> TRUE])]

\* A `find` that takes any worker, busy or not.
StartNextOnBusyWorker(ws, pending) ==
  LET job == Head(pending)
      pool == PoolOf[job]
  IN  IF ws[pool] = <<>>
        THEN workers' = [ws EXCEPT ![pool] = <<[job |-> job, alive |-> TRUE]>>]
        ELSE workers' = [ws EXCEPT ![pool][1].job = job]

\* The next job goes to the first idle worker of its pool, or to a new one.
StartNext(ws, pending) ==
  LET job == Head(pending)
      pool == PoolOf[job]
  IN  \/ \E i \in DOMAIN ws[pool] :
           /\ IsFirstIdle(ws[pool], i)
           /\ workers' = [ws EXCEPT ![pool][i].job = job]
      \/ /\ BusyIn(ws[pool]) = DOMAIN ws[pool]
         /\ workers' = [ws EXCEPT ![pool] =
                          Append(@, [job |-> job, alive |-> TRUE])]

\* `pop` for `shift`: the newest job first.
TickNewestFirst(ws, active, pending) ==
  \/ /\ active >= MaxWorkers \/ pending = <<>>
     /\ workers' = ws
     /\ activeWorkers' = active
     /\ pendingJobs' = pending
  \/ /\ active < MaxWorkers /\ pending # <<>>
     /\ StartNext(ws, <<pending[Len(pending)]>>)
     /\ activeWorkers' = active + 1
     /\ pendingJobs' = SubSeq(pending, 1, Len(pending) - 1)

\* A missing activeWorkers++.
TickWithoutCount(ws, active, pending) ==
  \/ /\ active >= MaxWorkers \/ pending = <<>>
     /\ workers' = ws
     /\ activeWorkers' = active
     /\ pendingJobs' = pending
  \/ /\ active < MaxWorkers /\ pending # <<>>
     /\ StartNext(ws, pending)
     /\ activeWorkers' = active
     /\ pendingJobs' = Tail(pending)

\* tickGlobalState, given the workers, the slot count and the queue its caller
\* leaves.  Its loop starts one job at most: every tick leaves no free slot or
\* no pending job (WorkConserving), and its caller then frees one slot or
\* queues one job.  Where it throws is in the guards of its callers.
Tick(ws, active, pending) ==
  \/ /\ active >= MaxWorkers \/ pending = <<>>
     /\ workers' = ws
     /\ activeWorkers' = active
     /\ pendingJobs' = pending
  \/ /\ active < MaxWorkers /\ pending # <<>>
     /\ StartNext(ws, pending)
     /\ activeWorkers' = active + 1
     /\ pendingJobs' = Tail(pending)

-----------------------------------------------------------------------------
\* createWorkerPool; after the global shutdown it throws, and changes nothing.
CreateWorkerPool(p) ==
  /\ ~shutdown
  /\ p \notin Created
  /\ allPools' = allPools \cup {p}
  /\ UNCHANGED <<poolShutdown, workers, shutdown, pendingJobs, activeWorkers,
                 promise, uncaught>>

\* runJob on a pool that is shut down throws to its caller.
RunJobRefused(j) ==
  /\ promise[j] = "none"
  /\ PoolOf[j] \in poolShutdown
  /\ promise' = [promise EXCEPT ![j] = "refused"]
  /\ UNCHANGED <<allPools, poolShutdown, workers, shutdown, pendingJobs,
                 activeWorkers, uncaught>>

\* runJob: queue the job and tick.  A pool that is open when the global state
\* is shut down, where the tick would throw, does not exist (NoOpenPoolLeft).
RunJob(j) ==
  /\ promise[j] = "none"
  /\ PoolOf[j] \in Created \ poolShutdown
  /\ ~shutdown
  /\ promise' = [promise EXCEPT ![j] = "open"]
  /\ Tick(workers, activeWorkers, Append(pendingJobs, j))
  /\ UNCHANGED <<allPools, poolShutdown, shutdown, uncaught>>

\* A handler that forgets to tick.
WorkerDoneWithoutTick(p, i, outcome, stillAlive) ==
  /\ i \in DOMAIN workers[p]
  /\ workers[p][i].alive
  /\ workers[p][i].job # NoJob
  /\ promise' = [promise EXCEPT ![workers[p][i].job] = outcome]
  /\ workers' = [workers EXCEPT ![p][i] = [job |-> NoJob, alive |-> stillAlive]]
  /\ activeWorkers' = activeWorkers - 1
  /\ UNCHANGED <<allPools, poolShutdown, shutdown, pendingJobs, uncaught>>

\* onmessage and onerror of worker i of pool p: settle the promise of the job
\* they hold, free the worker and its slot, tick.  After the global shutdown
\* the tick throws out of the handler.
WorkerDone(p, i, outcome, stillAlive) ==
  LET w == workers[p][i]
      freed == [workers EXCEPT ![p][i] = [job |-> NoJob, alive |-> stillAlive]]
  IN  /\ i \in DOMAIN workers[p]
      /\ w.alive
      /\ w.job # NoJob
      /\ promise' = [promise EXCEPT ![w.job] = outcome]
      /\ \/ /\ ~shutdown
            /\ Tick(freed, activeWorkers - 1, pendingJobs)
            /\ UNCHANGED uncaught
         \/ /\ shutdown
            /\ workers' = freed
            /\ activeWorkers' = activeWorkers - 1
            /\ uncaught' = TRUE
            /\ UNCHANGED pendingJobs
      /\ UNCHANGED <<allPools, poolShutdown, shutdown>>

OnMessage(p, i) == WorkerDone(p, i, "resolved", TRUE)

OnError(p, i) == WorkerDone(p, i, "rejected", ~ErrorEndsWorker)

\* The workers of the pools that stay are lost.
TerminateOnly(ps) ==
  [p \in ps |-> [i \in DOMAIN workers[p] |-> [workers[p][i] EXCEPT !.alive = FALSE]]]

\* worker.terminate() for every worker of the pools in ps.
Terminate(ps) ==
  [p \in Pools |-> IF p \in ps
                     THEN [i \in DOMAIN workers[p] |->
                             [workers[p][i] EXCEPT !.alive = FALSE]]
                     ELSE workers[p]]

\* shutdownPool, exported but called by cleanupAllPools only.
ShutdownPool(p) ==
  /\ p \in Created
  /\ poolShutdown' = poolShutdown \cup {p}
  /\ workers' = Terminate({p})
  /\ allPools' = allPools \ {p}
  /\ UNCHANGED <<shutdown, pendingJobs, activeWorkers, promise, uncaught>>

\* A cleanup of the pools that have workers.
CleanupUsedPools ==
  LET used == {p \in allPools : workers[p] # <<>>}
  IN  /\ ~shutdown
      /\ shutdown' = TRUE
      /\ poolShutdown' = poolShutdown \cup used
      /\ workers' = Terminate(used)
      /\ allPools' = allPools \ used
      /\ UNCHANGED <<pendingJobs, activeWorkers, promise, uncaught>>

\* cleanupAllPools, the shutdown handler; runShutdown calls it once.
CleanupAllPools ==
  /\ ~shutdown
  /\ shutdown' = TRUE
  /\ poolShutdown' = poolShutdown \cup allPools
  /\ workers' = Terminate(allPools)
  /\ allPools' = {}
  /\ UNCHANGED <<pendingJobs, activeWorkers, promise, uncaught>>

-----------------------------------------------------------------------------
\* The handler of worker i of pool p runs.
Reply(p, i) == OnMessage(p, i) \/ OnError(p, i)

\* The pools as the program uses them: nobody shuts down a single pool.
Next ==
  \/ \E p \in Pools : CreateWorkerPool(p)
  \/ \E j \in Jobs : RunJob(j) \/ RunJobRefused(j)
  \/ \E p \in Pools : \E i \in DOMAIN workers[p] : Reply(p, i)
  \/ CleanupAllPools

\* The pools as their exported functions allow.
ApiNext ==
  \/ Next
  \/ \E p \in Pools : ShutdownPool(p)

\* Every request a live worker is given is answered: it is a finite,
\* synchronous computation that ends in postMessage or in a throw.  A worker
\* the runtime has closed answers nothing: Reply is not enabled there.
WorkersReply ==
  \A p \in Pools : \A i \in 1..MaxWorkers :
    WF_vars(i \in DOMAIN workers[p] /\ Reply(p, i))

Spec == Init /\ [][Next]_vars /\ WorkersReply

ApiSpec == Init /\ [][ApiNext]_vars

-----------------------------------------------------------------------------
\* The state is well typed.
TypeOK ==
  /\ allPools \subseteq Pools
  /\ poolShutdown \subseteq Pools
  /\ workers \in [Pools -> Seq(Worker)]
  /\ shutdown \in BOOLEAN
  /\ pendingJobs \in Seq(Jobs)
  /\ activeWorkers \in Int
  /\ promise \in [Jobs -> PromiseStates]
  /\ uncaught \in BOOLEAN

\* The global slot counter is the number of workers marked busy, over all
\* pools, and never exceeds the limit: no handler frees a slot twice or
\* forgets to.
SlotsMatchBusy ==
  /\ IsFiniteSet(BusySlots)
  /\ activeWorkers = Cardinality(BusySlots)
  /\ activeWorkers <= MaxWorkers

\* Whenever a job waits, every slot is taken: each of the three callers of
\* the tick leaves nothing for its loop to start.
WorkConserving ==
  ~shutdown => activeWorkers = MaxWorkers \/ pendingJobs = <<>>

\* Where the job of an open promise is: the places in the queue and the
\* workers that hold it.
QueuePlaces(j) == {k \in DOMAIN pendingJobs : pendingJobs[k] = j}
WorkerPlaces(j) == {s \in BusySlots : workers[s[1]][s[2]].job = j}

\* A job is in one place: an open promise has its job in the queue or on one
\* worker, of the job's own pool, and a settled one is held nowhere.  So no
\* job is lost, run twice, or settled with another job's answer.
JobHeldOnce ==
  \A j \in Jobs :
    /\ promise[j] = "open" <=> QueuePlaces(j) \cup WorkerPlaces(j) # {}
    /\ QueuePlaces(j) = {} \/ WorkerPlaces(j) = {}
    /\ \A k, l \in QueuePlaces(j) : k = l
    /\ \A s, t \in WorkerPlaces(j) : s = t
    /\ \A s \in WorkerPlaces(j) : s[1] = PoolOf[j]

\* A pool never grows beyond the limit, although nothing bounds its length:
\* a worker is only added when all the others of the pool hold slots.
PoolSizeBounded == \A p \in Pools : Len(workers[p]) <= MaxWorkers

\* After the global shutdown no pool is left open, no worker runs, and no
\* handler has met the throw of the tick.
NoOpenPoolLeft ==
  /\ shutdown => allPools = {} /\ \A p \in Pools : \A i \in DOMAIN workers[p] :
                                                ~workers[p][i].alive
  /\ ~uncaught

\* Jobs start in the order they were queued, across the pools: a job that
\* goes on a worker leaves no older one in the queue behind it.
StartsInOrder ==
  [][\A j \in Jobs :
       WorkerPlaces(j) = {} /\ WorkerPlaces(j)' # {} =>
         \A k \in DOMAIN pendingJobs :
           pendingJobs[k] # j => /\ QueuePlaces(j) # {}
                                 /\ \A l \in QueuePlaces(j) : l < k]_vars

\* The job was given to a worker that had thrown, and that is closed.
OnClosedWorker(j) == \E s \in WorkerPlaces(j) : ~workers[s[1]][s[2]].alive

\* Every slot is taken by a job on a closed worker: none is freed any more.
AllSlotsLost ==
  /\ activeWorkers = MaxWorkers
  /\ \A s \in BusySlots : ~workers[s[1]][s[2]].alive

\* A job that was accepted is answered, unless the program shuts down, the job
\* is handed to a closed worker, or such jobs have taken all slots: nothing
\* else keeps it waiting, neither the jobs of the other pool nor a slot
\* that was freed without a tick, and a single live slot serves them all.
JobSettles ==
  \A j \in Jobs :
    promise[j] = "open" ~>
      promise[j] # "open" \/ shutdown \/ OnClosedWorker(j) \/ AllSlotsLost

\* The pools implement a plain scheduler: one queue served in order, at most
\* MaxWorkers jobs running, each answered at most once.
Scheduler == INSTANCE JobScheduler
  WITH Limit <- MaxWorkers,
       waiting <- pendingJobs,
       running <- {j \in Jobs : WorkerPlaces(j) # {}},
       answered <- {j \in Jobs : promise[j] \in {"resolved", "rejected"}},
       closed <- shutdown
SchedulerSpec == Scheduler!Spec

\* "If a job is running on this worker" (worker_pool.ts:65): a worker marked
\* busy runs.
BusyWorkerRuns ==
  ~shutdown => \A s \in BusySlots : workers[s[1]][s[2]].alive
=============================================================================
