----------------------------- MODULE JobScheduler -----------------------------
(***************************************************************************)
(* What the worker pools promise, without pools, workers or slot counting: *)
(* a queue served in order, at most Limit jobs at a time, each answered at *)
(* most once, until it is closed.  It promises no answer: a job on a       *)
(* worker that has thrown before gets none.                                *)
(***************************************************************************)
EXTENDS Integers, Sequences, FiniteSets

CONSTANTS Jobs, Limit

VARIABLES waiting, running, answered, closed

vars == <<waiting, running, answered, closed>>

Init == waiting = <<>> /\ running = {} /\ answered = {} /\ closed = FALSE

\* Serve the queue `queue`, given the jobs `rest` that still run.
Serve(queue, rest) ==
  IF Cardinality(rest) < Limit /\ queue # <<>>
    THEN running' = rest \cup {Head(queue)} /\ waiting' = Tail(queue)
    ELSE running' = rest /\ waiting' = queue

Seen(j) == \/ j \in running \cup answered
           \/ \E k \in DOMAIN waiting : waiting[k] = j

Submit(j) ==
  /\ ~closed /\ ~Seen(j)
  /\ Serve(Append(waiting, j), running)
  /\ UNCHANGED <<answered, closed>>

Answer(j) ==
  /\ ~closed /\ j \in running
  /\ Serve(waiting, running \ {j})
  /\ answered' = answered \cup {j}
  /\ UNCHANGED closed

Close ==
  /\ ~closed /\ closed' = TRUE
  /\ UNCHANGED <<waiting, running, answered>>

Next == (\E j \in Jobs : Submit(j) \/ Answer(j)) \/ Close

Spec == Init /\ [][Next]_vars
=============================================================================
