----------------------------- MODULE MCWorkerPool -----------------------------
\* WorkerPool with the two pools of the program, five jobs and two slots.
EXTENDS WorkerPool, TLC

CONSTANTS j1, j2, j3, j4, j5, scripts, configs

MCPoolOf == (j1 :> scripts) @@ (j2 :> configs) @@ (j3 :> scripts)
            @@ (j4 :> configs) @@ (j5 :> scripts)
=============================================================================
