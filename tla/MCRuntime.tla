------------------------------ MODULE MCRuntime ------------------------------
\* Runtime with two modules: app depends on users; both have a database, and users
\* configures the error both throw.
EXTENDS Runtime

CONSTANTS r1, r2

MCModuleOf == [s \in Scripts |-> IF s = "login" THEN "app" ELSE "users"]
MCDeps == [m \in Modules |-> IF m = "app" THEN {"app", "users"} ELSE {"users"}]
MCErrorsOf == [m \in Modules |-> IF m = "users" THEN {"E"} ELSE {}]
=============================================================================
