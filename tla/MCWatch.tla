------------------------------- MODULE MCWatch -------------------------------
\* Watch with two modules, either of them listed at first or added by an edit;
\* one has a database, the other has none and is called "db".
EXTENDS Watch

CONSTANTS users, db

MCProjectPath == <<"home", "game">>
MCPathOf == [m \in Modules |-> <<"home", "game", "modules", IF m = users THEN "users" ELSE "db">>]
MCSources == {<<"module.json">>, <<"scripts", "login.ts">>, <<"db", "schema.prisma">>}
=============================================================================
