------------------------------- MODULE Migrate -------------------------------
(***************************************************************************)
(* src/migrate/ with src/utils/{once,postgres_daemon,shutdown_handler}.ts: *)
(* Prisma commands over the modules' databases.  A lane is one call of     *)
(* forEachDatabase; the steps of a build are lanes that run in parallel,   *)
(* the lanes of a build that was aborted may still run beside those of the *)
(* next one.  What they share is made once per process: the Postgres       *)
(* container, the client connected to it, the container Prisma runs in.    *)
(***************************************************************************)
EXTENDS Integers, Sequences, FiniteSets

CONSTANTS
  Modules,      \* the modules with a database
  MaxVersion,   \* bound: versions of a module's schema.prisma
  Lanes         \* names for the calls of forEachDatabase in flight

ASSUME VersionAssumption == MaxVersion \in Nat \ {0}

Versions == 1..MaxVersion
Resources == {"postgres", "client", "prisma"}

VARIABLES
  docker,       \* is the Docker daemon running?
  pg,           \* the Postgres container: "none", or "up"
  databases,    \* its volume: the databases there are,
  applied,      \* and per database the migrations applied to it; a migration
                \* is named by the version of the schema it leads to
  schema,       \* per module, db/schema.prisma; 0 while the module is copied
  tree,         \* per module, db/migrations
  client,       \* per module: the schema prisma_output was made from, or 0
  once,         \* per shared resource: its Once
  created,      \* DB_STATE.createdDatabases
  handlers,     \* SHUTDOWN_HANDLER.fns
  node,         \* this process's node container: "none", "up" or "removing"
  lane,         \* per lane: what it does, and where it is
  torn          \* modules whose migrations were applied by a command that was
                \* stopped before it copied them back, or whose files a lane
                \* writes after its build was aborted

diskVars == <<databases, applied, schema, tree, client>>
processVars == <<once, created, handlers, node>>
migrateVars == <<docker, pg, diskVars, processVars, lane, torn>>

NoCopy == [schema |-> 0, tree |-> {}, whole |-> TRUE]

\* A lane's kind, the modules it has still to do, the await it is at, its
\* signal, and its directory in the Prisma workspace.
NoLane == [kind |-> "none", todo |-> <<>>, pc |-> "done", aborted |-> FALSE,
           ws |-> NoCopy]
\* "ensure" is the lane of a build that only wants Postgres to run.
LaneKinds == {"none", "ensure", "generate", "deploy", "dev", "createOnly", "reset", "status"}
NewLane(kind, todo) == [NoLane EXCEPT !.kind = kind, !.todo = todo, !.pc = "postgres"]

Over(l) == lane[l].pc \in {"done", "failed"}
Module(l) == Head(lane[l].todo)
At(l, pc) == lane[l].pc = pc
Goes(l, pc) == lane' = [lane EXCEPT ![l].pc = pc]

MigrateInit ==
  /\ pg = "none"
  /\ databases = {}
  /\ applied = [m \in Modules |-> {}]
  /\ schema = [m \in Modules |-> 1]
  /\ tree = [m \in Modules |-> {}]
  /\ client = [m \in Modules |-> 0]
  /\ once = [r \in Resources |-> "empty"]
  /\ created = {}
  /\ handlers = {}
  /\ node = "none"
  /\ lane = [l \in Lanes |-> NoLane]
  /\ torn = {}

\* The user starts Docker.
StartDocker ==
  /\ ~docker /\ docker' = TRUE
  /\ UNCHANGED <<pg, diskVars, processVars, lane, torn>>

-----------------------------------------------------------------------------
\* getOrInitOnce: the first caller starts the creation, the others await the
\* same promise, which stays when it has rejected; the mutant tells them only
\* when it has resolved.
AwaitDone(l, r, next) ==
  /\ At(l, r)
  /\ \/ once[r] = "empty" /\ once' = [once EXCEPT ![r] = "creating"] /\ UNCHANGED lane
     \/ once[r] = "done" /\ Goes(l, next) /\ UNCHANGED once
  /\ UNCHANGED <<docker, pg, diskVars, created, handlers, node, torn>>
AwaitOnce(l, r, next) ==
  /\ At(l, r)
  /\ \/ once[r] = "empty" /\ once' = [once EXCEPT ![r] = "creating"] /\ UNCHANGED lane
     \/ once[r] = "done" /\ Goes(l, next) /\ UNCHANGED once
     \/ once[r] = "rejected" /\ Goes(l, "failed") /\ UNCHANGED once
  /\ UNCHANGED <<docker, pg, diskVars, created, handlers, node, torn>>

Becomes(r, state) == once' = [once EXCEPT ![r] = state]

\* ensurePostgresRunningInner: docker version, the volume, docker rm -f;
RemovePostgres ==
  /\ once["postgres"] = "creating" /\ docker
  /\ pg' = "none" /\ Becomes("postgres", "removed")
  /\ UNCHANGED <<docker, diskVars, created, handlers, node, lane, torn>>

\* docker run;
RunPostgres ==
  /\ once["postgres"] = "removed"
  /\ pg' = "up" /\ Becomes("postgres", "waiting")
  /\ UNCHANGED <<docker, diskVars, created, handlers, node, lane, torn>>

\* and the loop around pg_isready, which only ends when the server answers: it
\* goes on for ever when the container has died before.
PostgresReady ==
  /\ once["postgres"] = "waiting" /\ pg = "up"
  /\ Becomes("postgres", "done")
  /\ UNCHANGED <<docker, pg, diskVars, created, handlers, node, lane, torn>>
PostgresDies ==
  /\ once["postgres"] = "waiting" /\ pg = "up" /\ pg' = "none"
  /\ UNCHANGED <<docker, diskVars, processVars, lane, torn>>
NeverReady == once["postgres"] = "waiting" /\ pg = "none"

\* getDefaultClient
Connect ==
  /\ once["client"] = "creating"
  /\ pg = "up"
  /\ Becomes("client", "done") /\ handlers' = handlers \cup {"client"}
  /\ UNCHANGED <<docker, pg, diskVars, created, node, lane, torn>>

\* ensurePrismaWorkspaceInner up to the handler of the container it has run,
StartNode ==
  /\ once["prisma"] = "creating" /\ docker
  /\ node' = "up" /\ handlers' = handlers \cup {"node"} /\ Becomes("prisma", "started")
  /\ UNCHANGED <<docker, pg, diskVars, created, lane, torn>>

\* and the installation of Prisma in it.
InstallPrisma ==
  /\ once["prisma"] = "started" /\ Becomes("prisma", "done")
  /\ UNCHANGED <<docker, pg, diskVars, created, handlers, node, lane, torn>>

\* One of their docker commands fails, or the client does not connect.
CreationFails(r) ==
  /\ once[r] \in {"creating", "removed", "started"} /\ Becomes(r, "rejected")
  /\ UNCHANGED <<docker, pg, diskVars, created, handlers, node, lane, torn>>

Creation == RemovePostgres \/ RunPostgres \/ PostgresReady \/ Connect \/ StartNode
              \/ InstallPrisma \/ \E r \in Resources : CreationFails(r)

-----------------------------------------------------------------------------
\* forEachDatabase: the next module, or the end.  createDatabase asks for the
\* database, unless this process has seen it,
NextModule(l) ==
  /\ At(l, "next")
  /\ IF lane[l].todo = <<>> THEN Goes(l, "done") /\ UNCHANGED created
     ELSE IF Module(l) \in created \cup databases
       THEN Goes(l, "prisma") /\ created' = created \cup {Module(l)}
       ELSE Goes(l, "create") /\ UNCHANGED created
  /\ UNCHANGED <<docker, pg, diskVars, once, handlers, node, torn>>

\* and creates it, which fails when another lane was faster.
CreateDatabase(l) ==
  /\ At(l, "create")
  /\ IF Module(l) \in databases THEN Goes(l, "failed") /\ UNCHANGED <<databases, created>>
     ELSE /\ Goes(l, "prisma")
          /\ databases' = databases \cup {Module(l)}
          /\ created' = created \cup {Module(l)}
  /\ UNCHANGED <<docker, pg, applied, schema, tree, client, once, handlers, node, torn>>

-----------------------------------------------------------------------------
\* Is nobody emptying or copying the module, or its migrations?
Whole(m) ==
  schema[m] # 0 /\ \A l \in Lanes : At(l, "back") => Module(l) # m

\* runPrismaCommand: the db directory is copied to the workspace as it is found.
CopyToWorkspace(l) ==
  LET m == Module(l)
  IN  /\ At(l, "copy")
      /\ lane' = [lane EXCEPT ![l].pc = "chown",
                    ![l].ws = [schema |-> schema[m], tree |-> tree[m], whole |-> Whole(m)]]
      /\ UNCHANGED <<docker, pg, diskVars, processVars, torn>>

\* The mutant gives this command no signal.
ChownUnsignalled(l) ==
  /\ At(l, "chown")
  /\ Goes(l, "exec")
  /\ UNCHANGED <<docker, pg, diskVars, processVars, torn>>

\* docker exec with the signal: it is killed, or not begun, once that is aborted.
Chown(l) ==
  /\ At(l, "chown") /\ ~lane[l].aborted
  /\ Goes(l, "exec")
  /\ UNCHANGED <<docker, pg, diskVars, processVars, torn>>
\* What Prisma does to the database, and to the workspace: `reset` drops the
\* database, `dev` asks to when it finds migrations applied that it has no file
\* of.  `dev` then adds a migration for a schema that has none.
Prisma(l) ==
  LET m == Module(l)
      ws == lane[l].ws
      drifted == ~(applied[m] \subseteq ws.tree)
      wsTree == ws.tree \cup {ws.schema}
  IN  /\ At(l, "exec")
      /\ CASE lane[l].kind \in {"generate", "status"} ->
                Goes(l, "chown2") /\ UNCHANGED applied
           [] lane[l].kind = "deploy" ->
                Goes(l, "chown2") /\ applied' = [applied EXCEPT ![m] = @ \cup ws.tree]
           [] lane[l].kind = "reset" ->
                Goes(l, "chown2") /\ applied' = [applied EXCEPT ![m] = ws.tree]
           [] OTHER ->
                /\ lane' = [lane EXCEPT ![l].pc = "chown2", ![l].ws.tree = wsTree]
                /\ applied' = [applied EXCEPT ![m] =
                     (IF drifted THEN {} ELSE @) \cup
                     (IF lane[l].kind = "dev" THEN wsTree ELSE ws.tree)]
      /\ UNCHANGED <<docker, pg, databases, schema, tree, client, processVars, torn>>

Writes(l) == CASE lane[l].kind \in {"dev", "createOnly"} -> "empty"
               [] lane[l].kind = "generate" -> "emptyClient"
               [] OTHER -> "next"
Finish(l, pc) == [lane EXCEPT ![l].pc = pc,
                              ![l].todo = IF pc = "next" THEN Tail(@) ELSE @]

Chown2(l) ==
  /\ At(l, "chown2") /\ ~lane[l].aborted
  /\ lane' = Finish(l, Writes(l))
  /\ UNCHANGED <<docker, pg, diskVars, processVars, torn>>

\* Is lane l between its work on the database and the end of its copy back?
Uncopied(l) ==
  /\ lane[l].kind \in {"dev", "createOnly"} /\ lane[l].pc \in {"chown2", "empty", "back"}

\* A docker command fails or is aborted, when Prisma may have done its work, or
\* files cannot be copied.
LaneFails(l) ==
  /\ lane[l].pc \in {"copy", "chown", "exec", "chown2", "back", "copyClient"}
  /\ Goes(l, "failed")
  /\ torn' = IF Uncopied(l) THEN torn \cup {Module(l)} ELSE torn
  /\ UNCHANGED <<docker, pg, diskVars, processVars>>

\* Will an abort come too late?  The lane is past the last await that its signal
\* ends, or Prisma is migrating, which it goes on with in its container.
Writing(l) ==
  \/ lane[l].kind = "dev" /\ At(l, "exec")
  \/ lane[l].pc \in {"empty", "back", "emptyClient", "copyClient"}

\* migrateDev: the migrations are emptied,
EmptyMigrations(l) ==
  /\ At(l, "empty")
  /\ Goes(l, "back")
  /\ tree' = [tree EXCEPT ![Module(l)] = {}]
  /\ UNCHANGED <<docker, pg, databases, applied, schema, client, processVars, torn>>

\* and copied back; the mutant copies those of before.
CopyOldBack(l) ==
  /\ At(l, "back")
  /\ tree' = [tree EXCEPT ![Module(l)] = lane[l].ws.tree \ {lane[l].ws.schema}]
  /\ lane' = Finish(l, "next")
  /\ UNCHANGED <<docker, pg, databases, applied, schema, client, processVars, torn>>
CopyMigrationsBack(l) ==
  /\ At(l, "back")
  /\ tree' = [tree EXCEPT ![Module(l)] = lane[l].ws.tree]
  /\ lane' = Finish(l, "next")
  /\ UNCHANGED <<docker, pg, databases, applied, schema, client, processVars, torn>>

\* generateClient: so is the client, after it was bundled.
EmptyClient(l) ==
  /\ At(l, "emptyClient")
  /\ Goes(l, "copyClient")
  /\ client' = [client EXCEPT ![Module(l)] = 0]
  /\ UNCHANGED <<docker, pg, databases, applied, schema, tree, processVars, torn>>

CopyClient(l) ==
  /\ At(l, "copyClient")
  /\ client' = [client EXCEPT ![Module(l)] = lane[l].ws.schema]
  /\ lane' = Finish(l, "next")
  /\ UNCHANGED <<docker, pg, databases, applied, schema, tree, processVars, torn>>

LaneRuns(l) ==
  \/ AwaitOnce(l, "postgres", IF lane[l].kind = "ensure" THEN "done" ELSE "client")
  \/ AwaitOnce(l, "client", "next")
  \/ NextModule(l) \/ CreateDatabase(l)
  \/ AwaitOnce(l, "prisma", "copy")
  \/ CopyToWorkspace(l) \/ Chown(l) \/ Prisma(l) \/ Chown2(l) \/ LaneFails(l)
  \/ EmptyMigrations(l) \/ CopyMigrationsBack(l) \/ EmptyClient(l) \/ CopyClient(l)

-----------------------------------------------------------------------------
\* runShutdown: every handler is called, and the process ends when all of them
\* have resolved or the first has rejected: the end of the client may, docker
\* rm goes on by itself.  The mutant calls one after the other.
CallHandlersInOrder(clientEnds) ==
  node' = IF "node" \in handlers /\ clientEnds THEN "removing" ELSE node
CallHandlers(clientEnds) == node' = IF "node" \in handlers THEN "removing" ELSE node

NodeRemoved ==
  /\ node = "removing" /\ node' = "none"
  /\ UNCHANGED <<docker, pg, diskVars, once, created, handlers, lane, torn>>

\* The state of the process is gone with it.
ProcessEnds ==
  /\ once' = [r \in Resources |-> "empty"]
  /\ created' = {} /\ handlers' = {}
  /\ lane' = [l \in Lanes |-> NoLane]

-----------------------------------------------------------------------------
MigrateTypeOK ==
  /\ docker \in BOOLEAN /\ pg \in {"none", "up"}
  /\ databases \subseteq Modules /\ created \subseteq Modules
  /\ applied \in [Modules -> SUBSET Versions]
  /\ schema \in [Modules -> 0..MaxVersion]
  /\ tree \in [Modules -> SUBSET Versions]
  /\ client \in [Modules -> 0..MaxVersion]
  /\ once \in [Resources -> {"empty", "creating", "removed", "waiting", "started", "done",
                          "rejected"}]
  /\ handlers \subseteq {"client", "node"}
  /\ node \in {"none", "up", "removing"}
  /\ torn \subseteq Modules
  /\ \A l \in Lanes :
       /\ lane[l].kind \in LaneKinds
       /\ \A i \in DOMAIN lane[l].todo : lane[l].todo[i] \in Modules
       /\ lane[l].pc \in Resources \cup
            {"next", "create", "copy", "chown", "exec", "chown2",
             "empty", "back", "emptyClient", "copyClient", "done", "failed"}
       /\ lane[l].ws \in [schema : 0..MaxVersion, tree : SUBSET Versions, whole : BOOLEAN]

\* "Prepares all databases and calls a callback once prepared." (mod.ts:51):
\* when Prisma runs on a module, its database exists, Postgres and Prisma's
\* container run, as no second creation takes them away, and what it works on
\* is a whole copy of the db directory, whoever copies the module meanwhile.
PrismaIsPrepared ==
  /\ once["postgres"] = "done" => pg = "up"
  /\ \A l \in Lanes : At(l, "exec") =>
       /\ Module(l) \in databases
       /\ pg = "up" /\ node = "up"
       /\ lane[l].ws.whole \/ Module(l) \in torn

\* The migrations applied to a database are in the source tree: the copy back
\* loses none.  The exceptions are torn, and a command at work.
AppliedInTree ==
  \A m \in Modules \ torn :
    schema[m] # 0 /\ (\A l \in Lanes : Uncopied(l) => Module(l) # m) =>
      applied[m] \subseteq tree[m]
=============================================================================
