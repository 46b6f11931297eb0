--------------------------------- MODULE Cli ---------------------------------
(***************************************************************************)
(* A command of src/cli/ from start to exit: it loads the project          *)
(* (Project), builds it phase by phase or works on its databases           *)
(* (Migrate), and shuts down (src/cli/main.ts); with --watch it starts     *)
(* over at each change.  Commands follow each other over what is left on   *)
(* the disk, after failures and kills.                                     *)
(***************************************************************************)
EXTENDS Project, Migrate

CONSTANTS
  Worlds      \* projects and users: records of
              \*   registry   the kind of the modules' registry
              \*   db         the modules with a database, in order
              \*   back       may backend.json name an older version than before?
              \*   watch      is the build run with --watch?
              \*   commands   the commands given
              \*   docker     does Docker run at first?
              \*   versions   bound: per module, the versions the user's edits lead to
              \*   runs       bound: commands, and runs of a watched build

DbCommands == {"dev", "createOnly", "deploy", "reset", "status"}
Commands == {"build", "migrate", "forceDeploy", "clean"} \cup DbCommands
Builds == {"build", "migrate", "forceDeploy"}

ASSUME LanesAssumption == Lanes = {0, 1} \X Modules
ASSUME WorldAssumption ==
  /\ MaxVersion >= MaxCommit /\ Modules # {}
  /\ \A w \in Worlds :
       /\ w.registry \in {"git", "shared", "local"}
       /\ w.db \in Seq(Modules) /\ (w.registry # "local" => Len(w.db) <= 1)
       /\ w.registry = "git" /\ w.db # <<>> => MaxVersion >= Side
       /\ {w.back, w.watch} \subseteq BOOLEAN /\ w.commands \subseteq Commands /\ w.docker \in BOOLEAN
       /\ w.versions \in [Modules -> Versions] /\ w.runs \in Nat

VARIABLES
  world,    \* the member of Worlds this behaviour is in
  command,  \* the command under way, or "none"
  slot,     \* which lanes are those of the run under way, not of the one before
  stage,    \* the phase of the build whose steps run, "db", "over", "failed",
            \* "ending", "dying", or "none"
  left,     \* the modules whose dev migrations are still to be planned
  mem,      \* buildState.cache.persist: per module what the steps have hashed
  saved,    \* cache.json
  edited,   \* has a schema changed since the run began?
  runs

cliVars == <<world, command, slot, stage, left, mem, saved, edited, runs>>
vars == <<projectVars, migrateVars, cliVars>>

\* The schema generateClient and migrateDev, and the migrations migrateDeploy
\* and migrateDev were last run for.
NoHash == [client |-> 0, deployed |-> {}, devSchema |-> 0, dev |-> {}]

DbModules == {world.db[i] : i \in DOMAIN world.db}
IsExternal == registry # "local"
MyLanes == {l \in Lanes : l[1] = slot}
OtherLanes == Lanes \ MyLanes

Init ==
  /\ world \in Worlds
  /\ registry = world.registry
  /\ ProjectInit
  /\ docker = world.docker
  /\ MigrateInit
  /\ command = "none" /\ slot = 0 /\ stage = "none" /\ left = {}
  /\ mem = [m \in Modules |-> NoHash]
  /\ saved = mem
  /\ edited = FALSE
  /\ runs = 0

-----------------------------------------------------------------------------
\* The user: publishes, changes a clone, edits a schema, starts Docker.
EditSchema(m) ==
  /\ registry = "local" /\ schema[m] < world.versions[m]
  /\ schema' = [schema EXCEPT ![m] = @ + 1]
  /\ edited' = TRUE
  /\ UNCHANGED <<projectVars, docker, pg, databases, applied, tree, client,
                 processVars, lane, torn, world, command, slot, stage, left, mem, saved,
                 runs>>

User ==
  \/ (Publish \/ Meddle) /\ UNCHANGED <<migrateVars, cliVars>>
  \/ \E m \in Modules : EditSchema(m)
  \/ StartDocker /\ UNCHANGED <<projectVars, cliVars>>

\* backend.json names what it did, or another version: if the user does not go
\* back, one that is not older.
Upgrade ==
  /\ {wanted.kind, wanted'.kind} \subseteq {"rev", "tag"}
  /\ wanted.commit <= wanted'.commit
NameVersion == world.back \/ wanted' = wanted \/ Upgrade

\* initProject.  A new process; its predecessor's container is gone.
StartCommand ==
  /\ command = "none" /\ node = "none" /\ runs < world.runs
  /\ command' \in world.commands
  /\ runs' = runs + 1
  /\ stage' = "none"
  /\ BeginLoad /\ NameVersion
  /\ UNCHANGED <<migrateVars, world, slot, left, mem, saved, edited>>

\* What the load does to the db directory of an external module.
ExternalDb(m, version) ==
  /\ schema' = [schema EXCEPT ![m] = version]
  /\ tree' = [tree EXCEPT ![m] = 1..version]
  /\ UNCHANGED <<docker, pg, databases, applied, client, processVars, lane, torn>>

Load ==
  \/ /\ Clone \/ Discard \/ Fetch \/ Checkout \/ SaveGen \/ RestoreGen \/ CheckModule
     /\ UNCHANGED <<migrateVars, cliVars>>
  \/ /\ EmptyModule \/ CopyModule
     /\ IF DbModules = {} THEN UNCHANGED migrateVars
        ELSE ExternalDb(world.db[1], ext'.version)
     /\ UNCHANGED cliVars

-----------------------------------------------------------------------------
Current == UNCHANGED <<docker, pg, diskVars, processVars, torn>>
TheLane == <<slot, CHOOSE m \in Modules : TRUE>>
Only(l, laneOf) == lane' = [k \in Lanes |-> IF k = l THEN laneOf
                                            ELSE IF k \in MyLanes THEN NoLane ELSE lane[k]]

\* The command's action, when the project is loaded: build asks for Postgres
\* before all else and loads the cache; a command on the databases visits them
\* one after the other, those that write migrations only local ones.
RunCommand ==
  /\ at = "loaded" /\ stage = "none"
  /\ \/ /\ command \in Builds
        /\ stage' = "ensure" /\ Only(TheLane, NewLane("ensure", <<>>))
        /\ mem' = saved /\ UNCHANGED saved
     \/ /\ command \in DbCommands
        /\ stage' = IF command \in {"dev", "createOnly"} /\ IsExternal THEN "failed" ELSE "db"
        /\ Only(TheLane, IF stage' = "db" THEN NewLane(command, world.db) ELSE NoLane)
        /\ UNCHANGED <<mem, saved>>
     \/ /\ command = "clean"
        /\ stage' = "over" /\ saved' = [m \in Modules |-> NoHash]
        /\ UNCHANGED <<lane, mem>>
  /\ IF command = "clean" THEN CleanProject ELSE UNCHANGED projectVars
  /\ edited' = FALSE
  /\ Current
  /\ UNCHANGED <<world, command, slot, left, runs>>

\* Which modules a step is planned for, whether its condition has changed, and
\* what is hashed.
NeedsBuild(m, kind) == CASE kind = "generate" -> mem[m].client # schema[m]
                         [] kind = "deploy" -> ~(tree[m] \subseteq mem[m].deployed)
                         [] kind = "dev" -> mem[m].devSchema # schema[m]
                                              \/ ~(tree[m] \subseteq mem[m].dev)
Hashes(m, kind) ==
  CASE kind = "generate" -> [mem[m] EXCEPT !.client = schema[m]]
    [] kind = "deploy" -> [mem[m] EXCEPT !.deployed = @ \cup tree[m]]
    [] kind = "dev" -> [mem[m] EXCEPT !.devSchema = schema[m], !.dev = @ \cup tree[m]]

\* buildStep for each of some modules.
Plan(kind, modules) ==
  /\ lane' = [l \in Lanes |->
                IF l \notin MyLanes THEN lane[l]
                ELSE IF l[2] \in modules /\ NeedsBuild(l[2], kind)
                       THEN NewLane(kind, <<l[2]>>) ELSE NoLane]
  /\ mem' = [m \in Modules |-> IF m \in modules THEN Hashes(m, kind) ELSE mem[m]]

\* waitForBuildPromises: all settled, and then an error if one has failed.
StepsOver == \A l \in MyLanes : Over(l)
StepsDone == StepsOver /\ \A l \in MyLanes : lane[l].pc = "done"

Deployable == IF command = "forceDeploy" \/ IsExternal THEN DbModules ELSE {}

\* planProjectBuild after a wait: the cache is saved, and the next steps begin.
Wait(next) ==
  /\ StepsDone /\ saved' = mem /\ stage' = next
  /\ Current
  /\ UNCHANGED <<world, command, slot, edited, runs>>

PlanGenerate ==
  /\ stage = "ensure" /\ StepsDone
  /\ stage' = "generate" /\ Plan("generate", DbModules)
  /\ Current
  /\ UNCHANGED <<projectVars, world, command, slot, left, saved, edited, runs>>

\* The module's own steps, of which module.gen.ts is one; another may fail, and
\* so may, in the phases after, the bundle or the check of the entrypoint.
PlanModule ==
  /\ stage = "generate" /\ Wait("module") /\ GenerateHelper(TRUE)
  /\ UNCHANGED <<lane, mem, left>>
ModuleFails ==
  /\ stage \in {"generate", "module"} /\ StepsDone
  /\ stage' = "failed" /\ saved' = mem
  /\ \/ stage = "generate" /\ GenerateHelper(FALSE)
     \/ UNCHANGED projectVars
  /\ UNCHANGED <<migrateVars, world, command, slot, left, mem, edited, runs>>

PlanDeploy ==
  /\ stage = "module" /\ Wait(IF command = "build" THEN "over" ELSE "deploy")
  /\ IF command = "build" THEN UNCHANGED <<lane, mem>> ELSE Plan("deploy", Deployable)
  /\ left' = IF command = "migrate" THEN DbModules \ Deployable ELSE {}
  /\ UNCHANGED projectVars

\* migrateDev, one module at a time.
PlanDev ==
  /\ stage \in {"deploy", "dev"}
  /\ \E m \in left : Plan("dev", {m}) /\ left' = left \ {m}
  /\ Wait("dev")
  /\ UNCHANGED projectVars
BuildOver ==
  /\ stage \in {"deploy", "dev"} /\ left = {} /\ Wait("over")
  /\ UNCHANGED <<projectVars, lane, mem, left>>

\* The mutant waits, saves the cache, and then throws.
RunFailsSaving ==
  /\ stage \in {"ensure", "generate", "deploy", "dev", "db"}
  /\ StepsOver /\ ~StepsDone
  /\ stage' = "failed" /\ saved' = mem
  /\ UNCHANGED <<projectVars, migrateVars, world, command, slot, left, mem, edited, runs>>

RunFails ==
  /\ stage \in {"ensure", "generate", "deploy", "dev", "db"}
  /\ StepsOver /\ ~StepsDone
  /\ stage' = "failed"
  /\ UNCHANGED <<projectVars, migrateVars, world, command, slot, left, mem, saved, edited,
                 runs>>
DbOver ==
  /\ stage = "db" /\ StepsDone /\ stage' = "over"
  /\ UNCHANGED <<projectVars, migrateVars, world, command, slot, left, mem, saved, edited,
                 runs>>

Build == PlanGenerate \/ PlanModule \/ ModuleFails \/ PlanDeploy \/ PlanDev \/ BuildOver
           \/ RunFails \/ DbOver

-----------------------------------------------------------------------------
\* With --watch: a file has changed.  The signal of the run under way is aborted,
\* its steps run on until they look, and the project is loaded again.  At most
\* one aborted run is still going: a bound.
Change ==
  /\ world.watch /\ command \in Builds /\ runs < world.runs
  /\ stage # "none" \/ at = "failed"
  /\ \A l \in OtherLanes : Over(l)
  /\ lane' = [l \in Lanes |-> IF Over(l) THEN lane[l] ELSE [lane[l] EXCEPT !.aborted = TRUE]]
  /\ torn' = torn \cup {Module(l) : l \in {k \in Lanes : Writing(k)}}
  /\ slot' = 1 - slot /\ stage' = "none" /\ runs' = runs + 1
  /\ BeginLoad /\ NameVersion
  /\ UNCHANGED <<docker, pg, diskVars, processVars>>
  /\ UNCHANGED <<world, command, left, mem, saved, edited>>

CommandOver == stage \in {"over", "failed"} \/ (stage = "none" /\ at = "failed")

\* main: the shutdown handlers, whatever the command did, and Deno.exit.
RunShutdown ==
  /\ command # "none" /\ ~world.watch /\ CommandOver
  /\ \E clientEnds \in BOOLEAN :
       /\ clientEnds \/ "client" \in handlers
       /\ stage' = IF clientEnds THEN "ending" ELSE "dying"
       /\ CallHandlers(clientEnds)
  /\ UNCHANGED <<projectVars, docker, pg, diskVars, once, created, handlers, lane, torn,
                 world, command, slot, left, mem, saved, edited, runs>>

Exit ==
  /\ stage = "dying" \/ (stage = "ending" /\ node # "removing")
  /\ command' = "none" /\ stage' = "none" /\ at' = "idle"
  /\ ProcessEnds
  /\ UNCHANGED <<registry, remoteVars, clone, ext, cached, wanted, tempGen, error, genLost,
                 docker, pg, diskVars, node, torn, world, slot, left, mem, saved, edited,
                 runs>>

\* The process is killed.  The next one has a container of another name.
Kill ==
  /\ command # "none" /\ stage \notin {"ending", "dying"}
  /\ command' = "none" /\ stage' = "none"
  /\ KillLoad
  /\ ProcessEnds /\ node' = "none"
  /\ torn' = torn \cup {Module(l) : l \in {k \in Lanes : Uncopied(k)}}
  /\ UNCHANGED <<docker, pg, diskVars, world, slot, left, mem, saved, edited, runs>>

-----------------------------------------------------------------------------
LaneStep(l) == LaneRuns(l) /\ UNCHANGED <<projectVars, cliVars>>
CreationStep == Creation /\ UNCHANGED <<projectVars, cliVars>>
ContainerStep == (NodeRemoved \/ PostgresDies) /\ UNCHANGED <<projectVars, cliVars>>
CommandStep == RunCommand \/ Build \/ RunShutdown \/ Exit

Process == Load \/ CommandStep \/ CreationStep \/ ContainerStep \/ \E l \in Lanes : LaneStep(l)

Next == User \/ StartCommand \/ Change \/ Kill \/ Process

\* The commands that are awaited end, a Postgres that stays up gets ready, and the
\* user answers what Prisma asks: whichever of its awaits resolves, a process that
\* is not killed goes on.
Spec == Init /\ [][Next]_vars /\ WF_vars(Process)

-----------------------------------------------------------------------------
\* The state is well typed.
TypeOK ==
  /\ ProjectTypeOK /\ MigrateTypeOK
  /\ world \in Worlds
  /\ command \in Commands \cup {"none"}
  /\ slot \in {0, 1}
  /\ stage \in {"none", "ensure", "generate", "module", "deploy", "dev", "db", "over",
                "failed", "ending", "dying"}
  /\ left \subseteq Modules
  /\ \A hashes \in {mem, saved} :
       hashes \in [Modules -> [client : 0..MaxVersion, deployed : SUBSET Versions,
                               devSchema : 0..MaxVersion, dev : SUBSET Versions]]
  /\ edited \in BOOLEAN
  /\ runs \in 0..world.runs

\* A build that succeeds leaves each module with a Prisma client of its schema
\* and a database that has all its migrations, and in development one for the
\* schema: whatever steps it skipped because of what earlier commands saved,
\* when they failed, were aborted or killed, or worked on the databases.
MigratedWhenDone ==
  stage = "over" /\ command \in Builds /\ ~edited =>
    \A m \in DbModules \ torn :
      /\ client[m] = schema[m]
      /\ command # "build" => tree[m] \subseteq applied[m]
      /\ command = "migrate" /\ ~IsExternal => schema[m] \in applied[m]

\* A process that exits by itself leaves no container of its own running,
\* even when another shutdown handler has failed.
NodeContainerGone == command = "none" => node # "up"

\* A command without --watch comes to its end; unless its Postgres has died before
\* it was ready, which the loop around pg_isready waits for without a limit.
CommandEnds == command # "none" /\ ~world.watch ~> command = "none" \/ NeverReady
=============================================================================
