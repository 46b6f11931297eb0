------------------------------ MODULE CliProofs ------------------------------
(***************************************************************************)
(* Theorems about the commands, for every project, every sequence of       *)
(* commands, edits, failures, aborts and kills: no container is left       *)
(* behind, and Prisma runs on prepared databases and whole copies.         *)
(***************************************************************************)
EXTENDS ProjectProofs, SequenceTheorems

USE VersionAssumption

-----------------------------------------------------------------------------
\* The state of a lane.
CopyType == [schema : 0..MaxVersion, tree : SUBSET Versions, whole : BOOLEAN]
OnModule == {"create", "prisma", "copy", "chown", "exec", "chown2",
             "empty", "back", "emptyClient", "copyClient"}
Places == OnModule \cup {"postgres", "client", "next", "done", "failed"}
LaneType == [kind : LaneKinds, todo : Seq(Modules), pc : Places, aborted : BOOLEAN,
             ws : CopyType]

\* A lane that is at work on a module has one.  Those that write migrations are
\* of local modules, whose schema is there when they copy it.
GoodLane(x) ==
  /\ x \in LaneType
  /\ x.pc \in OnModule => x.todo # <<>>
  /\ x.kind = "none" => x.pc = "done"
  /\ x.kind = "ensure" => x.pc \in {"postgres", "done", "failed"}
  /\ x.kind \in {"dev", "createOnly"} =>
       registry = "local" /\ (x.pc \in {"chown", "exec"} => x.ws.schema # 0)

UnderWay == {"creating", "removed", "waiting", "started"}
OnceStates == UnderWay \cup {"empty", "done", "rejected"}
DbTypes ==
  /\ docker \in BOOLEAN /\ pg \in {"none", "up"}
  /\ databases \subseteq Modules /\ created \subseteq Modules
  /\ applied \in [Modules -> SUBSET Versions]
  /\ schema \in [Modules -> 0..MaxVersion]
  /\ tree \in [Modules -> SUBSET Versions]
  /\ client \in [Modules -> 0..MaxVersion]
  /\ once \in [Resources -> OnceStates]
  /\ handlers \subseteq {"client", "node"}
  /\ node \in {"none", "up", "removing"}
  /\ torn \subseteq Modules
  /\ lane \in [Lanes -> LaneType] /\ \A l \in Lanes : GoodLane(lane[l])

Stages == {"none", "ensure", "generate", "module", "deploy", "dev", "db", "over",
           "failed", "ending", "dying"}
HashType == [client : 0..MaxVersion, deployed : SUBSET Versions,
             devSchema : 0..MaxVersion, dev : SUBSET Versions]
CliTypes ==
  /\ registry = world.registry
  /\ command \in Commands \cup {"none"}
  /\ slot \in {0, 1} /\ stage \in Stages
  /\ left \subseteq Modules /\ (registry # "local" => left = {})
  /\ mem \in [Modules -> HashType] /\ saved \in [Modules -> HashType]
  /\ edited \in BOOLEAN /\ runs \in 0..world.runs

\* A local module is not copied; its schema is there.
LocalSchema ==
  registry = "local" => at \notin {"empty", "copy"} /\ \A m \in Modules : schema[m] # 0

Typed == DbTypes /\ CliTypes /\ LocalSchema

-----------------------------------------------------------------------------
\* What every world is.
LEMMA WorldTyped ==
  Ordered => /\ world.registry \in {"git", "shared", "local"} /\ world.db \in Seq(Modules)
             /\ (world.registry # "local" => Len(world.db) <= 1)
             /\ (world.registry = "git" /\ world.db # <<>> => MaxVersion >= Side)
             /\ {world.back, world.watch} \subseteq BOOLEAN /\ world.commands \subseteq Commands
             /\ world.docker \in BOOLEAN /\ world.versions \in [Modules -> Versions] /\ world.runs \in Nat
             /\ MaxVersion >= MaxCommit /\ DbModules \subseteq Modules
<1> SUFFICES ASSUME Ordered PROVE
       /\ world.registry \in {"git", "shared", "local"} /\ world.db \in Seq(Modules)
       /\ (world.registry # "local" => Len(world.db) <= 1)
       /\ (world.registry = "git" /\ world.db # <<>> => MaxVersion >= Side)
       /\ {world.back, world.watch} \subseteq BOOLEAN /\ world.commands \subseteq Commands
       /\ world.docker \in BOOLEAN /\ world.versions \in [Modules -> Versions] /\ world.runs \in Nat
       /\ MaxVersion >= MaxCommit /\ DbModules \subseteq Modules
  OBVIOUS
<1>1. world \in Worlds
  BY DEF Ordered
<1>2. world.db \in Seq(Modules)
  BY <1>1, WorldAssumption
<1>3. DbModules \subseteq Modules
  BY <1>2 DEF DbModules
<1> QED
  BY <1>1, <1>2, <1>3, WorldAssumption

\* The lanes a command creates: where they start, and with what to do.
LEMMA NewLanesTyped ==
  /\ NoLane \in LaneType
  /\ \A kind \in LaneKinds, todo \in Seq(Modules) :
       /\ NewLane(kind, todo) \in LaneType
       /\ NewLane(kind, todo).kind = kind /\ NewLane(kind, todo).todo = todo
       /\ NewLane(kind, todo).pc = "postgres" /\ NewLane(kind, todo).aborted = FALSE
  /\ NoLane.kind = "none" /\ NoLane.pc = "done" /\ NoLane.aborted = FALSE /\ NoLane.todo = <<>>
<1>1. <<>> \in Seq(Modules)
  OBVIOUS
<1>2. NoCopy \in CopyType
  BY DEF NoCopy, CopyType
<1>3. NoLane \in LaneType
  BY <1>1, <1>2 DEF NoLane, LaneType, LaneKinds, Places
<1> QED
  BY <1>3 DEF NoLane, NewLane, LaneType, Places

\* A place where no lane is, is fine.
LEMMA NoneIsGood == GoodLane(NoLane)
BY NewLanesTyped DEF GoodLane, OnModule

\* One lane moves to another place, and stays good.
LEMMA MovedIsGood ==
  ASSUME NEW x, GoodLane(x), NEW pc \in Places,
         pc \in OnModule => x.todo # <<>>,
         x.kind = "none" => pc = "done",
         x.kind = "ensure" => pc \in {"postgres", "done", "failed"},
         x.kind \in {"dev", "createOnly"} /\ pc \in {"chown", "exec"} => x.ws.schema # 0
  PROVE  GoodLane([x EXCEPT !.pc = pc])
BY DEF GoodLane, LaneType

\* and at the end of its work on a module goes on with the others.
LEMMA FinishedIsGood ==
  ASSUME NEW x, GoodLane(x), x.pc \in OnModule, x.kind # "none", x.kind # "ensure"
  PROVE  GoodLane([x EXCEPT !.pc = "next", !.todo = Tail(@)])
<1>1. Tail(x.todo) \in Seq(Modules)
  BY DEF GoodLane, LaneType
<1>2. [x EXCEPT !.pc = "next", !.todo = Tail(@)] \in LaneType
  BY <1>1 DEF GoodLane, LaneType, Places
<1> QED
  BY <1>2 DEF GoodLane, LaneType, OnModule

\* The step of a lane is one of that lane.
LEMMA OneLaneMoves ==
  ASSUME DbTypes, NEW l \in Lanes, NEW x, GoodLane(x), UNCHANGED registry,
         lane' = [lane EXCEPT ![l] = x]
  PROVE  lane' \in [Lanes -> LaneType] /\ \A k \in Lanes : GoodLane(lane[k])'
<1>1. x \in LaneType /\ lane \in [Lanes -> LaneType]
  BY DEF DbTypes, GoodLane
<1>2. lane' \in [Lanes -> LaneType]
  BY <1>1
<1>3. ASSUME NEW k \in Lanes PROVE GoodLane(lane[k])'
  <2>1. CASE k = l
    BY <2>1, <1>1 DEF GoodLane
  <2>2. CASE k # l
    BY <2>2, <1>1 DEF GoodLane, DbTypes
  <2> QED
    BY <2>1, <2>2
<1> QED
  BY <1>2, <1>3

\* The module a lane works on is one.
LEMMA ModuleTyped ==
  ASSUME DbTypes, NEW l \in Lanes, lane[l].pc \in OnModule \/ lane[l].todo # <<>>
  PROVE  Module(l) \in Modules
BY DEF DbTypes, GoodLane, LaneType, Module

\* Every lane that awaits keeps the types,
LEMMA AwaitTyped ==
  ASSUME DbTypes, UNCHANGED registry, NEW l \in Lanes, NEW r \in Resources, NEW next \in Places,
         next \in OnModule => lane[l].todo # <<>>,
         lane[l].pc \in OnModule => next = "copy",
         next = "copy" => lane[l].pc \in OnModule,
         lane[l].kind = "ensure" /\ lane[l].pc = "postgres" => next = "done",
         next \notin {"chown", "exec"},
         AwaitOnce(l, r, next)
  PROVE  DbTypes'
<1>1. /\ lane[l].pc = r /\ GoodLane(lane[l]) /\ lane[l] \in LaneType
      /\ UNCHANGED <<docker, pg, diskVars, created, handlers, node, torn>>
  BY DEF AwaitOnce, At, DbTypes
<1>2. once' \in [Resources -> OnceStates]
  BY DEF AwaitOnce, DbTypes, OnceStates, UnderWay
<1>3. lane' \in [Lanes -> LaneType] /\ \A k \in Lanes : GoodLane(lane[k])'
  <2>1. CASE UNCHANGED lane
    BY <2>1 DEF DbTypes, GoodLane
  <2>2. CASE Goes(l, next)
    <3>1. GoodLane([lane[l] EXCEPT !.pc = next])
      BY <1>1, MovedIsGood DEF GoodLane, Resources, OnModule
    <3> QED
      BY <2>2, <3>1, OneLaneMoves DEF Goes
  <2>3. CASE Goes(l, "failed")
    <3>1. GoodLane([lane[l] EXCEPT !.pc = "failed"])
      BY <1>1, MovedIsGood DEF GoodLane, Resources, OnModule, Places
    <3> QED
      BY <2>3, <3>1, OneLaneMoves DEF Goes
  <2> QED
    BY <2>1, <2>2, <2>3 DEF AwaitOnce
<1> QED
  BY <1>1, <1>2, <1>3 DEF DbTypes, diskVars

\* and so does every step of a lane.
LEMMA LaneTyped ==
  ASSUME DbTypes, LocalSchema, UNCHANGED registry, NEW l \in Lanes, LaneRuns(l)
  PROVE  DbTypes'
<1>l. GoodLane(lane[l]) /\ lane[l] \in LaneType /\ lane[l].ws \in CopyType /\ lane[l].pc \in Places
  BY DEF DbTypes, GoodLane, LaneType
<1>m. lane[l].pc \in OnModule => Module(l) \in Modules
  BY ModuleTyped
<1>1. CASE AwaitOnce(l, "postgres", IF lane[l].kind = "ensure" THEN "done" ELSE "client")
  <2>1. At(l, "postgres")
    BY <1>1 DEF AwaitOnce
  <2> QED
    BY <1>1, <2>1, AwaitTyped DEF At, Resources, Places, OnModule
<1>2. CASE AwaitOnce(l, "client", "next")
  <2>1. At(l, "client")
    BY <1>2 DEF AwaitOnce
  <2> QED
    BY <1>2, <2>1, AwaitTyped DEF At, Resources, Places, OnModule
<1>3. CASE NextModule(l)
  <2>1. /\ lane[l].pc = "next"
        /\ UNCHANGED <<docker, pg, diskVars, once, handlers, node, torn>>
    BY <1>3 DEF NextModule, At
  <2>2. PICK pc \in {"done", "prisma", "create"} :
          Goes(l, pc) /\ (pc # "done" => lane[l].todo # <<>>)
    BY <1>3 DEF NextModule
  <2>3. GoodLane([lane[l] EXCEPT !.pc = pc])
    BY <1>l, <2>1, <2>2, MovedIsGood DEF GoodLane, Places, OnModule
  <2>4. lane' \in [Lanes -> LaneType] /\ \A k \in Lanes : GoodLane(lane[k])'
    BY <2>2, <2>3, OneLaneMoves DEF Goes
  <2>5. created' \subseteq Modules
    <3>1. CASE UNCHANGED created
      BY <3>1 DEF DbTypes
    <3>2. CASE lane[l].todo # <<>> /\ created' = created \cup {Module(l)}
      BY <3>2, ModuleTyped DEF DbTypes
    <3> QED
      BY <1>3, <3>1, <3>2 DEF NextModule
  <2> QED
    BY <2>1, <2>4, <2>5 DEF DbTypes, diskVars
<1>4. CASE CreateDatabase(l)
  <2>1. /\ lane[l].pc = "create" /\ Module(l) \in Modules
        /\ UNCHANGED <<docker, pg, applied, schema, tree, client, once, handlers, node, torn>>
    BY <1>4, <1>m DEF CreateDatabase, At, OnModule
  <2>2. PICK pc \in {"failed", "prisma"} : Goes(l, pc)
    BY <1>4 DEF CreateDatabase
  <2>3. GoodLane([lane[l] EXCEPT !.pc = pc])
    BY <1>l, <2>1, <2>2, MovedIsGood DEF GoodLane, Places, OnModule
  <2>4. lane' \in [Lanes -> LaneType] /\ \A k \in Lanes : GoodLane(lane[k])'
    BY <2>2, <2>3, OneLaneMoves DEF Goes
  <2>5. created' \subseteq Modules /\ databases' \subseteq Modules
    BY <1>4, <2>1 DEF CreateDatabase, DbTypes
  <2> QED
    BY <2>1, <2>4, <2>5 DEF DbTypes
<1>5. CASE AwaitOnce(l, "prisma", "copy")
  <2>1. At(l, "prisma")
    BY <1>5 DEF AwaitOnce
  <2> QED
    BY <1>5, <2>1, <1>l, AwaitTyped DEF At, Resources, Places, OnModule, GoodLane
<1>6. CASE CopyToWorkspace(l)
  <2> DEFINE m == Module(l)
             ws == [schema |-> schema[m], tree |-> tree[m], whole |-> Whole(m)]
             x == [lane[l] EXCEPT !.pc = "chown", !.ws = ws]
  <2>1. /\ lane[l].pc = "copy" /\ m \in Modules
        /\ UNCHANGED <<docker, pg, diskVars, processVars, torn>>
    BY <1>6, <1>m DEF CopyToWorkspace, At, OnModule
  <2>2. Whole(m) \in BOOLEAN
    BY DEF Whole
  <2>3. ws \in CopyType /\ ws.schema = schema[m]
    <3> HIDE DEF m
    <3> QED
      BY <2>1, <2>2 DEF CopyType, DbTypes
  <2>4. lane' = [lane EXCEPT ![l] = x]
    BY <1>6 DEF CopyToWorkspace
  <2>5. registry = "local" => ws.schema # 0
    BY <2>1, <2>3 DEF LocalSchema
  <2> HIDE DEF ws
  <2>6. x \in LaneType
    BY <1>l, <2>3 DEF LaneType, Places, OnModule
  <2>7. x.kind = lane[l].kind /\ x.todo = lane[l].todo /\ x.pc = "chown" /\ x.ws = ws
    BY <1>l DEF LaneType
  <2> HIDE DEF x
  <2>8. GoodLane(x)
    BY <1>l, <2>1, <2>5, <2>6, <2>7 DEF GoodLane, OnModule
  <2>9. lane' \in [Lanes -> LaneType] /\ \A k \in Lanes : GoodLane(lane[k])'
    BY <2>4, <2>8, OneLaneMoves
  <2> QED
    BY <2>1, <2>9 DEF DbTypes, diskVars, processVars
<1>7. CASE Chown(l)
  <2>1. lane[l].pc = "chown" /\ Goes(l, "exec")
        /\ UNCHANGED <<docker, pg, diskVars, processVars, torn>>
    BY <1>7 DEF Chown, At
  <2>3. GoodLane([lane[l] EXCEPT !.pc = "exec"])
    BY <1>l, <2>1, MovedIsGood DEF GoodLane, Places, OnModule
  <2>4. lane' \in [Lanes -> LaneType] /\ \A k \in Lanes : GoodLane(lane[k])'
    BY <2>1, <2>3, OneLaneMoves DEF Goes
  <2> QED
    BY <2>1, <2>4 DEF DbTypes, diskVars, processVars
<1>8. CASE Prisma(l)
  <2> DEFINE m == Module(l)
             ws == lane[l].ws
             wsTree == ws.tree \cup {ws.schema}
             y == [lane[l] EXCEPT !.pc = "chown2"]
             z == [lane[l] EXCEPT !.pc = "chown2", !.ws.tree = wsTree]
  <2>1. /\ lane[l].pc = "exec" /\ m \in Modules
        /\ UNCHANGED <<docker, pg, databases, schema, tree, client, processVars, torn>>
    BY <1>8, <1>m DEF Prisma, At, OnModule
  <2>2. lane[l].kind \in {"generate", "status", "deploy", "reset", "dev", "createOnly"}
    BY <1>l, <2>1 DEF GoodLane, LaneType, LaneKinds
  <2>3. ws.tree \subseteq Versions /\ applied \in [Modules -> SUBSET Versions]
    BY <1>l DEF CopyType, DbTypes
  <2>4. CASE lane[l].kind \in {"generate", "status", "deploy", "reset"}
    <3>1. Goes(l, "chown2") /\ applied' \in [Modules -> SUBSET Versions]
      BY <1>8, <2>3, <2>4 DEF Prisma
    <3>2. GoodLane(y)
      BY <1>l, <2>1, MovedIsGood DEF GoodLane, Places, OnModule
    <3>3. lane' \in [Lanes -> LaneType] /\ \A k \in Lanes : GoodLane(lane[k])'
      BY <3>1, <3>2, OneLaneMoves DEF Goes
    <3> QED
      BY <2>1, <3>1, <3>3 DEF DbTypes, processVars
  <2>5. CASE lane[l].kind \in {"dev", "createOnly"}
    <3>1. ws.schema \in Versions
      BY <1>l, <2>1, <2>5 DEF GoodLane, CopyType, Versions
    <3>2. wsTree \subseteq Versions
      BY <2>3, <3>1
    <3>3. /\ lane' = [lane EXCEPT ![l] = z]
          /\ applied' = [applied EXCEPT ![m] =
               (IF ~(applied[m] \subseteq ws.tree) THEN {} ELSE applied[m]) \cup
               (IF lane[l].kind = "dev" THEN wsTree ELSE ws.tree)]
      BY <1>8, <2>5 DEF Prisma
    <3>4. applied' \in [Modules -> SUBSET Versions]
      <4> HIDE DEF wsTree, ws, m
      <4> QED
        BY <2>3, <3>2, <3>3
    <3>5. z \in LaneType /\ z.kind = lane[l].kind /\ z.todo = lane[l].todo /\ z.pc = "chown2"
      <4>1. [ws EXCEPT !.tree = wsTree] \in CopyType
        BY <1>l, <3>2 DEF CopyType
      <4> QED
        BY <1>l, <4>1 DEF LaneType, Places, OnModule
    <3> HIDE DEF z
    <3>6. GoodLane(z)
      BY <1>l, <2>1, <3>5 DEF GoodLane, OnModule
    <3>7. lane' \in [Lanes -> LaneType] /\ \A k \in Lanes : GoodLane(lane[k])'
      BY <3>3, <3>6, OneLaneMoves
    <3> QED
      BY <2>1, <3>4, <3>7 DEF DbTypes, processVars
  <2> QED
    BY <2>2, <2>4, <2>5
<1>9. ASSUME NEW pc \in {"next", "empty", "emptyClient"}, lane[l].pc \in OnModule,
             lane' = Finish(l, pc)
      PROVE  lane' \in [Lanes -> LaneType] /\ \A k \in Lanes : GoodLane(lane[k])'
  <2>1. CASE pc = "next"
    <3>1. lane[l].kind \notin {"none", "ensure"}
      BY <1>l, <1>9 DEF GoodLane, OnModule
    <3>2. lane' = [lane EXCEPT ![l] = [lane[l] EXCEPT !.pc = "next", !.todo = Tail(@)]]
      BY <1>9, <2>1 DEF Finish
    <3> QED
      BY <1>l, <1>9, <3>1, <3>2, FinishedIsGood, OneLaneMoves
  <2>2. CASE pc # "next"
    <3>1. lane' = [lane EXCEPT ![l] = [lane[l] EXCEPT !.pc = pc]]
      BY <1>9, <2>2, <1>l DEF Finish, LaneType, DbTypes
    <3>2. GoodLane([lane[l] EXCEPT !.pc = pc])
      BY <1>l, <1>9, <2>2, MovedIsGood DEF GoodLane, Places, OnModule
    <3> QED
      BY <3>1, <3>2, OneLaneMoves
  <2> QED
    BY <2>1, <2>2
<1>10. CASE Chown2(l)
  <2>1. lane[l].pc = "chown2" /\ lane' = Finish(l, Writes(l))
        /\ UNCHANGED <<docker, pg, diskVars, processVars, torn>>
    BY <1>10 DEF Chown2, At
  <2>2. lane' \in [Lanes -> LaneType] /\ \A k \in Lanes : GoodLane(lane[k])'
    BY <2>1, <1>9 DEF Writes, OnModule
  <2> QED
    BY <2>1, <2>2 DEF DbTypes, diskVars, processVars
<1>11. CASE LaneFails(l)
  <2>1. lane[l].pc \in OnModule /\ Goes(l, "failed")
        /\ UNCHANGED <<docker, pg, diskVars, processVars>>
    BY <1>11 DEF LaneFails, OnModule
  <2>2. GoodLane([lane[l] EXCEPT !.pc = "failed"])
    BY <1>l, <2>1, MovedIsGood DEF GoodLane, Places, OnModule
  <2>3. lane' \in [Lanes -> LaneType] /\ \A k \in Lanes : GoodLane(lane[k])'
    BY <2>1, <2>2, OneLaneMoves DEF Goes
  <2>4. torn' \subseteq Modules
    BY <1>11, <2>1, <1>m DEF LaneFails, DbTypes
  <2> QED
    BY <2>1, <2>3, <2>4 DEF DbTypes, diskVars, processVars
<1>12. CASE EmptyMigrations(l)
  <2>1. lane[l].pc = "empty" /\ Goes(l, "back") /\ tree' = [tree EXCEPT ![Module(l)] = {}]
        /\ UNCHANGED <<docker, pg, databases, applied, schema, client, processVars, torn>>
    BY <1>12 DEF EmptyMigrations, At
  <2>2. GoodLane([lane[l] EXCEPT !.pc = "back"])
    BY <1>l, <2>1, MovedIsGood DEF GoodLane, Places, OnModule
  <2>3. lane' \in [Lanes -> LaneType] /\ \A k \in Lanes : GoodLane(lane[k])'
    BY <2>1, <2>2, OneLaneMoves DEF Goes
  <2>4. tree' \in [Modules -> SUBSET Versions]
    BY <2>1 DEF DbTypes
  <2> QED
    BY <2>1, <2>3, <2>4 DEF DbTypes, processVars
<1>13. CASE CopyMigrationsBack(l)
  <2>1. lane[l].pc = "back" /\ lane' = Finish(l, "next")
        /\ tree' = [tree EXCEPT ![Module(l)] = lane[l].ws.tree]
        /\ UNCHANGED <<docker, pg, databases, applied, schema, client, processVars, torn>>
    BY <1>13 DEF CopyMigrationsBack, At
  <2>2. lane' \in [Lanes -> LaneType] /\ \A k \in Lanes : GoodLane(lane[k])'
    BY <2>1, <1>9 DEF OnModule
  <2>3. tree' \in [Modules -> SUBSET Versions]
    BY <2>1, <1>l DEF DbTypes, CopyType
  <2> QED
    BY <2>1, <2>2, <2>3 DEF DbTypes, processVars
<1>14. CASE EmptyClient(l)
  <2>1. lane[l].pc = "emptyClient" /\ Goes(l, "copyClient")
        /\ client' = [client EXCEPT ![Module(l)] = 0]
        /\ UNCHANGED <<docker, pg, databases, applied, schema, tree, processVars, torn>>
    BY <1>14 DEF EmptyClient, At
  <2>2. GoodLane([lane[l] EXCEPT !.pc = "copyClient"])
    BY <1>l, <2>1, MovedIsGood DEF GoodLane, Places, OnModule
  <2>3. lane' \in [Lanes -> LaneType] /\ \A k \in Lanes : GoodLane(lane[k])'
    BY <2>1, <2>2, OneLaneMoves DEF Goes
  <2>4. client' \in [Modules -> 0..MaxVersion]
    <3>1. 0 \in 0..MaxVersion
      OBVIOUS
    <3> QED
      BY <2>1, <3>1 DEF DbTypes
  <2> QED
    BY <2>1, <2>3, <2>4 DEF DbTypes, processVars
<1>15. CASE CopyClient(l)
  <2>1. lane[l].pc = "copyClient" /\ lane' = Finish(l, "next")
        /\ client' = [client EXCEPT ![Module(l)] = lane[l].ws.schema]
        /\ UNCHANGED <<docker, pg, databases, applied, schema, tree, processVars, torn>>
    BY <1>15 DEF CopyClient, At
  <2>2. lane' \in [Lanes -> LaneType] /\ \A k \in Lanes : GoodLane(lane[k])'
    BY <2>1, <1>9 DEF OnModule
  <2>3. client' \in [Modules -> 0..MaxVersion]
    <3>1. lane[l].ws.schema \in 0..MaxVersion
      BY <1>l DEF CopyType
    <3> QED
      BY <2>1, <3>1 DEF DbTypes
  <2> QED
    BY <2>1, <2>2, <2>3 DEF DbTypes, processVars
<1> QED
  BY <1>1, <1>2, <1>3, <1>4, <1>5, <1>6, <1>7, <1>8, <1>10, <1>11, <1>12, <1>13, <1>14, <1>15
     DEF LaneRuns

-----------------------------------------------------------------------------
\* A lane that is begun is good,
LEMMA NewIsGood ==
  ASSUME NEW kind \in LaneKinds \ {"none"}, NEW todo \in Seq(Modules),
         kind \in {"dev", "createOnly"} => registry = "local"
  PROVE  GoodLane(NewLane(kind, todo))
BY NewLanesTyped DEF GoodLane, OnModule

\* and so is what is left of those of a run, or of a process.
LEMMA LanesBegin ==
  ASSUME UNCHANGED registry, NEW f, lane' = [k \in Lanes |-> f[k]],
         \A k \in Lanes : GoodLane(f[k])
  PROVE  lane' \in [Lanes -> LaneType] /\ \A k \in Lanes : GoodLane(lane[k])'
BY DEF GoodLane

\* A command that starts a single lane keeps the lanes well typed.
LEMMA OnlyTyped ==
  ASSUME DbTypes, UNCHANGED registry, NEW l \in Lanes, NEW x, GoodLane(x), Only(l, x)
  PROVE  lane' \in [Lanes -> LaneType] /\ \A k \in Lanes : GoodLane(lane[k])'
<1> DEFINE f == [k \in Lanes |-> IF k = l THEN x ELSE IF k \in MyLanes THEN NoLane ELSE lane[k]]
<1>1. \A k \in Lanes : GoodLane(f[k])
  BY NoneIsGood DEF DbTypes
<1>2. lane' = [k \in Lanes |-> f[k]]
  BY DEF Only
<1> HIDE DEF f
<1> QED
  BY <1>1, <1>2, LanesBegin

\* planProjectBuild keeps the lanes and the hashes in memory well typed.
LEMMA PlanTyped ==
  ASSUME DbTypes, CliTypes, UNCHANGED registry, NEW kind \in {"generate", "deploy", "dev"},
         kind = "dev" => registry = "local", NEW modules \in SUBSET Modules, Plan(kind, modules)
  PROVE  /\ lane' \in [Lanes -> LaneType] /\ \A k \in Lanes : GoodLane(lane[k])'
         /\ mem' \in [Modules -> HashType]
<1> DEFINE f == [k \in Lanes |->
                   IF k \notin MyLanes THEN lane[k]
                   ELSE IF k[2] \in modules /\ NeedsBuild(k[2], kind)
                          THEN NewLane(kind, <<k[2]>>) ELSE NoLane]
<1>1. \A k \in Lanes : GoodLane(f[k])
  <2>1. \A k \in Lanes : <<k[2]>> \in Seq(Modules)
    BY LanesAssumption
  <2>2. \A k \in Lanes : GoodLane(NewLane(kind, <<k[2]>>))
    BY <2>1, NewIsGood DEF LaneKinds
  <2> QED
    BY <2>2, NoneIsGood DEF DbTypes
<1>2. lane' = [k \in Lanes |-> f[k]]
  BY DEF Plan
<1>3. ASSUME NEW m \in Modules PROVE Hashes(m, kind) \in HashType
  <2>1. mem[m] \in HashType /\ schema[m] \in 0..MaxVersion /\ tree[m] \subseteq Versions
    BY DEF CliTypes, DbTypes
  <2>2. CASE kind = "generate"
    BY <2>1, <2>2 DEF Hashes, HashType
  <2>3. CASE kind = "deploy"
    BY <2>1, <2>3 DEF Hashes, HashType
  <2>4. CASE kind = "dev"
    <3>1. mem[m].dev \cup tree[m] \subseteq Versions
      BY <2>1 DEF HashType
    <3> QED
      BY <2>1, <2>4, <3>1 DEF Hashes, HashType
  <2> QED
    BY <2>2, <2>3, <2>4
<1>4. mem' \in [Modules -> HashType]
  BY <1>3 DEF Plan, CliTypes
<1> HIDE DEF f
<1> QED
  BY <1>1, <1>2, <1>4, LanesBegin

\* A module that is emptied, or half so, is of no version; else it is what it was.
LEMMA EmptiedVersion ==
  ASSUME ext \in ModuleType, EmptyModule
  PROVE  ext'.version \in {0, ext.version} /\ (at' # "failed" => ext'.version = 0)
<1>1. NoModule.version = 0 /\ [ext EXCEPT !.version = 0].version = 0
  BY DEF NoModule, ModuleType
<1> QED
  BY <1>1 DEF EmptyModule, Throw

\* What a load copies is a version of the schema.
LEMMA CopiedTyped ==
  ASSUME Typed, Ordered, Loads, EmptyModule \/ CopyModule, DbModules # {}
  PROVE  ext'.version \in 0..MaxVersion /\ world.db[1] \in Modules /\ registry # "local"
<1>1. registry = world.registry /\ registry \in {"git", "shared"} /\ registry # "local"
  BY WorldTyped DEF Typed, LocalSchema, CliTypes, EmptyModule, CopyModule
<1>2. world.db # <<>> /\ world.db[1] \in Modules
  BY WorldTyped DEF DbModules
<1>3. ext \in ModuleType /\ head \in 1..MaxCommit /\ SourceVersion \in 0..Side
  BY SourcesTyped DEF Loads, ProjectTypeOK, ModuleType
<1>4. MaxVersion >= MaxCommit /\ (registry = "git" => MaxVersion >= Side)
  BY <1>1, <1>2, WorldTyped
<1>5. ext.version \in 0..MaxVersion
  <2>1. registry = "shared" => ext.version <= head
    BY DEF Loads, Pinned
  <2> QED
    BY <1>1, <1>3, <1>4, <2>1, CommitAssumption, VersionAssumption DEF ModuleType, Side
<1>6. CASE EmptyModule
  BY <1>1, <1>2, <1>3, <1>5, <1>6, EmptiedVersion
<1>7. CASE CopyModule /\ at' = "failed"
  BY <1>1, <1>2, <1>5, <1>7 DEF CopyModule, Goto
<1>8. CASE CopyModule /\ at' # "failed"
  <2>1. ext'.version = SourceVersion
    BY <1>3, <1>8 DEF CopyModule, Throw, ModuleType
  <2>2. CASE registry = "git"
    <3>1. 0..Side \subseteq 0..MaxVersion
      BY <1>4, <2>2, CommitAssumption, VersionAssumption DEF Side
    <3> QED
      BY <1>1, <1>2, <1>3, <2>1, <3>1
  <2>3. CASE registry = "shared"
    <3>1. 1..MaxCommit \subseteq 0..MaxVersion
      BY <1>4, CommitAssumption, VersionAssumption
    <3> QED
      BY <1>1, <1>2, <1>3, <2>1, <2>3, <3>1 DEF SourceVersion
  <2> QED
    BY <1>1, <2>2, <2>3
<1> QED
  BY <1>6, <1>7, <1>8

\* A new project, with no process and no container, is well typed.
LEMMA TypedInit == Init => Typed
<1> SUFFICES ASSUME Init PROVE Typed
  OBVIOUS
<1>1. Ordered
  BY LoadsInit
<1>2. DbTypes
  <2>1. lane \in [Lanes -> LaneType] /\ \A l \in Lanes : GoodLane(lane[l])
    BY NewLanesTyped, NoneIsGood DEF Init, MigrateInit
  <2>2. docker \in BOOLEAN
    BY <1>1, WorldTyped DEF Init
  <2>3. 0 \in 0..MaxVersion /\ 1 \in 0..MaxVersion
    OBVIOUS
  <2> QED
    BY <2>1, <2>2, <2>3 DEF Init, MigrateInit, DbTypes, OnceStates
<1>3. NoHash \in HashType
  BY DEF NoHash, HashType
<1>4. CliTypes
  <2>1. world.runs \in Nat
    BY <1>1, WorldTyped
  <2>2. mem \in [Modules -> HashType] /\ saved \in [Modules -> HashType]
    BY <1>3 DEF Init
  <2>3. /\ registry = world.registry /\ command = "none" /\ slot = 0 /\ stage = "none"
        /\ left = {} /\ edited = FALSE /\ runs = 0
    BY DEF Init
  <2>4. runs \in 0..world.runs
    BY <2>1, <2>3
  <2> QED
    BY <2>2, <2>3, <2>4 DEF CliTypes, Stages
<1> QED
  BY <1>2, <1>4 DEF Typed, LocalSchema, Init, ProjectInit, MigrateInit

\* Steps that leave the databases and containers alone keep their types.
LEMMA StillTyped == DbTypes /\ UNCHANGED <<registry, migrateVars>> => DbTypes'
BY DEF DbTypes, GoodLane, migrateVars, diskVars, processVars

\* A command that only begins or ends lanes keeps the types of the rest.
LEMMA NewLanesStillTyped ==
  ASSUME DbTypes, Current,
         lane' \in [Lanes -> LaneType] /\ \A k \in Lanes : GoodLane(lane[k])'
  PROVE  DbTypes'
BY DEF DbTypes, Current, diskVars, processVars

\* The end of a process.
LEMMA EndTyped ==
  ASSUME DbTypes, UNCHANGED <<docker, pg, diskVars>>, ProcessEnds,
         node' \in {"none", "up", "removing"}, torn' \subseteq Modules
  PROVE  DbTypes'
<1>1. lane' \in [Lanes -> LaneType] /\ \A k \in Lanes : GoodLane(lane[k])'
  BY NewLanesTyped, NoneIsGood DEF ProcessEnds, GoodLane
<1>2. once' \in [Resources -> OnceStates]
  BY DEF ProcessEnds, OnceStates
<1> QED
  BY <1>1, <1>2 DEF DbTypes, ProcessEnds, diskVars

\* The creation of what the lanes share.
LEMMA CreationTyped ==
  DbTypes /\ UNCHANGED registry /\ (Creation \/ NodeRemoved \/ PostgresDies) => DbTypes'
<1> SUFFICES ASSUME DbTypes, UNCHANGED registry, Creation \/ NodeRemoved \/ PostgresDies
             PROVE  DbTypes'
  OBVIOUS
<1> USE DEF diskVars, processVars, Becomes
<1>1. UNCHANGED <<docker, databases, applied, schema, tree, client, created, lane, torn>>
  BY DEF Creation, NodeRemoved, PostgresDies, RemovePostgres, RunPostgres, PostgresReady,
         Connect, StartNode, InstallPrisma, CreationFails
<1>2. once' \in [Resources -> OnceStates]
  BY DEF Creation, NodeRemoved, PostgresDies, RemovePostgres, RunPostgres, PostgresReady,
         Connect, StartNode, InstallPrisma, CreationFails, DbTypes, OnceStates, UnderWay
<1>3. pg' \in {"none", "up"} /\ handlers' \subseteq {"client", "node"}
      /\ node' \in {"none", "up", "removing"}
  BY DEF Creation, NodeRemoved, PostgresDies, RemovePostgres, RunPostgres, PostgresReady,
         Connect, StartNode, InstallPrisma, CreationFails, DbTypes
<1> QED
  BY <1>1, <1>2, <1>3 DEF DbTypes, GoodLane

\* The steps of a build, that are awaited, planned and saved.
LEMMA BuildTyped == Typed /\ Ordered /\ Build => Typed'
<1> SUFFICES ASSUME Typed, Ordered, Build PROVE Typed'
  OBVIOUS
<1>t. /\ DbTypes /\ CliTypes /\ LocalSchema /\ DbModules \subseteq Modules
      /\ Deployable \subseteq Modules
  BY WorldTyped DEF Typed, Deployable
<1>r. UNCHANGED <<registry, at, world>>
  BY DEF Build, PlanGenerate, PlanModule, ModuleFails, PlanDeploy, PlanDev, BuildOver, RunFails,
         DbOver, Wait, GenerateHelper, projectVars, loadVars
<1>s. UNCHANGED schema
  BY DEF Build, PlanGenerate, PlanModule, ModuleFails, PlanDeploy, PlanDev, BuildOver, RunFails,
         DbOver, Wait, Current, migrateVars, diskVars
<1>l. LocalSchema'
  BY <1>t, <1>r, <1>s DEF LocalSchema
<1>1. CASE PlanGenerate
  <2>1. /\ lane' \in [Lanes -> LaneType] /\ \A k \in Lanes : GoodLane(lane[k])'
        /\ mem' \in [Modules -> HashType]
    BY <1>t, <1>1, <1>r, PlanTyped DEF PlanGenerate
  <2>2. DbTypes'
    BY <1>t, <1>1, <2>1, NewLanesStillTyped DEF PlanGenerate
  <2>3. CliTypes'
    BY <1>t, <1>1, <1>r, <2>1 DEF PlanGenerate, CliTypes, Stages
  <2> QED
    BY <1>l, <2>2, <2>3 DEF Typed
<1>2. CASE PlanModule
  <2>1. DbTypes'
    BY <1>t, <1>2, <1>r, NewLanesStillTyped DEF PlanModule, Wait, DbTypes, GoodLane
  <2>2. CliTypes'
    BY <1>t, <1>2, <1>r DEF PlanModule, Wait, CliTypes, Stages
  <2> QED
    BY <1>l, <2>1, <2>2 DEF Typed
<1>3. CASE ModuleFails
  <2>1. DbTypes'
    BY <1>t, <1>3, <1>r, StillTyped DEF ModuleFails
  <2>2. CliTypes'
    BY <1>t, <1>3, <1>r DEF ModuleFails, CliTypes, Stages
  <2> QED
    BY <1>l, <2>1, <2>2 DEF Typed
<1>4. CASE PlanDeploy
  <2>1. /\ lane' \in [Lanes -> LaneType] /\ \A k \in Lanes : GoodLane(lane[k])'
        /\ mem' \in [Modules -> HashType]
    <3>1. CASE command = "build"
      BY <1>t, <1>4, <1>r, <3>1 DEF PlanDeploy, DbTypes, GoodLane, CliTypes
    <3>2. CASE command # "build"
      BY <1>t, <1>4, <1>r, <3>2, PlanTyped DEF PlanDeploy
    <3> QED
      BY <3>1, <3>2
  <2>2. DbTypes'
    BY <1>t, <1>4, <2>1, NewLanesStillTyped DEF PlanDeploy, Wait
  <2>3. left' \subseteq Modules /\ (registry # "local" => left' = {})
    BY <1>t, <1>4 DEF PlanDeploy, Deployable, IsExternal
  <2>4. CliTypes'
    BY <1>t, <1>4, <1>r, <2>1, <2>3 DEF PlanDeploy, Wait, CliTypes, Stages
  <2> QED
    BY <1>l, <2>2, <2>4 DEF Typed
<1>5. CASE PlanDev
  <2>1. PICK m \in left : Plan("dev", {m}) /\ left' = left \ {m}
    BY <1>5 DEF PlanDev
  <2>2. m \in Modules /\ registry = "local"
    BY <1>t DEF CliTypes
  <2>3. /\ lane' \in [Lanes -> LaneType] /\ \A k \in Lanes : GoodLane(lane[k])'
        /\ mem' \in [Modules -> HashType]
    BY <1>t, <1>r, <2>1, <2>2, PlanTyped
  <2>4. DbTypes'
    BY <1>t, <1>5, <2>3, NewLanesStillTyped DEF PlanDev, Wait
  <2>5. CliTypes'
    BY <1>t, <1>5, <1>r, <2>1, <2>2, <2>3 DEF PlanDev, Wait, CliTypes, Stages
  <2> QED
    BY <1>l, <2>4, <2>5 DEF Typed
<1>6. CASE BuildOver
  <2>1. DbTypes'
    BY <1>t, <1>6, <1>r, NewLanesStillTyped DEF BuildOver, Wait, DbTypes, GoodLane
  <2>2. CliTypes'
    BY <1>t, <1>6, <1>r DEF BuildOver, Wait, CliTypes, Stages
  <2> QED
    BY <1>l, <2>1, <2>2 DEF Typed
<1>7. CASE RunFails \/ DbOver
  <2>1. DbTypes'
    BY <1>t, <1>7, <1>r, StillTyped DEF RunFails, DbOver
  <2>2. CliTypes'
    BY <1>t, <1>7, <1>r DEF RunFails, DbOver, CliTypes, Stages
  <2> QED
    BY <1>l, <2>1, <2>2 DEF Typed
<1> QED
  BY <1>1, <1>2, <1>3, <1>4, <1>5, <1>6, <1>7 DEF Build

\* Every step keeps the types.
LEMMA TypedStep == Typed /\ Ordered /\ Loads /\ [Next]_vars => Typed'
<1> SUFFICES ASSUME Typed, Ordered, Loads, [Next]_vars PROVE Typed'
  OBVIOUS
<1>t. DbTypes /\ CliTypes /\ LocalSchema
  BY DEF Typed
<1>1. CASE User
  <2>1. CASE (Publish \/ Meddle) /\ UNCHANGED <<migrateVars, cliVars>>
    <3>1. UNCHANGED <<registry, at, schema, migrateVars, cliVars>>
      BY <2>1 DEF Publish, Meddle, loadVars, migrateVars, diskVars
    <3> QED
      BY <1>t, <3>1, StillTyped DEF Typed, CliTypes, LocalSchema, cliVars
  <2>2. ASSUME NEW m \in Modules, EditSchema(m) PROVE Typed'
    <3>1. /\ UNCHANGED <<projectVars, docker, pg, databases, applied, tree, client,
                         processVars, lane, torn, world, command, slot, stage, left, mem, saved,
                         runs>>
          /\ schema' = [schema EXCEPT ![m] = @ + 1] /\ edited' = TRUE /\ schema[m] < world.versions[m]
      BY <2>2 DEF EditSchema
    <3>2. schema[m] \in 0..MaxVersion /\ schema[m] + 1 \in 0..MaxVersion /\ schema[m] + 1 # 0
      BY <1>t, <3>1, WorldTyped, VersionAssumption DEF DbTypes, Versions
    <3>3. schema' \in [Modules -> 0..MaxVersion]
          /\ \A n \in Modules : schema[n] # 0 => schema'[n] # 0
      BY <1>t, <3>1, <3>2 DEF DbTypes
    <3>4. DbTypes'
      BY <1>t, <3>1, <3>3 DEF DbTypes, processVars, projectVars, GoodLane
    <3>5. CliTypes' /\ LocalSchema'
      BY <1>t, <3>1, <3>3 DEF CliTypes, LocalSchema, projectVars, loadVars
    <3> QED
      BY <3>4, <3>5 DEF Typed
  <2>3. CASE StartDocker /\ UNCHANGED <<projectVars, cliVars>>
    <3>1. DbTypes'
      BY <1>t, <2>3 DEF StartDocker, DbTypes, GoodLane, diskVars, processVars, projectVars
    <3>2. CliTypes' /\ LocalSchema'
      BY <1>t, <2>3 DEF StartDocker, CliTypes, LocalSchema, diskVars, projectVars, loadVars, cliVars
    <3> QED
      BY <3>1, <3>2 DEF Typed
  <2> QED
    BY <1>1, <2>1, <2>2, <2>3 DEF User
<1>2. CASE StartCommand
  <2>1. /\ command' \in world.commands /\ runs' = runs + 1 /\ runs < world.runs /\ stage' = "none"
        /\ UNCHANGED <<registry, migrateVars, world, slot, left, mem, saved, edited>>
        /\ (registry # "git" => at' = "module")
    BY <1>2 DEF StartCommand, BeginLoad
  <2>2. command' \in Commands /\ runs' \in 0..world.runs
    BY <1>t, <2>1, WorldTyped DEF CliTypes
  <2>3. DbTypes'
    BY <1>t, <2>1, StillTyped
  <2>4. CliTypes' /\ LocalSchema'
    BY <1>t, <2>1, <2>2 DEF CliTypes, LocalSchema, Stages, migrateVars, diskVars
  <2> QED
    BY <2>3, <2>4 DEF Typed
<1>3. CASE Change
  <2>1. /\ lane' = [l \in Lanes |-> IF Over(l) THEN lane[l] ELSE [lane[l] EXCEPT !.aborted = TRUE]]
        /\ torn' = torn \cup {Module(l) : l \in {k \in Lanes : Writing(k)}}
        /\ slot' = 1 - slot /\ stage' = "none" /\ runs' = runs + 1 /\ runs < world.runs
        /\ UNCHANGED <<docker, pg, diskVars, processVars>>
        /\ UNCHANGED <<registry, world, command, left, mem, saved, edited>>
        /\ (registry # "git" => at' = "module")
    BY <1>3 DEF Change, BeginLoad
  <2>2. lane' \in [Lanes -> LaneType] /\ \A l \in Lanes : GoodLane(lane[l])'
    BY <1>t, <2>1 DEF DbTypes, GoodLane, LaneType
  <2>3. \A l \in Lanes : Writing(l) => Module(l) \in Modules
    BY <1>t, ModuleTyped DEF Writing, At, OnModule
  <2>4. DbTypes'
    BY <1>t, <2>1, <2>2, <2>3 DEF DbTypes, diskVars, processVars
  <2>5. runs' \in 0..world.runs /\ slot' \in {0, 1}
    BY <1>t, <2>1, WorldTyped DEF CliTypes
  <2>6. CliTypes' /\ LocalSchema'
    BY <1>t, <2>1, <2>5 DEF CliTypes, LocalSchema, Stages, diskVars
  <2> QED
    BY <2>4, <2>6 DEF Typed
<1>4. CASE Kill
  <2>1. /\ command' = "none" /\ stage' = "none" /\ at' = "idle" /\ node' = "none" /\ ProcessEnds
        /\ torn' = torn \cup {Module(l) : l \in {k \in Lanes : Uncopied(k)}}
        /\ UNCHANGED <<registry, docker, pg, diskVars, world, slot, left, mem, saved, edited, runs>>
    BY <1>4 DEF Kill, KillLoad
  <2>2. \A l \in Lanes : Uncopied(l) => Module(l) \in Modules
    BY <1>t, ModuleTyped DEF Uncopied, OnModule
  <2>3. torn' \subseteq Modules
    BY <1>t, <2>1, <2>2 DEF DbTypes
  <2>4. DbTypes'
    BY <1>t, <2>1, <2>3, EndTyped
  <2>5. CliTypes' /\ LocalSchema'
    BY <1>t, <2>1 DEF CliTypes, LocalSchema, Stages, diskVars
  <2> QED
    BY <2>4, <2>5 DEF Typed
<1>5. CASE Load
  <2>1. CASE (Clone \/ Discard \/ Fetch \/ Checkout \/ SaveGen \/ RestoreGen \/ CheckModule)
             /\ UNCHANGED <<migrateVars, cliVars>>
    <3>1. UNCHANGED registry /\ (registry = "local" => at' \notin {"empty", "copy"})
      BY <2>1 DEF Clone, Discard, Fetch, Checkout, SaveGen, RestoreGen, CheckModule, Goto, Throw
    <3> QED
      BY <1>t, <2>1, <3>1, StillTyped DEF Typed, CliTypes, LocalSchema, cliVars, migrateVars,
                                          diskVars
  <2>2. CASE (EmptyModule \/ CopyModule) /\ UNCHANGED cliVars
    <3>1. UNCHANGED registry /\ registry # "local"
      BY <1>t, <2>2 DEF EmptyModule, CopyModule, LocalSchema
    <3>2. CliTypes' /\ LocalSchema'
      BY <1>t, <2>2, <3>1 DEF CliTypes, LocalSchema, cliVars
    <3>3. CASE DbModules = {}
      BY <1>t, <1>5, <2>2, <3>1, <3>2, <3>3, StillTyped
         DEF Typed, Load, EmptyModule, CopyModule, Clone, Discard, Fetch, Checkout, SaveGen,
             RestoreGen, CheckModule
    <3>4. CASE DbModules # {}
      <4> DEFINE m == world.db[1]
                 v == ext'.version
      <4>1. ExternalDb(m, v)
        BY <1>5, <2>2, <3>4 DEF Load, EmptyModule, CopyModule, Clone, Discard, Fetch, Checkout,
                                SaveGen, RestoreGen, CheckModule
      <4>2. v \in 0..MaxVersion /\ m \in Modules
        BY <2>2, <3>4, CopiedTyped
      <4>3. 1..v \subseteq Versions
        BY <4>2 DEF Versions
      <4> HIDE DEF m, v
      <4>4. schema' \in [Modules -> 0..MaxVersion] /\ tree' \in [Modules -> SUBSET Versions]
        BY <1>t, <4>1, <4>2, <4>3 DEF ExternalDb, DbTypes
      <4>5. DbTypes'
        BY <1>t, <3>1, <4>1, <4>4 DEF ExternalDb, DbTypes, GoodLane, processVars
      <4> QED
        BY <3>2, <4>5 DEF Typed
    <3> QED
      BY <3>3, <3>4
  <2> QED
    BY <1>5, <2>1, <2>2 DEF Load
<1>6. CASE RunCommand
  <2>1. /\ UNCHANGED <<registry, world, command, slot, left, runs>> /\ at' \in {"loaded", "cleaned"}
        /\ edited' = FALSE /\ Current
    BY <1>6 DEF RunCommand, CleanProject, projectVars, loadVars
  <2>2. TheLane \in Lanes
    BY <1>t, LanesAssumption, WorldAssumption DEF TheLane, CliTypes
  <2>3. /\ lane' \in [Lanes -> LaneType] /\ \A l \in Lanes : GoodLane(lane[l])'
        /\ mem' \in [Modules -> HashType] /\ saved' \in [Modules -> HashType] /\ stage' \in Stages
    <3>1. CASE command \in Builds
      <4>1. /\ stage' = "ensure" /\ Only(TheLane, NewLane("ensure", <<>>))
            /\ mem' = saved /\ UNCHANGED saved
        BY <1>6, <3>1 DEF RunCommand, Builds, DbCommands
      <4>2. GoodLane(NewLane("ensure", <<>>))
        <5>1. <<>> \in Seq(Modules)
          OBVIOUS
        <5>2. "ensure" \in LaneKinds \ {"none"}
          BY DEF LaneKinds
        <5> QED
          BY <5>1, <5>2, NewIsGood
      <4>3. lane' \in [Lanes -> LaneType] /\ \A l \in Lanes : GoodLane(lane[l])'
        BY <1>t, <2>1, <2>2, <4>1, <4>2, OnlyTyped
      <4> QED
        BY <1>t, <4>1, <4>3 DEF CliTypes, Stages
    <3>2. CASE command \in DbCommands
      <4>1. /\ stage' = IF command \in {"dev", "createOnly"} /\ IsExternal THEN "failed" ELSE "db"
            /\ Only(TheLane, IF stage' = "db" THEN NewLane(command, world.db) ELSE NoLane)
            /\ UNCHANGED <<mem, saved>>
        BY <1>6, <3>2 DEF RunCommand, Builds, DbCommands
      <4>2. stage' = "db" => GoodLane(NewLane(command, world.db))
        BY <3>2, <4>1, NewIsGood, WorldTyped DEF LaneKinds, DbCommands, IsExternal
      <4>3. GoodLane(IF stage' = "db" THEN NewLane(command, world.db) ELSE NoLane)
        BY <4>2, NoneIsGood
      <4>4. lane' \in [Lanes -> LaneType] /\ \A l \in Lanes : GoodLane(lane[l])'
        BY <1>t, <2>1, <2>2, <4>1, <4>3, OnlyTyped
      <4> QED
        BY <1>t, <4>1, <4>4 DEF CliTypes, Stages
    <3>3. CASE command = "clean"
      <4>1. /\ stage' = "over" /\ saved' = [m \in Modules |-> NoHash] /\ UNCHANGED <<lane, mem>>
        BY <1>6, <3>3 DEF RunCommand, Builds, DbCommands
      <4>2. NoHash \in HashType
        BY DEF NoHash, HashType
      <4>3. lane' \in [Lanes -> LaneType] /\ \A l \in Lanes : GoodLane(lane[l])'
        BY <1>t, <2>1, <4>1 DEF DbTypes, GoodLane
      <4> QED
        BY <1>t, <4>1, <4>2, <4>3 DEF CliTypes, Stages
    <3> QED
      BY <1>6, <3>1, <3>2, <3>3 DEF RunCommand
  <2>4. DbTypes'
    BY <1>t, <2>1, <2>3, NewLanesStillTyped
  <2>5. CliTypes' /\ LocalSchema'
    BY <1>t, <2>1, <2>3 DEF CliTypes, LocalSchema, Current, diskVars
  <2> QED
    BY <2>4, <2>5 DEF Typed
<1>7. CASE Build
  BY <1>7, BuildTyped
<1>8. CASE RunShutdown
  <2>1. /\ node' \in {"removing", node} /\ stage' \in {"ending", "dying"}
        /\ UNCHANGED <<projectVars, docker, pg, diskVars, once, created, handlers, lane, torn,
                       world, command, slot, left, mem, saved, edited, runs>>
    BY <1>8 DEF RunShutdown, CallHandlers
  <2>2. DbTypes'
    BY <1>t, <2>1 DEF DbTypes, diskVars, projectVars, GoodLane
  <2>3. CliTypes' /\ LocalSchema'
    BY <1>t, <2>1 DEF CliTypes, LocalSchema, diskVars, projectVars, loadVars, Stages
  <2> QED
    BY <2>2, <2>3 DEF Typed
<1>9. CASE Exit
  <2>1. /\ command' = "none" /\ stage' = "none" /\ at' = "idle" /\ ProcessEnds
        /\ UNCHANGED <<registry, docker, pg, diskVars, node, torn, world, slot, left, mem, saved,
                       edited, runs>>
    BY <1>9 DEF Exit
  <2>2. DbTypes'
    BY <1>t, <2>1, EndTyped DEF DbTypes
  <2>3. CliTypes' /\ LocalSchema'
    BY <1>t, <2>1 DEF CliTypes, LocalSchema, Stages, diskVars
  <2> QED
    BY <2>2, <2>3 DEF Typed
<1>10. CASE CreationStep \/ ContainerStep
  <2>1. (Creation \/ NodeRemoved \/ PostgresDies) /\ UNCHANGED <<projectVars, cliVars, schema>>
    BY <1>10 DEF CreationStep, ContainerStep, Creation, NodeRemoved, PostgresDies, RemovePostgres, RunPostgres,
                 PostgresReady, Connect, StartNode, InstallPrisma, CreationFails, diskVars
  <2>2. DbTypes'
    BY <1>t, <2>1, CreationTyped DEF projectVars
  <2>3. CliTypes' /\ LocalSchema'
    BY <1>t, <2>1 DEF CliTypes, LocalSchema, projectVars, loadVars, cliVars
  <2> QED
    BY <2>2, <2>3 DEF Typed
<1>11. ASSUME NEW l \in Lanes, LaneStep(l) PROVE Typed'
  <2>1. LaneRuns(l) /\ UNCHANGED <<projectVars, cliVars>>
    BY <1>11 DEF LaneStep
  <2>2. UNCHANGED schema
    BY <2>1 DEF LaneRuns, AwaitOnce, NextModule, CreateDatabase, CopyToWorkspace, Chown, Prisma,
                Chown2, LaneFails, EmptyMigrations, CopyMigrationsBack, EmptyClient, CopyClient,
                diskVars
  <2>3. DbTypes'
    BY <1>t, <2>1, LaneTyped DEF projectVars
  <2>4. CliTypes' /\ LocalSchema'
    BY <1>t, <2>1, <2>2 DEF CliTypes, LocalSchema, projectVars, loadVars, cliVars
  <2> QED
    BY <2>3, <2>4 DEF Typed
<1>12. CASE UNCHANGED vars
  BY <1>t, <1>12, StillTyped DEF vars, Typed, CliTypes, LocalSchema, projectVars, loadVars, cliVars,
                                 migrateVars, diskVars
<1> QED
  BY <1>1, <1>2, <1>3, <1>4, <1>5, <1>6, <1>7, <1>8, <1>9, <1>10, <1>11, <1>12
     DEF Next, Process, CommandStep

\* Types, the order of a load and what it loads hold in every behaviour.
LEMMA AlwaysTyped == Spec => [](Typed /\ Ordered /\ Loads)
<1>1. Typed /\ Ordered /\ Loads /\ [Next]_vars => (Typed /\ Ordered /\ Loads)'
  BY TypedStep, StepOfProject, ProjectStep
<1>2. Init => Typed /\ Ordered /\ Loads
  BY TypedInit, LoadsInit
<1> QED
  BY <1>1, <1>2, PTL DEF Spec

\* Commands, lanes and what they share are well typed: every version that is
\* loaded, hashed, migrated or copied is one of the module's, and no step leaves
\* a lane at work without a module.
THEOREM TypeCorrect == Spec => []TypeOK
<1>1. Typed /\ Ordered /\ Loads => TypeOK
  <2> SUFFICES ASSUME Typed, Ordered, Loads PROVE TypeOK
    OBVIOUS
  <2>1. MigrateTypeOK
    <3>1. \A l \in Lanes :
       /\ lane[l].kind \in LaneKinds
       /\ \A i \in DOMAIN lane[l].todo : lane[l].todo[i] \in Modules
       /\ lane[l].pc \in Resources \cup
            {"next", "create", "copy", "chown", "exec", "chown2",
             "empty", "back", "emptyClient", "copyClient", "done", "failed"}
       /\ lane[l].ws \in [schema : 0..MaxVersion, tree : SUBSET Versions, whole : BOOLEAN]
      BY DEF Typed, DbTypes, LaneType, CopyType, Places, OnModule, Resources
    <3> QED
      BY <3>1 DEF Typed, DbTypes, MigrateTypeOK, OnceStates, UnderWay
  <2>2. \A hashes \in {mem, saved} :
          hashes \in [Modules -> [client : 0..MaxVersion, deployed : SUBSET Versions,
                                  devSchema : 0..MaxVersion, dev : SUBSET Versions]]
    BY DEF Typed, CliTypes, HashType
  <2> QED
    BY <2>1, <2>2 DEF TypeOK, Typed, CliTypes, Ordered, Loads, Stages
<1> QED
  BY AlwaysTyped, <1>1, PTL

-----------------------------------------------------------------------------
\* What a step of a lane leaves alone,
Shape(l) ==
  /\ lane[l].pc \notin {"done", "failed"}
  /\ \A k \in Lanes \ {l} : lane'[k] = lane[k]
  /\ lane'[l].kind = lane[l].kind /\ lane'[l].aborted = lane[l].aborted
  /\ lane'[l].todo = IF lane'[l].pc = "next" /\ lane[l].pc \in OnModule
                     THEN Tail(lane[l].todo) ELSE lane[l].todo
  /\ UNCHANGED <<docker, pg, schema, handlers, node>>
  /\ torn \subseteq torn' /\ databases \subseteq databases' /\ created' \subseteq created \cup databases'

\* and the places it goes from and to, with what it has found.
Asks(l) ==
  /\ lane[l].pc \in Resources /\ lane'[l] = lane[l]
  /\ once[lane[l].pc] = "empty" /\ once' = [once EXCEPT ![lane[l].pc] = "creating"]
Passes(l, p, q) ==
  \/ q = "failed" /\ (p \in Resources => once[p] = "rejected")
  \/ p = "postgres" /\ q \in {"done", "client"} /\ once["postgres"] = "done"
  \/ p = "client" /\ q = "next" /\ once["client"] = "done"
  \/ p = "next" /\ q \in {"done", "create"}
  \/ p = "next" /\ q = "prisma" /\ Module(l) \in created \cup databases
  \/ p = "create" /\ q = "prisma" /\ Module(l) \in databases'
  \/ p = "prisma" /\ q = "copy" /\ once["prisma"] = "done"
  \/ p = "copy" /\ q = "chown" /\ lane'[l].ws.whole = Whole(Module(l))
  \/ p = "chown" /\ q = "exec" /\ ~lane[l].aborted /\ lane'[l].ws = lane[l].ws
  \/ p = "exec" /\ q = "chown2"
  \/ p = "chown2" /\ q \in {"empty", "emptyClient", "next"} /\ ~lane[l].aborted
  \/ p = "empty" /\ q = "back"
  \/ p = "emptyClient" /\ q = "copyClient"
  \/ p \in {"back", "copyClient"} /\ q = "next"

\* Every step of a lane has this shape.
LEMMA LaneMoves ==
  ASSUME DbTypes, NEW l \in Lanes, LaneRuns(l)
  PROVE  Shape(l) /\ (Asks(l) \/ (UNCHANGED once /\ Passes(l, lane[l].pc, lane'[l].pc)))
<1>l. lane \in [Lanes -> LaneType] /\ lane[l] \in LaneType
  BY DEF DbTypes
<1>1. ASSUME NEW r \in Resources, NEW next, AwaitOnce(l, r, next),
             Passes(l, r, next) \/ once[r] # "done",
             next \in {"done", "client", "next", "copy"}, next = "next" => r \notin OnModule
      PROVE  Shape(l) /\ (Asks(l) \/ (UNCHANGED once /\ Passes(l, lane[l].pc, lane'[l].pc)))
  <2>1. /\ lane[l].pc = r /\ UNCHANGED <<docker, pg, diskVars, created, handlers, node, torn>>
    BY <1>1 DEF AwaitOnce, At
  <2>2. CASE once[r] = "empty" /\ once' = [once EXCEPT ![r] = "creating"] /\ UNCHANGED lane
    BY <2>1, <2>2 DEF Shape, Asks, diskVars, Resources, OnModule
  <2>3. CASE once[r] = "done" /\ Goes(l, next) /\ UNCHANGED once
    <3>1. lane'[l] = [lane[l] EXCEPT !.pc = next] /\ \A k \in Lanes \ {l} : lane'[k] = lane[k]
      BY <1>l, <2>3 DEF Goes
    <3>2. Shape(l)
      BY <1>l, <1>1, <2>1, <3>1 DEF Shape, diskVars, Resources, OnModule, LaneType
    <3> QED
      BY <1>1, <1>l, <2>1, <2>3, <3>1, <3>2 DEF LaneType
  <2>4. CASE once[r] = "rejected" /\ Goes(l, "failed") /\ UNCHANGED once
    <3>1. lane'[l] = [lane[l] EXCEPT !.pc = "failed"] /\ \A k \in Lanes \ {l} : lane'[k] = lane[k]
      BY <1>l, <2>4 DEF Goes
    <3> QED
      BY <1>l, <2>1, <2>4, <3>1 DEF Shape, diskVars, Resources, OnModule, LaneType, Passes
  <2> QED
    BY <1>1, <2>2, <2>3, <2>4 DEF AwaitOnce
<1>2. CASE AwaitOnce(l, "postgres", IF lane[l].kind = "ensure" THEN "done" ELSE "client")
  <2>1. \A next \in {"done", "client"} :
          Passes(l, "postgres", next) \/ once["postgres"] # "done"
    BY DEF Passes
  <2> QED
    BY <1>1, <1>2, <2>1 DEF Resources, OnModule
<1>3. CASE AwaitOnce(l, "client", "next")
  <2>1. Passes(l, "client", "next") \/ once["client"] # "done"
    BY DEF Passes
  <2> QED
    BY <1>1, <1>3, <2>1 DEF Resources, OnModule
<1>4. CASE AwaitOnce(l, "prisma", "copy")
  <2>1. Passes(l, "prisma", "copy") \/ once["prisma"] # "done"
    BY DEF Passes
  <2> QED
    BY <1>1, <1>4, <2>1 DEF Resources, OnModule
<1>g. ASSUME NEW pc, Goes(l, pc)
      PROVE  /\ \A k \in Lanes \ {l} : lane'[k] = lane[k]
             /\ lane'[l].kind = lane[l].kind /\ lane'[l].aborted = lane[l].aborted
             /\ lane'[l].todo = lane[l].todo /\ lane'[l].pc = pc /\ lane'[l].ws = lane[l].ws
  BY <1>l, <1>g DEF Goes, LaneType
<1>f. ASSUME NEW pc \in {"next", "empty", "emptyClient"}, lane' = Finish(l, pc),
             lane[l].pc \in OnModule
      PROVE  /\ \A k \in Lanes \ {l} : lane'[k] = lane[k]
             /\ lane'[l].kind = lane[l].kind /\ lane'[l].aborted = lane[l].aborted
             /\ lane'[l].pc = pc
             /\ lane'[l].todo = IF lane'[l].pc = "next" /\ lane[l].pc \in OnModule
                                THEN Tail(lane[l].todo) ELSE lane[l].todo
  BY <1>l, <1>f DEF Finish, LaneType
<1>5. CASE NextModule(l)
  <2>1. /\ lane[l].pc = "next" /\ UNCHANGED <<docker, pg, diskVars, once, handlers, node, torn>>
    BY <1>5 DEF NextModule, At
  <2>2. PICK pc \in {"done", "create", "prisma"} : Goes(l, pc)
    BY <1>5 DEF NextModule
  <2>3. pc = "prisma" => Module(l) \in created \cup databases
    BY <1>l, <1>5, <2>2, <1>g DEF NextModule
  <2>4. created' \subseteq created \cup databases'
    BY <1>5, <2>1 DEF NextModule, diskVars
  <2> QED
    BY <1>g, <2>1, <2>2, <2>3, <2>4 DEF Shape, Passes, diskVars, OnModule
<1>6. CASE CreateDatabase(l)
  <2>1. /\ lane[l].pc = "create"
        /\ UNCHANGED <<docker, pg, applied, schema, tree, client, once, handlers, node, torn>>
    BY <1>6 DEF CreateDatabase, At
  <2>2. PICK pc \in {"failed", "prisma"} : Goes(l, pc)
    BY <1>6 DEF CreateDatabase
  <2>3. /\ pc = "prisma" => Module(l) \in databases'
        /\ databases \subseteq databases' /\ created' \subseteq created \cup databases'
    BY <1>l, <1>6, <2>2, <1>g DEF CreateDatabase
  <2> QED
    BY <1>g, <2>1, <2>2, <2>3 DEF Shape, Passes, OnModule, Resources
<1>7. CASE CopyToWorkspace(l)
  <2> DEFINE m == Module(l)
             ws == [schema |-> schema[m], tree |-> tree[m], whole |-> Whole(m)]
  <2>1. lane[l].pc = "copy" /\ UNCHANGED <<docker, pg, diskVars, processVars, torn>>
        /\ lane' = [lane EXCEPT ![l].pc = "chown", ![l].ws = ws]
    BY <1>7 DEF CopyToWorkspace, At
  <2>2. ws.whole = Whole(m)
    OBVIOUS
  <2> HIDE DEF ws
  <2>3. /\ \A k \in Lanes \ {l} : lane'[k] = lane[k]
        /\ lane'[l].kind = lane[l].kind /\ lane'[l].aborted = lane[l].aborted
        /\ lane'[l].todo = lane[l].todo /\ lane'[l].pc = "chown" /\ lane'[l].ws = ws
    BY <1>l, <2>1 DEF LaneType
  <2> QED
    BY <2>1, <2>2, <2>3 DEF Shape, Passes, diskVars, processVars, OnModule
<1>8. CASE Chown(l)
  <2>1. lane[l].pc = "chown" /\ Goes(l, "exec") /\ ~lane[l].aborted
        /\ UNCHANGED <<docker, pg, diskVars, processVars, torn>>
    BY <1>8 DEF Chown, At
  <2> QED
    BY <1>g, <2>1 DEF Shape, Passes, diskVars, processVars, OnModule
<1>9. CASE Prisma(l)
  <2> DEFINE wsTree == lane[l].ws.tree \cup {lane[l].ws.schema}
  <2>1. lane[l].pc = "exec"
        /\ UNCHANGED <<docker, pg, databases, schema, tree, client, processVars, torn>>
    BY <1>9 DEF Prisma, At
  <2>2. Goes(l, "chown2") \/ lane' = [lane EXCEPT ![l].pc = "chown2", ![l].ws.tree = wsTree]
    BY <1>9 DEF Prisma
  <2> HIDE DEF wsTree
  <2>3. /\ \A k \in Lanes \ {l} : lane'[k] = lane[k]
        /\ lane'[l].kind = lane[l].kind /\ lane'[l].aborted = lane[l].aborted
        /\ lane'[l].todo = lane[l].todo /\ lane'[l].pc = "chown2"
    BY <1>l, <1>g, <2>2 DEF LaneType
  <2> QED
    BY <2>1, <2>3 DEF Shape, Passes, diskVars, processVars, OnModule
<1>10. CASE Chown2(l)
  <2>1. lane[l].pc = "chown2" /\ lane' = Finish(l, Writes(l)) /\ ~lane[l].aborted
        /\ UNCHANGED <<docker, pg, diskVars, processVars, torn>>
    BY <1>10 DEF Chown2, At
  <2>2. Writes(l) \in {"next", "empty", "emptyClient"}
    BY DEF Writes
  <2>3. lane[l].pc \in OnModule
    BY <2>1 DEF OnModule
  <2> QED
    BY <1>f, <2>1, <2>2, <2>3 DEF Shape, Passes, diskVars, processVars
<1>11. CASE LaneFails(l)
  <2>1. lane[l].pc \in OnModule \ {"prisma"} /\ Goes(l, "failed") /\ torn \subseteq torn'
        /\ UNCHANGED <<docker, pg, diskVars, processVars>>
    BY <1>11 DEF LaneFails, OnModule
  <2> QED
    BY <1>g, <2>1 DEF Shape, Passes, diskVars, processVars, OnModule, Resources
<1>12. CASE EmptyMigrations(l)
  <2>1. lane[l].pc = "empty" /\ Goes(l, "back")
        /\ UNCHANGED <<docker, pg, databases, applied, schema, client, processVars, torn>>
    BY <1>12 DEF EmptyMigrations, At
  <2> QED
    BY <1>g, <2>1 DEF Shape, Passes, processVars, OnModule
<1>13. CASE CopyMigrationsBack(l) \/ CopyClient(l)
  <2>1. lane[l].pc \in {"back", "copyClient"} /\ lane' = Finish(l, "next")
        /\ UNCHANGED <<docker, pg, databases, applied, schema, processVars, torn>>
    BY <1>13 DEF CopyMigrationsBack, CopyClient, At
  <2>2. lane[l].pc \in OnModule
    BY <2>1 DEF OnModule
  <2> QED
    BY <1>f, <2>1, <2>2 DEF Shape, Passes, processVars
<1>14. CASE EmptyClient(l)
  <2>1. lane[l].pc = "emptyClient" /\ Goes(l, "copyClient")
        /\ UNCHANGED <<docker, pg, databases, applied, schema, tree, processVars, torn>>
    BY <1>14 DEF EmptyClient, At
  <2> QED
    BY <1>g, <2>1 DEF Shape, Passes, processVars, OnModule
<1> QED
  BY <1>2, <1>3, <1>4, <1>5, <1>6, <1>7, <1>8, <1>9, <1>10, <1>11, <1>12, <1>13, <1>14
     DEF LaneRuns

-----------------------------------------------------------------------------
\* Outside of these stages the lanes of the run are not awaited any more.
Quiet == {"none", "over", "failed", "ending", "dying"}

\* What a process shares belongs to lanes that wait for it: when the last lanes
\* are over nothing is being created, and so the container that the shutdown
\* removes is the only one there is.
Running ==
  /\ command = "none" => /\ node # "up" /\ \A r \in Resources : once[r] = "empty"
                         /\ \A l \in Lanes : Over(l)
  /\ \A r \in Resources : once[r] \in UnderWay => \E l \in Lanes : At(l, r)
  /\ stage \in Quiet => \A l \in MyLanes : Over(l)
  /\ \A l \in OtherLanes : Over(l) \/ (lane[l].aborted /\ world.watch)
  /\ stage \in {"ending", "dying"} => ~world.watch /\ node # "up"
  /\ node = "up" => "node" \in handlers
  /\ once["prisma"] \in {"started", "done"} /\ stage \notin {"ending", "dying"} => node = "up"

\* What a lane has awaited is there.
Prepared ==
  /\ once["postgres"] = "done" => pg = "up"
  /\ created \subseteq databases
  /\ \A l \in Lanes :
       /\ lane[l].pc \notin {"postgres", "done", "failed"} => once["postgres"] = "done"
       /\ lane[l].pc \in OnModule \ {"create", "prisma"} => once["prisma"] = "done"
       /\ lane[l].pc \in OnModule \ {"create"} => Module(l) \in databases

\* While the steps of a build run, the modules are loaded and whole.
Copied ==
  /\ stage \notin {"none", "ending", "dying"} => at \in {"loaded", "cleaned"}
  /\ registry = "git" /\ at \in {"module", "empty", "copy"} => clone.tree # 0
  /\ \A m \in Modules : schema[m] = 0 =>
       world.db # <<>> /\ m = world.db[1] /\ at \notin {"restore", "check", "loaded", "cleaned"}

\* Two lanes of a run never work on the same module, one of an aborted run may;
\* what that one still writes is torn.
Apart ==
  /\ \A l \in MyLanes : ~Over(l) =>
       IF stage = "db" THEN l = TheLane ELSE lane[l].todo \in {<<>>, <<l[2]>>}
  /\ \A l \in Lanes : lane[l].aborted /\ Writing(l) => Module(l) \in torn
  /\ \A l \in Lanes : At(l, "exec") \/ (At(l, "chown") /\ ~lane[l].aborted) =>
       lane[l].ws.whole \/ Module(l) \in torn

CInv == Running /\ Prepared /\ Copied /\ Apart

-----------------------------------------------------------------------------
\* A run's lanes are those of its slot.
LEMMA LanesOfARun ==
  CliTypes => /\ \A l \in Lanes : l[1] \in {0, 1} /\ l[2] \in Modules /\ l = <<l[1], l[2]>>
              /\ MyLanes \subseteq Lanes /\ OtherLanes = {l \in Lanes : l[1] # slot}
              /\ TheLane \in MyLanes
BY LanesAssumption, WorldAssumption DEF CliTypes, MyLanes, OtherLanes, TheLane

\* When steps are planned, or a command's work begins, the lanes of the run are
\* over, and those that begin are apart.
Fresh(k) ==
  \/ lane'[k].pc \in {"done", "failed"}
  \/ /\ lane'[k].pc = "postgres" /\ ~lane'[k].aborted
     /\ stage' \notin Quiet
     /\ IF stage' = "db" THEN k = TheLane ELSE lane'[k].todo \in {<<>>, <<k[2]>>}
LanesBegun ==
  /\ StepsOver
  /\ UNCHANGED <<docker, pg, diskVars, processVars, torn, world, command, slot>>
  /\ \A k \in OtherLanes : lane'[k] = lane[k]
  /\ \A k \in MyLanes : Fresh(k)
  /\ stage' \notin {"none", "ending", "dying"}

\* A build or a db command begins its lanes when no other lane is awaited.
LEMMA RunBegins ==
  ASSUME Typed, Ordered, Running, Build \/ RunCommand
  PROVE  LanesBegun
<1>t. /\ lane \in [Lanes -> LaneType] /\ CliTypes /\ TheLane \in MyLanes /\ MyLanes \subseteq Lanes
      /\ \A l \in Lanes : l[2] \in Modules /\ <<l[2]>> \in Seq(Modules)
      /\ <<>> \in Seq(Modules) /\ world.db \in Seq(Modules)
  BY LanesOfARun, WorldTyped DEF Typed, DbTypes
<1>p. ASSUME NEW kind \in {"generate", "deploy", "dev"}, NEW modules, Plan(kind, modules),
             stage' \notin Quiet, stage' # "db"
      PROVE  (\A k \in OtherLanes : lane'[k] = lane[k]) /\ \A k \in MyLanes : Fresh(k)
  <2>1. \A k \in OtherLanes : lane'[k] = lane[k]
    BY <1>p DEF Plan, OtherLanes
  <2>2. ASSUME NEW k \in MyLanes PROVE Fresh(k)
    <3>1. lane'[k] = NewLane(kind, <<k[2]>>) \/ lane'[k] = NoLane
      BY <1>p, <1>t DEF Plan
    <3>2. kind \in LaneKinds /\ <<k[2]>> \in Seq(Modules)
      BY <1>t DEF LaneKinds
    <3>3. CASE lane'[k] = NoLane
      BY <3>3, NewLanesTyped DEF Fresh
    <3>4. CASE lane'[k] = NewLane(kind, <<k[2]>>)
      <4> DEFINE todo == <<k[2]>>
      <4>1. todo \in Seq(Modules) /\ lane'[k] = NewLane(kind, todo)
        BY <3>2, <3>4
      <4> HIDE DEF todo
      <4>2. lane'[k].pc = "postgres" /\ lane'[k].aborted = FALSE /\ lane'[k].todo = todo
        BY <3>2, <4>1, NewLanesTyped
      <4> QED
        BY <1>p, <4>2 DEF Fresh, todo
    <3> QED
      BY <3>1, <3>3, <3>4
  <2> QED
    BY <2>1, <2>2
<1>s. ASSUME UNCHANGED lane, StepsOver
      PROVE  (\A k \in OtherLanes : lane'[k] = lane[k]) /\ \A k \in MyLanes : Fresh(k)
  BY <1>s, <1>t DEF StepsOver, Over, Fresh
<1>1. CASE PlanGenerate
  <2>1. StepsOver /\ stage' = "generate" /\ UNCHANGED <<world, command, slot>> /\ Current
    BY <1>1 DEF PlanGenerate, StepsDone
  <2> QED
    BY <1>1, <1>p, <2>1 DEF PlanGenerate, LanesBegun, Current, Quiet
<1>2. CASE PlanModule \/ BuildOver
  <2>1. StepsOver /\ stage' \in {"module", "over"} /\ UNCHANGED <<world, command, slot, lane>> /\ Current
    BY <1>2 DEF PlanModule, BuildOver, Wait, StepsDone
  <2> QED
    BY <1>s, <2>1 DEF LanesBegun, Current
<1>3. CASE ModuleFails \/ RunFails \/ DbOver
  <2>1. StepsOver /\ stage' \in {"failed", "over"} /\ UNCHANGED <<world, command, slot, migrateVars>>
    BY <1>3 DEF ModuleFails, RunFails, DbOver, StepsDone
  <2> QED
    BY <1>s, <2>1 DEF LanesBegun, migrateVars, processVars, diskVars
<1>4. CASE PlanDeploy
  <2>1. /\ StepsOver /\ stage' = (IF command = "build" THEN "over" ELSE "deploy")
        /\ UNCHANGED <<world, command, slot>> /\ Current
        /\ IF command = "build" THEN UNCHANGED lane ELSE Plan("deploy", Deployable)
    BY <1>4 DEF PlanDeploy, Wait, StepsDone
  <2> QED
    BY <1>p, <1>s, <2>1 DEF LanesBegun, Current, Quiet
<1>5. CASE PlanDev
  <2>1. StepsOver /\ stage' = "dev" /\ UNCHANGED <<world, command, slot>> /\ Current
    BY <1>5 DEF PlanDev, Wait, StepsDone
  <2> QED
    BY <1>5, <1>p, <2>1 DEF PlanDev, LanesBegun, Current, Quiet
<1>6. CASE RunCommand
  <2>1. /\ StepsOver /\ Current /\ UNCHANGED <<world, command, slot>>
    BY <1>6 DEF RunCommand, Running, StepsOver, Quiet
  <2>o. ASSUME NEW x, Only(TheLane, x),
               \/ x = NoLane
               \/ /\ x.pc = "postgres" /\ ~x.aborted /\ stage' \notin Quiet
                  /\ (stage' # "db" => x.todo = <<>>)
        PROVE  (\A k \in OtherLanes : lane'[k] = lane[k]) /\ \A k \in MyLanes : Fresh(k)
    <3>1. \A k \in OtherLanes : lane'[k] = lane[k]
      BY <2>o, <1>t DEF Only, OtherLanes
    <3>2. ASSUME NEW k \in MyLanes PROVE Fresh(k)
      <4>1. lane'[k] = IF k = TheLane THEN x ELSE NoLane
        BY <2>o, <1>t DEF Only
      <4> QED
        BY <2>o, <4>1, NewLanesTyped DEF Fresh
    <3> QED
      BY <3>1, <3>2
  <2>2. CASE command \in Builds
    <3>1. stage' = "ensure" /\ Only(TheLane, NewLane("ensure", <<>>))
      BY <1>6, <2>2 DEF RunCommand, Builds, DbCommands
    <3>2. "ensure" \in LaneKinds
      BY DEF LaneKinds
    <3> DEFINE none == <<>>
               x == NewLane("ensure", none)
    <3>n. none \in Seq(Modules)
      BY <1>t
    <3> HIDE DEF none
    <3>3. x.pc = "postgres" /\ x.aborted = FALSE /\ x.todo = none
      BY <3>n, <3>2, NewLanesTyped
    <3> USE DEF none
    <3> HIDE DEF x
    <3>4. (\A k \in OtherLanes : lane'[k] = lane[k]) /\ \A k \in MyLanes : Fresh(k)
      BY <2>o, <3>1, <3>3 DEF Quiet, x
    <3> QED
      BY <2>1, <3>1, <3>4 DEF LanesBegun, Current
  <2>3. CASE command \in DbCommands
    <3>1. /\ stage' = IF command \in {"dev", "createOnly"} /\ IsExternal THEN "failed" ELSE "db"
          /\ Only(TheLane, IF stage' = "db" THEN NewLane(command, world.db) ELSE NoLane)
      BY <1>6, <2>3 DEF RunCommand, Builds, DbCommands
    <3>2. command \in LaneKinds
      BY <2>3 DEF LaneKinds, DbCommands
    <3>3. (\A k \in OtherLanes : lane'[k] = lane[k]) /\ \A k \in MyLanes : Fresh(k)
      <4>1. CASE stage' = "db"
        BY <1>t, <2>o, <3>1, <3>2, <4>1, NewLanesTyped DEF Quiet
      <4>2. CASE stage' # "db"
        BY <2>o, <3>1, <4>2
      <4> QED
        BY <4>1, <4>2
    <3> QED
      BY <2>1, <3>1, <3>3 DEF LanesBegun, Current
  <2>4. CASE command = "clean"
    <3>1. stage' = "over" /\ UNCHANGED lane
      BY <1>6, <2>4 DEF RunCommand, Builds, DbCommands
    <3> QED
      BY <1>s, <2>1, <3>1 DEF LanesBegun, Current
  <2> QED
    BY <1>6, <2>2, <2>3, <2>4 DEF RunCommand
<1> QED
  BY <1>1, <1>2, <1>3, <1>4, <1>5, <1>6 DEF Build

\* The steps of the user and of a load leave lanes and process alone.
LEMMA OutsideSteps ==
  ASSUME Typed, Ordered, User \/ Load \/ UNCHANGED vars
  PROVE  /\ UNCHANGED <<pg, databases, applied, client, processVars, lane, torn>>
         /\ UNCHANGED <<world, command, slot, stage, registry>>
<1>1. CASE User
  BY <1>1 DEF User, Publish, Meddle, EditSchema, StartDocker, migrateVars, diskVars, processVars,
              cliVars, projectVars
<1>2. CASE Load
  <2>1. CASE (Clone \/ Discard \/ Fetch \/ Checkout \/ SaveGen \/ RestoreGen \/ CheckModule)
             /\ UNCHANGED <<migrateVars, cliVars>>
    BY <2>1 DEF Clone, Discard, Fetch, Checkout, SaveGen, RestoreGen, CheckModule, migrateVars,
                diskVars, cliVars
  <2>2. CASE (EmptyModule \/ CopyModule) /\ UNCHANGED cliVars
             /\ (UNCHANGED migrateVars \/ ExternalDb(world.db[1], ext'.version))
    BY <2>2 DEF EmptyModule, CopyModule, ExternalDb, migrateVars, diskVars, cliVars
  <2> QED
    BY <1>2, <2>1, <2>2 DEF Load
<1>3. CASE UNCHANGED vars
  BY <1>3 DEF vars, migrateVars, diskVars, projectVars, cliVars
<1> QED
  BY <1>1, <1>2, <1>3

\* Every step keeps what lanes share with lanes that wait for it.
LEMMA RunningStep == Typed /\ Ordered /\ Running /\ [Next]_vars => Running'
<1> SUFFICES ASSUME Typed, Ordered, Running, [Next]_vars PROVE Running'
  OBVIOUS
<1>t. /\ DbTypes /\ CliTypes /\ lane \in [Lanes -> LaneType]
      /\ \A l \in Lanes : l[1] \in {0, 1} /\ (l \in MyLanes <=> l[1] = slot)
      /\ MyLanes \subseteq Lanes /\ OtherLanes = {l \in Lanes : l[1] # slot}
  BY LanesOfARun DEF Typed, DbTypes, MyLanes
<1>1. CASE User \/ Load \/ UNCHANGED vars
  BY <1>1, OutsideSteps DEF Running, processVars, MyLanes, OtherLanes, Over, At
<1>2. CASE StartCommand
  <2>1. /\ command' # "none" /\ stage' = "none" /\ node = "none" /\ command = "none"
        /\ UNCHANGED <<migrateVars, world, slot>>
    BY <1>2, WorldTyped DEF StartCommand, Commands, DbCommands
  <2> QED
    BY <1>t, <2>1 DEF Running, migrateVars, processVars, MyLanes, OtherLanes, Over, At, Resources, Quiet
<1>3. CASE Change
  <2>1. /\ lane' = [l \in Lanes |-> IF Over(l) THEN lane[l] ELSE [lane[l] EXCEPT !.aborted = TRUE]]
        /\ slot' = 1 - slot /\ stage' = "none" /\ UNCHANGED <<processVars, world, command>>
        /\ command # "none" /\ world.watch /\ \A l \in OtherLanes : Over(l)
    BY <1>3 DEF Change, Builds
  <2>2. \A l \in Lanes : lane'[l].pc = lane[l].pc /\ (Over(l) \/ lane'[l].aborted)
    BY <1>t, <2>1 DEF LaneType
  <2>3. MyLanes' \subseteq OtherLanes
    BY <1>t, <2>1 DEF MyLanes, CliTypes
  <2>4. \A l \in MyLanes' : Over(l)'
    BY <1>t, <2>1, <2>2, <2>3 DEF Over
  <2>5. \A l \in OtherLanes' : Over(l)' \/ (lane'[l].aborted /\ world.watch)
    BY <2>1, <2>2 DEF Over, OtherLanes
  <2>6. \A r \in Resources : \A l \in Lanes : At(l, r) => At(l, r)'
    BY <2>2 DEF At
  <2>7. UNCHANGED <<once, handlers, node, world, command>> /\ stage \notin {"ending", "dying"}
    BY <2>1 DEF processVars, Running
  <2> QED
    BY <2>1, <2>4, <2>5, <2>6, <2>7 DEF Running
<1>4. CASE Kill
  <2>1. command' = "none" /\ stage' = "none" /\ node' = "none" /\ ProcessEnds
    BY <1>4 DEF Kill
  <2>2. \A l \in Lanes : lane'[l].pc = "done"
    BY <2>1, NewLanesTyped DEF ProcessEnds
  <2> QED
    BY <2>1, <2>2 DEF Running, ProcessEnds, Over, MyLanes, OtherLanes, Resources, UnderWay
<1>5. CASE Exit
  <2>1. command' = "none" /\ stage' = "none" /\ node' = node /\ ProcessEnds
        /\ stage \in {"ending", "dying"}
    BY <1>5 DEF Exit
  <2>2. \A l \in Lanes : lane'[l].pc = "done"
    BY <2>1, NewLanesTyped DEF ProcessEnds
  <2>3. node' # "up"
    BY <2>1 DEF Running
  <2> QED
    BY <2>1, <2>2, <2>3 DEF Running, ProcessEnds, Over, MyLanes, OtherLanes, Resources, UnderWay
<1>6. CASE RunShutdown
  <2>1. /\ command # "none" /\ ~world.watch /\ stage \in Quiet /\ stage' \in {"ending", "dying"}
        /\ node' = IF "node" \in handlers THEN "removing" ELSE node
        /\ UNCHANGED <<once, handlers, lane, world, command, slot>>
    BY <1>6 DEF RunShutdown, CommandOver, CallHandlers, Quiet
  <2>2. node' # "up"
    BY <2>1 DEF Running
  <2>3. MyLanes' = MyLanes /\ OtherLanes' = OtherLanes
    BY <2>1 DEF MyLanes, OtherLanes
  <2> QED
    BY <2>1, <2>2, <2>3 DEF Running, Quiet, Over, At
<1>7. CASE Build \/ RunCommand
  <2>1. LanesBegun
    BY <1>7, RunBegins
  <2>2. command # "none"
    BY <1>7 DEF Ordered, RunCommand, Build, PlanGenerate, PlanModule, ModuleFails, PlanDeploy,
                PlanDev, BuildOver, RunFails, DbOver
  <2>3. \A l \in Lanes : (l \in MyLanes => Over(l)) /\ (~Over(l) => lane'[l] = lane[l])
    BY <1>t, <2>1 DEF LanesBegun, StepsOver
  <2>4. UNCHANGED <<once, handlers, node, world, command, slot>>
        /\ stage' \notin {"none", "ending", "dying"}
    BY <2>1 DEF LanesBegun, processVars
  <2>5. MyLanes' = MyLanes /\ OtherLanes' = OtherLanes
    BY <2>4 DEF MyLanes, OtherLanes
  <2>6. stage' \in Quiet => \A l \in MyLanes : Over(l)'
    BY <2>1 DEF LanesBegun, Fresh, Over
  <2>7. \A l \in OtherLanes : lane'[l] = lane[l]
    BY <2>1 DEF LanesBegun
  <2>8. \A r \in Resources : \A l \in Lanes : At(l, r) => At(l, r)'
    BY <2>3 DEF At, Over, Resources
  <2>9. stage \notin {"ending", "dying"}
    BY <1>7 DEF RunCommand, Build, PlanGenerate, PlanModule, ModuleFails, PlanDeploy,
                PlanDev, BuildOver, RunFails, DbOver
  <2> QED
    BY <2>2, <2>4, <2>5, <2>6, <2>7, <2>8, <2>9 DEF Running, Over
<1>8. CASE CreationStep
  <2>1. /\ Creation /\ UNCHANGED <<world, command, slot, stage, lane>>
    BY <1>8 DEF CreationStep, cliVars, Creation, RemovePostgres, RunPostgres, PostgresReady, Connect, StartNode,
                InstallPrisma, CreationFails
  <2>2. PICK r \in Resources : /\ once[r] \in UnderWay
                               /\ \A q \in Resources \ {r} : once'[q] = once[q]
    BY <1>t, <2>1 DEF Creation, RemovePostgres, RunPostgres, PostgresReady, Connect, StartNode, InstallPrisma,
                CreationFails, Becomes, DbTypes, Resources, UnderWay
  <2>3. command # "none" /\ \E l \in Lanes : At(l, r)
    BY <2>2 DEF Running, UnderWay
  <2>4. stage \notin {"ending", "dying"}
    <3>1. PICK l \in Lanes : ~Over(l)
      BY <2>3 DEF At, Over, Resources
    <3> QED
      BY <1>t, <3>1 DEF Running, Quiet
  <2>5. /\ node' = "up" => "node" \in handlers'
        /\ once'["prisma"] \in {"started", "done"} => node' = "up"
    BY <1>t, <2>1, <2>4 DEF Creation, RemovePostgres, RunPostgres, PostgresReady, Connect, StartNode,
         InstallPrisma, CreationFails, Becomes, DbTypes, Resources, Running
  <2>6. \A q \in Resources : once'[q] \in UnderWay =>
          \E l \in Lanes : At(l, q)
    BY <2>2, <2>3 DEF Running
  <2> QED
    BY <2>1, <2>3, <2>4, <2>5, <2>6 DEF Running, MyLanes, OtherLanes, Over, At
<1>9. CASE ContainerStep
  <2>1. /\ UNCHANGED node \/ (node = "removing" /\ node' = "none")
        /\ UNCHANGED <<once, handlers, lane, world, command, slot, stage>>
    BY <1>9 DEF ContainerStep, NodeRemoved, PostgresDies, processVars, cliVars
  <2> QED
    BY <1>t, <2>1 DEF Running, MyLanes, OtherLanes, Over, At
<1>10. ASSUME NEW l \in Lanes, LaneStep(l) PROVE Running'
  <2>1. /\ Shape(l) /\ (Asks(l) \/ (UNCHANGED once /\ Passes(l, lane[l].pc, lane'[l].pc)))
        /\ UNCHANGED <<world, command, slot, stage>>
    BY <1>t, <1>10, LaneMoves DEF LaneStep, cliVars
  <2>2. ~Over(l) /\ \A k \in Lanes : Over(k) => lane'[k] = lane[k]
    BY <2>1 DEF Shape, Over
  <2>3. command # "none" /\ (stage \in Quiet => l \notin MyLanes)
        /\ stage \notin {"ending", "dying"}
    BY <1>t, <2>2 DEF Running, Quiet
  <2>4. UNCHANGED <<node, handlers>> /\ lane'[l].aborted = lane[l].aborted
    BY <2>1 DEF Shape
  <2>5. \A r \in Resources : once'[r] \in UnderWay =>
          \E k \in Lanes : At(k, r)'
    <3>1. CASE Asks(l)
      <4>1. lane' = lane \/ \A k \in Lanes : lane'[k] = lane[k]
        BY <2>1, <3>1 DEF Shape, Asks
      <4> QED
        BY <1>t, <3>1, <4>1 DEF Asks, Running, At, DbTypes, UnderWay
    <3>2. CASE UNCHANGED once /\ Passes(l, lane[l].pc, lane'[l].pc)
      <4> TAKE r \in Resources
      <4> HAVE once'[r] \in UnderWay
      <4>1. PICK k \in Lanes : lane[k].pc = r
        BY <3>2 DEF Running, At
      <4>2. k # l
        BY <3>2, <4>1 DEF Passes, Resources, UnderWay
      <4> QED
        BY <2>1, <4>1, <4>2 DEF Shape, At
    <3> QED
      BY <2>1, <3>1, <3>2
  <2>6. once'["prisma"] \in {"started", "done"} => once["prisma"] \in {"started", "done"}
    BY <1>t, <2>1 DEF Asks, DbTypes, Resources
  <2>7. (stage \in Quiet => \A k \in MyLanes : Over(k)')
        /\ \A k \in OtherLanes : Over(k)' \/ (lane'[k].aborted /\ world.watch)
    <3>1. \A k \in Lanes \ {l} : lane'[k] = lane[k]
      BY <2>1 DEF Shape
    <3> QED
      BY <1>t, <2>2, <2>3, <2>4, <3>1 DEF Running, Over
  <2> QED
    BY <2>1, <2>3, <2>4, <2>5, <2>6, <2>7 DEF Running, MyLanes, OtherLanes
<1> QED
  BY <1>1, <1>2, <1>3, <1>4, <1>5, <1>6, <1>7, <1>8, <1>9, <1>10 DEF Next, Process, CommandStep

\* Every step keeps what lanes have awaited.
LEMMA PreparedStep == Typed /\ Ordered /\ Running /\ Prepared /\ [Next]_vars => Prepared'
<1> SUFFICES ASSUME Typed, Ordered, Running, Prepared, [Next]_vars PROVE Prepared'
  OBVIOUS
<1>t. DbTypes /\ CliTypes /\ lane \in [Lanes -> LaneType] /\ MyLanes \subseteq Lanes
      /\ OtherLanes = {l \in Lanes : l \notin MyLanes}
  BY DEF Typed, DbTypes, MyLanes, OtherLanes
<1>1. CASE User \/ Load \/ UNCHANGED vars
  BY <1>1, OutsideSteps DEF Prepared, processVars, Module
<1>2. CASE StartCommand
  <2>1. UNCHANGED <<pg, databases, once, created, lane>>
    BY <1>2 DEF StartCommand, migrateVars, diskVars, processVars
  <2> QED
    BY <2>1 DEF Prepared, Module
<1>3. CASE Change
  <2>1. /\ lane' = [l \in Lanes |-> IF Over(l) THEN lane[l] ELSE [lane[l] EXCEPT !.aborted = TRUE]]
        /\ UNCHANGED <<pg, databases, once, created>>
    BY <1>3 DEF Change, processVars, diskVars
  <2>2. \A l \in Lanes : lane'[l].pc = lane[l].pc /\ lane'[l].todo = lane[l].todo
    BY <1>t, <2>1 DEF LaneType
  <2> QED
    BY <2>1, <2>2 DEF Prepared, Module
<1>4. CASE Kill \/ Exit
  <2>1. ProcessEnds /\ UNCHANGED <<pg, databases>>
    BY <1>4 DEF Kill, Exit, diskVars
  <2>2. \A l \in Lanes : lane'[l].pc = "done"
    BY <2>1, NewLanesTyped DEF ProcessEnds
  <2> QED
    BY <2>1, <2>2 DEF Prepared, ProcessEnds, OnModule, Resources
<1>5. CASE RunShutdown
  <2>1. UNCHANGED <<pg, databases, once, created, lane>>
    BY <1>5 DEF RunShutdown, diskVars
  <2> QED
    BY <2>1 DEF Prepared, Module
<1>6. CASE Build \/ RunCommand
  <2>1. LanesBegun
    BY <1>6, RunBegins
  <2>2. UNCHANGED <<pg, databases, once, created>>
    BY <2>1 DEF LanesBegun, processVars, diskVars
  <2>3. \A l \in Lanes : lane'[l] = lane[l] \/ lane'[l].pc \in {"postgres", "done", "failed"}
    BY <1>t, <2>1 DEF LanesBegun, Fresh
  <2> QED
    BY <2>2, <2>3 DEF Prepared, Module, OnModule
<1>7. CASE CreationStep
  <2>1. Creation /\ UNCHANGED <<databases, created, lane>>
    BY <1>7 DEF CreationStep, Creation, RemovePostgres, RunPostgres, PostgresReady, Connect, StartNode,
                InstallPrisma, CreationFails, diskVars
  <2>2. \A r \in Resources : once[r] = "done" => once'[r] = "done"
    BY <1>t, <2>1 DEF Creation, RemovePostgres, RunPostgres, PostgresReady, Connect, StartNode,
                InstallPrisma, CreationFails, Becomes, DbTypes, Resources
  <2>3. once'["postgres"] = "done" => pg' = "up"
    BY <1>t, <2>1 DEF Creation, RemovePostgres, RunPostgres, PostgresReady, Connect, StartNode, InstallPrisma,
                CreationFails, Becomes, DbTypes, Resources, Prepared
  <2> QED
    BY <2>1, <2>2, <2>3 DEF Prepared, Module, Resources
<1>8. CASE ContainerStep
  <2>1. /\ UNCHANGED <<databases, once, created, lane>>
        /\ UNCHANGED pg \/ once["postgres"] # "done"
    BY <1>8 DEF ContainerStep, NodeRemoved, PostgresDies, processVars, diskVars
  <2> QED
    BY <2>1 DEF Prepared, Module
<1>9. ASSUME NEW l \in Lanes, LaneStep(l) PROVE Prepared'
  <2>1. /\ Shape(l) /\ (Asks(l) \/ (UNCHANGED once /\ Passes(l, lane[l].pc, lane'[l].pc)))
        /\ GoodLane(lane[l])
    BY <1>t, <1>9, LaneMoves DEF LaneStep, DbTypes
  <2>2. /\ UNCHANGED pg /\ databases \subseteq databases' /\ created' \subseteq databases'
        /\ \A k \in Lanes \ {l} : lane'[k] = lane[k]
    BY <2>1 DEF Shape, Prepared
  <2>3. \A r \in Resources : once[r] = "done" <=> once'[r] = "done"
    BY <1>t, <2>1 DEF Asks, DbTypes
  <2>4. /\ lane'[l].pc \notin {"postgres", "done", "failed"} => once["postgres"] = "done"
        /\ lane'[l].pc \in OnModule \ {"create", "prisma"} => once["prisma"] = "done"
    <3>1. CASE Asks(l)
      BY <3>1 DEF Asks, Prepared
    <3>2. CASE Passes(l, lane[l].pc, lane'[l].pc)
      BY <3>2 DEF Passes, Prepared, OnModule
    <3> QED
      BY <2>1, <3>1, <3>2
  <2>5. lane'[l].pc \in OnModule \ {"create"} => Module(l)' \in databases'
    <3>1. CASE Asks(l)
      BY <2>2, <3>1 DEF Asks, Prepared, Module
    <3>2. CASE Passes(l, lane[l].pc, lane'[l].pc)
      <4>1. lane'[l].pc \in OnModule => lane'[l].todo = lane[l].todo
        BY <2>1 DEF Shape, OnModule
      <4>2. lane'[l].pc \in OnModule \ {"create"} => Module(l) \in databases'
        BY <2>2, <3>2 DEF Passes, Prepared, OnModule
      <4> QED
        BY <4>1, <4>2 DEF Module
    <3> QED
      BY <2>1, <3>1, <3>2
  <2> QED
    BY <2>2, <2>3, <2>4, <2>5 DEF Prepared, Resources, Module
<1> QED
  BY <1>1, <1>2, <1>3, <1>4, <1>5, <1>6, <1>7, <1>8, <1>9 DEF Next, Process, CommandStep

\* Every step keeps the modules loaded while the steps of a build run.
LEMMA CopiedStep == Typed /\ Ordered /\ Loads /\ Copied /\ [Next]_vars => Copied'
<1> SUFFICES ASSUME Typed, Ordered, Loads, Copied, [Next]_vars PROVE Copied'
  OBVIOUS
<1>t. /\ DbTypes /\ CliTypes /\ LocalSchema /\ ext \in ModuleType /\ clone \in CloneType
      /\ head \in 1..MaxCommit /\ wanted.kind \in Kinds /\ wanted.commit \in Commits
  BY RefsTyped DEF Typed, Loads, ProjectTypeOK, ModuleType, CloneType
<1>1. CASE User
  <2>1. CASE (Publish \/ Meddle) /\ UNCHANGED <<migrateVars, cliVars>>
    <3>1. UNCHANGED <<registry, at, stage, world, schema>>
      BY <2>1 DEF Publish, Meddle, loadVars, migrateVars, diskVars, cliVars
    <3>2. at \in {"module", "empty", "copy"} => UNCHANGED clone
      BY <2>1 DEF Publish, Meddle
    <3> QED
      BY <3>1, <3>2 DEF Copied
  <2>2. ASSUME NEW m \in Modules, EditSchema(m) PROVE Copied'
    <3>1. UNCHANGED <<registry, at, clone, stage, world>> /\ schema' = [schema EXCEPT ![m] = @ + 1]
      BY <2>2 DEF EditSchema, projectVars, loadVars
    <3>2. schema[m] \in Nat
      BY <1>t DEF DbTypes
    <3>3. \A n \in Modules : schema'[n] = 0 => schema[n] = 0
      BY <1>t, <3>1, <3>2 DEF DbTypes
    <3> QED
      BY <3>1, <3>3 DEF Copied
  <2>3. CASE StartDocker /\ UNCHANGED <<projectVars, cliVars>>
    BY <2>3 DEF StartDocker, diskVars, projectVars, loadVars, cliVars, Copied
  <2> QED
    BY <1>1, <2>1, <2>2, <2>3 DEF User
<1>2. CASE StartCommand \/ Change
  <2>1. stage' = "none" /\ BeginLoad /\ UNCHANGED <<schema, world>>
    BY <1>2 DEF StartCommand, Change, migrateVars, diskVars
  <2>2. UNCHANGED <<registry, clone>> /\ at' \in {"module", "discard", "clone"}
        /\ (registry = "git" => at' # "module")
    BY <2>1 DEF BeginLoad
  <2> QED
    BY <2>1, <2>2 DEF Copied
<1>3. CASE Kill \/ Exit
  <2>1. stage' = "none" /\ at' = "idle" /\ UNCHANGED <<schema, world>>
    BY <1>3 DEF Kill, Exit, KillLoad, diskVars
  <2> QED
    BY <2>1 DEF Copied
<1>4. CASE Load
  <2>0. at \notin {"idle", "loaded", "cleaned", "failed"}
    BY <1>4 DEF Load, Clone, Discard, Fetch, Checkout, SaveGen, EmptyModule, CopyModule, RestoreGen,
                CheckModule
  <2>s. stage = "none" /\ stage' = "none" /\ UNCHANGED <<registry, world>>
    <3>1. UNCHANGED <<stage, registry, world>>
      BY <1>4, OutsideSteps
    <3>2. stage = "none"
      BY <2>0 DEF Ordered
    <3> QED
      BY <3>1, <3>2
  <2>1. CASE Clone \/ Discard \/ Fetch \/ Checkout
    <3>1. UNCHANGED schema /\ at' \in {"discard", "fetch", "checkout", "module", "failed"}
      BY <1>4, <2>1 DEF Load, Clone, Discard, Fetch, Checkout, SaveGen, EmptyModule, CopyModule,
                   RestoreGen, CheckModule, Goto, Throw, migrateVars, diskVars
    <3>2. at' = "module" => clone'.tree # 0
      <4>1. CASE Checkout
        <5>1. ASSUME Resolves(wanted) PROVE LocalCommit(wanted) # 0
          BY <1>t, <5>1 DEF Resolves, LocalCommit, Commits, Kinds
        <5> QED
          BY <1>t, <4>1, <5>1 DEF Checkout, CheckedOut, Throw, CloneType
      <4> QED
        BY <2>1, <4>1 DEF Clone, Discard, Fetch, Goto, Throw
    <3> QED
      BY <2>s, <3>1, <3>2 DEF Copied
  <2>2. CASE SaveGen
    <3>1. UNCHANGED <<schema, clone>> /\ at = "module" /\ at' \in {"check", "empty"}
          /\ (registry = "local" <=> at' = "check")
      BY <1>4, <2>2 DEF Load, Clone, Discard, Fetch, Checkout, SaveGen, EmptyModule, CopyModule,
                   RestoreGen, CheckModule, Goto, migrateVars, diskVars
    <3> QED
      BY <1>t, <2>s, <3>1 DEF Copied, LocalSchema
  <2>3. CASE RestoreGen \/ CheckModule
    <3>1. UNCHANGED <<schema, clone>> /\ at \in {"restore", "check"}
          /\ at' \in {"check", "loaded", "failed"}
      BY <1>4, <2>3 DEF Load, Clone, Discard, Fetch, Checkout, SaveGen, EmptyModule, CopyModule,
                   RestoreGen, CheckModule, Goto, Throw, migrateVars, diskVars
    <3> QED
      BY <2>s, <3>1 DEF Copied
  <2>4. CASE EmptyModule \/ CopyModule
    <3>1. UNCHANGED clone /\ \/ at = "empty" /\ at' \in {"copy", "failed"}
                             \/ CopyModule /\ at = "copy" /\ at' \in {"restore", "failed"}
      BY <2>4 DEF EmptyModule, CopyModule, Goto, Throw
    <3>2. CopyModule /\ at' = "restore" => ext'.version # 0
      <4>1. ASSUME CopyModule PROVE SourceVersion # 0
        <5>1. at = "copy" /\ registry # "local"
          BY <1>t, <4>1 DEF CopyModule, LocalSchema
        <5> QED
          BY <1>t, <5>1 DEF SourceVersion, Copied, Loads, Pinned
      <4> QED
        BY <1>t, <4>1 DEF CopyModule, Throw, ModuleType
    <3>3. IF DbModules = {} THEN UNCHANGED schema
          ELSE schema' = [schema EXCEPT ![world.db[1]] = ext'.version]
      BY <1>4, <2>4, <3>1 DEF Load, Clone, Discard, Fetch, Checkout, SaveGen, RestoreGen, CheckModule,
                     ExternalDb, migrateVars, diskVars
    <3>4. CASE DbModules = {}
      <4>1. world.db = <<>>
        <5>1. world.db \in Seq(Modules) /\ ~ 1 \in DOMAIN world.db
          BY <3>4, WorldTyped DEF DbModules
        <5>2. Len(world.db) \in Nat /\ DOMAIN world.db = 1..Len(world.db)
          BY <5>1
        <5>3. Len(world.db) = 0
          BY <5>1, <5>2
        <5> QED
          BY <5>1, <5>3
      <4> QED
        BY <2>s, <3>1, <3>3, <3>4, <4>1 DEF Copied
    <3>5. CASE DbModules # {}
      <4>1. world.db # <<>> /\ world.db[1] \in Modules
        BY <3>5, WorldTyped DEF DbModules
      <4>2. \A m \in Modules : m # world.db[1] => schema'[m] = schema[m]
        BY <1>t, <3>3, <3>5 DEF DbTypes
      <4>3. at' = "restore" => schema'[world.db[1]] # 0
        BY <1>t, <3>1, <3>2, <3>3, <3>5, <4>1 DEF DbTypes
      <4> QED
        BY <2>s, <3>1, <4>1, <4>2, <4>3 DEF Copied
    <3> QED
      BY <3>4, <3>5
  <2> QED
    BY <1>4, <2>1, <2>2, <2>3, <2>4 DEF Load
<1>5. CASE RunCommand
  <2>1. at' \in {"loaded", "cleaned"} /\ at = "loaded" /\ UNCHANGED <<world, registry, schema>>
    BY <1>5 DEF RunCommand, CleanProject, Current, projectVars, loadVars, diskVars
  <2> QED
    BY <2>1 DEF Copied
<1>6. CASE Build
  <2>1. UNCHANGED <<at, registry, clone, schema, world>> /\ stage \notin {"none", "ending", "dying"}
    BY <1>6 DEF Build, PlanGenerate, PlanModule, ModuleFails, PlanDeploy, PlanDev, BuildOver,
                RunFails, DbOver, Wait, GenerateHelper, Current, projectVars, loadVars,
                migrateVars, diskVars
  <2> QED
    BY <2>1 DEF Copied
<1>7. CASE RunShutdown
  <2>1. UNCHANGED <<at, registry, clone, schema, world>> /\ stage' \in {"ending", "dying"}
    BY <1>7 DEF RunShutdown, projectVars, loadVars, diskVars
  <2> QED
    BY <2>1 DEF Copied
<1>8. CASE CreationStep \/ ContainerStep \/ (\E l \in Lanes : LaneStep(l)) \/ UNCHANGED vars
  <2>1. UNCHANGED <<at, registry, clone, stage, world>>
    BY <1>8 DEF CreationStep, ContainerStep, LaneStep, vars, projectVars, cliVars, loadVars
  <2>2. UNCHANGED schema
    <3>1. ASSUME NEW l \in Lanes, LaneStep(l) PROVE UNCHANGED schema
      BY <1>t, <3>1, LaneMoves DEF LaneStep, Shape
    <3> QED
      BY <1>8, <3>1 DEF CreationStep, ContainerStep, NodeRemoved, PostgresDies, Creation, RemovePostgres,
         RunPostgres, PostgresReady, Connect, StartNode, InstallPrisma, CreationFails, vars, migrateVars, diskVars
  <2> QED
    BY <2>1, <2>2 DEF Copied
<1> QED
  BY <1>1, <1>2, <1>3, <1>4, <1>5, <1>6, <1>7, <1>8 DEF Next, Process, CommandStep

\* Two lanes of a run that are at work on a module are one.
LEMMA LanesApart ==
  ASSUME Typed, Apart, NEW l \in MyLanes, NEW k \in MyLanes,
         lane[l].pc \in OnModule, lane[k].pc \in OnModule, Module(l) = Module(k)
  PROVE  l = k
<1>1. ~Over(l) /\ ~Over(k) /\ l \in Lanes /\ k \in Lanes
  BY DEF Over, OnModule, MyLanes
<1>2. lane[l].todo # <<>> /\ lane[k].todo # <<>>
  BY <1>1 DEF Typed, DbTypes, GoodLane
<1>3. CASE stage = "db"
  BY <1>1, <1>3 DEF Apart
<1>4. CASE stage # "db"
  <2>1. Module(l) = l[2] /\ Module(k) = k[2]
    BY <1>1, <1>2, <1>4 DEF Apart, Module
  <2>2. l = <<l[1], l[2]>> /\ k = <<k[1], k[2]>> /\ l[1] = slot /\ k[1] = slot
    BY LanesOfARun DEF Typed, MyLanes
  <2> QED
    BY <2>1, <2>2
<1> QED
  BY <1>3, <1>4

\* What a lane copies whose build is not aborted is whole, or torn.
LEMMA CopiesWhole ==
  ASSUME Typed, Running, Copied, Apart, NEW l \in Lanes, At(l, "copy"), ~lane[l].aborted
  PROVE  Whole(Module(l)) \/ Module(l) \in torn
<1>1. ~Over(l) /\ l \in MyLanes /\ Module(l) \in Modules
  BY ModuleTyped DEF Typed, At, Over, Running, OtherLanes, OnModule
<1>2. stage \notin Quiet
  BY <1>1 DEF Running
<1>3. schema[Module(l)] # 0
  BY <1>1, <1>2 DEF Copied, Quiet
<1>4. ASSUME NEW k \in Lanes, At(k, "back"), Module(k) = Module(l) PROVE Module(l) \in torn
  <2>1. CASE lane[k].aborted
    BY <1>4, <2>1 DEF Apart, Writing, At
  <2>2. CASE ~lane[k].aborted
    <3>1. k \in MyLanes
      BY <1>4, <2>2 DEF Running, OtherLanes, At, Over
    <3>2. k = l
      BY <1>1, <1>4, <3>1, LanesApart DEF At, OnModule
    <3> QED
      BY <1>4, <3>2 DEF At
  <2> QED
    BY <2>1, <2>2
<1> QED
  BY <1>3, <1>4 DEF Whole

\* Every step keeps the lanes of a run on modules of their own.
LEMMA ApartStep ==
  Typed /\ Ordered /\ Running /\ Copied /\ Apart /\ [Next]_vars => Apart'
<1> SUFFICES ASSUME Typed, Ordered, Running, Copied, Apart, [Next]_vars PROVE Apart'
  OBVIOUS
<1>t. /\ DbTypes /\ CliTypes /\ lane \in [Lanes -> LaneType] /\ MyLanes \subseteq Lanes
      /\ OtherLanes = {l \in Lanes : l \notin MyLanes} /\ OtherLanes = {l \in Lanes : l[1] # slot}
  BY LanesOfARun DEF Typed, DbTypes, OtherLanes
<1>u. ASSUME UNCHANGED <<lane, torn, slot>>, UNCHANGED stage \/ \A l \in MyLanes : Over(l)
      PROVE  Apart'
  BY <1>u DEF Apart, MyLanes, Over, Writing, At, Module, TheLane
<1>1. CASE User \/ Load \/ UNCHANGED vars
  BY <1>1, <1>u, OutsideSteps
<1>2. CASE StartCommand
  <2>1. UNCHANGED <<migrateVars, slot>> /\ command = "none"
    BY <1>2 DEF StartCommand
  <2> QED
    BY <1>t, <1>u, <2>1 DEF Running, migrateVars
<1>3. CASE Change
  <2>1. /\ lane' = [l \in Lanes |-> IF Over(l) THEN lane[l] ELSE [lane[l] EXCEPT !.aborted = TRUE]]
        /\ torn' = torn \cup {Module(l) : l \in {k \in Lanes : Writing(k)}}
        /\ slot' = 1 - slot /\ \A l \in OtherLanes : Over(l)
    BY <1>3 DEF Change
  <2>2. \A l \in Lanes : /\ lane'[l].pc = lane[l].pc /\ lane'[l].todo = lane[l].todo
                         /\ lane'[l].kind = lane[l].kind /\ lane'[l].ws = lane[l].ws
                         /\ (lane[l].aborted => lane'[l].aborted)
    BY <1>t, <2>1 DEF LaneType
  <2>3. MyLanes' \subseteq OtherLanes
    BY <1>t, <2>1 DEF MyLanes, CliTypes
  <2>4. \A l \in MyLanes' : Over(l)'
    BY <1>t, <2>1, <2>2, <2>3 DEF Over
  <2>5. \A l \in Lanes : Module(l)' = Module(l) /\ (Writing(l)' => Module(l)' \in torn')
    BY <2>1, <2>2 DEF Module, Writing, At
  <2>6. \A l \in Lanes : At(l, "exec")' \/ (At(l, "chown")' /\ ~lane'[l].aborted) =>
          lane'[l].ws.whole \/ Module(l)' \in torn'
    BY <2>1, <2>2, <2>5 DEF Apart, At
  <2> QED
    BY <2>4, <2>5, <2>6 DEF Apart
<1>4. CASE Kill \/ Exit
  <2>1. ProcessEnds
    BY <1>4 DEF Kill, Exit
  <2>2. \A l \in Lanes : lane'[l].pc = "done"
    BY <2>1, NewLanesTyped DEF ProcessEnds
  <2>3. MyLanes' \subseteq Lanes
    BY DEF MyLanes
  <2> QED
    BY <2>2, <2>3 DEF Apart, Over, At, Writing
<1>5. CASE RunShutdown
  <2>1. UNCHANGED <<lane, torn, slot>> /\ stage \in Quiet
    BY <1>5 DEF RunShutdown, CommandOver, Quiet
  <2> QED
    BY <1>u, <2>1 DEF Running
<1>6. CASE Build \/ RunCommand
  <2>1. LanesBegun
    BY <1>6, RunBegins
  <2>2. UNCHANGED <<torn, slot>> /\ MyLanes' = MyLanes
    BY <2>1 DEF LanesBegun, MyLanes
  <2>3. \A l \in MyLanes : Fresh(l)
    BY <2>1 DEF LanesBegun
  <2>4. \A l \in Lanes : lane'[l] = lane[l] \/ lane'[l].pc \in {"postgres", "done", "failed"}
    BY <1>t, <2>1 DEF LanesBegun, Fresh
  <2>5. \A l \in MyLanes : ~Over(l)' =>
          IF stage' = "db" THEN l = TheLane' ELSE lane'[l].todo \in {<<>>, <<l[2]>>}
    BY <2>2, <2>3 DEF Fresh, Over, TheLane
  <2>6. \A l \in Lanes : lane'[l].aborted /\ Writing(l)' => Module(l)' \in torn'
    BY <2>2, <2>4 DEF Apart, Writing, At, Module
  <2>7. \A l \in Lanes : At(l, "exec")' \/ (At(l, "chown")' /\ ~lane'[l].aborted) =>
          lane'[l].ws.whole \/ Module(l)' \in torn'
    BY <2>2, <2>4 DEF Apart, At, Module
  <2> QED
    BY <2>2, <2>5, <2>6, <2>7 DEF Apart
<1>7. CASE CreationStep \/ ContainerStep
  <2>1. UNCHANGED <<lane, torn, slot, stage>>
    BY <1>7 DEF CreationStep, ContainerStep, NodeRemoved, PostgresDies, Creation, RemovePostgres, RunPostgres,
                PostgresReady, Connect, StartNode, InstallPrisma, CreationFails, cliVars
  <2> QED
    BY <1>u, <2>1
<1>8. ASSUME NEW l \in Lanes, LaneStep(l) PROVE Apart'
  <2>1. /\ Shape(l) /\ (Asks(l) \/ (UNCHANGED once /\ Passes(l, lane[l].pc, lane'[l].pc)))
        /\ UNCHANGED <<stage, slot>> /\ GoodLane(lane[l])
    BY <1>t, <1>8, LaneMoves DEF LaneStep, cliVars, DbTypes
  <2>2. /\ torn \subseteq torn' /\ \A k \in Lanes \ {l} : lane'[k] = lane[k]
        /\ lane'[l].aborted = lane[l].aborted /\ lane'[l].kind = lane[l].kind /\ ~Over(l)
    BY <2>1 DEF Shape, Over
  <2>3. lane'[l].todo = lane[l].todo \/ (lane[l].todo # <<>> /\ lane'[l].todo = Tail(lane[l].todo))
    BY <2>1 DEF Shape, GoodLane
  <2>4. /\ MyLanes' = MyLanes /\ TheLane' = TheLane
        /\ \A k \in MyLanes : ~Over(k)' =>
             IF stage = "db" THEN k = TheLane ELSE lane'[k].todo \in {<<>>, <<k[2]>>}
    <3>1. MyLanes' = MyLanes /\ TheLane' = TheLane
      BY <2>1 DEF MyLanes, TheLane
    <3>2. ASSUME NEW k \in MyLanes, k # l, ~Over(k)'
          PROVE IF stage = "db" THEN k = TheLane ELSE lane'[k].todo \in {<<>>, <<k[2]>>}
      BY <1>t, <2>2, <3>2 DEF Apart, Over
    <3>3. ASSUME l \in MyLanes
          PROVE IF stage = "db" THEN l = TheLane ELSE lane'[l].todo \in {<<>>, <<l[2]>>}
      <4>1. CASE stage = "db"
        BY <2>2, <3>3, <4>1 DEF Apart
      <4>2. CASE stage # "db"
        <5>1. lane[l].todo \in {<<>>, <<l[2]>>}
          BY <2>2, <3>3, <4>2 DEF Apart
        <5>2. Tail(<<l[2]>>) = <<>>
          OBVIOUS
        <5> QED
          BY <2>3, <4>2, <5>1, <5>2
      <4> QED
        BY <4>1, <4>2
    <3> QED
      BY <3>1, <3>2, <3>3
  <2>5. lane[l].aborted /\ Writing(l)' => Module(l)' \in torn'
    <3>1. CASE Asks(l)
      BY <2>2, <3>1 DEF Asks, Apart, Writing, At, Module
    <3>2. CASE Passes(l, lane[l].pc, lane'[l].pc)
      <4>1. lane[l].aborted /\ Writing(l)' => Writing(l) /\ lane'[l].pc # "next"
        BY <2>2, <3>2 DEF Passes, Writing, At
      <4>2. lane'[l].pc # "next" => Module(l)' = Module(l)
        BY <2>1 DEF Shape, Module
      <4> QED
        BY <2>2, <4>1, <4>2 DEF Apart
    <3> QED
      BY <2>1, <3>1, <3>2
  <2>6. At(l, "exec")' \/ (At(l, "chown")' /\ ~lane[l].aborted) =>
          lane'[l].ws.whole \/ Module(l)' \in torn'
    <3>1. CASE Asks(l)
      BY <2>2, <3>1 DEF Asks, Apart, At, Module
    <3>2. CASE Passes(l, lane[l].pc, lane'[l].pc) /\ lane'[l].pc \in {"chown", "exec"}
      <4>1. Module(l)' = Module(l)
        BY <2>1, <3>2 DEF Shape, Module
      <4>2. CASE At(l, "copy")
        <5>1. ~lane[l].aborted => Whole(Module(l)) \/ Module(l) \in torn
          BY <4>2, CopiesWhole
        <5>2. lane'[l].pc = "chown" /\ lane'[l].ws.whole = Whole(Module(l))
          BY <3>2, <4>2 DEF Passes, At
        <5> QED
          BY <2>2, <4>1, <5>1, <5>2 DEF At
      <4>3. CASE At(l, "chown")
        <5>1. ~lane[l].aborted /\ lane'[l].ws = lane[l].ws
          BY <3>2, <4>3 DEF Passes, At
        <5> QED
          BY <2>2, <4>1, <4>3, <5>1 DEF Apart
      <4> QED
        BY <3>2, <4>2, <4>3 DEF Passes, At
    <3> QED
      BY <2>1, <3>1, <3>2 DEF At
  <2>7. \A k \in Lanes \ {l} : /\ lane'[k].aborted /\ Writing(k)' => Module(k)' \in torn'
                               /\ At(k, "exec")' \/ (At(k, "chown")' /\ ~lane'[k].aborted) =>
                                    lane'[k].ws.whole \/ Module(k)' \in torn'
    BY <2>2 DEF Apart, Writing, At, Module
  <2> QED
    BY <2>1, <2>2, <2>4, <2>5, <2>6, <2>7 DEF Apart
<1> QED
  BY <1>1, <1>2, <1>3, <1>4, <1>5, <1>6, <1>7, <1>8 DEF Next, Process, CommandStep

\* Before the first command there are no lanes and nothing is shared.
LEMMA CInvInit == Init => CInv
<1> SUFFICES ASSUME Init PROVE CInv
  OBVIOUS
<1>1. Typed /\ Ordered
  BY TypedInit, LoadsInit
<1>2. \A l \in Lanes : lane[l].pc = "done"
  BY NewLanesTyped DEF Init, MigrateInit
<1>3. MyLanes \subseteq Lanes /\ OtherLanes \subseteq Lanes
  BY DEF MyLanes, OtherLanes
<1> QED
  BY <1>1, <1>2, <1>3
     DEF Init, MigrateInit, ProjectInit, CInv, Running, Prepared, Copied, Apart, Over, At, Writing,
         OnModule, Resources, UnderWay

\* The invariant of the commands holds in every behaviour.
LEMMA AlwaysCInv == Spec => [](Typed /\ Ordered /\ Loads /\ CInv)
<1>1. Init => Typed /\ Ordered /\ Loads /\ CInv
  BY TypedInit, LoadsInit, CInvInit
<1>2. (Typed /\ Ordered /\ Loads /\ CInv) /\ [Next]_vars => (Typed /\ Ordered /\ Loads /\ CInv)'
  BY TypedStep, StepOfProject, ProjectStep, RunningStep, PreparedStep, CopiedStep, ApartStep
     DEF CInv
<1> QED
  BY <1>1, <1>2, PTL DEF Spec

\* A command that exits by itself leaves no container of its own running: every
\* lane is over before the shutdown handlers are called, so that nothing is
\* created after them, and the handler of a container is there from the moment
\* it runs, whatever the other handler does (main.ts, shutdown_handler.ts).
THEOREM NoContainerIsLeft == Spec => []NodeContainerGone
<1>1. Running => NodeContainerGone
  BY DEF Running, NodeContainerGone
<1> QED
  BY AlwaysCInv, <1>1, PTL DEF CInv

\* When Prisma runs on a module, its database exists, Postgres and the container
\* run, and what it works on is a whole copy of the db directory, however many
\* lanes of this build and of an aborted one run beside it (mod.ts:51).
THEOREM PrismaRunsPrepared == Spec => []PrismaIsPrepared
<1>1. Typed /\ CInv => PrismaIsPrepared
  <2> SUFFICES ASSUME Typed, CInv, NEW l \in Lanes, At(l, "exec")
               PROVE  /\ Module(l) \in databases /\ pg = "up" /\ node = "up"
                      /\ lane[l].ws.whole \/ Module(l) \in torn
    BY DEF PrismaIsPrepared, CInv, Prepared
  <2>1. Module(l) \in databases /\ once["postgres"] = "done" /\ once["prisma"] = "done"
    BY DEF CInv, Prepared, At, OnModule
  <2>2. stage \notin {"ending", "dying"}
    <3>1. ~Over(l)
      BY DEF At, Over
    <3> QED
      BY <3>1 DEF CInv, Running, Quiet, OtherLanes
  <2> QED
    BY <2>1, <2>2 DEF CInv, Prepared, Running, Apart
<1> QED
  BY AlwaysCInv, <1>1, PTL
==============================================================================
