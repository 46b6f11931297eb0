---------------------------- MODULE MigrateProofs ----------------------------
(***************************************************************************)
(* Theorems about the migrations: what the databases have applied, what    *)
(* the source trees hold, and what the cache says of both.                 *)
(***************************************************************************)
EXTENDS CliProofs

USE VersionAssumption

\* The user of a git registry may name an older version of a module with a database
\* than before: the database would keep what is newer.
NoGoingBack == \A w \in Worlds : w.registry = "git" /\ w.db # <<>> => ~w.back

-----------------------------------------------------------------------------
\* The version of the module of an external registry that the next whole copy is of,
\* or an older one than that.
MainVersion == IF clone.main = 0 THEN head ELSE clone.main
Newest == IF registry # "git" \/ world.db = <<>> THEN head
          ELSE IF wanted.kind = "main" THEN MainVersion ELSE wanted.commit

\* The module of an external registry, that every load copies anew.
FromRegistry(m) == registry # "local" /\ world.db # <<>> /\ m = world.db[1]

\* What the last load has copied of it.
CopiedFrom ==
  \A m \in Modules : FromRegistry(m) /\ ext.version # 0 =>
    schema[m] = ext.version /\ tree[m] = 1..ext.version

\* A behaviour stays in its world.
LEMMA WorldStays == Typed /\ Ordered /\ [Next]_vars => UNCHANGED <<world, registry>>
<1> SUFFICES ASSUME Typed, Ordered, [Next]_vars PROVE UNCHANGED <<world, registry>>
  OBVIOUS
<1>1. CASE User \/ Load \/ UNCHANGED vars
  BY <1>1, OutsideSteps
<1>2. CASE StartCommand \/ Change \/ Kill
  BY <1>2 DEF StartCommand, Change, Kill, BeginLoad, KillLoad
<1>3. CASE RunCommand \/ RunShutdown \/ Exit
  BY <1>3 DEF RunCommand, CleanProject, RunShutdown, Exit, projectVars
<1>4. CASE Build
  BY <1>4 DEF Build, PlanGenerate, PlanModule, ModuleFails, PlanDeploy, PlanDev, BuildOver, RunFails,
              DbOver, Wait, GenerateHelper, projectVars
<1>5. CASE CreationStep \/ ContainerStep \/ \E l \in Lanes : LaneStep(l)
  BY <1>5 DEF CreationStep, ContainerStep, LaneStep, projectVars, cliVars
<1> QED
  BY <1>1, <1>2, <1>3, <1>4, <1>5 DEF Next, Process, CommandStep

\* The version that is copied is the newest.
LEMMA SourceIsNewest ==
  ASSUME Loads, at = "copy", world.db # <<>> PROVE SourceVersion = Newest
<1>1. CASE registry # "git"
  BY <1>1 DEF SourceVersion, Newest
<1>2. CASE registry = "git"
  <2>1. Resolves(wanted) /\ clone.tree = LocalCommit(wanted) /\ "modified" \notin clone.dirt
    BY <1>2 DEF Loads, Pinned
  <2>2. SourceVersion = LocalCommit(wanted)
    BY <1>2, <2>1 DEF SourceVersion
  <2>3. CASE wanted.kind = "main"
    BY <1>2, <2>1, <2>2, <2>3 DEF Resolves, LocalCommit, Newest, MainVersion
  <2>4. CASE wanted.kind # "main"
    BY <1>2, <2>2, <2>4 DEF LocalCommit, Newest
  <2> QED
    BY <2>3, <2>4
<1> QED
  BY <1>1, <1>2

\* What a step of the project does to the registry.
LEMMA RegistryGrows ==
  ASSUME Loads, ProjectNext
  PROVE  /\ head' \in Nat /\ head <= head'
         /\ registry = "git" => clone'.main \in {clone.main, 0, head}
         /\ UNCHANGED wanted \/ NameVersion
<1>t. head \in 1..MaxCommit /\ MaxCommit \in Nat /\ clone \in CloneType
  BY CommitAssumption DEF Loads, ProjectTypeOK, CloneType
<1>1. CASE Publish
  BY <1>1, <1>t DEF Publish, loadVars
<1>2. ASSUME UNCHANGED <<head, wanted>>, registry = "git" => clone'.main \in {clone.main, 0, head}
      PROVE  /\ head' \in Nat /\ head <= head'
             /\ registry = "git" => clone'.main \in {clone.main, 0, head}
             /\ UNCHANGED wanted \/ NameVersion
  BY <1>2, <1>t
<1>3. CASE Meddle
  <2>1. \A d : [clone EXCEPT !.dirt = d].main = clone.main
    BY <1>t DEF CloneType
  <2> QED
    BY <1>2, <1>3, <2>1 DEF Meddle, remoteVars, loadVars
<1>4. CASE LoadSteps
  <2>1. UNCHANGED <<head, wanted>>
    BY <1>4 DEF LoadSteps, Clone, Discard, Fetch, Checkout, SaveGen, EmptyModule, CopyModule,
                RestoreGen, CheckModule, Goto, Throw, remoteVars
  <2>2. /\ NoClone.main = 0 /\ WholeClone.main = head /\ ResetClone.main = clone.main
        /\ FetchedClone.main = clone.main /\ CheckedOut.main = clone.main
    BY <1>t DEF NoClone, WholeClone, ResetClone, FetchedClone, CheckedOut, CloneType
  <2>3. clone' \in {clone, NoClone, WholeClone, ResetClone, FetchedClone, CheckedOut}
    BY <1>4 DEF LoadSteps, Clone, Discard, Fetch, Checkout, SaveGen, EmptyModule, CopyModule,
                RestoreGen, CheckModule
  <2> QED
    BY <1>2, <2>1, <2>2, <2>3
<1>5. CASE KillLoad
  <2>1. UNCHANGED <<head, wanted>> /\ clone' \in KilledClones
    BY <1>5 DEF KillLoad, remoteVars
  <2> QED
    BY <1>2, <2>1, KilledTyped
<1>6. CASE CleanProject
  <2>1. clone'.main = 0
    BY <1>6 DEF CleanProject, NoClone
  <2> QED
    BY <1>2, <1>6, <2>1 DEF CleanProject, remoteVars
<1>7. CASE EndLoad \/ (\E keep \in BOOLEAN : GenerateHelper(keep)) \/ UNCHANGED projectVars
  BY <1>2, <1>7 DEF EndLoad, GenerateHelper, projectVars, remoteVars, loadVars
<1>8. CASE LoadOver /\ BeginLoad /\ NameVersion
  BY <1>8, <1>t DEF BeginLoad, remoteVars
<1> QED
  BY <1>1, <1>3, <1>4, <1>5, <1>6, <1>7, <1>8 DEF ProjectNext

\* The newest version is one,
LEMMA NewestTyped == ASSUME Typed, Loads PROVE Newest \in Nat /\ Newest >= 1
<1>1. /\ head \in 1..MaxCommit /\ MaxCommit \in Nat /\ clone.main \in Nat
      /\ wanted.commit \in Nat /\ wanted.commit >= 1
  BY CommitAssumption, RefsTyped DEF Loads, ProjectTypeOK, CloneType, Commits, Side
<1> QED
  BY <1>1 DEF Newest, MainVersion

\* stays the same while the clone and the remote do,
LEMMA NewestStays ==
  ASSUME UNCHANGED <<registry, head, clone, wanted, world>> PROVE Newest' = Newest
BY DEF Newest, MainVersion

\* and never gets older, where the user does not go back.
LEMMA NewestGrows ==
  ASSUME NoGoingBack, Typed, Ordered, Loads, [Next]_vars
  PROVE  Newest \in Nat /\ Newest >= 1 /\ Newest' \in Nat /\ Newest <= Newest'
<1>t. /\ head \in 1..MaxCommit /\ MaxCommit \in Nat /\ clone.main \in Nat /\ wanted.commit \in Nat
      /\ wanted.commit >= 1 /\ (registry = "git" => clone.main <= head)
      /\ world \in Worlds /\ registry = world.registry
  BY CommitAssumption, RefsTyped
     DEF Loads, ProjectTypeOK, CloneType, Pinned, Typed, CliTypes, Ordered, Commits, Side
<1>u. wanted'.commit \in Nat
  <2>1. Loads'
    BY StepOfProject, ProjectStep
  <2> QED
    BY <2>1, CommitAssumption, RefsAssumption DEF Loads, ProjectTypeOK, Commits, Side
<1>1. UNCHANGED <<world, registry>>
  BY WorldStays
<1>2. /\ head' \in Nat /\ head <= head'
      /\ registry = "git" => clone'.main \in {clone.main, 0, head}
      /\ UNCHANGED wanted \/ NameVersion
  BY StepOfProject, RegistryGrows
<1>3. registry = "git" => /\ MainVersion \in Nat /\ MainVersion' \in Nat
                          /\ MainVersion <= MainVersion' /\ MainVersion >= 1
  BY <1>t, <1>2 DEF MainVersion
<1>4. CASE registry # "git" \/ world.db = <<>>
  BY <1>t, <1>1, <1>2, <1>4 DEF Newest
<1>5. CASE registry = "git" /\ world.db # <<>>
  <2>1. ~world.back
    BY <1>t, <1>5 DEF NoGoingBack
  <2>2. CASE UNCHANGED wanted
    BY <1>t, <1>1, <1>3, <1>5, <2>2 DEF Newest
  <2>3. CASE Upgrade
    BY <1>t, <1>u, <1>1, <1>5, <2>3 DEF Newest, Upgrade
  <2> QED
    BY <1>2, <2>1, <2>2, <2>3 DEF NameVersion
<1> QED
  BY <1>4, <1>5

\* A load that empties or copies the module leaves nothing of it, or the newest
\* version, or when it fails what there was.
LEMMA LoadCopies ==
  ASSUME Typed, Ordered, Loads, CopiedFrom, EmptyModule \/ CopyModule,
         DbModules # {}, ExternalDb(world.db[1], ext'.version), NEW m \in Modules
  PROVE  \/ schema'[m] = schema[m] /\ tree'[m] = tree[m]
         \/ FromRegistry(m) /\ schema'[m] \in {0, Newest} /\ tree'[m] = 1..schema'[m]
<1> DEFINE n == world.db[1]
           version == ext'.version
<1>t. /\ schema \in [Modules -> 0..MaxVersion] /\ tree \in [Modules -> SUBSET Versions]
      /\ ext \in ModuleType
  BY DEF Typed, DbTypes, Loads, ProjectTypeOK, ModuleType
<1>1. world.db # <<>> /\ n \in Modules
  BY WorldTyped DEF DbModules
<1>2. schema' = [schema EXCEPT ![n] = version] /\ tree' = [tree EXCEPT ![n] = 1..version]
  BY DEF ExternalDb
<1>3. version \in {0, ext.version, Newest}
  <2>1. CASE EmptyModule
    BY <1>t, <2>1, EmptiedVersion
  <2>2. CASE CopyModule /\ at' = "failed"
    BY <2>2 DEF CopyModule, Goto
  <2>3. CASE CopyModule /\ at' # "failed"
    BY <1>t, <1>1, <2>3, SourceIsNewest DEF CopyModule, Throw, ModuleType
  <2> QED
    BY <2>1, <2>2, <2>3
<1>4. registry # "local"
  BY DEF EmptyModule, CopyModule, Typed, LocalSchema
<1> HIDE DEF version
<1>5. CASE m # n
  BY <1>t, <1>2, <1>5
<1>6. CASE m = n
  <2>1. FromRegistry(m) /\ schema'[m] = version /\ tree'[m] = 1..version
    BY <1>t, <1>1, <1>2, <1>4, <1>6 DEF FromRegistry
  <2>2. CASE version = ext.version /\ version # 0
    BY <2>1, <2>2 DEF CopiedFrom
  <2> QED
    BY <1>3, <2>1, <2>2
<1> QED
  BY <1>5, <1>6

-----------------------------------------------------------------------------
\* Lane l is at work on module m, and holds a copy of its db directory,
On(l, m) == lane[l].pc \in OnModule /\ Module(l) = m
Holds(l, m) == On(l, m) /\ lane[l].pc \in {"chown", "exec"}
\* or has migrated the database and not yet written the migrations back.
Owes(l, m) == On(l, m) /\ Uncopied(l)

\* Which kinds are at which places.
KindsAtPlaces ==
  \A l \in Lanes : /\ lane[l].pc \in {"empty", "back"} => lane[l].kind \in {"dev", "createOnly"}
                   /\ lane[l].pc \in {"emptyClient", "copyClient"} => lane[l].kind = "generate"

\* While a lane of the build under way is about to migrate a module, nobody
\* changes the tree it has copied.
SameTree(m) ==
  m \notin torn => \A l \in Lanes : ~lane[l].aborted /\ Holds(l, m) => lane[l].ws.tree = tree[m]

\* The migrations that are applied, and those a lane holds and may still apply,
\* are in T.
Within(m, T) == applied[m] \subseteq T /\ \A k \in Lanes : Holds(k, m) => lane[k].ws.tree \subseteq T

\* A module is settled when no lane that was aborted owes it its migrations.
Settled(m) == m \notin torn /\ \A l \in Lanes : lane[l].aborted => ~Owes(l, m)

TreeOf(m) == IF schema[m] = 0 THEN 1..Newest ELSE tree[m]
Kept(m) ==
  IF FromRegistry(m) THEN tree[m] \subseteq 1..Newest /\ Within(m, TreeOf(m))
  ELSE /\ (\A l \in Lanes : ~Owes(l, m)) => Within(m, tree[m])
       /\ \A l \in Lanes : Owes(l, m) => tree[m] \subseteq lane[l].ws.tree /\ Within(m, lane[l].ws.tree)

Sound(m) == SameTree(m) /\ (Settled(m) => Kept(m))
TreesKept == KindsAtPlaces /\ CopiedFrom /\ \A m \in Modules : Sound(m)

-----------------------------------------------------------------------------
\* A step that leaves alone what is known of module m: no lane begins to hold or
\* to owe its migrations, and one that stops owing them has torn it.
Still(m) ==
  /\ applied'[m] = applied[m] /\ tree'[m] = tree[m]
  /\ m \notin torn' => m \notin torn
  /\ FromRegistry(m)' <=> FromRegistry(m)
  /\ FromRegistry(m) => 1..Newest \subseteq 1..Newest' /\ (schema'[m] = 0 <=> schema[m] = 0)
  /\ \A k \in Lanes :
       /\ Holds(k, m)' => Holds(k, m) /\ lane'[k].ws.tree = lane[k].ws.tree
                             /\ (lane[k].aborted => lane'[k].aborted)
       /\ Owes(k, m)' => Owes(k, m) /\ lane'[k].ws.tree = lane[k].ws.tree
       /\ Owes(k, m) /\ m \notin torn' => Owes(k, m)' /\ (lane[k].aborted => lane'[k].aborted)

\* Such a step keeps what is known.
LEMMA StillSound ==
  ASSUME NEW m \in Modules, Still(m), Sound(m) PROVE Sound(m)'
<1>1. SameTree(m)'
  BY DEF Still, Sound, SameTree
<1>2. Settled(m)' => Settled(m)
  BY DEF Still, Settled
<1>3. ASSUME Settled(m)', NEW T, NEW U, T \subseteq U, Within(m, T) PROVE Within(m, U)'
  BY <1>3 DEF Still, Within
<1>4. ASSUME Settled(m)', FromRegistry(m)
      PROVE  tree'[m] \subseteq 1..Newest' /\ Within(m, TreeOf(m))'
  <2>1. Kept(m)
    BY <1>2, <1>4 DEF Sound
  <2>2. tree[m] \subseteq 1..Newest /\ Within(m, TreeOf(m))
    BY <1>4, <2>1 DEF Kept
  <2>3. TreeOf(m) \subseteq TreeOf(m)'
    BY <1>4 DEF Still, TreeOf
  <2>4. Within(m, TreeOf(m))'
    BY <1>3, <1>4, <2>2, <2>3 DEF Within
  <2> QED
    BY <1>4, <2>2, <2>4 DEF Still
<1>5. ASSUME Settled(m)', ~FromRegistry(m), \A l \in Lanes : ~Owes(l, m)'
      PROVE  Within(m, tree[m])'
  <2>1. \A l \in Lanes : ~Owes(l, m)
    BY <1>5 DEF Still, Settled
  <2>2. Within(m, tree[m])
    BY <1>2, <1>5, <2>1 DEF Sound, Kept
  <2> QED
    BY <2>2, <1>5 DEF Still, Within
<1>6. ASSUME Settled(m)', ~FromRegistry(m), NEW l \in Lanes, Owes(l, m)'
      PROVE  tree'[m] \subseteq lane'[l].ws.tree /\ Within(m, lane[l].ws.tree)'
  <2>1. Owes(l, m) /\ lane'[l].ws.tree = lane[l].ws.tree
    BY <1>6 DEF Still
  <2>2. tree[m] \subseteq lane[l].ws.tree /\ Within(m, lane[l].ws.tree)
    BY <1>2, <1>6, <2>1 DEF Sound, Kept
  <2> QED
    BY <2>1, <2>2, <1>6 DEF Still, Within
<1>7. Settled(m)' => Kept(m)'
  BY <1>4, <1>5, <1>6 DEF Still, Kept
<1> QED
  BY <1>1, <1>7 DEF Sound

\* What a step of a lane does to the copy it holds, the database and the tree.
Effects(l) ==
  /\ lane'[l].pc = "chown" => CopyToWorkspace(l)
  /\ lane'[l].pc = "exec" => lane[l].pc = "chown" /\ lane'[l].ws = lane[l].ws
  /\ lane'[l].pc = "chown2" => Prisma(l)
  /\ lane'[l].pc = "empty" => /\ lane[l].pc = "chown2" /\ lane'[l].ws = lane[l].ws
                              /\ lane[l].kind \in {"dev", "createOnly"}
  /\ lane'[l].pc = "back" => EmptyMigrations(l)
  /\ lane'[l].pc = "emptyClient" => lane[l].kind = "generate"
  /\ lane'[l].pc = "copyClient" => lane[l].pc = "emptyClient"
  /\ Uncopied(l) => \/ lane[l].pc = "chown2" /\ lane'[l].pc = "empty"
                    \/ EmptyMigrations(l) \/ CopyMigrationsBack(l) \/ Module(l) \in torn'
  /\ Prisma(l) \/ UNCHANGED applied
  /\ EmptyMigrations(l) \/ CopyMigrationsBack(l) \/ UNCHANGED tree

\* What a step of a lane changes, whichever step it is.
LEMMA LaneEffects ==
  ASSUME DbTypes, NEW l \in Lanes, LaneRuns(l)
  PROVE  Effects(l)
<1>l. lane \in [Lanes -> LaneType] /\ lane[l] \in LaneType
  BY DEF DbTypes
<1>g. ASSUME NEW pc, Goes(l, pc)
      PROVE  lane'[l].pc = pc /\ lane'[l].ws = lane[l].ws
  BY <1>l, <1>g DEF Goes, LaneType
<1>f. ASSUME NEW pc \in {"next", "empty", "emptyClient"}, lane' = Finish(l, pc)
      PROVE  lane'[l].pc = pc /\ lane'[l].ws = lane[l].ws
  BY <1>l, <1>f DEF Finish, LaneType
<1>1. ASSUME NEW r \in Resources, NEW next \in {"done", "client", "next", "copy"},
             AwaitOnce(l, r, next)
      PROVE  Effects(l)
  <2>1. lane[l].pc = r /\ UNCHANGED <<applied, tree>>
    BY <1>1 DEF AwaitOnce, At, diskVars
  <2>2. lane'[l].pc \in {r, next, "failed"}
    BY <1>1, <1>g, <2>1 DEF AwaitOnce
  <2> QED
    BY <2>1, <2>2, <1>1 DEF Effects, Resources, Uncopied
<1>2. CASE \/ AwaitOnce(l, "postgres", IF lane[l].kind = "ensure" THEN "done" ELSE "client")
           \/ AwaitOnce(l, "client", "next") \/ AwaitOnce(l, "prisma", "copy")
  BY <1>1, <1>2 DEF Resources
<1>3. CASE NextModule(l) \/ CreateDatabase(l)
  <2>1. /\ lane[l].pc \in {"next", "create"} /\ UNCHANGED <<applied, tree>>
        /\ \E pc \in {"done", "prisma", "create", "failed"} : Goes(l, pc)
    BY <1>3 DEF NextModule, CreateDatabase, At, diskVars
  <2> QED
    BY <1>g, <2>1 DEF Effects, Uncopied
<1>4. CASE CopyToWorkspace(l)
  <2> DEFINE ws == [schema |-> schema[Module(l)], tree |-> tree[Module(l)], whole |-> Whole(Module(l))]
  <2>1. /\ lane[l].pc = "copy" /\ UNCHANGED <<applied, tree>>
        /\ lane' = [lane EXCEPT ![l].pc = "chown", ![l].ws = ws]
    BY <1>4 DEF CopyToWorkspace, At, diskVars
  <2> HIDE DEF ws
  <2>2. lane'[l].pc = "chown"
    BY <1>l, <2>1 DEF LaneType
  <2> QED
    BY <1>4, <2>1, <2>2 DEF Effects, Uncopied
<1>5. CASE Chown(l)
  <2>1. lane[l].pc = "chown" /\ Goes(l, "exec") /\ UNCHANGED <<applied, tree>>
    BY <1>5 DEF Chown, At, diskVars
  <2> QED
    BY <1>g, <2>1 DEF Effects, Uncopied
<1>6. CASE Prisma(l)
  <2> DEFINE wsTree == lane[l].ws.tree \cup {lane[l].ws.schema}
  <2>1. lane[l].pc = "exec" /\ UNCHANGED tree
    BY <1>6 DEF Prisma, At
  <2>2. Goes(l, "chown2") \/ lane' = [lane EXCEPT ![l].pc = "chown2", ![l].ws.tree = wsTree]
    BY <1>6 DEF Prisma
  <2> HIDE DEF wsTree
  <2>3. lane'[l].pc = "chown2"
    BY <1>l, <1>g, <2>2 DEF LaneType
  <2> QED
    BY <1>6, <2>1, <2>3 DEF Effects, Uncopied
<1>7. CASE Chown2(l)
  <2>1. lane[l].pc = "chown2" /\ lane' = Finish(l, Writes(l)) /\ UNCHANGED <<applied, tree>>
    BY <1>7 DEF Chown2, At, diskVars
  <2>2. /\ Writes(l) \in {"next", "empty", "emptyClient"}
        /\ (Writes(l) = "empty" <=> lane[l].kind \in {"dev", "createOnly"})
        /\ (Writes(l) = "emptyClient" => lane[l].kind = "generate")
    BY DEF Writes
  <2>3. lane'[l].pc = Writes(l) /\ lane'[l].ws = lane[l].ws
    BY <1>f, <2>1, <2>2
  <2> QED
    BY <2>1, <2>2, <2>3 DEF Effects, Uncopied
<1>8. CASE LaneFails(l)
  <2>1. Goes(l, "failed") /\ UNCHANGED <<applied, tree>> /\ (Uncopied(l) => Module(l) \in torn')
    BY <1>8 DEF LaneFails, diskVars
  <2> QED
    BY <1>g, <2>1 DEF Effects
<1>9. CASE EmptyMigrations(l)
  <2>1. lane[l].pc = "empty" /\ Goes(l, "back") /\ UNCHANGED applied
    BY <1>9 DEF EmptyMigrations, At
  <2> QED
    BY <1>9, <1>g, <2>1 DEF Effects
<1>10. CASE CopyMigrationsBack(l)
  <2>1. lane' = Finish(l, "next") /\ UNCHANGED applied
    BY <1>10 DEF CopyMigrationsBack
  <2> QED
    BY <1>10, <1>f, <2>1 DEF Effects
<1>11. CASE EmptyClient(l)
  <2>1. lane[l].pc = "emptyClient" /\ Goes(l, "copyClient") /\ UNCHANGED <<applied, tree>>
    BY <1>11 DEF EmptyClient, At
  <2> QED
    BY <1>g, <2>1 DEF Effects, Uncopied
<1>12. CASE CopyClient(l)
  <2>1. lane[l].pc = "copyClient" /\ lane' = Finish(l, "next") /\ UNCHANGED <<applied, tree>>
    BY <1>12 DEF CopyClient, At
  <2> QED
    BY <1>f, <2>1 DEF Effects, Uncopied
<1> QED
  BY <1>2, <1>3, <1>4, <1>5, <1>6, <1>7, <1>8, <1>9, <1>10, <1>11, <1>12 DEF LaneRuns

\* The lanes that are at work on a module beside one that is not aborted are
\* aborted.
LEMMA AloneOnModule ==
  ASSUME Typed, Running, Apart, NEW l \in Lanes, NEW k \in Lanes, NEW m \in Modules,
         On(l, m), On(k, m), ~lane[l].aborted, ~lane[k].aborted
  PROVE  l = k
<1>1. ~Over(l) /\ ~Over(k)
  BY DEF On, Over, OnModule
<1>2. l \in MyLanes /\ k \in MyLanes
  BY <1>1 DEF Running, OtherLanes
<1> QED
  BY <1>2, LanesApart DEF On

\* A lane that is not one of a step keeps what it holds and owes.
LEMMA OthersHold ==
  ASSUME NEW k \in Lanes, NEW m \in Modules, lane'[k] = lane[k]
  PROVE  /\ On(k, m)' <=> On(k, m)
         /\ Holds(k, m)' <=> Holds(k, m)
         /\ Owes(k, m)' <=> Owes(k, m)
BY DEF On, Holds, Owes, Uncopied, Module

\* A step of a lane keeps what is known of the module it works on, and of others.
LEMMA LaneSound ==
  ASSUME Typed, CInv, TreesKept, NEW l \in Lanes, LaneStep(l), NEW m \in Modules
  PROVE  Sound(m)'
<1>t. /\ lane \in [Lanes -> LaneType] /\ lane[l] \in LaneType /\ GoodLane(lane[l])
      /\ applied \in [Modules -> SUBSET Versions] /\ tree \in [Modules -> SUBSET Versions]
      /\ Sound(m) /\ KindsAtPlaces /\ LaneRuns(l) /\ DbTypes
      /\ UNCHANGED <<registry, world>> /\ Newest' = Newest
  BY NewestStays DEF Typed, DbTypes, TreesKept, LaneStep, projectVars, remoteVars, loadVars, cliVars
<1>e. Effects(l) /\ Shape(l)
  BY <1>t, LaneEffects, LaneMoves
<1>p. Asks(l) \/ Passes(l, lane[l].pc, lane'[l].pc)
  BY <1>t, LaneMoves
<1>o. /\ \A k \in Lanes \ {l} : lane'[k] = lane[k]
      /\ lane'[l].kind = lane[l].kind /\ lane'[l].aborted = lane[l].aborted
      /\ torn \subseteq torn' /\ schema' = schema
      /\ lane'[l].pc # "next" => Module(l)' = Module(l)
  BY <1>e DEF Shape, Module
<1>k. \A k \in Lanes \ {l} : /\ On(k, m)' <=> On(k, m)
                             /\ Holds(k, m)' <=> Holds(k, m)
                             /\ Owes(k, m)' <=> Owes(k, m)
  BY <1>o, OthersHold
<1>f. FromRegistry(m)' <=> FromRegistry(m)
  BY <1>t DEF FromRegistry
<1>s. Settled(m)' => m \notin torn /\ \A k \in Lanes \ {l} : Owes(k, m) => ~lane[k].aborted
  BY <1>k, <1>o DEF Settled
<1>1. CASE ~(On(l, m) /\ (CopyToWorkspace(l) \/ EmptyMigrations(l) \/ CopyMigrationsBack(l)
                              \/ Prisma(l)))
  <2>1. applied'[m] = applied[m]
    <3>1. CASE Prisma(l)
      <4>1. lane[l].pc = "exec"
        BY <3>1 DEF Prisma, At
      <4>2. Module(l) # m
        BY <1>1, <3>1, <4>1 DEF On, OnModule
      <4>3. \E x : applied' = [applied EXCEPT ![Module(l)] = x] \/ UNCHANGED applied
        BY <3>1 DEF Prisma
      <4> QED
        BY <1>t, <4>2, <4>3
    <3> QED
      BY <1>e, <3>1 DEF Effects
  <2>2. tree'[m] = tree[m]
    <3>1. CASE EmptyMigrations(l) \/ CopyMigrationsBack(l)
      <4>1. lane[l].pc \in {"empty", "back"}
        BY <3>1 DEF EmptyMigrations, CopyMigrationsBack, At
      <4>2. Module(l) # m
        BY <1>1, <3>1, <4>1 DEF On, OnModule
      <4>3. \E x : tree' = [tree EXCEPT ![Module(l)] = x]
        BY <3>1 DEF EmptyMigrations, CopyMigrationsBack
      <4> QED
        BY <1>t, <4>2, <4>3
    <3> QED
      BY <1>e, <3>1 DEF Effects
  <2>3. Holds(l, m)' => Holds(l, m) /\ lane'[l].ws.tree = lane[l].ws.tree
    <3> SUFFICES ASSUME Holds(l, m)' PROVE Holds(l, m) /\ lane'[l].ws.tree = lane[l].ws.tree
      OBVIOUS
    <3>1. lane'[l].pc \in {"chown", "exec"} /\ Module(l) = m
      BY <1>o DEF Holds, On
    <3>2. CASE lane'[l].pc = "chown"
      <4>1. CopyToWorkspace(l) /\ lane[l].pc = "copy"
        BY <1>e, <3>2 DEF Effects, CopyToWorkspace, At
      <4> QED
        BY <1>1, <3>1, <4>1 DEF On, OnModule
    <3>3. CASE lane'[l].pc = "exec"
      BY <1>e, <3>1, <3>3 DEF Effects, Holds, On, OnModule
    <3> QED
      BY <3>1, <3>2, <3>3
  <2>4. Owes(l, m)' => Owes(l, m) /\ lane'[l].ws.tree = lane[l].ws.tree
    <3> SUFFICES ASSUME Owes(l, m)' PROVE Owes(l, m) /\ lane'[l].ws.tree = lane[l].ws.tree
      OBVIOUS
    <3>1. lane'[l].pc \in {"chown2", "empty", "back"} /\ Module(l) = m
      BY <1>o DEF Owes, Uncopied, On
    <3>2. CASE lane'[l].pc = "chown2"
      <4>1. Prisma(l) /\ lane[l].pc = "exec"
        BY <1>e, <3>2 DEF Effects, Prisma, At
      <4> QED
        BY <1>1, <3>1, <4>1 DEF On, OnModule
    <3>3. CASE lane'[l].pc = "empty"
      BY <1>e, <3>1, <3>3 DEF Effects, Owes, Uncopied, On, OnModule
    <3>4. CASE lane'[l].pc = "back"
      <4>1. EmptyMigrations(l) /\ lane[l].pc = "empty"
        BY <1>e, <3>4 DEF Effects, EmptyMigrations, At
      <4> QED
        BY <1>1, <3>1, <4>1 DEF On, OnModule
    <3> QED
      BY <3>1, <3>2, <3>3, <3>4
  <2>5. Owes(l, m) /\ m \notin torn' => Owes(l, m)'
    <3> SUFFICES ASSUME Owes(l, m), m \notin torn' PROVE Owes(l, m)'
      OBVIOUS
    <3>1. Uncopied(l) /\ Module(l) = m /\ On(l, m)
      BY DEF Owes, On
    <3>2. lane[l].pc = "chown2" /\ lane'[l].pc = "empty"
      BY <1>1, <1>e, <3>1 DEF Effects
    <3> QED
      BY <1>o, <3>1, <3>2 DEF Owes, Uncopied, On, OnModule
  <2>6. Still(m)
    BY <1>f, <1>k, <1>o, <1>t, <2>1, <2>2, <2>3, <2>4, <2>5 DEF Still
  <2> QED
    BY <1>t, <2>6, StillSound
<1>2. CASE On(l, m) /\ CopyToWorkspace(l)
  <2> DEFINE ws == [schema |-> schema[m], tree |-> tree[m], whole |-> Whole(m)]
  <2>1. /\ Module(l) = m /\ lane[l].pc = "copy" /\ UNCHANGED <<applied, tree, torn>>
        /\ lane' = [lane EXCEPT ![l].pc = "chown", ![l].ws = ws]
    BY <1>2 DEF CopyToWorkspace, At, On, diskVars
  <2>2. ws.tree = tree[m]
    OBVIOUS
  <2> HIDE DEF ws
  <2>3. lane'[l].pc = "chown" /\ lane'[l].ws.tree = tree[m]
    BY <1>t, <2>1, <2>2 DEF LaneType
  <2>4. ~Owes(l, m) /\ ~Owes(l, m)'
    BY <2>1, <2>3 DEF Owes, Uncopied
  <2>5. SameTree(m)'
    <3>1. SameTree(m)
      BY <1>t DEF Sound
    <3> QED
      BY <1>k, <1>o, <2>1, <2>3, <3>1 DEF SameTree
  <2>6. Settled(m)' => Settled(m)
    BY <1>s, <2>4 DEF Settled
  <2>7. ASSUME NEW T, Within(m, T), tree[m] \subseteq T PROVE Within(m, T)'
    BY <1>k, <1>o, <2>1, <2>3, <2>7 DEF Within
  <2>8. ASSUME Settled(m)' PROVE Kept(m)'
    <3>1. Kept(m)
      BY <1>t, <2>6, <2>8 DEF Sound
    <3>2. CASE FromRegistry(m)
      <4>1. tree[m] \subseteq 1..Newest /\ Within(m, TreeOf(m))
        BY <3>1, <3>2 DEF Kept
      <4>2. TreeOf(m)' = TreeOf(m) /\ tree[m] \subseteq TreeOf(m)
        BY <1>o, <1>t, <2>1, <4>1 DEF TreeOf
      <4>3. Within(m, TreeOf(m))'
        BY <2>7, <4>1, <4>2 DEF Within
      <4> QED
        BY <1>f, <1>t, <2>1, <3>2, <4>1, <4>3 DEF Kept
    <3>3. CASE ~FromRegistry(m)
      <4>1. (\A k \in Lanes : ~Owes(k, m)') => Within(m, tree[m])'
        BY <1>k, <2>1, <2>4, <2>7, <3>1, <3>3 DEF Kept, Within
      <4>2. ASSUME NEW k \in Lanes, Owes(k, m)'
            PROVE  tree'[m] \subseteq lane'[k].ws.tree /\ Within(m, lane[k].ws.tree)'
        <5>1. Owes(k, m) /\ lane'[k] = lane[k]
          BY <1>k, <1>o, <2>4, <4>2
        <5> QED
          BY <2>1, <2>7, <3>1, <3>3, <5>1 DEF Kept, Within
      <4> QED
        BY <1>f, <3>3, <4>1, <4>2 DEF Kept
    <3> QED
      BY <3>2, <3>3
  <2> QED
    BY <2>5, <2>8 DEF Sound
<1>3. CASE On(l, m) /\ Prisma(l)
  <2> DEFINE ws == lane[l].ws
             wsTree == ws.tree \cup {ws.schema}
  <2>1. /\ Module(l) = m /\ lane[l].pc = "exec" /\ UNCHANGED <<tree, torn>>
        /\ lane'[l].pc = "chown2" /\ Module(l)' = m
    <3>1. Module(l) = m /\ lane[l].pc = "exec" /\ UNCHANGED <<tree, torn>>
      BY <1>3 DEF Prisma, At, On
    <3>2. Goes(l, "chown2") \/ lane' = [lane EXCEPT ![l].pc = "chown2", ![l].ws.tree = wsTree]
      BY <1>3 DEF Prisma
    <3> HIDE DEF wsTree
    <3>3. lane'[l].pc = "chown2"
      BY <1>t, <3>2 DEF Goes, LaneType
    <3> QED
      BY <1>o, <3>1, <3>3
  <2>h. Holds(l, m) /\ ~Holds(l, m)' /\ ~Owes(l, m)
    BY <2>1 DEF Holds, On, OnModule, Owes, Uncopied
  <2>s. SameTree(m)'
    <3>1. SameTree(m)
      BY <1>t DEF Sound
    <3> QED
      BY <1>k, <1>o, <2>1, <2>h, <3>1 DEF SameTree
  <2>2. Settled(m)' => Settled(m)
    BY <1>s, <2>h DEF Settled
  <2>3. CASE lane[l].kind \notin {"dev", "createOnly"}
    <3>1. ~Owes(l, m)'
      BY <1>o, <2>3 DEF Owes, Uncopied
    <3>2. applied'[m] \subseteq applied[m] \cup ws.tree
      <4>1. lane[l].kind \in {"generate", "status", "deploy", "reset"}
        BY <1>t, <2>1, <2>3 DEF GoodLane, LaneType, LaneKinds
      <4>2. CASE lane[l].kind \in {"generate", "status"}
        BY <1>3, <4>2 DEF Prisma
      <4>3. CASE lane[l].kind = "deploy"
        <5>1. applied' = [applied EXCEPT ![m] = @ \cup ws.tree]
          BY <1>3, <2>1, <4>3 DEF Prisma
        <5> QED
          BY <1>t, <5>1
      <4>4. CASE lane[l].kind = "reset"
        <5>1. applied' = [applied EXCEPT ![m] = ws.tree]
          BY <1>3, <2>1, <4>4 DEF Prisma
        <5> QED
          BY <1>t, <5>1
      <4> QED
        BY <4>1, <4>2, <4>3, <4>4
    <3>3. ASSUME NEW T, Within(m, T) PROVE Within(m, T)'
      <4>1. ws.tree \subseteq T
        BY <2>h, <3>3 DEF Within
      <4> QED
        BY <1>k, <1>o, <2>h, <3>2, <3>3, <4>1 DEF Within
    <3>4. ASSUME Settled(m)' PROVE Kept(m)'
      <4>1. Kept(m)
        BY <1>t, <2>2, <3>4 DEF Sound
      <4>2. CASE FromRegistry(m)
        BY <1>f, <1>o, <1>t, <2>1, <3>3, <4>1, <4>2 DEF Kept, TreeOf, Within
      <4>3. CASE ~FromRegistry(m)
        <5>1. (\A k \in Lanes : ~Owes(k, m)') => Within(m, tree[m])'
          BY <1>k, <2>1, <2>h, <3>1, <3>3, <4>1, <4>3 DEF Kept, Within
        <5>2. ASSUME NEW k \in Lanes, Owes(k, m)'
              PROVE  tree'[m] \subseteq lane'[k].ws.tree /\ Within(m, lane[k].ws.tree)'
          <6>1. Owes(k, m) /\ lane'[k] = lane[k]
            BY <1>k, <1>o, <3>1, <5>2
          <6> QED
            BY <2>1, <3>3, <4>1, <4>3, <6>1 DEF Kept, Within
        <5> QED
          BY <1>f, <4>3, <5>1, <5>2 DEF Kept
      <4> QED
        BY <4>2, <4>3
    <3> QED
      BY <2>s, <3>4 DEF Sound
  <2>4. CASE lane[l].kind \in {"dev", "createOnly"}
    <3>1. Owes(l, m)' /\ ~FromRegistry(m)
      BY <1>o, <1>t, <2>1, <2>4 DEF Owes, Uncopied, On, OnModule, FromRegistry, GoodLane
    <3>2. /\ lane' = [lane EXCEPT ![l].pc = "chown2", ![l].ws.tree = wsTree]
          /\ applied' = [applied EXCEPT ![m] =
               (IF ~(applied[m] \subseteq ws.tree) THEN {} ELSE applied[m]) \cup
               (IF lane[l].kind = "dev" THEN wsTree ELSE ws.tree)]
      BY <1>3, <2>1, <2>4 DEF Prisma
    <3>3. lane'[l].ws.tree = wsTree
      <4>1. ws \in CopyType
        BY <1>t DEF LaneType
      <4> HIDE DEF wsTree
      <4> QED
        BY <1>t, <3>2, <4>1 DEF LaneType, CopyType
    <3>4. applied'[m] \subseteq applied[m] \cup wsTree
      BY <1>t, <3>2
    <3>5. ASSUME Settled(m)' PROVE Kept(m)'
      <4>1. ~lane[l].aborted /\ m \notin torn
        BY <1>o, <3>1, <3>5 DEF Settled
      <4>2. ws.tree = tree[m]
        BY <1>t, <2>h, <4>1 DEF Sound, SameTree
      <4>3. ASSUME NEW k \in Lanes, k # l PROVE ~Owes(k, m)
        <5>1. Owes(k, m) => ~lane[k].aborted /\ On(k, m)
          BY <1>s, <3>5, <4>3 DEF Owes
        <5> QED
          BY <1>3, <4>1, <4>3, <5>1, AloneOnModule DEF CInv
      <4>4. Within(m, tree[m])
        BY <1>t, <2>2, <2>h, <3>1, <3>5, <4>3 DEF Sound, Kept
      <4>5. Within(m, lane[l].ws.tree)' /\ tree'[m] \subseteq lane'[l].ws.tree
        BY <1>k, <1>o, <2>1, <2>h, <3>3, <3>4, <4>2, <4>4 DEF Within
      <4>6. \A k \in Lanes : Owes(k, m)' => k = l
        BY <1>k, <4>3
      <4> QED
        BY <1>f, <3>1, <4>5, <4>6 DEF Kept
    <3> QED
      BY <2>s, <3>5 DEF Sound
  <2> QED
    BY <2>3, <2>4
<1>4. CASE On(l, m) /\ (EmptyMigrations(l) \/ CopyMigrationsBack(l))
  <2>1. /\ Module(l) = m /\ lane[l].pc \in {"empty", "back"} /\ UNCHANGED <<applied, torn>>
    BY <1>4 DEF EmptyMigrations, CopyMigrationsBack, At, On
  <2>2. Owes(l, m) /\ ~Holds(l, m) /\ ~FromRegistry(m)
    BY <1>4, <1>t, <2>1 DEF KindsAtPlaces, Owes, Uncopied, Holds, GoodLane, FromRegistry
  <2>3. lane[l].aborted => m \in torn
    BY <2>1 DEF CInv, Apart, Writing, At
  <2>4. ASSUME m \notin torn, NEW k \in Lanes, On(k, m), ~lane[k].aborted PROVE k = l
    BY <1>4, <2>3, <2>4, AloneOnModule DEF CInv
  <2>5. ~Holds(l, m)'
    BY <1>4, <1>t DEF EmptyMigrations, CopyMigrationsBack, Goes, Finish, LaneType, Holds
  <2>6. SameTree(m)'
    BY <1>k, <1>o, <2>1, <2>4, <2>5 DEF SameTree, Holds
  <2>7. Settled(m)' => Settled(m)
    BY <1>s, <2>1, <2>3 DEF Settled
  <2>8. ASSUME Settled(m)' PROVE Kept(m)'
    <3>1. m \notin torn /\ tree[m] \subseteq lane[l].ws.tree /\ Within(m, lane[l].ws.tree)
      BY <1>t, <2>2, <2>7, <2>8 DEF Sound, Kept, Settled
    <3>2. \A k \in Lanes : Owes(k, m)' => k = l
      <4>1. ASSUME NEW k \in Lanes, k # l, Owes(k, m)' PROVE FALSE
        <5>1. Owes(k, m) /\ ~lane[k].aborted
          BY <1>k, <1>s, <2>8, <4>1
        <5> QED
          BY <2>4, <3>1, <4>1, <5>1 DEF Owes
      <4> QED
        BY <4>1
    <3>3. Within(m, lane[l].ws.tree) => \A T : T = lane[l].ws.tree => Within(m, T)'
      BY <1>k, <1>o, <2>1, <2>5 DEF Within
    <3>4. CASE EmptyMigrations(l)
      <4>1. Goes(l, "back") /\ tree' = [tree EXCEPT ![m] = {}]
        BY <2>1, <3>4 DEF EmptyMigrations
      <4>2. lane'[l].pc = "back" /\ lane'[l].ws = lane[l].ws /\ tree'[m] = {}
        BY <1>t, <4>1 DEF Goes, LaneType
      <4>3. Owes(l, m)'
        BY <1>o, <2>1, <2>2, <4>2 DEF Owes, Uncopied, On, OnModule
      <4>4. Within(m, lane[l].ws.tree)'
        BY <3>1, <3>3, <4>2 DEF Within
      <4> QED
        BY <1>f, <2>2, <3>2, <4>2, <4>3, <4>4 DEF Kept
    <3>5. CASE CopyMigrationsBack(l)
      <4>1. lane' = Finish(l, "next") /\ tree' = [tree EXCEPT ![m] = lane[l].ws.tree]
        BY <2>1, <3>5 DEF CopyMigrationsBack
      <4>2. lane'[l].pc = "next" /\ tree'[m] = lane[l].ws.tree
        BY <1>t, <4>1 DEF Finish, LaneType
      <4>3. ~Owes(l, m)'
        BY <4>2 DEF Owes, Uncopied
      <4>4. Within(m, tree[m])'
        BY <3>1, <3>3, <4>2 DEF Within
      <4> QED
        BY <1>f, <2>2, <3>2, <4>3, <4>4 DEF Kept
    <3> QED
      BY <1>4, <3>4, <3>5
  <2> QED
    BY <2>6, <2>8 DEF Sound
<1> QED
  BY <1>1, <1>2, <1>3, <1>4

\* The steps of a command, of its user and of its process leave databases and
\* trees to the lanes, which begin, end and are aborted.
Around ==
  /\ UNCHANGED <<applied, tree, client, registry, world>> /\ torn \subseteq torn'
  /\ 1..Newest \subseteq 1..Newest' /\ \A m \in Modules : schema'[m] = 0 <=> schema[m] = 0
  /\ registry # "local" => UNCHANGED schema
  /\ ext'.version \in {0, ext.version}
  /\ \A k \in Lanes :
       \/ /\ lane'[k].pc = lane[k].pc /\ lane'[k].kind = lane[k].kind /\ lane'[k].ws = lane[k].ws
          /\ lane'[k].todo = lane[k].todo /\ (lane[k].aborted => lane'[k].aborted)
       \/ lane'[k].pc \notin OnModule /\ (Over(k) \/ (Uncopied(k) => Module(k) \in torn'))

\* What every other step changes, as far as migrations are concerned.
LEMMA StepsAround ==
  ASSUME NoGoingBack, Typed, Ordered, Loads, CInv,
         \/ User \/ StartCommand \/ Change \/ Kill \/ CommandStep \/ CreationStep \/ ContainerStep
         \/ UNCHANGED vars
  PROVE  Around
<1>t. /\ lane \in [Lanes -> LaneType] /\ schema \in [Modules -> 0..MaxVersion]
      /\ MyLanes \subseteq Lanes /\ OtherLanes = Lanes \ MyLanes /\ ext \in ModuleType
  BY DEF Typed, DbTypes, Loads, ProjectTypeOK, MyLanes, OtherLanes, ModuleType
<1>g. 1..Newest \subseteq 1..Newest'
  <2>1. Newest \in Nat /\ Newest' \in Nat /\ Newest <= Newest'
    BY NewestGrows DEF Next, Process
  <2> QED
    BY <2>1
<1>1. CASE User
  <2>1. CASE (Publish \/ Meddle) /\ UNCHANGED <<migrateVars, cliVars>>
    <3>1. UNCHANGED <<applied, tree, client, schema, lane, torn, registry, world, ext>>
      BY <2>1 DEF Publish, Meddle, remoteVars, migrateVars, diskVars, cliVars
    <3> QED
      BY <1>g, <3>1 DEF Around
  <2>2. ASSUME NEW n \in Modules, EditSchema(n) PROVE Around
    <3>1. /\ UNCHANGED <<applied, tree, client, lane, torn, registry, world, ext>> /\ registry = "local"
          /\ schema' = [schema EXCEPT ![n] = @ + 1]
      BY <2>2 DEF EditSchema, projectVars, remoteVars
    <3>2. \A m \in Modules : schema[m] # 0 /\ schema[m] \in Nat
      BY <1>t, <3>1 DEF Typed, LocalSchema
    <3>3. \A m \in Modules : schema'[m] = 0 <=> schema[m] = 0
      BY <1>t, <3>1, <3>2
    <3> QED
      BY <1>g, <3>1, <3>3 DEF Around
  <2>3. CASE StartDocker /\ UNCHANGED <<projectVars, cliVars>>
    <3>1. UNCHANGED <<applied, tree, client, schema, lane, torn, registry, world, ext>>
      BY <2>3 DEF StartDocker, diskVars, projectVars, remoteVars, cliVars
    <3> QED
      BY <1>g, <3>1 DEF Around
  <2> QED
    BY <1>1, <2>1, <2>2, <2>3 DEF User
<1>2. CASE StartCommand \/ RunShutdown \/ CreationStep \/ ContainerStep \/ UNCHANGED vars
  <2>1. UNCHANGED <<applied, tree, client, schema, lane, torn, registry, world, ext>>
    BY <1>2 DEF StartCommand, BeginLoad, RunShutdown, CreationStep, ContainerStep, NodeRemoved, PostgresDies, Creation,
                RemovePostgres, RunPostgres, PostgresReady, Connect, StartNode, InstallPrisma, CreationFails, vars,
                projectVars, remoteVars, migrateVars, diskVars, cliVars
  <2> QED
    BY <1>g, <2>1 DEF Around
<1>3. CASE Change
  <2>1. /\ lane' = [l \in Lanes |-> IF Over(l) THEN lane[l] ELSE [lane[l] EXCEPT !.aborted = TRUE]]
        /\ torn \subseteq torn' /\ UNCHANGED <<applied, tree, client, schema, registry, world, ext>>
    BY <1>3 DEF Change, BeginLoad, diskVars, remoteVars
  <2>2. \A k \in Lanes :
          /\ lane'[k].pc = lane[k].pc /\ lane'[k].kind = lane[k].kind /\ lane'[k].ws = lane[k].ws
          /\ lane'[k].todo = lane[k].todo /\ (lane[k].aborted => lane'[k].aborted)
    BY <1>t, <2>1 DEF LaneType
  <2> QED
    BY <1>g, <2>1, <2>2 DEF Around
<1>4. CASE Kill
  <2>1. /\ ProcessEnds /\ torn' = torn \cup {Module(l) : l \in {k \in Lanes : Uncopied(k)}}
        /\ UNCHANGED <<applied, tree, client, schema, registry, world, ext>>
    BY <1>4 DEF Kill, KillLoad, diskVars, remoteVars
  <2>2. \A k \in Lanes : lane'[k].pc \notin OnModule
    BY <2>1, NewLanesTyped DEF ProcessEnds, OnModule
  <2>3. \A k \in Lanes : Uncopied(k) => Module(k) \in torn'
    BY <2>1
  <2> QED
    BY <1>g, <2>1, <2>2, <2>3 DEF Around
<1>5. CASE Exit
  <2>1. /\ ProcessEnds /\ stage \in {"ending", "dying"}
        /\ UNCHANGED <<applied, tree, client, schema, torn, registry, world, ext>>
    BY <1>5 DEF Exit, diskVars, remoteVars
  <2>2. \A k \in Lanes : lane'[k].pc \notin OnModule
    BY <2>1, NewLanesTyped DEF ProcessEnds, OnModule
  <2>3. \A k \in Lanes : Over(k)
    BY <1>t, <2>1 DEF CInv, Running, Quiet
  <2> QED
    BY <1>g, <2>1, <2>2, <2>3 DEF Around
<1>6. CASE Build \/ RunCommand
  <2>1. LanesBegun
    BY <1>6, RunBegins DEF CInv
  <2>2. UNCHANGED registry /\ ext'.version \in {0, ext.version}
    <3>1. NoModule.version = 0 /\ \A v : [ext EXCEPT !.gen = v].version = ext.version
      BY <1>t DEF NoModule, ModuleType
    <3> QED
      BY <1>6, <3>1 DEF Build, PlanGenerate, PlanModule, ModuleFails, PlanDeploy, PlanDev, BuildOver,
                RunFails, DbOver, GenerateHelper, RunCommand, CleanProject, projectVars
  <2>3. UNCHANGED <<applied, tree, client, schema, torn, world>>
    BY <2>1 DEF LanesBegun, diskVars
  <2>4. \A k \in Lanes : lane'[k] = lane[k] \/ (Over(k) /\ lane'[k].pc \notin OnModule)
    BY <1>t, <2>1 DEF LanesBegun, StepsOver, Fresh, OnModule
  <2> QED
    BY <1>g, <2>2, <2>3, <2>4 DEF Around
<1> QED
  BY <1>1, <1>2, <1>3, <1>4, <1>5, <1>6 DEF CommandStep

\* So they keep what is known of every module,
LEMMA AroundStill == ASSUME NEW m \in Modules, Around PROVE Still(m)
<1>1. ASSUME NEW k \in Lanes
      PROVE  /\ Holds(k, m)' => Holds(k, m) /\ lane'[k].ws.tree = lane[k].ws.tree
                                  /\ (lane[k].aborted => lane'[k].aborted)
             /\ Owes(k, m)' => Owes(k, m) /\ lane'[k].ws.tree = lane[k].ws.tree
             /\ Owes(k, m) /\ m \notin torn' => Owes(k, m)' /\ (lane[k].aborted => lane'[k].aborted)
  <2>1. CASE lane'[k].pc \notin OnModule /\ (Over(k) \/ (Uncopied(k) => Module(k) \in torn'))
    BY <2>1 DEF Holds, Owes, On, Over, OnModule
  <2>2. CASE /\ lane'[k].pc = lane[k].pc /\ lane'[k].kind = lane[k].kind /\ lane'[k].ws = lane[k].ws
             /\ lane'[k].todo = lane[k].todo /\ (lane[k].aborted => lane'[k].aborted)
    BY <2>2 DEF Holds, Owes, On, Uncopied, Module
  <2> QED
    BY <2>1, <2>2 DEF Around
<1>2. FromRegistry(m)' <=> FromRegistry(m)
  BY DEF FromRegistry, Around
<1> QED
  BY <1>1, <1>2 DEF Still, Around

\* and the load copies a module while no lane of its run is at work.
LEMMA LoadSound ==
  ASSUME NoGoingBack, Typed, Ordered, Loads, CInv, CopiedFrom, Load, NEW m \in Modules, Sound(m)
  PROVE  Sound(m)'
<1>t. /\ lane \in [Lanes -> LaneType] /\ schema \in [Modules -> 0..MaxVersion]
      /\ tree \in [Modules -> SUBSET Versions] /\ registry = world.registry
      /\ OtherLanes = Lanes \ MyLanes /\ world \in Worlds
  BY DEF Typed, DbTypes, CliTypes, Loads, ProjectTypeOK, OtherLanes, Ordered
<1>o. UNCHANGED <<applied, lane, torn, registry, world>>
  BY <1>t, OutsideSteps
<1>h. at \notin {"idle", "loaded", "cleaned", "failed"}
  BY DEF Load, Clone, Discard, Fetch, Checkout, SaveGen, EmptyModule, CopyModule, RestoreGen,
         CheckModule
<1>g. /\ Newest \in Nat /\ 1..Newest \subseteq 1..Newest'
      /\ EmptyModule \/ CopyModule => Newest' = Newest
  <2>1. Newest \in Nat /\ Newest' \in Nat /\ Newest <= Newest'
    BY NewestGrows DEF Next, Process
  <2>2. EmptyModule \/ CopyModule => UNCHANGED <<head, clone, wanted>>
    BY DEF EmptyModule, CopyModule, Goto, Throw, remoteVars
  <2> QED
    BY <1>o, <2>1, <2>2, NewestStays
<1>u. ASSUME UNCHANGED <<schema[m], tree[m]>> PROVE Sound(m)'
  <2>1. /\ \A k \in Lanes : (Holds(k, m)' <=> Holds(k, m)) /\ (Owes(k, m)' <=> Owes(k, m))
        /\ FromRegistry(m)' <=> FromRegistry(m)
    BY <1>o DEF Holds, Owes, On, Uncopied, Module, FromRegistry
  <2>2. Still(m)
    BY <1>o, <1>g, <1>u, <2>1 DEF Still
  <2> QED
    BY <2>2, StillSound
<1>1. CASE UNCHANGED migrateVars
  BY <1>1, <1>u DEF migrateVars, diskVars
<1>2. CASE /\ EmptyModule \/ CopyModule
           /\ DbModules # {} /\ ExternalDb(world.db[1], ext'.version)
  <2>1. CASE schema'[m] = schema[m] /\ tree'[m] = tree[m]
    BY <1>u, <2>1
  <2>2. CASE FromRegistry(m) /\ schema'[m] \in {0, Newest} /\ tree'[m] = 1..schema'[m]
    <3>1. FromRegistry(m)' /\ Newest' = Newest
      BY <1>o, <1>g, <1>2, <2>2 DEF FromRegistry
    <3>2. tree'[m] \subseteq 1..Newest /\ 1..Newest \subseteq TreeOf(m)'
      BY <1>g, <2>2, <3>1 DEF TreeOf
    <3>3. SameTree(m)'
      <4>1. stage \in Quiet
        BY <1>h DEF CInv, Copied, Quiet
      <4>2. \A k \in Lanes : Over(k) \/ lane[k].aborted
        BY <1>t, <4>1 DEF CInv, Running
      <4> QED
        BY <1>o, <4>2 DEF SameTree, Holds, Over
    <3>4. \A k \in Lanes : (Holds(k, m)' <=> Holds(k, m)) /\ (Owes(k, m)' <=> Owes(k, m))
      BY <1>o DEF Holds, Owes, On, Uncopied, Module
    <3>5. ASSUME Settled(m)' PROVE Kept(m)'
      <4>1. Settled(m)
        BY <1>o, <3>4, <3>5 DEF Settled
      <4>2. tree[m] \subseteq 1..Newest /\ Within(m, TreeOf(m))
        BY <2>2, <4>1 DEF Sound, Kept
      <4>3. TreeOf(m) \subseteq 1..Newest
        BY <4>2 DEF TreeOf
      <4>4. Within(m, TreeOf(m))'
        BY <1>o, <3>2, <3>4, <4>2, <4>3 DEF Within
      <4> QED
        BY <3>1, <3>2, <4>4 DEF Kept
    <3> QED
      BY <3>3, <3>5 DEF Sound
  <2> QED
    BY <1>2, <2>1, <2>2, LoadCopies
<1> QED
  BY <1>1, <1>2 DEF Load

\* A lane's kind says where it may be.
LEMMA KindsStep ==
  Typed /\ Ordered /\ CInv /\ KindsAtPlaces /\ [Next]_vars => KindsAtPlaces'
<1> SUFFICES ASSUME Typed, Ordered, CInv, KindsAtPlaces, [Next]_vars PROVE KindsAtPlaces'
  OBVIOUS
<1>t. lane \in [Lanes -> LaneType] /\ MyLanes \subseteq Lanes /\ OtherLanes = Lanes \ MyLanes
  BY DEF Typed, DbTypes, MyLanes, OtherLanes
<1>k. ASSUME \A k \in Lanes : \/ lane'[k].pc = lane[k].pc /\ lane'[k].kind = lane[k].kind
                              \/ lane'[k].pc \notin OnModule
      PROVE  KindsAtPlaces'
  BY <1>k DEF KindsAtPlaces, OnModule
<1>1. CASE User \/ Load \/ UNCHANGED vars
  BY <1>1, <1>k, OutsideSteps
<1>2. CASE StartCommand \/ RunShutdown \/ CreationStep \/ ContainerStep
  BY <1>2, <1>k DEF StartCommand, RunShutdown, CreationStep, ContainerStep, NodeRemoved, PostgresDies, Creation,
                RemovePostgres, RunPostgres, PostgresReady, Connect, StartNode, InstallPrisma, CreationFails,
                migrateVars
<1>3. CASE Change
  <2>1. lane' = [l \in Lanes |-> IF Over(l) THEN lane[l] ELSE [lane[l] EXCEPT !.aborted = TRUE]]
    BY <1>3 DEF Change
  <2> QED
    BY <1>k, <1>t, <2>1 DEF LaneType
<1>4. CASE Kill \/ Exit
  <2>1. ProcessEnds
    BY <1>4 DEF Kill, Exit
  <2> QED
    BY <1>k, <2>1, NewLanesTyped DEF ProcessEnds, OnModule
<1>5. CASE Build \/ RunCommand
  <2>1. LanesBegun
    BY <1>5, RunBegins DEF CInv
  <2> QED
    BY <1>k, <1>t, <2>1 DEF LanesBegun, Fresh, OnModule
<1>6. ASSUME NEW l \in Lanes, LaneStep(l) PROVE KindsAtPlaces'
  <2>1. Effects(l) /\ Shape(l)
    BY <1>6, LaneEffects, LaneMoves DEF Typed, LaneStep
  <2>2. /\ lane'[l].kind = lane[l].kind /\ \A k \in Lanes \ {l} : lane'[k] = lane[k]
    BY <2>1 DEF Shape
  <2>3. EmptyMigrations(l) => lane[l].pc = "empty"
    BY DEF EmptyMigrations, At
  <2>4. /\ lane'[l].pc \in {"empty", "back"} => lane'[l].kind \in {"dev", "createOnly"}
        /\ lane'[l].pc \in {"emptyClient", "copyClient"} => lane'[l].kind = "generate"
    BY <2>1, <2>2, <2>3 DEF Effects, KindsAtPlaces
  <2> QED
    BY <2>2, <2>4 DEF KindsAtPlaces
<1> QED
  BY <1>1, <1>2, <1>3, <1>4, <1>5, <1>6 DEF Next, Process, CommandStep

\* What there is of the module is what was copied last, whatever commands ran since.
LEMMA LastCopyStep ==
  NoGoingBack /\ Typed /\ Ordered /\ Loads /\ CInv /\ KindsAtPlaces /\ CopiedFrom /\ [Next]_vars
    => CopiedFrom'
<1> SUFFICES ASSUME NoGoingBack, Typed, Ordered, Loads, CInv, KindsAtPlaces, CopiedFrom, [Next]_vars
             PROVE  CopiedFrom'
  OBVIOUS
<1>t. /\ schema \in [Modules -> 0..MaxVersion] /\ tree \in [Modules -> SUBSET Versions]
      /\ ext \in ModuleType /\ UNCHANGED <<world, registry>>
      /\ \A m \in Modules : FromRegistry(m)' <=> FromRegistry(m)
  BY WorldStays DEF Typed, DbTypes, Loads, ProjectTypeOK, ModuleType, FromRegistry
<1>k. ASSUME ext'.version \in {0, ext.version},
             \A m \in Modules : FromRegistry(m) => schema'[m] = schema[m] /\ tree'[m] = tree[m]
      PROVE  CopiedFrom'
  BY <1>k, <1>t DEF CopiedFrom
<1>1. CASE \/ User \/ StartCommand \/ Change \/ Kill \/ CommandStep \/ CreationStep \/ ContainerStep
           \/ UNCHANGED vars
  BY <1>1, <1>k, StepsAround DEF Around, FromRegistry
<1>2. ASSUME NEW l \in Lanes, LaneStep(l) PROVE CopiedFrom'
  <2>1. /\ UNCHANGED ext /\ Effects(l) /\ Shape(l) /\ GoodLane(lane[l])
    BY <1>2, LaneEffects, LaneMoves DEF LaneStep, Typed, DbTypes, projectVars
  <2>2. EmptyMigrations(l) \/ CopyMigrationsBack(l) => registry = "local"
    BY <2>1 DEF EmptyMigrations, CopyMigrationsBack, At, KindsAtPlaces, GoodLane
  <2>3. \A m \in Modules : FromRegistry(m) => tree'[m] = tree[m]
    BY <2>1, <2>2 DEF Effects, FromRegistry
  <2> QED
    BY <1>k, <2>1, <2>3 DEF Shape
<1>3. CASE Load
  <2>1. CASE (Clone \/ Discard \/ Fetch \/ Checkout \/ SaveGen \/ RestoreGen \/ CheckModule)
             /\ UNCHANGED <<migrateVars, cliVars>>
    <3>1. ext'.version = ext.version
      BY <1>t, <2>1 DEF Clone, Discard, Fetch, Checkout, SaveGen, RestoreGen, CheckModule, ModuleType
    <3> QED
      BY <1>k, <2>1, <3>1 DEF migrateVars, diskVars
  <2>2. CASE DbModules = {}
    <3>1. world.db = <<>>
      <4>1. world.db \in Seq(Modules)
        BY WorldTyped
      <4>2. ASSUME world.db # <<>> PROVE FALSE
        <5>1. 1 \in DOMAIN world.db
          BY <4>1, <4>2
        <5> QED
          BY <2>2, <5>1 DEF DbModules
      <4> QED
        BY <4>2
    <3> QED
      BY <1>t, <3>1 DEF CopiedFrom, FromRegistry
  <2>3. CASE DbModules # {} /\ ExternalDb(world.db[1], ext'.version)
    <3>1. \A m \in Modules : FromRegistry(m) =>
            schema'[m] = ext'.version /\ tree'[m] = 1..ext'.version
      BY <1>t, <2>3 DEF ExternalDb, FromRegistry
    <3> QED
      BY <1>t, <3>1 DEF CopiedFrom
  <2> QED
    BY <1>3, <2>1, <2>2, <2>3 DEF Load
<1> QED
  BY <1>1, <1>2, <1>3 DEF Next, Process

\* Every step keeps applied migrations in the tree.
LEMMA TreesStep ==
  NoGoingBack /\ Typed /\ Ordered /\ Loads /\ CInv /\ TreesKept /\ [Next]_vars => TreesKept'
<1> SUFFICES ASSUME NoGoingBack, Typed, Ordered, Loads, CInv, TreesKept, [Next]_vars
             PROVE  TreesKept'
  OBVIOUS
<1>1. KindsAtPlaces' /\ CopiedFrom'
  BY KindsStep, LastCopyStep DEF TreesKept
<1>2. ASSUME NEW m \in Modules PROVE Sound(m)'
  <2>1. Sound(m)
    BY DEF TreesKept
  <2>2. CASE Load
    BY <2>1, <2>2, LoadSound DEF TreesKept
  <2>3. ASSUME NEW l \in Lanes, LaneStep(l) PROVE Sound(m)'
    BY <2>3, LaneSound
  <2>4. CASE \/ User \/ StartCommand \/ Change \/ Kill \/ CommandStep \/ CreationStep \/ ContainerStep
             \/ UNCHANGED vars
    BY <2>1, <2>4, StepsAround, AroundStill, StillSound
  <2> QED
    BY <2>2, <2>3, <2>4 DEF Next, Process
<1> QED
  BY <1>1, <1>2 DEF TreesKept

\* Before the first command no database has a migration.
LEMMA TreesInit == Init => TreesKept
<1> SUFFICES ASSUME Init PROVE TreesKept
  OBVIOUS
<1>1. \A l \in Lanes : lane[l].pc = "done"
  BY NewLanesTyped DEF Init, MigrateInit
<1>2. (\A m \in Modules : applied[m] = {} /\ tree[m] = {}) /\ ext.version = 0
  BY DEF Init, MigrateInit, ProjectInit, NoModule
<1>3. \A l \in Lanes, m \in Modules : ~Holds(l, m) /\ ~Owes(l, m)
  BY <1>1 DEF Holds, Owes, Uncopied
<1> QED
  BY <1>1, <1>2, <1>3 DEF TreesKept, KindsAtPlaces, CopiedFrom, Sound, SameTree, Settled, Kept,
                          Within

\* The trees are kept in every behaviour.
LEMMA AlwaysKept ==
  ASSUME NoGoingBack PROVE Spec => [](Typed /\ Ordered /\ Loads /\ CInv /\ TreesKept)
<1>1. TreesKept /\ (Typed /\ Ordered /\ Loads /\ CInv) /\ [Next]_vars => TreesKept'
  BY TreesStep
<1>2. Init => TreesKept
  BY TreesInit
<1> QED
  BY <1>1, <1>2, AlwaysCInv, PTL DEF Spec

\* The migrations that are applied to a database are in the source tree,
\* whatever builds, commands, aborts, failures and kills came before and run
\* beside (dev.ts copies migrations back after Prisma has applied them): in a
\* project that never loads an older version of a module than before.
THEOREM MigrationsAreKept == ASSUME NoGoingBack PROVE Spec => []AppliedInTree
<1>1. TreesKept => AppliedInTree
  <2> SUFFICES ASSUME TreesKept, NEW m \in Modules \ torn, schema[m] # 0,
                      \A l \in Lanes : Uncopied(l) => Module(l) # m
               PROVE  applied[m] \subseteq tree[m]
    BY DEF AppliedInTree
  <2>1. \A l \in Lanes : ~Owes(l, m)
    BY DEF Owes, On
  <2>2. Kept(m)
    BY <2>1 DEF TreesKept, Sound, Settled
  <2> QED
    BY <2>1, <2>2 DEF Kept, Within, TreeOf
<1> QED
  BY <1>1, AlwaysKept, PTL

-----------------------------------------------------------------------------
\* What the cache says of the client and the databases.

\* The version a module has or, while it is copied, will have at least,
V(m) == IF schema[m] = 0 THEN Newest ELSE schema[m]
Sourced == \A m \in Modules : FromRegistry(m) => schema[m] <= Newest /\ tree[m] \subseteq 1..Newest

\* and the migrations that are in its tree, or will be again.
InTree(m, S) ==
  /\ (\A l \in Lanes : At(l, "back") => Module(l) # m) => S \subseteq TreeOf(m)
  /\ \A l \in Lanes : At(l, "back") /\ Module(l) = m => S \subseteq lane[l].ws.tree
Keeps(m, S) == InTree(m, S) /\ S \subseteq applied[m]

\* The lanes of a run do what its stage is for, those of a build only can be
\* aborted, and a lane that is done has nothing left to do.
StageKinds ==
  /\ stage = "db" => command \in DbCommands
  /\ stage \in {"ensure", "generate", "module", "deploy", "dev"} => command \in Builds
  /\ \A l \in MyLanes : ~Over(l) => lane[l].kind = IF stage = "db" THEN command ELSE stage
  /\ \A l \in Lanes :
       /\ lane[l].aborted /\ ~Over(l) => lane[l].kind \in {"ensure", "generate", "deploy", "dev"}
       /\ lane[l].pc = "done" \/ lane[l].kind = "ensure" => lane[l].todo = <<>>

\* A lane that is not aborted has copied the whole tree, and what `dev` and
\* `deploy` have copied is applied.
Carries(m) ==
  m \notin torn => \A l \in Lanes : ~lane[l].aborted /\ On(l, m) =>
    /\ lane[l].pc \in {"chown", "exec", "chown2", "empty"} => tree[m] \subseteq lane[l].ws.tree
    /\ lane[l].kind \in {"deploy", "dev"} /\ lane[l].pc \in {"chown2", "empty", "back"} =>
         lane[l].ws.tree \subseteq applied[m]
    /\ lane[l].kind = "dev" /\ lane[l].pc \in {"chown2", "empty", "back"} =>
         lane[l].ws.schema \in lane[l].ws.tree

\* A hash is of what there is, or of an older version.
InRange(h, m) == h.client <= V(m) /\ h.devSchema <= V(m) /\ InTree(m, h.deployed \cup h.dev)
ClientKnown(h, m) == client[m] = h.client \/ h.client < V(m)
SetsKnown(h, m) == h.deployed \cup h.dev \subseteq applied[m]
DevKnown(h, m) == h.devSchema < V(m) \/ Keeps(m, {h.devSchema})
Recorded(h, m) == InRange(h, m) /\ ClientKnown(h, m) /\ SetsKnown(h, m) /\ DevKnown(h, m)

\* The step of the run for module m is not yet over.
Pending(m) == lane[<<slot, m>>].todo # <<>>
InBuild == command \in Builds
             /\ stage \in {"ensure", "generate", "module", "deploy", "dev", "over"}

\* What a build has hashed is so, but for the step that is still pending.
MemTrue(m) ==
  InBuild =>
    /\ InRange(mem[m], m)
    /\ ~(stage = "generate" /\ Pending(m)) => ClientKnown(mem[m], m)
    /\ ~(stage \in {"deploy", "dev"} /\ Pending(m)) => SetsKnown(mem[m], m)
    /\ ~(stage = "dev" /\ Pending(m)) => DevKnown(mem[m], m)
    /\ stage = "ensure" => mem[m] = saved[m]
    /\ stage = "generate" /\ Pending(m) => saved[m].client < V(m)
\* A lane's copy is as new as what was hashed.
CopyIsNew(m) ==
  InBuild => \A l \in Lanes :
    ~lane[l].aborted /\ On(l, m) /\ lane[l].pc \notin {"create", "prisma", "copy"} =>
      /\ mem[m].client <= lane[l].ws.schema /\ mem[m].devSchema <= lane[l].ws.schema
      /\ lane[l].ws.schema <= V(m)

Known(m) == m \notin torn => Recorded(saved[m], m) /\ MemTrue(m) /\ CopyIsNew(m)

\* What a build has done so far, if no schema was edited.
Progress ==
  /\ left \subseteq DbModules
  /\ stage = "over" /\ command \in {"migrate", "forceDeploy"} => left = {}
  /\ \A m \in DbModules :
       InBuild =>
         /\ ~edited /\ stage # "ensure" => mem[m].client = schema[m]
         /\ stage \in {"deploy", "dev", "over"} /\ command \in {"migrate", "forceDeploy"}
              /\ m \notin left \cup torn /\ ~(stage \in {"deploy", "dev"} /\ Pending(m)) =>
                tree[m] \subseteq applied[m]
         /\ stage \in {"deploy", "dev", "over"} /\ command = "migrate" /\ ~IsExternal
              /\ m \notin left /\ ~edited => mem[m].devSchema = schema[m]

RecordsTrue == Sourced /\ StageKinds /\ (\A m \in Modules : Carries(m) /\ Known(m)) /\ Progress

\* A version is a number,
LEMMA VersionTyped ==
  ASSUME Typed, Loads, NEW m \in Modules PROVE V(m) \in Nat /\ V(m) >= 1 /\ schema[m] \in Nat
<1>1. schema[m] \in Nat /\ Newest \in Nat /\ Newest >= 1
  BY NewestTyped DEF Typed, DbTypes
<1> QED
  BY <1>1 DEF V

\* and no version that a module had comes back.
LEMMA VersionsGrow ==
  ASSUME NoGoingBack, Typed, Ordered, Loads, CInv, TreesKept, Sourced, [Next]_vars
  PROVE  Sourced' /\ \A m \in Modules : V(m)' \in Nat /\ V(m) <= V(m)'
<1>t. schema \in [Modules -> 0..MaxVersion] /\ UNCHANGED <<world, registry>>
  BY WorldStays DEF Typed, DbTypes
<1>g. Newest \in Nat /\ Newest' \in Nat /\ Newest <= Newest' /\ 1..Newest \subseteq 1..Newest'
  <2>1. Newest \in Nat /\ Newest' \in Nat /\ Newest <= Newest'
    BY NewestGrows
  <2> QED
    BY <2>1
<1>n. \A m \in Modules : schema[m] \in Nat /\ V(m) \in Nat /\ V(m) >= 1
  BY VersionTyped
<1>f. \A m \in Modules : FromRegistry(m)' <=> FromRegistry(m)
  BY <1>t DEF FromRegistry
<1>s. ASSUME NEW m \in Modules,
             schema'[m] = schema[m],
             FromRegistry(m) => tree'[m] = tree[m]
      PROVE  /\ FromRegistry(m)' => schema'[m] <= Newest' /\ tree'[m] \subseteq 1..Newest'
             /\ V(m)' \in Nat /\ V(m) <= V(m)'
  <2>1. FromRegistry(m) => schema[m] <= Newest /\ tree[m] \subseteq 1..Newest
    BY DEF Sourced
  <2> QED
    BY <1>f, <1>g, <1>n, <1>s, <2>1 DEF V
<1>1. ASSUME NEW n \in Modules, EditSchema(n), NEW m \in Modules
      PROVE  /\ FromRegistry(m)' => schema'[m] <= Newest' /\ tree'[m] \subseteq 1..Newest'
             /\ V(m)' \in Nat /\ V(m) <= V(m)'
  <2>1. schema' = [schema EXCEPT ![n] = @ + 1] /\ registry = "local"
    BY <1>1 DEF EditSchema
  <2>2. schema[m] # 0 /\ schema[m] \in Nat
    BY <1>n, <2>1 DEF Typed, LocalSchema
  <2>3. schema'[m] = schema[m] \/ schema'[m] = schema[m] + 1
    BY <1>t, <2>1
  <2> QED
    BY <1>t, <2>1, <2>2, <2>3 DEF V, FromRegistry
<1>2. ASSUME ~(\E n \in Modules : EditSchema(n)), ~Load, NEW m \in Modules
      PROVE  schema'[m] = schema[m] /\ (FromRegistry(m) => tree'[m] = tree[m])
  <2>1. CASE User
    BY <1>2, <2>1 DEF User, StartDocker, migrateVars, diskVars
  <2>2. CASE StartCommand \/ Change \/ Kill \/ RunShutdown \/ Exit \/ UNCHANGED vars
    BY <2>2 DEF StartCommand, Change, Kill, RunShutdown, Exit, vars, migrateVars, diskVars
  <2>3. CASE Build \/ RunCommand
    BY <2>3, RunBegins DEF LanesBegun, diskVars, CInv
  <2>4. CASE CreationStep \/ ContainerStep
    BY <2>4 DEF CreationStep, ContainerStep, NodeRemoved, PostgresDies, Creation, RemovePostgres,
                RunPostgres, PostgresReady, Connect, StartNode, InstallPrisma, CreationFails, diskVars
  <2>5. ASSUME NEW l \in Lanes, LaneStep(l)
        PROVE  schema'[m] = schema[m] /\ (FromRegistry(m) => tree'[m] = tree[m])
    <3>1. Effects(l) /\ Shape(l) /\ GoodLane(lane[l])
      BY <2>5, LaneEffects, LaneMoves DEF LaneStep, Typed, DbTypes, projectVars
    <3>2. EmptyMigrations(l) \/ CopyMigrationsBack(l) => registry = "local"
      BY <3>1 DEF EmptyMigrations, CopyMigrationsBack, At, TreesKept, KindsAtPlaces, GoodLane
    <3> QED
      BY <3>1, <3>2 DEF Effects, FromRegistry, Shape
  <2> QED
    BY <1>2, <2>1, <2>2, <2>3, <2>4, <2>5 DEF Next, Process, CommandStep
<1>3. ASSUME Load, NEW m \in Modules
      PROVE  /\ FromRegistry(m)' => schema'[m] <= Newest' /\ tree'[m] \subseteq 1..Newest'
             /\ V(m)' \in Nat /\ V(m) <= V(m)'
  <2>1. CASE UNCHANGED migrateVars
    BY <1>s, <2>1 DEF migrateVars, diskVars
  <2>2. CASE /\ EmptyModule \/ CopyModule
             /\ DbModules # {} /\ ExternalDb(world.db[1], ext'.version)
    <3>1. CASE schema'[m] = schema[m] /\ tree'[m] = tree[m]
      BY <1>s, <3>1
    <3>2. CASE FromRegistry(m) /\ schema'[m] \in {0, Newest} /\ tree'[m] = 1..schema'[m]
      <4>1. schema[m] <= Newest
        BY <3>2 DEF Sourced
      <4>2. Newest' = Newest
        BY <1>t, <2>2, NewestStays DEF EmptyModule, CopyModule, Goto, Throw, remoteVars
      <4>3. V(m) <= Newest /\ V(m)' = Newest
        BY <1>g, <1>n, <3>2, <4>1, <4>2 DEF V
      <4> QED
        BY <1>g, <3>2, <4>2, <4>3
    <3> QED
      BY <2>2, <3>1, <3>2, LoadCopies DEF TreesKept
  <2> QED
    BY <1>3, <2>1, <2>2 DEF Load
<1>4. ASSUME NEW m \in Modules
      PROVE  /\ FromRegistry(m)' => schema'[m] <= Newest' /\ tree'[m] \subseteq 1..Newest'
             /\ V(m)' \in Nat /\ V(m) <= V(m)'
  BY <1>s, <1>1, <1>2, <1>3
<1> QED
  BY <1>4 DEF Sourced

\* What a step planned for some modules begins.
LEMMA PlannedLanes ==
  ASSUME Typed, NEW kind \in {"generate", "deploy", "dev"}, NEW modules, Plan(kind, modules)
  PROVE  /\ \A k \in OtherLanes : lane'[k] = lane[k]
         /\ \A k \in MyLanes :
              IF k[2] \in modules /\ NeedsBuild(k[2], kind)
              THEN /\ lane'[k].kind = kind /\ lane'[k].pc = "postgres" /\ lane'[k].aborted = FALSE
                   /\ lane'[k].todo = <<k[2]>>
              ELSE lane'[k] = NoLane
<1>t. /\ MyLanes \subseteq Lanes /\ kind \in LaneKinds /\ OtherLanes = Lanes \ MyLanes
      /\ \A k \in Lanes : k[2] \in Modules
  BY LanesOfARun DEF Typed, OtherLanes, LaneKinds
<1>1. \A k \in OtherLanes : lane'[k] = lane[k]
  BY <1>t DEF Plan
<1>2. ASSUME NEW k \in MyLanes, k[2] \in modules /\ NeedsBuild(k[2], kind)
      PROVE  /\ lane'[k].kind = kind /\ lane'[k].pc = "postgres" /\ lane'[k].aborted = FALSE
             /\ lane'[k].todo = <<k[2]>>
  <2> DEFINE todo == <<k[2]>>
  <2>1. todo \in Seq(Modules) /\ lane'[k] = NewLane(kind, todo)
    BY <1>t, <1>2 DEF Plan
  <2> HIDE DEF todo
  <2>2. lane'[k].kind = kind /\ lane'[k].pc = "postgres" /\ lane'[k].aborted = FALSE
        /\ lane'[k].todo = todo
    BY <1>t, <2>1, NewLanesTyped
  <2> QED
    BY <2>2 DEF todo
<1>3. \A k \in MyLanes : ~(k[2] \in modules /\ NeedsBuild(k[2], kind)) => lane'[k] = NoLane
  BY <1>t DEF Plan
<1> QED
  BY <1>1, <1>2, <1>3

\* The lanes of a run begin as its stage wants them.
LEMMA KindsPlanned ==
  ASSUME Typed, Ordered, CInv, StageKinds, Build \/ RunCommand
  PROVE  /\ \A k \in MyLanes :
              \/ lane'[k] = lane[k] \/ lane'[k] = NoLane
              \/ /\ lane'[k].kind = IF stage' = "db" THEN command ELSE stage'
                 /\ lane'[k].pc = "postgres" /\ lane'[k].aborted = FALSE
                 /\ stage' = "ensure" => lane'[k].todo = <<>>
         /\ stage' = "db" => command \in DbCommands
         /\ stage' \in {"ensure", "generate", "module", "deploy", "dev"} => command \in Builds
<1>t. MyLanes \subseteq Lanes /\ TheLane \in MyLanes
  BY LanesOfARun DEF Typed
<1>1. CASE PlanGenerate
  <2>1. stage = "ensure" /\ stage' = "generate" /\ Plan("generate", DbModules)
    BY <1>1 DEF PlanGenerate
  <2> QED
    BY <2>1, PlannedLanes DEF StageKinds
<1>2. CASE PlanModule \/ BuildOver \/ ModuleFails \/ RunFails \/ DbOver
  <2>1. UNCHANGED lane /\ stage' \in {"module", "over", "failed"}
        /\ (stage' = "module" => stage = "generate")
    BY <1>2 DEF PlanModule, BuildOver, ModuleFails, RunFails, DbOver, Wait, migrateVars
  <2> QED
    BY <2>1 DEF StageKinds
<1>3. CASE PlanDeploy
  <2>1. /\ stage = "module" /\ stage' \in {"over", "deploy"}
        /\ IF command = "build" THEN UNCHANGED lane /\ stage' = "over"
           ELSE Plan("deploy", Deployable) /\ stage' = "deploy"
    BY <1>3 DEF PlanDeploy, Wait
  <2> QED
    BY <2>1, PlannedLanes DEF StageKinds
<1>4. CASE PlanDev
  <2>1. stage \in {"deploy", "dev"} /\ stage' = "dev" /\ \E m \in left : Plan("dev", {m})
    BY <1>4 DEF PlanDev, Wait
  <2> QED
    BY <2>1, PlannedLanes DEF StageKinds
<1>5. CASE RunCommand
  <2>o. ASSUME NEW x, Only(TheLane, x) PROVE \A k \in MyLanes : lane'[k] = x \/ lane'[k] = NoLane
    BY <1>t, <2>o DEF Only
  <2>1. CASE command \in Builds
    <3>1. stage' = "ensure" /\ Only(TheLane, NewLane("ensure", <<>>))
      BY <1>5, <2>1 DEF RunCommand, Builds, DbCommands
    <3> DEFINE none == <<>>
               x == NewLane("ensure", none)
    <3>2. none \in Seq(Modules) /\ "ensure" \in LaneKinds
      BY DEF LaneKinds
    <3> HIDE DEF none
    <3>3. x.kind = "ensure" /\ x.pc = "postgres" /\ x.aborted = FALSE /\ x.todo = none
      BY <3>2, NewLanesTyped
    <3> USE DEF none
    <3> HIDE DEF x
    <3>4. Only(TheLane, x)
      BY <3>1 DEF x
    <3> QED
      BY <2>1, <2>o, <3>1, <3>3, <3>4
  <2>2. CASE command \in DbCommands
    <3>1. /\ stage' = IF command \in {"dev", "createOnly"} /\ IsExternal THEN "failed" ELSE "db"
          /\ Only(TheLane, IF stage' = "db" THEN NewLane(command, world.db) ELSE NoLane)
      BY <1>5, <2>2 DEF RunCommand, Builds, DbCommands
    <3>2. command \in LaneKinds /\ world.db \in Seq(Modules)
      BY <2>2, WorldTyped DEF LaneKinds, DbCommands
    <3>3. NewLane(command, world.db).kind = command /\ NewLane(command, world.db).pc = "postgres"
          /\ NewLane(command, world.db).aborted = FALSE
      BY <3>2, NewLanesTyped
    <3> DEFINE x == IF stage' = "db" THEN NewLane(command, world.db) ELSE NoLane
    <3>4. \A k \in MyLanes : lane'[k] = x \/ lane'[k] = NoLane
      BY <2>o, <3>1
    <3>5. stage' \in {"failed", "db"}
      BY <3>1
    <3> QED
      BY <2>2, <3>3, <3>4, <3>5
  <2>3. CASE command = "clean"
    <3>1. stage' = "over" /\ UNCHANGED lane
      BY <1>5, <2>3 DEF RunCommand, Builds, DbCommands
    <3> QED
      BY <3>1
  <2> QED
    BY <1>5, <2>1, <2>2, <2>3 DEF RunCommand
<1> QED
  BY <1>1, <1>2, <1>3, <1>4, <1>5 DEF Build

\* A lane is done when it has nothing left to do.
LEMMA DoneIsAll ==
  ASSUME DbTypes, NEW l \in Lanes, LaneRuns(l), lane'[l].pc = "done", lane[l].kind # "ensure"
  PROVE  lane[l].todo = <<>>
<1>l. lane \in [Lanes -> LaneType] /\ lane[l] \in LaneType
  BY DEF DbTypes
<1>g. ASSUME NEW pc, Goes(l, pc) PROVE lane'[l].pc = pc
  BY <1>l, <1>g DEF Goes, LaneType
<1>m. Shape(l) /\ (Asks(l) \/ Passes(l, lane[l].pc, "done"))
  BY LaneMoves
<1>1. lane[l].pc \in {"postgres", "next"} /\ ~Asks(l)
  BY <1>m DEF Passes, Asks, Resources
<1>2. CASE lane[l].pc = "postgres"
  <2>1. AwaitOnce(l, "postgres", "client")
    BY <1>2 DEF LaneRuns, AwaitOnce, NextModule, CreateDatabase, CopyToWorkspace, Chown, Prisma, Chown2,
                LaneFails, EmptyMigrations, CopyMigrationsBack, EmptyClient, CopyClient, At
  <2>2. lane'[l].pc \in {"postgres", "client", "failed"}
    BY <1>2, <1>g, <2>1 DEF AwaitOnce
  <2> QED
    BY <2>2
<1>3. CASE lane[l].pc = "next"
  <2>1. NextModule(l)
    BY <1>3 DEF LaneRuns, AwaitOnce, CreateDatabase, CopyToWorkspace, Chown, Prisma, Chown2,
                LaneFails, EmptyMigrations, CopyMigrationsBack, EmptyClient, CopyClient, At
  <2> QED
    BY <1>g, <2>1 DEF NextModule
<1> QED
  BY <1>1, <1>2, <1>3

\* Every step keeps the kind of the lanes with the stage of the command.
LEMMA StageKindsStep ==
  Typed /\ Ordered /\ CInv /\ StageKinds /\ [Next]_vars => StageKinds'
<1> SUFFICES ASSUME Typed, Ordered, CInv, StageKinds, [Next]_vars PROVE StageKinds'
  OBVIOUS
<1>t. /\ lane \in [Lanes -> LaneType] /\ MyLanes \subseteq Lanes /\ OtherLanes = Lanes \ MyLanes
      /\ slot \in {0, 1} /\ MyLanes = {l \in Lanes : l[1] = slot} /\ stage \in Stages
  BY DEF Typed, DbTypes, CliTypes, MyLanes, OtherLanes
<1>u. ASSUME UNCHANGED <<lane, slot>>,
             \/ UNCHANGED <<stage, command>>
             \/ stage' \in Quiet /\ \A l \in MyLanes : Over(l)
      PROVE  StageKinds'
  BY <1>u DEF StageKinds, MyLanes, Over, Quiet
<1>n. ASSUME ProcessEnds, stage' = "none" PROVE StageKinds'
  BY <1>n, NewLanesTyped DEF StageKinds, ProcessEnds, Over, MyLanes
<1>1. CASE User \/ Load \/ UNCHANGED vars
  BY <1>1, <1>u, OutsideSteps
<1>2. CASE StartCommand
  <2>1. stage' = "none" /\ UNCHANGED <<lane, slot>> /\ command = "none"
    BY <1>2 DEF StartCommand, migrateVars
  <2> QED
    BY <1>t, <1>u, <2>1 DEF CInv, Running, Quiet
<1>3. CASE RunShutdown
  <2>1. stage' \in {"ending", "dying"} /\ UNCHANGED <<lane, slot>> /\ stage \in Quiet
    BY <1>3 DEF RunShutdown, CommandOver, Quiet
  <2> QED
    BY <1>u, <2>1 DEF CInv, Running, Quiet
<1>4. CASE CreationStep \/ ContainerStep
  <2>1. UNCHANGED <<lane, slot, stage, command>>
    BY <1>4 DEF CreationStep, ContainerStep, NodeRemoved, PostgresDies, Creation, RemovePostgres, RunPostgres,
                PostgresReady, Connect, StartNode, InstallPrisma, CreationFails, cliVars
  <2> QED
    BY <1>u, <2>1
<1>5. CASE Kill \/ Exit
  BY <1>5, <1>n DEF Kill, Exit
<1>6. CASE Change
  <2>1. /\ lane' = [l \in Lanes |-> IF Over(l) THEN lane[l] ELSE [lane[l] EXCEPT !.aborted = TRUE]]
        /\ slot' = 1 - slot /\ stage' = "none" /\ command \in Builds /\ UNCHANGED command
        /\ \A l \in OtherLanes : Over(l)
    BY <1>6 DEF Change
  <2>2. \A l \in Lanes : /\ lane'[l].pc = lane[l].pc /\ lane'[l].kind = lane[l].kind
                         /\ lane'[l].todo = lane[l].todo
    BY <1>t, <2>1 DEF LaneType
  <2>3. \A l \in MyLanes' : Over(l)'
    BY <1>t, <2>1, <2>2 DEF MyLanes, OtherLanes, Over
  <2>4. stage # "db"
    BY <2>1 DEF StageKinds, Builds, DbCommands
  <2>5. \A l \in Lanes : ~Over(l) => lane[l].kind \in {"ensure", "generate", "deploy", "dev"}
    <3> SUFFICES ASSUME NEW l \in Lanes, ~Over(l)
                 PROVE  lane[l].kind \in {"ensure", "generate", "deploy", "dev"}
      OBVIOUS
    <3>1. l \in MyLanes
      BY <1>t, <2>1
    <3>2. stage \notin Quiet /\ lane[l].kind = stage
      BY <2>4, <3>1 DEF StageKinds, CInv, Running
    <3>3. lane[l].kind \in LaneKinds
      BY <1>t DEF LaneType
    <3> QED
      BY <1>t, <2>4, <3>2, <3>3 DEF LaneKinds, Stages, Quiet
  <2> QED
    BY <2>1, <2>2, <2>3, <2>5 DEF StageKinds, Over
<1>7. CASE Build \/ RunCommand
  <2>1. /\ \A k \in MyLanes :
              \/ lane'[k] = lane[k] \/ lane'[k] = NoLane
              \/ /\ lane'[k].kind = IF stage' = "db" THEN command ELSE stage'
                 /\ lane'[k].pc = "postgres" /\ lane'[k].aborted = FALSE
                 /\ stage' = "ensure" => lane'[k].todo = <<>>
        /\ stage' = "db" => command \in DbCommands
        /\ stage' \in {"ensure", "generate", "module", "deploy", "dev"} => command \in Builds
    BY <1>7, KindsPlanned
  <2>2. LanesBegun
    BY <1>7, RunBegins DEF CInv
  <2>3. /\ StepsOver /\ UNCHANGED <<command, slot>> /\ MyLanes' = MyLanes
        /\ \A k \in OtherLanes : lane'[k] = lane[k]
    BY <2>2 DEF LanesBegun, MyLanes
  <2>4. \A l \in MyLanes : ~Over(l)' => lane'[l].kind = IF stage' = "db" THEN command ELSE stage'
    BY <2>1, <2>3, NewLanesTyped DEF StepsOver, Over
  <2>5. ASSUME NEW l \in Lanes
        PROVE  /\ lane'[l].aborted /\ ~Over(l)' => lane'[l].kind \in {"ensure", "generate", "deploy", "dev"}
               /\ lane'[l].pc = "done" \/ lane'[l].kind = "ensure" => lane'[l].todo = <<>>
    <3>1. CASE lane'[l] = lane[l]
      BY <3>1 DEF StageKinds, Over
    <3>2. CASE lane'[l] = NoLane
      BY <3>2, NewLanesTyped DEF Over
    <3>3. CASE /\ lane'[l].kind = IF stage' = "db" THEN command ELSE stage'
               /\ lane'[l].pc = "postgres" /\ lane'[l].aborted = FALSE
               /\ stage' = "ensure" => lane'[l].todo = <<>>
      <4>1. lane'[l].kind = "ensure" => stage' = "ensure"
        BY <2>1, <3>3 DEF DbCommands
      <4> QED
        BY <3>3, <4>1
    <3> QED
      BY <1>t, <2>1, <2>3, <3>1, <3>2, <3>3
  <2> QED
    BY <2>1, <2>3, <2>4, <2>5 DEF StageKinds
<1>8. ASSUME NEW l \in Lanes, LaneStep(l) PROVE StageKinds'
  <2>1. /\ Shape(l) /\ LaneRuns(l) /\ DbTypes /\ GoodLane(lane[l])
        /\ UNCHANGED <<stage, command, slot>> /\ MyLanes' = MyLanes
    BY <1>8, LaneMoves DEF Typed, LaneStep, cliVars, DbTypes, MyLanes
  <2>2. /\ \A k \in Lanes \ {l} : lane'[k] = lane[k]
        /\ lane'[l].aborted = lane[l].aborted /\ lane'[l].kind = lane[l].kind /\ ~Over(l)
    BY <2>1 DEF Shape, Over
  <2>3. lane[l].kind = "ensure" => lane'[l].todo = <<>>
    BY <2>1 DEF StageKinds, Shape, GoodLane, OnModule
  <2>4. lane'[l].pc = "done" /\ lane[l].kind # "ensure" => lane'[l].todo = <<>>
    BY <2>1, DoneIsAll DEF Shape
  <2>5. \A k \in MyLanes : ~Over(k)' => lane'[k].kind = IF stage = "db" THEN command ELSE stage
    BY <1>t, <2>2 DEF StageKinds, Over
  <2>6. \A k \in Lanes :
          /\ lane'[k].aborted /\ ~Over(k)' => lane'[k].kind \in {"ensure", "generate", "deploy", "dev"}
          /\ lane'[k].pc = "done" \/ lane'[k].kind = "ensure" => lane'[k].todo = <<>>
    BY <2>2, <2>3, <2>4 DEF StageKinds, Over
  <2> QED
    BY <2>1, <2>5, <2>6 DEF StageKinds
<1> QED
  BY <1>1, <1>2, <1>3, <1>4, <1>5, <1>6, <1>7, <1>8 DEF Next, Process, CommandStep

\* What Prisma does to the database and the copy it works on.
LEMMA PrismaEffects ==
  ASSUME DbTypes, NEW l \in Lanes, Prisma(l), NEW m \in Modules
  PROVE  /\ lane[l].pc = "exec" /\ lane'[l].pc = "chown2" /\ UNCHANGED <<tree, torn>>
         /\ lane'[l].ws.schema = lane[l].ws.schema /\ lane[l].ws.tree \subseteq lane'[l].ws.tree
         /\ Module(l) # m \/ lane[l].kind \in {"generate", "deploy"} => applied[m] \subseteq applied'[m]
         /\ Module(l) = m /\ lane[l].kind \notin {"generate", "status"} =>
              lane[l].ws.tree \subseteq applied'[m]
         /\ Module(l) = m /\ lane[l].kind \in {"deploy", "dev"} => lane'[l].ws.tree \subseteq applied'[m]
         /\ lane[l].kind = "dev" => lane'[l].ws.schema \in lane'[l].ws.tree
         /\ lane[l].kind = "status" => UNCHANGED applied
<1> DEFINE n == Module(l)
           ws == lane[l].ws
           wsTree == ws.tree \cup {ws.schema}
<1>t. /\ lane \in [Lanes -> LaneType] /\ lane[l] \in LaneType /\ GoodLane(lane[l]) /\ ws \in CopyType
      /\ applied \in [Modules -> SUBSET Versions]
  BY DEF DbTypes, LaneType
<1>1. lane[l].pc = "exec" /\ UNCHANGED <<tree, torn>> /\ n \in Modules
  <2>1. lane[l].pc = "exec" /\ UNCHANGED <<tree, torn>>
    BY DEF Prisma, At
  <2> QED
    BY <2>1, ModuleTyped DEF OnModule
<1>2. lane[l].kind \in {"generate", "status", "deploy", "reset", "dev", "createOnly"}
  BY <1>t, <1>1 DEF GoodLane, LaneType, LaneKinds
<1>g. ASSUME Goes(l, "chown2") PROVE lane'[l].pc = "chown2" /\ lane'[l].ws = lane[l].ws
  BY <1>t, <1>g DEF Goes, LaneType
<1>3. CASE lane[l].kind \in {"generate", "status"}
  <2>1. Goes(l, "chown2") /\ UNCHANGED applied
    BY <1>3 DEF Prisma
  <2> QED
    BY <1>1, <1>3, <1>g, <2>1
<1>4. CASE lane[l].kind \in {"deploy", "reset"}
  <2>1. Goes(l, "chown2")
    BY <1>4 DEF Prisma
  <2>2. applied' = [applied EXCEPT ![n] = IF lane[l].kind = "deploy" THEN applied[n] \cup ws.tree ELSE ws.tree]
    BY <1>4 DEF Prisma
  <2> HIDE DEF n, ws
  <2>3. /\ m # n => applied'[m] = applied[m]
        /\ m = n => applied'[m] = IF lane[l].kind = "deploy" THEN applied[n] \cup ws.tree ELSE ws.tree
    BY <1>t, <2>2
  <2> QED
    BY <1>1, <1>4, <1>g, <2>1, <2>3 DEF n, ws
<1>5. CASE lane[l].kind \in {"dev", "createOnly"}
  <2>1. /\ lane' = [lane EXCEPT ![l].pc = "chown2", ![l].ws.tree = wsTree]
        /\ applied' = [applied EXCEPT ![n] = (IF ~(applied[n] \subseteq ws.tree) THEN {} ELSE applied[n])
                         \cup (IF lane[l].kind = "dev" THEN wsTree ELSE ws.tree)]
    BY <1>5 DEF Prisma
  <2>2. /\ m # n => applied'[m] = applied[m]
        /\ m = n => ws.tree \subseteq applied'[m] /\ (lane[l].kind = "dev" => wsTree \subseteq applied'[m])
    <3> HIDE DEF n, ws
    <3> QED
      BY <1>t, <2>1
  <2>3. lane'[l].pc = "chown2" /\ lane'[l].ws.tree = wsTree /\ lane'[l].ws.schema = ws.schema
    <3> HIDE DEF wsTree
    <3> QED
      BY <1>t, <2>1 DEF LaneType, CopyType
  <2> QED
    BY <1>1, <1>5, <2>2, <2>3
<1> QED
  BY <1>2, <1>3, <1>4, <1>5

\* A step of a lane takes migrations out of a database only when it is not
\* aborted, and leaves those it has copied.
LEMMA AppliedGrows ==
  ASSUME Typed, CInv, StageKinds, NEW l \in Lanes, LaneRuns(l), NEW m \in Modules, m \notin torn
  PROVE  \/ applied[m] \subseteq applied'[m]
         \/ /\ On(l, m) /\ ~lane[l].aborted /\ lane[l].pc = "exec"
            /\ lane[l].ws.tree \subseteq applied'[m]
<1>1. CASE Prisma(l) /\ Module(l) = m
  <2>1. /\ lane[l].pc = "exec" /\ On(l, m)
        /\ lane[l].kind \in {"generate", "deploy", "status"} => applied[m] \subseteq applied'[m]
        /\ lane[l].kind \notin {"generate", "status"} => lane[l].ws.tree \subseteq applied'[m]
    <3>1. DbTypes
      BY DEF Typed
    <3>2. /\ lane[l].pc = "exec"
          /\ lane[l].kind \in {"generate", "deploy"} => applied[m] \subseteq applied'[m]
          /\ lane[l].kind = "status" => applied[m] \subseteq applied'[m]
          /\ lane[l].kind \notin {"generate", "status"} => lane[l].ws.tree \subseteq applied'[m]
      BY <1>1, <3>1, PrismaEffects
    <3> QED
      BY <1>1, <3>2 DEF On, OnModule
  <2>2. lane[l].aborted => lane[l].kind \in {"generate", "deploy"}
    <3>1. lane[l].kind # "ensure"
      BY <2>1 DEF Typed, DbTypes, GoodLane
    <3>2. lane[l].aborted => lane[l].kind # "dev"
      BY <1>1, <2>1 DEF CInv, Apart, Writing, At
    <3> QED
      BY <2>1, <3>1, <3>2 DEF StageKinds, Over
  <2> QED
    BY <2>1, <2>2
<1>2. CASE Prisma(l) /\ Module(l) # m
  BY <1>2, PrismaEffects DEF Typed
<1>3. CASE ~Prisma(l)
  BY <1>3, LaneEffects DEF Typed, Effects
<1> QED
  BY <1>1, <1>2, <1>3

\* A step of a lane changes a tree that is not torn only when it is not aborted.
LEMMA TreeMoves ==
  ASSUME Typed, CInv, TreesKept, NEW l \in Lanes, LaneRuns(l), NEW m \in Modules, m \notin torn
  PROVE  \/ tree'[m] = tree[m]
         \/ /\ On(l, m) /\ ~lane[l].aborted /\ UNCHANGED <<applied, torn>>
            /\ lane[l].kind \in {"dev", "createOnly"} /\ registry = "local" /\ ~Prisma(l)
            /\ \/ /\ lane[l].pc = "empty" /\ lane'[l].pc = "back" /\ tree'[m] = {}
                  /\ lane'[l].ws = lane[l].ws
               \/ /\ lane[l].pc = "back" /\ lane'[l].pc = "next" /\ tree'[m] = lane[l].ws.tree
<1>t. /\ lane \in [Lanes -> LaneType] /\ lane[l] \in LaneType /\ GoodLane(lane[l]) /\ KindsAtPlaces
      /\ tree \in [Modules -> SUBSET Versions]
  BY DEF Typed, DbTypes, TreesKept
<1>1. CASE EmptyMigrations(l)
  <2>1. /\ lane[l].pc = "empty" /\ Goes(l, "back") /\ tree' = [tree EXCEPT ![Module(l)] = {}]
        /\ UNCHANGED <<applied, torn>>
    BY <1>1 DEF EmptyMigrations, At
  <2>2. lane[l].kind \in {"dev", "createOnly"} /\ registry = "local"
    BY <1>t, <2>1 DEF KindsAtPlaces, GoodLane
  <2>3. Module(l) = m => ~lane[l].aborted
    BY <2>1 DEF CInv, Apart, Writing, At
  <2>4. lane'[l].pc = "back" /\ lane'[l].ws = lane[l].ws
    BY <1>t, <2>1 DEF Goes, LaneType
  <2>5. CASE Module(l) = m
    <3>1. tree'[m] = {} /\ On(l, m) /\ ~Prisma(l)
      BY <1>t, <2>1, <2>5 DEF On, OnModule, Prisma, At
    <3> QED
      BY <2>1, <2>2, <2>3, <2>4, <2>5, <3>1
  <2>6. CASE Module(l) # m
    BY <1>t, <2>1, <2>6
  <2> QED
    BY <2>5, <2>6
<1>2. CASE CopyMigrationsBack(l)
  <2>1. /\ lane[l].pc = "back" /\ lane' = Finish(l, "next")
        /\ tree' = [tree EXCEPT ![Module(l)] = lane[l].ws.tree] /\ UNCHANGED <<applied, torn>>
    BY <1>2 DEF CopyMigrationsBack, At
  <2>2. lane[l].kind \in {"dev", "createOnly"} /\ registry = "local"
    BY <1>t, <2>1 DEF KindsAtPlaces, GoodLane
  <2>3. Module(l) = m => ~lane[l].aborted
    BY <2>1 DEF CInv, Apart, Writing, At
  <2>4. lane'[l].pc = "next"
    BY <1>t, <2>1 DEF Finish, LaneType
  <2>5. CASE Module(l) = m
    <3>1. tree'[m] = lane[l].ws.tree /\ On(l, m) /\ ~Prisma(l)
      BY <1>t, <2>1, <2>5 DEF On, OnModule, Prisma, At
    <3> QED
      BY <2>1, <2>2, <2>3, <2>4, <2>5, <3>1
  <2>6. CASE Module(l) # m
    BY <1>t, <2>1, <2>6
  <2> QED
    BY <2>5, <2>6
<1>3. CASE ~EmptyMigrations(l) /\ ~CopyMigrationsBack(l)
  BY <1>3, LaneEffects DEF Typed, Effects
<1> QED
  BY <1>1, <1>2, <1>3

\* A load changes a module while no lane of its run is at work, and copies all
\* the registry has.
LEMMA LoadMoves ==
  ASSUME Typed, Ordered, Loads, CInv, TreesKept, Load, NEW m \in Modules
  PROVE  /\ UNCHANGED <<applied, client, lane, torn, registry, world, stage>>
         /\ \A k \in Lanes : Over(k) \/ lane[k].aborted
         /\ \/ schema'[m] = schema[m] /\ tree'[m] = tree[m]
            \/ FromRegistry(m) /\ TreeOf(m)' = 1..Newest /\ Newest' = Newest
<1>o. UNCHANGED <<applied, client, lane, torn, registry, world, stage>>
  BY OutsideSteps
<1>k. \A k \in Lanes : Over(k) \/ lane[k].aborted
  <2>1. at \notin {"idle", "loaded", "cleaned", "failed"}
    BY DEF Load, Clone, Discard, Fetch, Checkout, SaveGen, EmptyModule, CopyModule, RestoreGen,
           CheckModule
  <2>2. stage \in Quiet
    BY <2>1 DEF CInv, Copied, Quiet
  <2> QED
    BY <2>2 DEF CInv, Running, OtherLanes
<1>1. CASE UNCHANGED migrateVars
  BY <1>1, <1>o, <1>k DEF migrateVars, diskVars
<1>2. CASE /\ EmptyModule \/ CopyModule
           /\ DbModules # {} /\ ExternalDb(world.db[1], ext'.version)
  <2>1. Newest' = Newest
    BY <1>o, <1>2, NewestStays DEF EmptyModule, CopyModule, Goto, Throw, remoteVars
  <2>2. CASE FromRegistry(m) /\ schema'[m] \in {0, Newest} /\ tree'[m] = 1..schema'[m]
    BY <1>o, <1>k, <2>1, <2>2 DEF TreeOf
  <2> QED
    BY <1>o, <1>k, <1>2, <2>2, LoadCopies DEF TreesKept
<1> QED
  BY <1>1, <1>2 DEF Load

\* Every step keeps what says how far the build has brought a module.
LEMMA CarriesStep ==
  ASSUME NoGoingBack, Typed, Ordered, Loads, CInv, TreesKept, StageKinds, [Next]_vars,
         NEW m \in Modules, Carries(m)
  PROVE  Carries(m)'
<1>1. CASE \/ User \/ StartCommand \/ Change \/ Kill \/ CommandStep \/ CreationStep \/ ContainerStep
           \/ UNCHANGED vars
  <2>1. Around
    BY <1>1, StepsAround
  <2> SUFFICES ASSUME m \notin torn', NEW l \in Lanes, ~lane'[l].aborted, On(l, m)'
               PROVE  /\ lane'[l].pc \in {"chown", "exec", "chown2", "empty"} =>
                           tree'[m] \subseteq lane'[l].ws.tree
                      /\ lane'[l].kind \in {"deploy", "dev"} /\ lane'[l].pc \in {"chown2", "empty", "back"} =>
                           lane'[l].ws.tree \subseteq applied'[m]
                      /\ lane'[l].kind = "dev" /\ lane'[l].pc \in {"chown2", "empty", "back"} =>
                           lane'[l].ws.schema \in lane'[l].ws.tree
    BY DEF Carries
  <2>2. /\ lane'[l].pc = lane[l].pc /\ lane'[l].kind = lane[l].kind /\ lane'[l].ws = lane[l].ws
        /\ ~lane[l].aborted /\ On(l, m) /\ m \notin torn
    BY <2>1 DEF Around, On, Module
  <2> QED
    BY <2>1, <2>2 DEF Carries, Around
<1>2. CASE Load
  <2>1. UNCHANGED <<lane, torn>> /\ \A k \in Lanes : Over(k) \/ lane[k].aborted
    BY <1>2, LoadMoves
  <2> QED
    BY <2>1 DEF Carries, On, Over, OnModule
<1>3. ASSUME NEW l \in Lanes, LaneStep(l) PROVE Carries(m)'
  <2>t. DbTypes /\ LaneRuns(l) /\ Typed /\ lane \in [Lanes -> LaneType]
    BY <1>3 DEF Typed, LaneStep, DbTypes
  <2>e. Effects(l) /\ Shape(l)
    BY <2>t, LaneEffects, LaneMoves
  <2>o. /\ \A k \in Lanes \ {l} : lane'[k] = lane[k]
        /\ lane'[l].kind = lane[l].kind /\ lane'[l].aborted = lane[l].aborted
        /\ torn \subseteq torn' /\ (lane'[l].pc # "next" => Module(l)' = Module(l))
    BY <2>e DEF Shape, Module
  <2> SUFFICES ASSUME m \notin torn', NEW k \in Lanes, ~lane'[k].aborted, On(k, m)'
               PROVE  /\ lane'[k].pc \in {"chown", "exec", "chown2", "empty"} =>
                           tree'[m] \subseteq lane'[k].ws.tree
                      /\ lane'[k].kind \in {"deploy", "dev"} /\ lane'[k].pc \in {"chown2", "empty", "back"} =>
                           lane'[k].ws.tree \subseteq applied'[m]
                      /\ lane'[k].kind = "dev" /\ lane'[k].pc \in {"chown2", "empty", "back"} =>
                           lane'[k].ws.schema \in lane'[k].ws.tree
    BY DEF Carries
  <2>m. m \notin torn
    BY <2>o
  <2>1. CASE k # l
    <3>1. lane'[k] = lane[k] /\ On(k, m) /\ ~lane[k].aborted
      BY <2>1, <2>o DEF On, Module
    <3>2. ~(On(l, m) /\ ~lane[l].aborted)
      BY <2>1, <3>1, AloneOnModule DEF CInv
    <3>3. tree'[m] = tree[m]
      BY <2>m, <2>t, <3>2, TreeMoves
    <3>4. applied[m] \subseteq applied'[m]
      BY <2>m, <2>t, <3>2, AppliedGrows
    <3> QED
      BY <2>m, <3>1, <3>3, <3>4 DEF Carries
  <2>2. CASE k = l
    <3>1. Module(l) = m /\ ~lane[l].aborted /\ lane'[l].pc # "next"
      BY <2>2, <2>o DEF On, OnModule
    <3>2. CASE lane'[l].pc = "chown"
      <4> DEFINE ws == [schema |-> schema[m], tree |-> tree[m], whole |-> Whole(m)]
      <4>1. lane' = [lane EXCEPT ![l].pc = "chown", ![l].ws = ws] /\ UNCHANGED tree
        BY <2>e, <3>1, <3>2 DEF Effects, CopyToWorkspace, diskVars
      <4>2. ws.tree = tree[m]
        OBVIOUS
      <4> HIDE DEF ws
      <4>3. lane'[l].ws.tree = tree[m]
        BY <2>t, <4>1, <4>2 DEF LaneType
      <4> QED
        BY <2>2, <3>2, <4>1, <4>3
    <3>3. CASE lane'[l].pc = "exec"
      <4>1. lane[l].pc = "chown" /\ lane'[l].ws = lane[l].ws
        BY <2>e, <3>3 DEF Effects
      <4>2. tree[m] \subseteq lane[l].ws.tree
        BY <2>m, <3>1, <4>1 DEF Carries, On, OnModule
      <4>3. tree'[m] = tree[m]
        BY <2>m, <2>t, <4>1, TreeMoves
      <4> QED
        BY <2>2, <3>3, <4>1, <4>2, <4>3
    <3>4. CASE lane'[l].pc = "chown2"
      <4>1. Prisma(l)
        BY <2>e, <3>4 DEF Effects
      <4>2. /\ lane[l].pc = "exec" /\ UNCHANGED tree /\ lane[l].ws.tree \subseteq lane'[l].ws.tree
            /\ lane[l].kind \in {"deploy", "dev"} => lane'[l].ws.tree \subseteq applied'[m]
            /\ lane[l].kind = "dev" => lane'[l].ws.schema \in lane'[l].ws.tree
        BY <2>t, <3>1, <4>1, PrismaEffects
      <4>3. tree[m] \subseteq lane[l].ws.tree
        BY <2>m, <3>1, <4>2 DEF Carries, On, OnModule
      <4> QED
        BY <2>2, <2>o, <3>4, <4>2, <4>3
    <3>5. CASE lane'[l].pc = "empty"
      <4>1. lane[l].pc = "chown2" /\ lane'[l].ws = lane[l].ws
        BY <2>e, <3>5 DEF Effects
      <4>2. On(l, m)
        BY <3>1, <4>1 DEF On, OnModule
      <4>3. tree'[m] = tree[m] /\ applied[m] \subseteq applied'[m]
        BY <2>m, <2>t, <4>1, TreeMoves, AppliedGrows
      <4> QED
        BY <2>2, <2>m, <2>o, <3>1, <3>5, <4>1, <4>2, <4>3 DEF Carries
    <3>6. CASE lane'[l].pc = "back"
      <4>1. EmptyMigrations(l) /\ lane[l].pc = "empty"
        BY <2>e, <3>6 DEF Effects, EmptyMigrations, At
      <4>2. On(l, m)
        BY <3>1, <4>1 DEF On, OnModule
      <4>3. lane'[l].ws = lane[l].ws /\ applied[m] \subseteq applied'[m]
        BY <2>t, <4>1 DEF EmptyMigrations, Goes, LaneType
      <4> QED
        BY <2>2, <2>m, <2>o, <3>1, <3>6, <4>1, <4>2, <4>3 DEF Carries
    <3> QED
      BY <2>2, <3>2, <3>3, <3>4, <3>5, <3>6
  <2> QED
    BY <2>1, <2>2
<1> QED
  BY <1>1, <1>2, <1>3 DEF Next, Process

\* Migrations that are in the tree of a module, and applied, stay so.
LEMMA KeepsStep ==
  ASSUME NoGoingBack, Typed, Ordered, Loads, CInv, TreesKept, Sourced, StageKinds, [Next]_vars,
         NEW m \in Modules, Carries(m), m \notin torn', NEW S, InTree(m, S)
  PROVE  InTree(m, S)' /\ (S \subseteq applied[m] => S \subseteq applied'[m])
<1>1. CASE \/ User \/ StartCommand \/ Change \/ Kill \/ CommandStep \/ CreationStep \/ ContainerStep
           \/ UNCHANGED vars
  <2>1. Around
    BY <1>1, StepsAround
  <2>2. TreeOf(m) \subseteq TreeOf(m)' /\ applied'[m] = applied[m]
    BY <2>1 DEF Around, TreeOf
  <2>3. ASSUME NEW l \in Lanes, At(l, "back"), Module(l) = m
        PROVE  At(l, "back")' /\ Module(l)' = m
    <3>1. Uncopied(l) /\ ~Over(l)
      BY <2>3 DEF Uncopied, At, Over, TreesKept, KindsAtPlaces
    <3> QED
      BY <2>1, <2>3, <3>1 DEF Around, At, Module
  <2>4. ASSUME NEW l \in Lanes, At(l, "back")', Module(l)' = m
        PROVE  At(l, "back") /\ Module(l) = m /\ lane'[l].ws = lane[l].ws
    BY <2>1, <2>4 DEF Around, At, Module, OnModule
  <2>5. (\A l \in Lanes : At(l, "back")' => Module(l)' # m) => S \subseteq TreeOf(m)'
    BY <2>2, <2>3 DEF InTree
  <2>6. \A l \in Lanes : At(l, "back")' /\ Module(l)' = m => S \subseteq lane'[l].ws.tree
    BY <2>4 DEF InTree
  <2> QED
    BY <2>2, <2>5, <2>6 DEF InTree
<1>2. CASE Load
  <2>1. /\ UNCHANGED <<applied, lane>>
        /\ \/ schema'[m] = schema[m] /\ tree'[m] = tree[m]
           \/ FromRegistry(m) /\ TreeOf(m)' = 1..Newest
    BY <1>2, LoadMoves DEF TreesKept
  <2>2. TreeOf(m) \subseteq TreeOf(m)'
    <3>1. CASE schema'[m] = schema[m] /\ tree'[m] = tree[m]
      <4>1. 1..Newest \subseteq (1..Newest)'
        BY NewestGrows
      <4> QED
        BY <3>1, <4>1 DEF TreeOf
    <3>2. CASE FromRegistry(m) /\ TreeOf(m)' = 1..Newest
      BY <3>2 DEF TreeOf, Sourced
    <3> QED
      BY <2>1, <3>1, <3>2
  <2> QED
    BY <2>1, <2>2 DEF InTree, At, Module
<1>3. ASSUME NEW l \in Lanes, LaneStep(l)
      PROVE  InTree(m, S)' /\ (S \subseteq applied[m] => S \subseteq applied'[m])
  <2>t. /\ DbTypes /\ LaneRuns(l) /\ lane \in [Lanes -> LaneType] /\ Newest' = Newest
        /\ OtherLanes = Lanes \ MyLanes
    BY <1>3, NewestStays
       DEF Typed, LaneStep, DbTypes, projectVars, remoteVars, loadVars, cliVars, OtherLanes
  <2>e. Effects(l) /\ Shape(l)
    BY <2>t, LaneEffects, LaneMoves
  <2>o. /\ \A k \in Lanes \ {l} : lane'[k] = lane[k]
        /\ lane'[l].kind = lane[l].kind /\ lane'[l].aborted = lane[l].aborted
        /\ m \notin torn /\ schema' = schema /\ (lane'[l].pc # "next" => Module(l)' = Module(l))
    BY <2>e DEF Shape, Module
  <2>b. ASSUME NEW k \in Lanes, At(k, "back"), Module(k) = m PROVE ~lane[k].aborted /\ On(k, m)
    BY <2>b, <2>o DEF CInv, Apart, Writing, At, On, OnModule
  \* The tree a lane that is not aborted finds, unless it is writing it back.
  <2>n. ASSUME On(l, m), ~lane[l].aborted, ~At(l, "back") PROVE S \subseteq tree[m]
    <3>1. \A k \in Lanes : At(k, "back") => Module(k) # m
      <4>1. ASSUME NEW k \in Lanes, At(k, "back"), Module(k) = m PROVE FALSE
        <5>1. k = l
          BY <2>b, <2>n, <4>1, AloneOnModule DEF CInv
        <5> QED
          BY <2>n, <4>1, <5>1
      <4> QED
        BY <4>1
    <3>2. schema[m] # 0
      <4>1. ~Over(l)
        BY <2>n DEF On, Over, OnModule
      <4>2. stage \notin Quiet
        BY <2>n, <2>t, <4>1 DEF CInv, Running
      <4> QED
        BY <4>2 DEF CInv, Copied, Quiet
    <3> QED
      BY <3>1, <3>2 DEF InTree, TreeOf
  <2>a. S \subseteq applied[m] => S \subseteq applied'[m]
    <3>1. CASE applied[m] \subseteq applied'[m]
      BY <3>1
    <3>2. CASE /\ On(l, m) /\ ~lane[l].aborted /\ lane[l].pc = "exec"
               /\ lane[l].ws.tree \subseteq applied'[m]
      <4>1. S \subseteq tree[m]
        BY <2>n, <3>2 DEF At
      <4>2. tree[m] \subseteq lane[l].ws.tree
        BY <2>o, <3>2 DEF Carries
      <4> QED
        BY <3>2, <4>1, <4>2
    <3> QED
      BY <2>o, <2>t, <3>1, <3>2, AppliedGrows
  <2>1. CASE tree'[m] = tree[m]
    <3>1. TreeOf(m)' = TreeOf(m)
      BY <2>1, <2>o, <2>t DEF TreeOf
    <3>2. ASSUME NEW k \in Lanes, At(k, "back"), Module(k) = m, \A j \in Lanes : At(j, "back")' => Module(j)' # m
          PROVE  S \subseteq tree'[m]
      <4>1. k = l
        BY <2>o, <3>2 DEF At, Module
      <4>2. Uncopied(l) /\ lane[l].pc = "back"
        BY <3>2, <4>1 DEF Uncopied, At, TreesKept, KindsAtPlaces
      <4>3. ~EmptyMigrations(l)
        BY <4>2 DEF EmptyMigrations, At
      <4>4. CopyMigrationsBack(l)
        BY <2>e, <3>2, <4>1, <4>2, <4>3 DEF Effects
      <4>5. tree' = [tree EXCEPT ![m] = lane[l].ws.tree]
        BY <3>2, <4>1, <4>4 DEF CopyMigrationsBack
      <4>6. tree'[m] = lane[l].ws.tree
        BY <4>5 DEF Typed, DbTypes
      <4> QED
        BY <3>2, <4>1, <4>6 DEF InTree
    <3>3. (\A j \in Lanes : At(j, "back")' => Module(j)' # m) => S \subseteq TreeOf(m)'
      <4>1. CASE \E k \in Lanes : At(k, "back") /\ Module(k) = m
        <5>1. ASSUME schema[m] = 0 PROVE FALSE
          <6>1. PICK k \in Lanes : At(k, "back") /\ Module(k) = m
            BY <4>1
          <6>2. registry = "local"
            BY <6>1 DEF At, TreesKept, KindsAtPlaces, Typed, DbTypes, GoodLane
          <6> QED
            BY <5>1, <6>2 DEF Typed, LocalSchema
        <5> QED
          BY <2>o, <3>2, <4>1, <5>1 DEF TreeOf
      <4>2. CASE \A k \in Lanes : At(k, "back") => Module(k) # m
        BY <3>1, <4>2 DEF InTree
      <4> QED
        BY <4>1, <4>2
    <3>4. ASSUME NEW k \in Lanes, At(k, "back")', Module(k)' = m PROVE S \subseteq lane'[k].ws.tree
      <4>1. CASE k # l
        <5>1. lane'[k] = lane[k]
          BY <2>o, <4>1
        <5> QED
          BY <3>4, <5>1 DEF InTree, At, Module
      <4>2. CASE k = l
        <5>1. EmptyMigrations(l) /\ lane[l].pc = "empty" /\ Module(l) = m
          BY <2>e, <2>o, <3>4, <4>2 DEF Effects, EmptyMigrations, At
        <5>2. lane'[l].ws = lane[l].ws
          BY <2>t, <5>1 DEF EmptyMigrations, Goes, LaneType
        <5>3. On(l, m) /\ ~lane[l].aborted
          BY <2>o, <5>1 DEF CInv, Apart, Writing, At, On, OnModule
        <5>4. S \subseteq tree[m] /\ tree[m] \subseteq lane[l].ws.tree
          BY <2>n, <2>o, <5>1, <5>3 DEF Carries, At
        <5> QED
          BY <4>2, <5>2, <5>4
      <4> QED
        BY <4>1, <4>2
    <3> QED
      BY <2>a, <3>3, <3>4 DEF InTree
  <2>2. CASE /\ On(l, m) /\ ~lane[l].aborted /\ lane[l].pc = "empty" /\ lane'[l].pc = "back"
             /\ tree'[m] = {} /\ lane'[l].ws = lane[l].ws
    <3>1. S \subseteq tree[m] /\ tree[m] \subseteq lane[l].ws.tree
      BY <2>n, <2>o, <2>2 DEF Carries, At
    <3>2. At(l, "back")' /\ Module(l)' = m
      BY <2>2, <2>o DEF At, On
    <3>3. \A k \in Lanes : At(k, "back")' /\ Module(k)' = m => S \subseteq lane'[k].ws.tree
      <4>1. ASSUME NEW k \in Lanes, k # l, At(k, "back")', Module(k)' = m PROVE FALSE
        <5>1. At(k, "back") /\ Module(k) = m
          BY <2>o, <4>1 DEF At, Module
        <5> QED
          BY <2>2, <2>b, <4>1, <5>1, AloneOnModule DEF CInv
      <4> QED
        BY <2>2, <3>1, <4>1
    <3> QED
      BY <2>a, <3>2, <3>3 DEF InTree
  <2>3. CASE /\ On(l, m) /\ ~lane[l].aborted /\ lane[l].pc = "back" /\ lane'[l].pc = "next"
             /\ tree'[m] = lane[l].ws.tree /\ registry = "local"
    <3>1. S \subseteq lane[l].ws.tree
      BY <2>3 DEF InTree, At, On
    <3>2. schema'[m] # 0
      BY <2>3, <2>o DEF Typed, LocalSchema
    <3>3. ASSUME NEW k \in Lanes, At(k, "back")', Module(k)' = m PROVE FALSE
      <4>1. k # l
        BY <2>3, <3>3 DEF At
      <4>2. At(k, "back") /\ Module(k) = m
        BY <2>o, <3>3, <4>1 DEF At, Module
      <4> QED
        BY <2>3, <2>b, <4>1, <4>2, AloneOnModule DEF CInv
    <3> QED
      BY <2>3, <2>a, <3>1, <3>2, <3>3 DEF InTree, TreeOf
  <2> QED
    BY <2>o, <2>t, <2>1, <2>2, <2>3, TreeMoves
<1> QED
  BY <1>1, <1>2, <1>3 DEF Next, Process

\* A hash that is of what there is stays so, or gets old.
LEMMA HashesStay ==
  ASSUME NoGoingBack, Typed, Ordered, Loads, CInv, TreesKept, Sourced, StageKinds, [Next]_vars,
         NEW m \in Modules, Carries(m), m \notin torn', NEW h \in HashType
  PROVE  /\ InRange(h, m) => InRange(h, m)'
         /\ InRange(h, m) /\ SetsKnown(h, m) => SetsKnown(h, m)'
         /\ DevKnown(h, m) => DevKnown(h, m)'
         /\ ClientKnown(h, m) /\ client'[m] = client[m] => ClientKnown(h, m)'
<1>1. h.client \in Nat /\ h.devSchema \in Nat
  BY DEF HashType
<1>2. V(m) \in Nat /\ V(m)' \in Nat /\ V(m) <= V(m)'
  BY VersionTyped, VersionsGrow
<1>3. ASSUME NEW S, InTree(m, S) PROVE InTree(m, S)' /\ (S \subseteq applied[m] => S \subseteq applied'[m])
  BY <1>3, KeepsStep
<1>4. InRange(h, m) => InRange(h, m)'
  BY <1>1, <1>2, <1>3 DEF InRange
<1>5. InRange(h, m) /\ SetsKnown(h, m) => SetsKnown(h, m)'
  BY <1>3 DEF InRange, SetsKnown
<1>6. DevKnown(h, m) => DevKnown(h, m)'
  <2>1. CASE h.devSchema < V(m)
    BY <1>1, <1>2, <2>1 DEF DevKnown
  <2>2. CASE Keeps(m, {h.devSchema})
    BY <1>3, <2>2 DEF DevKnown, Keeps
  <2> QED
    BY <2>1, <2>2 DEF DevKnown
<1>7. ClientKnown(h, m) /\ client'[m] = client[m] => ClientKnown(h, m)'
  BY <1>1, <1>2 DEF ClientKnown
<1> QED
  BY <1>4, <1>5, <1>6, <1>7

\* A lane of a build at work on a module, and not aborted, is that module's.
LEMMA LaneOfModule ==
  ASSUME Typed, CInv, StageKinds, NEW l \in Lanes, NEW m \in Modules, On(l, m), ~lane[l].aborted
  PROVE  /\ l \in MyLanes /\ stage \notin Quiet /\ schema[m] # 0
         /\ lane[l].kind = IF stage = "db" THEN command ELSE stage
         /\ stage # "db" => l = <<slot, m>> /\ lane[l].todo = <<m>> /\ Pending(m)
<1>1. ~Over(l) /\ lane[l].todo # <<>> /\ Module(l) = m
  BY DEF On, Over, OnModule, Typed, DbTypes, GoodLane
<1>2. l \in MyLanes
  BY <1>1 DEF CInv, Running, OtherLanes
<1>3. stage \notin Quiet /\ schema[m] # 0
  <2>1. stage \notin Quiet
    BY <1>1, <1>2 DEF CInv, Running
  <2> QED
    BY <2>1 DEF CInv, Copied, Quiet
<1>4. lane[l].kind = IF stage = "db" THEN command ELSE stage
  BY <1>1, <1>2 DEF StageKinds
<1>5. ASSUME stage # "db" PROVE l = <<slot, m>> /\ lane[l].todo = <<m>> /\ Pending(m)
  <2>1. lane[l].todo = <<l[2]>>
    BY <1>1, <1>2, <1>5 DEF CInv, Apart
  <2>2. l[2] = m
    BY <1>1, <2>1 DEF Module
  <2>3. l = <<l[1], l[2]>> /\ l[1] = slot
    BY <1>2, LanesOfARun DEF Typed, MyLanes
  <2>4. l = <<slot, m>>
    BY <2>2, <2>3
  <2> QED
    BY <1>1, <2>1, <2>2, <2>4 DEF Pending
<1> QED
  BY <1>2, <1>3, <1>4, <1>5

\* The lane of a module, in a build.
LEMMA LanesExist ==
  ASSUME Typed, NEW m \in Modules
  PROVE  <<slot, m>> \in MyLanes /\ <<slot, m>> \in Lanes
BY LanesAssumption DEF Typed, CliTypes, MyLanes

\* When the steps of a run are done none is pending, and nobody writes a module
\* that is not torn.
LEMMA NonePending ==
  ASSUME Typed, CInv, StageKinds, TreesKept, NEW m \in Modules
  PROVE  /\ StepsDone => ~Pending(m)
         /\ StepsOver /\ m \notin torn => \A S : InTree(m, S) <=> S \subseteq TreeOf(m)
<1>1. StepsDone => ~Pending(m)
  BY LanesExist DEF StepsDone, StageKinds, Pending
<1>2. ASSUME StepsOver, m \notin torn PROVE \A l \in Lanes : At(l, "back") => Module(l) # m
  <2> SUFFICES ASSUME NEW l \in Lanes, At(l, "back"), Module(l) = m PROVE FALSE
    OBVIOUS
  <2>1. ~Over(l) /\ ~lane[l].aborted
    BY <1>2 DEF CInv, Apart, Writing, At, Over
  <2> QED
    BY <1>2, <2>1 DEF StepsOver, CInv, Running, OtherLanes
<1> QED
  BY <1>1, <1>2 DEF InTree

\* What a step of a lane does to a client.
LEMMA ClientMoves ==
  ASSUME Typed, CInv, TreesKept, StageKinds, NEW l \in Lanes, LaneRuns(l),
         NEW m \in Modules, m \notin torn
  PROVE  \/ client'[m] = client[m] /\ ~(lane[l].pc = "copyClient" /\ lane'[l].pc = "next" /\ On(l, m))
         \/ /\ On(l, m) /\ ~lane[l].aborted /\ lane[l].kind = "generate" /\ stage = "generate"
            /\ \/ lane'[l].pc = "copyClient"
               \/ /\ lane[l].pc = "copyClient" /\ lane'[l].pc = "next"
                  /\ client'[m] = lane[l].ws.schema
<1>t. /\ lane \in [Lanes -> LaneType] /\ lane[l] \in LaneType /\ KindsAtPlaces
      /\ client \in [Modules -> 0..MaxVersion]
  BY DEF Typed, DbTypes, TreesKept
<1>a. lane[l].pc \in {"emptyClient", "copyClient"} /\ Module(l) = m =>
        /\ On(l, m) /\ ~lane[l].aborted /\ lane[l].kind = "generate" /\ stage = "generate"
  <2> SUFFICES ASSUME lane[l].pc \in {"emptyClient", "copyClient"}, Module(l) = m
               PROVE  On(l, m) /\ ~lane[l].aborted /\ lane[l].kind = "generate" /\ stage = "generate"
    OBVIOUS
  <2>1. On(l, m) /\ ~lane[l].aborted /\ lane[l].kind = "generate"
    BY <1>t DEF On, OnModule, CInv, Apart, Writing, At, KindsAtPlaces
  <2>2. lane[l].kind = IF stage = "db" THEN command ELSE stage
    BY <2>1, LaneOfModule
  <2> QED
    BY <2>1, <2>2 DEF StageKinds, DbCommands
<1>1. CASE EmptyClient(l)
  <2>1. /\ lane[l].pc = "emptyClient" /\ Goes(l, "copyClient")
        /\ client' = [client EXCEPT ![Module(l)] = 0]
    BY <1>1 DEF EmptyClient, At
  <2>2. lane'[l].pc = "copyClient"
    BY <1>t, <2>1 DEF Goes, LaneType
  <2>3. CASE Module(l) = m
    BY <1>a, <2>1, <2>2, <2>3
  <2>4. CASE Module(l) # m
    BY <1>t, <2>1, <2>4
  <2> QED
    BY <2>3, <2>4
<1>2. CASE CopyClient(l)
  <2>1. /\ lane[l].pc = "copyClient" /\ lane' = Finish(l, "next")
        /\ client' = [client EXCEPT ![Module(l)] = lane[l].ws.schema]
    BY <1>2 DEF CopyClient, At
  <2>2. lane'[l].pc = "next"
    BY <1>t, <2>1 DEF Finish, LaneType
  <2>3. CASE Module(l) = m
    BY <1>a, <1>t, <2>1, <2>2, <2>3
  <2>4. CASE Module(l) # m
    BY <1>t, <2>1, <2>4 DEF On
  <2> QED
    BY <2>3, <2>4
<1>3. CASE ~EmptyClient(l) /\ ~CopyClient(l)
  <2>1. UNCHANGED client
    BY <1>3 DEF LaneRuns, AwaitOnce, NextModule, CreateDatabase, CopyToWorkspace, Chown, Prisma, Chown2,
                LaneFails, EmptyMigrations, CopyMigrationsBack, diskVars
  <2>2. lane[l].pc = "copyClient" => lane'[l].pc = "failed"
    <3> SUFFICES ASSUME lane[l].pc = "copyClient" PROVE lane'[l].pc = "failed"
      OBVIOUS
    <3>1. Goes(l, "failed")
      BY <1>3 DEF LaneRuns, AwaitOnce, NextModule, CreateDatabase, CopyToWorkspace, Chown, Prisma, Chown2,
                  LaneFails, EmptyMigrations, CopyMigrationsBack, At
    <3> QED
      BY <1>t, <3>1 DEF Goes, LaneType
  <2> QED
    BY <2>1, <2>2
<1> QED
  BY <1>1, <1>2, <1>3

\* A lane's copy is of the schema it was when it copied it.
LEMMA CopiedSchema ==
  ASSUME DbTypes, NEW l \in Lanes, LaneRuns(l)
  PROVE  IF lane[l].pc = "copy" /\ lane'[l].pc = "chown" THEN lane'[l].ws.schema = schema[Module(l)]
         ELSE lane'[l].ws.schema = lane[l].ws.schema
<1>l. lane \in [Lanes -> LaneType] /\ lane[l] \in LaneType
  BY DEF DbTypes
<1>g. ASSUME NEW pc, Goes(l, pc) PROVE lane'[l].ws = lane[l].ws /\ lane'[l].pc = pc
  BY <1>l, <1>g DEF Goes, LaneType
<1>1. CASE CopyToWorkspace(l)
  <2> DEFINE ws == [schema |-> schema[Module(l)], tree |-> tree[Module(l)], whole |-> Whole(Module(l))]
  <2>1. lane[l].pc = "copy" /\ lane' = [lane EXCEPT ![l].pc = "chown", ![l].ws = ws]
    BY <1>1 DEF CopyToWorkspace, At
  <2>2. ws.schema = schema[Module(l)]
    OBVIOUS
  <2> HIDE DEF ws
  <2>3. lane'[l].ws = ws /\ lane'[l].pc = "chown"
    BY <1>l, <2>1 DEF LaneType
  <2> QED
    BY <2>1, <2>2, <2>3
<1>2. CASE Prisma(l)
  <2>1. lane[l].pc = "exec"
    BY <1>2 DEF Prisma, At
  <2>2. Module(l) \in Modules
    BY <2>1, ModuleTyped DEF OnModule
  <2> QED
    BY <1>2, <2>1, <2>2, PrismaEffects
<1>3. CASE Chown2(l) \/ CopyMigrationsBack(l) \/ CopyClient(l)
  <2>1. lane[l].pc # "copy" /\ \E pc : lane' = Finish(l, pc)
    BY <1>3 DEF Chown2, CopyMigrationsBack, CopyClient, At
  <2> QED
    BY <1>l, <2>1 DEF Finish, LaneType
<1>4. CASE LaneFails(l) \/ Chown(l) \/ EmptyMigrations(l) \/ EmptyClient(l) \/ NextModule(l)
           \/ CreateDatabase(l)
  <2>1. \E pc \in {"failed", "exec", "back", "copyClient", "done", "prisma", "create"} : Goes(l, pc)
    BY <1>4 DEF LaneFails, Chown, EmptyMigrations, EmptyClient, NextModule, CreateDatabase
  <2> QED
    BY <1>g, <2>1
<1>5. ASSUME NEW r, NEW next, next # "chown", r # "copy", AwaitOnce(l, r, next)
      PROVE  lane'[l].ws = lane[l].ws /\ lane[l].pc # "copy"
  BY <1>5, <1>g DEF AwaitOnce, At
<1>6. CASE \/ AwaitOnce(l, "postgres", IF lane[l].kind = "ensure" THEN "done" ELSE "client")
           \/ AwaitOnce(l, "client", "next") \/ AwaitOnce(l, "prisma", "copy")
  BY <1>5, <1>6
<1> QED
  BY <1>1, <1>2, <1>3, <1>4, <1>6 DEF LaneRuns

\* A step of a build that is over has ended with the last of its lane's work.
LEMMA StepEnds ==
  ASSUME Typed, CInv, TreesKept, StageKinds, InBuild, NEW l \in Lanes, LaneStep(l),
         NEW m \in Modules, m \notin torn', Pending(m), ~Pending(m)'
  PROVE  /\ l = <<slot, m>> /\ On(l, m) /\ ~lane[l].aborted /\ lane[l].kind = stage
         /\ lane'[l].pc = "next" /\ schema[m] # 0
         /\ \/ stage = "generate" /\ lane[l].pc = "copyClient"
            \/ stage = "deploy" /\ lane[l].pc = "chown2"
            \/ stage = "dev" /\ lane[l].pc = "back"
<1>t. /\ DbTypes /\ LaneRuns(l) /\ UNCHANGED <<slot, cliVars>> /\ <<slot, m>> \in MyLanes
      /\ <<slot, m>> \in Lanes /\ lane \in [Lanes -> LaneType] /\ lane[l] \in LaneType
  BY LanesExist DEF Typed, LaneStep, cliVars, DbTypes
<1>s. Shape(l) /\ (Asks(l) \/ Passes(l, lane[l].pc, lane'[l].pc))
  BY <1>t, LaneMoves
<1>1. l = <<slot, m>>
  BY <1>s, <1>t DEF Pending, Shape
<1>2. lane'[l].pc = "next" /\ lane[l].pc \in OnModule
  BY <1>s, <1>t, <1>1 DEF Pending, Shape
<1>3. stage # "db"
  BY DEF InBuild
<1>4. lane[l].todo # <<>> /\ ~Over(l)
  BY <1>1, <1>2 DEF Pending, Over, OnModule
<1>5. lane[l].todo = <<l[2]>>
  BY <1>1, <1>3, <1>4, <1>t DEF CInv, Apart
<1>6. Module(l) = m
  BY <1>1, <1>5 DEF Module
<1>7. lane[l].pc \in {"chown2", "back", "copyClient"} /\ (lane[l].pc = "chown2" => ~lane[l].aborted)
  BY <1>2, <1>s DEF Asks, Passes, Resources, OnModule
<1>8. ~lane[l].aborted
  <2>1. m \notin torn
    BY <1>s DEF Shape
  <2> QED
    BY <1>6, <1>7, <2>1 DEF CInv, Apart, Writing, At
<1>9. On(l, m) /\ lane[l].kind = stage /\ schema[m] # 0
  <2>1. On(l, m)
    BY <1>2, <1>6 DEF On
  <2> QED
    BY <1>3, <1>8, <2>1, LaneOfModule
<1>10. stage \in {"ensure", "generate", "deploy", "dev"}
  <2>1. lane[l].kind \in LaneKinds
    BY <1>t DEF LaneType
  <2> QED
    BY <1>9, <2>1 DEF InBuild, LaneKinds
<1>11. lane[l].pc = "back" => stage = "dev"
  BY <1>9, <1>10 DEF TreesKept, KindsAtPlaces
<1>12. lane[l].pc = "copyClient" => stage = "generate"
  BY <1>9 DEF TreesKept, KindsAtPlaces
<1>13. lane[l].pc = "chown2" => stage = "deploy"
  <2> SUFFICES ASSUME lane[l].pc = "chown2" PROVE stage = "deploy"
    OBVIOUS
  <2>1. lane' = Finish(l, Writes(l))
    <3>1. ~LaneFails(l)
      BY <1>2, <1>t DEF LaneFails, Goes, LaneType
    <3> QED
      BY <3>1, <1>t DEF LaneRuns, AwaitOnce, NextModule, CreateDatabase, CopyToWorkspace, Chown, Prisma,
                  Chown2, EmptyMigrations, CopyMigrationsBack, EmptyClient, CopyClient, At
  <2>2. Writes(l) = "next"
    BY <1>2, <1>t, <2>1 DEF Finish, LaneType
  <2>3. stage # "ensure"
    BY <1>9, <1>2, <1>t DEF DbTypes, GoodLane, OnModule
  <2> QED
    BY <1>9, <1>10, <2>2, <2>3 DEF Writes
<1> QED
  BY <1>1, <1>2, <1>7, <1>8, <1>9, <1>11, <1>12, <1>13

\* What is known stays so while the commands, the cache and the lanes do nothing,
LEMMA KnownSame ==
  ASSUME NoGoingBack, Typed, Ordered, Loads, CInv, TreesKept, Sourced, StageKinds, [Next]_vars,
         NEW m \in Modules, Carries(m), Known(m), torn \subseteq torn',
         UNCHANGED <<client, lane, command, slot, stage, mem, saved>>
  PROVE  Known(m)'
<1> SUFFICES ASSUME m \notin torn' PROVE (Recorded(saved[m], m) /\ MemTrue(m) /\ CopyIsNew(m))'
  BY DEF Known
<1>t. /\ mem[m] \in HashType /\ saved[m] \in HashType
      /\ mem'[m] = mem[m] /\ saved'[m] = saved[m] /\ client'[m] = client[m]
      /\ Recorded(saved[m], m) /\ MemTrue(m) /\ CopyIsNew(m)
  BY DEF Typed, CliTypes, Known
<1>v. /\ V(m) \in Nat /\ V(m)' \in Nat /\ V(m) <= V(m)'
      /\ saved[m].client \in Nat /\ \A l \in Lanes : lane[l].ws.schema \in Nat
  BY <1>t, VersionTyped, VersionsGrow DEF HashType, Typed, DbTypes, LaneType, CopyType
<1>h. ASSUME NEW h \in HashType
      PROVE  /\ InRange(h, m) => InRange(h, m)'
             /\ InRange(h, m) /\ SetsKnown(h, m) => SetsKnown(h, m)'
             /\ DevKnown(h, m) => DevKnown(h, m)'
             /\ ClientKnown(h, m) => ClientKnown(h, m)'
  BY <1>t, HashesStay
<1>1. Recorded(saved[m], m)'
  BY <1>t, <1>h DEF Recorded, InRange, SetsKnown, DevKnown, ClientKnown, Keeps
<1>2. (InBuild' <=> InBuild) /\ (Pending(m)' <=> Pending(m))
  BY DEF InBuild, Pending
<1>3. MemTrue(m)'
  <2> SUFFICES ASSUME InBuild
      PROVE  (/\ InRange(mem[m], m)
              /\ ~(stage = "generate" /\ Pending(m)) => ClientKnown(mem[m], m)
              /\ ~(stage \in {"deploy", "dev"} /\ Pending(m)) => SetsKnown(mem[m], m)
              /\ ~(stage = "dev" /\ Pending(m)) => DevKnown(mem[m], m)
              /\ stage = "ensure" => mem[m] = saved[m]
              /\ stage = "generate" /\ Pending(m) => saved[m].client < V(m))'
    BY <1>2 DEF MemTrue
  <2>1. InRange(mem[m], m)
    BY <1>t DEF MemTrue
  <2>2. (InRange(mem[m], m))'
    BY <1>t, <1>h, <2>1 DEF InRange
  <2>3. ~(stage = "generate" /\ Pending(m)) => (ClientKnown(mem[m], m))'
    BY <1>t, <1>h DEF MemTrue, ClientKnown
  <2>4. ~(stage \in {"deploy", "dev"} /\ Pending(m)) => (SetsKnown(mem[m], m))'
    BY <1>t, <1>h, <2>1 DEF MemTrue, SetsKnown
  <2>5. ~(stage = "dev" /\ Pending(m)) => (DevKnown(mem[m], m))'
    BY <1>t, <1>h DEF MemTrue, DevKnown, Keeps
  <2>6. stage = "generate" /\ Pending(m) => saved[m].client < V(m)'
    BY <1>t, <1>v DEF MemTrue
  <2>7. stage = "ensure" => mem[m] = saved[m]
    BY <1>t DEF MemTrue
  <2> QED
    BY <1>2, <1>t, <2>2, <2>3, <2>4, <2>5, <2>6, <2>7
<1>4. CopyIsNew(m)'
  <2> SUFFICES ASSUME InBuild, NEW l \in Lanes, ~lane[l].aborted, On(l, m),
                      lane[l].pc \notin {"create", "prisma", "copy"}
               PROVE  mem[m].client <= lane[l].ws.schema /\ mem[m].devSchema <= lane[l].ws.schema
                        /\ lane[l].ws.schema <= V(m)'
    BY <1>2, <1>t DEF CopyIsNew, On, Module
  <2>1. mem[m].client <= lane[l].ws.schema /\ mem[m].devSchema <= lane[l].ws.schema
          /\ lane[l].ws.schema <= V(m)
    BY <1>t DEF CopyIsNew
  <2> QED
    BY <2>1, <1>v
<1> QED
  BY <1>1, <1>3, <1>4

\* and when no build is under way any more.
LEMMA KnownQuiet ==
  ASSUME NoGoingBack, Typed, Ordered, Loads, CInv, TreesKept, Sourced, StageKinds, [Next]_vars,
         NEW m \in Modules, Carries(m), Known(m), torn \subseteq torn',
         UNCHANGED <<client, saved>>, ~InBuild'
  PROVE  Known(m)'
<1> SUFFICES ASSUME m \notin torn' PROVE (Recorded(saved[m], m))'
  BY DEF Known, MemTrue, CopyIsNew
<1>t. saved[m] \in HashType /\ saved'[m] = saved[m] /\ client'[m] = client[m] /\ Recorded(saved[m], m)
  BY DEF Typed, CliTypes, Known
<1> QED
  BY <1>t, HashesStay DEF Recorded, InRange, SetsKnown, DevKnown, ClientKnown, Keeps

\* When steps are planned no lane that is not aborted has copied a module.
LEMMA NoneCopied ==
  ASSUME Typed, CInv, LanesBegun, NEW m \in Modules
  PROVE  CopyIsNew(m)'
<1>t. MyLanes \subseteq Lanes /\ OtherLanes = Lanes \ MyLanes
  BY DEF MyLanes, OtherLanes
<1> SUFFICES ASSUME NEW l \in Lanes, ~lane'[l].aborted, On(l, m)',
                    lane'[l].pc \notin {"create", "prisma", "copy"}
             PROVE  FALSE
  BY DEF CopyIsNew
<1>1. lane'[l].pc \in OnModule
  BY DEF On
<1>2. l \in OtherLanes
  BY <1>1, <1>t DEF LanesBegun, Fresh, OnModule
<1>3. lane'[l] = lane[l]
  BY <1>2 DEF LanesBegun
<1>4. Over(l)
  BY <1>2, <1>3 DEF CInv, Running
<1> QED
  BY <1>1, <1>3, <1>4 DEF Over, OnModule

\* After a wait what the build has hashed is so.
LEMMA WaitedFor ==
  ASSUME Typed, CInv, TreesKept, StageKinds, NEW m \in Modules, m \notin torn, Known(m), InBuild, StepsDone
  PROVE  Recorded(mem[m], m) /\ ~Pending(m) /\ \A S : InTree(m, S) <=> S \subseteq TreeOf(m)
<1>1. ~Pending(m) /\ \A S : InTree(m, S) <=> S \subseteq TreeOf(m)
  BY NonePending DEF StepsDone
<1> QED
  BY <1>1 DEF Known, MemTrue, Recorded

\* The versions and trees are not touched when steps are planned.
LEMMA BegunStays ==
  ASSUME Typed, CInv, TreesKept, LanesBegun, NEW m \in Modules, m \notin torn,
         UNCHANGED registry, schema[m] # 0
  PROVE  /\ V(m)' = V(m) /\ \A S : InTree(m, S)' <=> S \subseteq TreeOf(m)
         /\ m \notin torn' /\ client'[m] = client[m] /\ applied'[m] = applied[m]
<1>1. /\ UNCHANGED <<schema, tree, client, applied, torn>> /\ StepsOver
      /\ MyLanes \subseteq Lanes /\ OtherLanes = Lanes \ MyLanes
  BY DEF LanesBegun, diskVars, MyLanes, OtherLanes
<1>2. ASSUME NEW l \in Lanes, At(l, "back")', Module(l)' = m PROVE FALSE
  <2>1. lane'[l] = lane[l] /\ l \in OtherLanes
    BY <1>1, <1>2 DEF LanesBegun, Fresh, At
  <2>2. lane[l].aborted
    BY <1>2, <2>1 DEF CInv, Running, Over, At
  <2> QED
    BY <1>2, <2>1, <2>2 DEF CInv, Apart, Writing, At, Module
<1>3. V(m)' = V(m) /\ TreeOf(m)' = TreeOf(m)
  BY <1>1 DEF V, TreeOf
<1> QED
  BY <1>1, <1>2, <1>3 DEF InTree

\* What is hashed for the steps of a stage is so, when they are over.
LEMMA HashedTrue ==
  ASSUME Typed, Ordered, Loads, CInv, TreesKept, StageKinds, LanesBegun, UNCHANGED registry,
         NEW m \in Modules, m \notin torn, Recorded(mem[m], m), Recorded(saved[m], m), schema[m] # 0,
         \A S : InTree(m, S) <=> S \subseteq TreeOf(m),
         NEW kind \in {"generate", "deploy", "dev"}, stage' = kind, NEW modules, Plan(kind, modules),
         kind = "generate" => mem[m] = saved[m] /\ UNCHANGED saved
  PROVE  MemTrue(m)'
<1> DEFINE h == mem[m]
           g == mem'[m]
<1>t. /\ h \in HashType /\ V(m) = schema[m] /\ TreeOf(m) = tree[m] /\ mem \in [Modules -> HashType]
      /\ schema[m] \in Nat /\ h.client \in Nat /\ h.devSchema \in Nat /\ saved[m].client \in Nat
      /\ h.deployed \cup h.dev \subseteq tree[m] /\ h.client <= schema[m] /\ h.devSchema <= schema[m]
      /\ h.deployed \cup h.dev \subseteq applied[m]
      /\ (client[m] = h.client \/ h.client < schema[m])
      /\ (h.devSchema < schema[m] \/ {h.devSchema} \subseteq tree[m] \cap applied[m])
  <2>1. V(m) = schema[m] /\ TreeOf(m) = tree[m]
    BY DEF V, TreeOf
  <2>2. h \in HashType /\ saved[m] \in HashType /\ schema[m] \in Nat /\ mem \in [Modules -> HashType]
    BY VersionTyped DEF Typed, CliTypes
  <2>3. InRange(h, m) /\ ClientKnown(h, m) /\ SetsKnown(h, m) /\ DevKnown(h, m)
    BY DEF Recorded
  <2>4. h.client \in Nat /\ h.devSchema \in Nat /\ saved[m].client \in Nat
    BY <2>2 DEF HashType
  <2>5. h.client <= schema[m] /\ h.devSchema <= schema[m] /\ h.deployed \cup h.dev \subseteq tree[m]
    BY <2>1, <2>3 DEF InRange
  <2>6. (client[m] = h.client \/ h.client < schema[m]) /\ h.deployed \cup h.dev \subseteq applied[m]
    BY <2>1, <2>3 DEF ClientKnown, SetsKnown
  <2>7. h.devSchema < schema[m] \/ {h.devSchema} \subseteq tree[m] \cap applied[m]
    BY <2>1, <2>3 DEF DevKnown, Keeps
  <2> HIDE DEF h
  <2> QED
    BY <2>1, <2>2, <2>4, <2>5, <2>6, <2>7 DEF h
<1>s. /\ V(m)' = schema[m] /\ (\A S : InTree(m, S)' <=> S \subseteq tree[m])
      /\ client'[m] = client[m] /\ applied'[m] = applied[m]
  BY <1>t, BegunStays
<1>k. /\ <<slot, m>> \in MyLanes /\ slot' = slot
      /\ Pending(m)' => m \in modules /\ NeedsBuild(m, kind)
      /\ m \in modules /\ NeedsBuild(m, kind) => Pending(m)'
  <2>1. <<slot, m>> \in MyLanes /\ slot' = slot
    BY LanesExist DEF LanesBegun
  <2> DEFINE k == <<slot, m>>
  <2>2. k[2] = m
    OBVIOUS
  <2>3. IF m \in modules /\ NeedsBuild(m, kind) THEN lane'[k].todo = <<k[2]>> ELSE lane'[k] = NoLane
    BY <2>1, <2>2, PlannedLanes
  <2>4. Pending(m)' <=> lane'[k].todo # <<>>
    BY <2>1 DEF Pending
  <2>5. <<k[2]>> # <<>> /\ NoLane.todo = <<>>
    BY NewLanesTyped
  <2> HIDE DEF k
  <2> QED
    BY <2>1, <2>3, <2>4, <2>5
<1>g. g = IF m \in modules THEN Hashes(m, kind) ELSE h
  BY DEF Plan
<1> SUFFICES
      /\ InRange(mem[m], m)'
      /\ ~(kind = "generate" /\ Pending(m)') => ClientKnown(mem[m], m)'
      /\ ~(kind \in {"deploy", "dev"} /\ Pending(m)') => SetsKnown(mem[m], m)'
      /\ ~(kind = "dev" /\ Pending(m)') => DevKnown(mem[m], m)'
      /\ kind = "generate" /\ Pending(m)' => saved'[m].client < V(m)'
  BY DEF MemTrue
<1>p. ASSUME g \in HashType, g.client <= schema[m], g.devSchema <= schema[m],
             g.deployed \cup g.dev \subseteq tree[m],
             ~(kind = "generate" /\ Pending(m)') => client[m] = g.client \/ g.client < schema[m],
             ~(kind \in {"deploy", "dev"} /\ Pending(m)') => g.deployed \cup g.dev \subseteq applied[m],
             ~(kind = "dev" /\ Pending(m)') =>
                  g.devSchema < schema[m] \/ {g.devSchema} \subseteq tree[m] \cap applied[m],
             kind = "generate" /\ Pending(m)' => saved'[m].client < schema[m]
      PROVE  /\ InRange(mem[m], m)'
             /\ ~(kind = "generate" /\ Pending(m)') => ClientKnown(mem[m], m)'
             /\ ~(kind \in {"deploy", "dev"} /\ Pending(m)') => SetsKnown(mem[m], m)'
             /\ ~(kind = "dev" /\ Pending(m)') => DevKnown(mem[m], m)'
             /\ kind = "generate" /\ Pending(m)' => saved'[m].client < V(m)'
  <2> HIDE DEF g
  <2>1. (InRange(mem[m], m))'
    BY <1>p, <1>s DEF InRange, g
  <2>2. ~(kind = "generate" /\ Pending(m)') => (ClientKnown(mem[m], m))'
    BY <1>p, <1>s DEF ClientKnown, g
  <2>3. ~(kind \in {"deploy", "dev"} /\ Pending(m)') => (SetsKnown(mem[m], m))'
    BY <1>p, <1>s DEF SetsKnown, g
  <2>4. ~(kind = "dev" /\ Pending(m)') => (DevKnown(mem[m], m))'
    BY <1>p, <1>s DEF DevKnown, Keeps, g
  <2>5. kind = "generate" /\ Pending(m)' => saved'[m].client < V(m)'
    BY <1>p, <1>s
  <2> QED
    BY <2>1, <2>2, <2>3, <2>4, <2>5 DEF g
<1>1. CASE m \notin modules
  <2>1. g = h /\ ~Pending(m)'
    BY <1>1, <1>g, <1>k
  <2> QED
    BY <1>p, <1>t, <2>1
<1>2. CASE m \in modules /\ kind = "generate"
  <2>1. g = [h EXCEPT !.client = schema[m]]
    BY <1>2, <1>g DEF Hashes
  <2>2. /\ g.client = schema[m] /\ g.devSchema = h.devSchema /\ g.deployed = h.deployed /\ g.dev = h.dev
        /\ g \in HashType
    <3>1. schema[m] \in 0..MaxVersion
      BY DEF Typed, DbTypes
    <3> HIDE DEF h, g
    <3> QED
      BY <1>t, <2>1, <3>1 DEF HashType
  <2>3. Pending(m)' <=> h.client # schema[m]
    BY <1>2, <1>k DEF NeedsBuild
  <2>4. Pending(m)' => saved'[m].client < schema[m]
    BY <1>2, <1>t, <2>3
  <2> HIDE DEF h, g
  <2> QED
    BY <1>2, <1>p, <1>t, <2>2, <2>3, <2>4
<1>3. CASE m \in modules /\ kind = "deploy"
  <2>1. g = [h EXCEPT !.deployed = @ \cup tree[m]]
    BY <1>3, <1>g DEF Hashes
  <2>2. /\ g.client = h.client /\ g.devSchema = h.devSchema /\ g.deployed = h.deployed \cup tree[m]
        /\ g.dev = h.dev /\ g \in HashType
    <3>1. tree[m] \subseteq Versions
      BY DEF Typed, DbTypes
    <3> HIDE DEF h, g
    <3> QED
      BY <1>t, <2>1, <3>1 DEF HashType
  <2>3. Pending(m)' <=> ~(tree[m] \subseteq h.deployed)
    BY <1>3, <1>k DEF NeedsBuild
  <2> HIDE DEF h, g
  <2> QED
    BY <1>3, <1>p, <1>t, <2>2, <2>3
<1>4. CASE m \in modules /\ kind = "dev"
  <2>1. g = [h EXCEPT !.devSchema = schema[m], !.dev = @ \cup tree[m]]
    BY <1>4, <1>g DEF Hashes
  <2>2. /\ g.client = h.client /\ g.devSchema = schema[m] /\ g.deployed = h.deployed
        /\ g.dev = h.dev \cup tree[m] /\ g \in HashType
    <3>1. tree[m] \subseteq Versions /\ schema[m] \in 0..MaxVersion
      BY DEF Typed, DbTypes
    <3> HIDE DEF h, g
    <3> QED
      BY <1>t, <2>1, <3>1 DEF HashType
  <2>3. ~Pending(m)' => h.devSchema = schema[m] /\ tree[m] \subseteq h.dev
    BY <1>4, <1>k DEF NeedsBuild
  <2> HIDE DEF h, g
  <2> QED
    BY <1>4, <1>p, <1>t, <2>2, <2>3
<1> QED
  BY <1>1, <1>2, <1>3, <1>4

\* The steps that plan, and those of a command's end, keep what is known.
LEMMA KnownBuild ==
  ASSUME NoGoingBack, Typed, Ordered, Loads, CInv, TreesKept, Sourced, StageKinds, [Next]_vars,
         NEW m \in Modules, Carries(m), Known(m), Build \/ RunCommand
  PROVE  Known(m)'
<1>b. LanesBegun /\ UNCHANGED <<client, torn, registry, head, command>>
  <2>1. LanesBegun
    BY RunBegins DEF CInv
  <2>2. UNCHANGED <<registry, head>>
    BY DEF Build, PlanGenerate, PlanModule, ModuleFails, PlanDeploy, PlanDev, BuildOver, RunFails,
           DbOver, GenerateHelper, RunCommand, CleanProject, projectVars, remoteVars
  <2> QED
    BY <2>1, <2>2 DEF LanesBegun, diskVars
<1> SUFFICES ASSUME m \notin torn PROVE Known(m)'
  BY <1>b DEF Known
<1>t. /\ mem[m] \in HashType /\ saved[m] \in HashType /\ m \notin torn'
      /\ Recorded(saved[m], m) /\ MemTrue(m)
  BY <1>b DEF Typed, CliTypes, Known
<1>c. CopyIsNew(m)'
  BY <1>b, NoneCopied
<1>h. ASSUME NEW h \in HashType, Recorded(h, m)
      PROVE  /\ InRange(h, m)' /\ ClientKnown(h, m)' /\ SetsKnown(h, m)' /\ DevKnown(h, m)'
             /\ Recorded(h, m)'
  <2>1. client'[m] = client[m]
    BY <1>b
  <2>2. InRange(h, m)' /\ ClientKnown(h, m)' /\ SetsKnown(h, m)' /\ DevKnown(h, m)'
    BY <1>h, <1>t, <2>1, HashesStay DEF Recorded
  <2> QED
    BY <2>2 DEF Recorded
<1>m. ASSUME UNCHANGED mem, Recorded(mem[m], m), stage' \notin {"ensure", "generate"}, saved' = mem
      PROVE  Known(m)'
  <2>1. mem'[m] = mem[m] /\ saved'[m] = mem[m]
    BY <1>m
  <2>2. Recorded(saved[m], m)'
    BY <1>h, <1>m, <1>t, <2>1 DEF Recorded, InRange, ClientKnown, SetsKnown, DevKnown, Keeps
  <2>3. MemTrue(m)'
    BY <1>h, <1>m, <1>t, <2>1 DEF MemTrue, InRange, ClientKnown, SetsKnown, DevKnown, Keeps
  <2> QED
    BY <1>c, <2>2, <2>3 DEF Known
<1>q. ASSUME UNCHANGED saved, ~InBuild' PROVE Known(m)'
  BY <1>b, <1>q, KnownQuiet
<1>p. ASSUME NEW kind \in {"generate", "deploy", "dev"}, stage' = kind, NEW modules, Plan(kind, modules),
             StepsDone, InBuild,
             IF kind = "generate" THEN stage = "ensure" /\ UNCHANGED saved ELSE saved' = mem
      PROVE  Known(m)'
  <2>1. Recorded(mem[m], m) /\ \A S : InTree(m, S) <=> S \subseteq TreeOf(m)
    BY <1>p, WaitedFor
  <2>2. schema[m] # 0
    BY <1>p DEF CInv, Copied, InBuild
  <2>3. kind = "generate" => mem[m] = saved[m] /\ UNCHANGED saved
    BY <1>p, <1>t DEF MemTrue
  <2>4. MemTrue(m)'
    BY <1>b, <1>p, <1>t, <2>1, <2>2, <2>3, HashedTrue
  <2>5. saved'[m] = saved[m] \/ saved'[m] = mem[m]
    BY <1>p
  <2>6. Recorded(saved[m], m)'
    BY <1>h, <1>t, <2>1, <2>5 DEF Recorded, InRange, ClientKnown, SetsKnown, DevKnown, Keeps
  <2> QED
    BY <1>c, <2>4, <2>6 DEF Known
<1>i. stage \in {"ensure", "generate", "module", "deploy", "dev"} => InBuild
  BY DEF StageKinds, InBuild
<1>1. CASE PlanGenerate
  <2>1. stage = "ensure" /\ StepsDone /\ stage' = "generate" /\ Plan("generate", DbModules) /\ UNCHANGED saved
    BY <1>1 DEF PlanGenerate
  <2> QED
    BY <1>i, <1>p, <2>1
<1>2. CASE PlanModule \/ ModuleFails \/ BuildOver
  <2>1. /\ StepsDone /\ saved' = mem /\ UNCHANGED mem /\ stage' \in {"module", "failed", "over"}
        /\ stage \in {"generate", "module", "deploy", "dev"}
    BY <1>2 DEF PlanModule, ModuleFails, BuildOver, Wait
  <2>2. Recorded(mem[m], m)
    BY <1>i, <2>1, WaitedFor
  <2> QED
    BY <1>m, <2>1, <2>2
<1>3. CASE PlanDeploy
  <2>1. /\ StepsDone /\ saved' = mem /\ stage = "module"
        /\ IF command = "build" THEN UNCHANGED mem /\ stage' = "over"
           ELSE Plan("deploy", Deployable) /\ stage' = "deploy"
    BY <1>3 DEF PlanDeploy, Wait
  <2>2. Recorded(mem[m], m)
    BY <1>i, <2>1, WaitedFor
  <2>3. CASE command = "build"
    BY <1>m, <2>1, <2>2, <2>3
  <2>4. CASE command # "build"
    BY <1>i, <1>p, <2>1, <2>4
  <2> QED
    BY <2>3, <2>4
<1>4. CASE PlanDev
  <2>1. StepsDone /\ saved' = mem /\ stage \in {"deploy", "dev"} /\ stage' = "dev"
    BY <1>4 DEF PlanDev, Wait
  <2>2. PICK n \in left : Plan("dev", {n})
    BY <1>4 DEF PlanDev
  <2> QED
    BY <1>i, <1>p, <2>1, <2>2
<1>5. CASE RunFails
  <2>1. stage' = "failed" /\ UNCHANGED saved
    BY <1>5 DEF RunFails
  <2> QED
    BY <1>q, <2>1 DEF InBuild
<1>6. CASE DbOver
  <2>1. stage = "db" /\ UNCHANGED saved
    BY <1>6 DEF DbOver
  <2>2. command' \notin Builds
    BY <1>b, <2>1 DEF StageKinds, DbCommands, Builds
  <2> QED
    BY <1>q, <2>1, <2>2 DEF InBuild
<1>7. CASE RunCommand
  <2>1. CASE command \in Builds
    <3>1. stage' = "ensure" /\ mem' = saved /\ UNCHANGED saved
      BY <1>7, <2>1 DEF RunCommand, Builds, DbCommands
    <3>2. mem'[m] = saved[m] /\ saved'[m] = saved[m]
      BY <3>1
    <3>3. Recorded(saved[m], m)'
      BY <1>h, <1>t, <3>2 DEF Recorded, InRange, ClientKnown, SetsKnown, DevKnown, Keeps
    <3>4. MemTrue(m)'
      BY <1>h, <1>t, <3>1, <3>2 DEF MemTrue, InRange, ClientKnown, SetsKnown, DevKnown, Keeps
    <3> QED
      BY <1>c, <3>3, <3>4 DEF Known
  <2>2. CASE command \in DbCommands
    <3>1. UNCHANGED saved /\ command' \notin Builds
      BY <1>7, <1>b, <2>2 DEF RunCommand, Builds, DbCommands
    <3> QED
      BY <1>q, <3>1 DEF InBuild
  <2>3. CASE command = "clean"
    <3>1. saved' = [n \in Modules |-> NoHash] /\ command' \notin Builds
      BY <1>7, <1>b, <2>3 DEF RunCommand, Builds, DbCommands
    <3>2. NoHash \in HashType /\ Recorded(NoHash, m)
      <4>1. NoHash \in HashType
        BY DEF NoHash, HashType
      <4>2. V(m) \in Nat /\ V(m) >= 1
        BY VersionTyped
      <4>3. NoHash.client = 0 /\ NoHash.devSchema = 0 /\ NoHash.deployed \cup NoHash.dev = {}
        BY DEF NoHash
      <4> QED
        BY <4>1, <4>2, <4>3 DEF Recorded, InRange, ClientKnown, SetsKnown, DevKnown, InTree
    <3>3. saved'[m] = NoHash
      BY <3>1
    <3>4. Recorded(saved[m], m)'
      BY <1>h, <3>2, <3>3 DEF Recorded, InRange, ClientKnown, SetsKnown, DevKnown, Keeps
    <3> QED
      BY <3>1, <3>4 DEF Known, MemTrue, CopyIsNew, InBuild
  <2> QED
    BY <1>7, <2>1, <2>2, <2>3 DEF RunCommand
<1> QED
  BY <1>1, <1>2, <1>3, <1>4, <1>5, <1>6, <1>7 DEF Build

\* So do the steps of a lane, at the end of which its step has done its work.
LEMMA KnownLane ==
  ASSUME NoGoingBack, Typed, Ordered, Loads, CInv, TreesKept, Sourced, StageKinds, [Next]_vars,
         NEW m \in Modules, Carries(m), Known(m), NEW l \in Lanes, LaneStep(l)
  PROVE  Known(m)'
<1>t. /\ DbTypes /\ LaneRuns(l) /\ UNCHANGED <<command, slot, stage, mem, saved>>
      /\ lane \in [Lanes -> LaneType] /\ lane[l] \in LaneType
  BY DEF Typed, LaneStep, cliVars, DbTypes
<1>s. Shape(l) /\ (Asks(l) \/ Passes(l, lane[l].pc, lane'[l].pc)) /\ Effects(l)
  BY <1>t, LaneMoves, LaneEffects
<1> SUFFICES ASSUME m \notin torn' PROVE (Recorded(saved[m], m) /\ MemTrue(m) /\ CopyIsNew(m))'
  BY DEF Known
<1>k. /\ mem[m] \in HashType /\ saved[m] \in HashType /\ m \notin torn
      /\ mem'[m] = mem[m] /\ saved'[m] = saved[m]
      /\ Recorded(saved[m], m) /\ MemTrue(m) /\ CopyIsNew(m)
  BY <1>s, <1>t DEF Typed, CliTypes, Known, Shape
<1>v. /\ V(m) \in Nat /\ V(m)' \in Nat /\ V(m) <= V(m)'
      /\ saved[m].client \in Nat /\ mem[m].client \in Nat /\ mem[m].devSchema \in Nat
      /\ \A k \in Lanes : lane[k].ws.schema \in Nat
  BY <1>k, VersionTyped, VersionsGrow DEF HashType, Typed, DbTypes, LaneType, CopyType
<1>h. ASSUME NEW h \in HashType
      PROVE  /\ InRange(h, m) => InRange(h, m)'
             /\ InRange(h, m) /\ SetsKnown(h, m) => SetsKnown(h, m)'
             /\ DevKnown(h, m) => DevKnown(h, m)'
             /\ client'[m] = client[m] /\ ClientKnown(h, m) => ClientKnown(h, m)'
  BY HashesStay
<1>i. (InBuild' <=> InBuild) /\ (Pending(m)' => Pending(m))
  <2>1. InBuild' <=> InBuild
    BY <1>t DEF InBuild
  <2>2. lane'[<<slot, m>>] = lane[<<slot, m>>] \/ <<slot, m>> = l
    BY <1>s, LanesExist DEF Shape
  <2>3. lane'[l].todo # <<>> => lane[l].todo # <<>>
    BY <1>s, <1>t DEF Shape, DbTypes, GoodLane
  <2> QED
    BY <1>t, <2>1, <2>2, <2>3 DEF Pending
<1>e. ASSUME InBuild, Pending(m), ~Pending(m)'
      PROVE  /\ l = <<slot, m>> /\ On(l, m) /\ ~lane[l].aborted /\ lane[l].kind = stage
             /\ lane'[l].pc = "next" /\ schema[m] # 0
             /\ \/ stage = "generate" /\ lane[l].pc = "copyClient"
                \/ stage = "deploy" /\ lane[l].pc = "chown2"
                \/ stage = "dev" /\ lane[l].pc = "back"
  BY <1>e, <1>k, StepEnds
<1>w. ASSUME InBuild, Pending(m), ~Pending(m)'
      PROVE  /\ mem[m].client <= lane[l].ws.schema /\ mem[m].devSchema <= lane[l].ws.schema
             /\ lane[l].ws.schema <= V(m)
  BY <1>e, <1>w, <1>k DEF CopyIsNew
<1>c. \/ client'[m] = client[m] /\ ~(lane[l].pc = "copyClient" /\ lane'[l].pc = "next" /\ On(l, m))
      \/ /\ On(l, m) /\ ~lane[l].aborted /\ stage = "generate"
         /\ \/ lane'[l].pc = "copyClient"
            \/ /\ lane[l].pc = "copyClient" /\ lane'[l].pc = "next"
               /\ client'[m] = lane[l].ws.schema
  BY <1>k, <1>t, ClientMoves
<1>g. client'[m] # client[m] => InBuild /\ stage = "generate" /\ Pending(m)
  <2> SUFFICES ASSUME client'[m] # client[m] PROVE InBuild /\ stage = "generate" /\ Pending(m)
    OBVIOUS
  <2>1. On(l, m) /\ ~lane[l].aborted /\ stage = "generate"
    BY <1>c
  <2> QED
    BY <2>1, LaneOfModule DEF InBuild, StageKinds
<1>1. Recorded(saved[m], m)'
  <2>1. InRange(saved[m], m) /\ ClientKnown(saved[m], m) /\ SetsKnown(saved[m], m) /\ DevKnown(saved[m], m)
    BY <1>k DEF Recorded
  <2>2. (InRange(saved[m], m))' /\ (SetsKnown(saved[m], m))' /\ (DevKnown(saved[m], m))'
    BY <1>h, <1>k, <2>1 DEF InRange, SetsKnown, DevKnown, Keeps
  <2>3. (ClientKnown(saved[m], m))'
    <3>1. CASE client'[m] = client[m]
      BY <1>h, <1>k, <2>1, <3>1 DEF ClientKnown
    <3>2. CASE client'[m] # client[m]
      <4>1. saved[m].client < V(m)
        BY <1>g, <1>k, <3>2 DEF MemTrue
      <4> QED
        BY <1>k, <1>v, <4>1 DEF ClientKnown
    <3> QED
      BY <3>1, <3>2
  <2> QED
    BY <2>2, <2>3 DEF Recorded
<1>2. MemTrue(m)'
  <2> SUFFICES ASSUME InBuild
      PROVE  (/\ InRange(mem[m], m)
              /\ ~(stage = "generate" /\ Pending(m)) => ClientKnown(mem[m], m)
              /\ ~(stage \in {"deploy", "dev"} /\ Pending(m)) => SetsKnown(mem[m], m)
              /\ ~(stage = "dev" /\ Pending(m)) => DevKnown(mem[m], m)
              /\ stage = "ensure" => mem[m] = saved[m]
              /\ stage = "generate" /\ Pending(m) => saved[m].client < V(m))'
    BY <1>i DEF MemTrue
  <2>1. /\ InRange(mem[m], m) /\ (stage = "ensure" => mem[m] = saved[m])
        /\ (stage = "generate" /\ Pending(m) => saved[m].client < V(m))
        /\ (~(stage = "generate" /\ Pending(m)) => ClientKnown(mem[m], m))
        /\ (~(stage \in {"deploy", "dev"} /\ Pending(m)) => SetsKnown(mem[m], m))
        /\ (~(stage = "dev" /\ Pending(m)) => DevKnown(mem[m], m))
    BY <1>k DEF MemTrue
  <2>2. (InRange(mem[m], m))'
    BY <1>h, <1>k, <2>1 DEF InRange
  <2>3. ASSUME ~(stage = "generate" /\ Pending(m)') PROVE (ClientKnown(mem[m], m))'
    <3>1. CASE ~(stage = "generate" /\ Pending(m))
      BY <1>g, <1>h, <1>k, <2>1, <3>1 DEF ClientKnown
    <3>2. CASE stage = "generate" /\ Pending(m)
      <4>1. lane[l].pc = "copyClient" /\ lane'[l].pc = "next" /\ On(l, m)
        BY <1>e, <2>3, <3>2
      <4>2. client'[m] = lane[l].ws.schema
        BY <1>c, <4>1
      <4>3. mem[m].client <= lane[l].ws.schema /\ lane[l].ws.schema <= V(m)
        BY <1>w, <2>3, <3>2
      <4>4. client'[m] = mem[m].client \/ mem[m].client < V(m)'
        BY <1>v, <4>2, <4>3
      <4> QED
        BY <1>k, <4>4 DEF ClientKnown
    <3> QED
      BY <3>1, <3>2
  <2>4. ASSUME ~(stage \in {"deploy", "dev"} /\ Pending(m)') PROVE (SetsKnown(mem[m], m))'
    <3>1. SetsKnown(mem[m], m)
      <4>1. CASE ~(stage \in {"deploy", "dev"} /\ Pending(m))
        BY <2>1, <4>1
      <4>2. CASE stage \in {"deploy", "dev"} /\ Pending(m)
        <5> DEFINE S == mem[m].deployed \cup mem[m].dev
        <5>1. /\ l = <<slot, m>> /\ On(l, m) /\ ~lane[l].aborted /\ lane[l].kind = stage
              /\ schema[m] # 0
              /\ \/ stage = "deploy" /\ lane[l].pc = "chown2"
                 \/ stage = "dev" /\ lane[l].pc = "back"
          BY <1>e, <2>4, <4>2
        <5>2. InTree(m, S)
          BY <2>1 DEF InRange
        <5> HIDE DEF S
        <5>3. CASE stage = "dev"
          <6>1. S \subseteq lane[l].ws.tree
            BY <5>1, <5>2, <5>3 DEF InTree, At, On
          <6>2. lane[l].ws.tree \subseteq applied[m]
            BY <1>k, <5>1, <5>3 DEF Carries
          <6> QED
            BY <6>1, <6>2 DEF SetsKnown, S
        <5>4. CASE stage = "deploy"
          <6>1. ASSUME NEW k \in Lanes, At(k, "back"), Module(k) = m PROVE FALSE
            <7>1. ~lane[k].aborted /\ On(k, m)
              BY <1>k, <6>1 DEF CInv, Apart, Writing, At, On, OnModule
            <7>2. k = l
              BY <5>1, <7>1, AloneOnModule DEF CInv
            <7> QED
              BY <5>1, <5>4, <6>1, <7>2 DEF At
          <6>2. S \subseteq tree[m]
            BY <5>1, <5>2, <6>1 DEF InTree, TreeOf
          <6>3. tree[m] \subseteq lane[l].ws.tree /\ lane[l].ws.tree \subseteq applied[m]
            BY <1>k, <5>1, <5>4 DEF Carries
          <6> QED
            BY <6>2, <6>3 DEF SetsKnown, S
        <5> QED
          BY <4>2, <5>3, <5>4
      <4> QED
        BY <4>1, <4>2
    <3> QED
      BY <1>h, <1>k, <2>1, <3>1 DEF SetsKnown
  <2>5. ASSUME ~(stage = "dev" /\ Pending(m)') PROVE (DevKnown(mem[m], m))'
    <3>1. DevKnown(mem[m], m)
      <4>1. CASE ~(stage = "dev" /\ Pending(m))
        BY <2>1, <4>1
      <4>2. CASE stage = "dev" /\ Pending(m)
        <5>1. /\ On(l, m) /\ ~lane[l].aborted /\ lane[l].kind = "dev" /\ lane[l].pc = "back"
              /\ mem[m].devSchema <= lane[l].ws.schema /\ lane[l].ws.schema <= V(m)
          BY <1>e, <1>w, <2>5, <4>2
        <5>2. CASE mem[m].devSchema < V(m)
          BY <5>2 DEF DevKnown
        <5>3. CASE ~(mem[m].devSchema < V(m))
          <6>1. mem[m].devSchema = lane[l].ws.schema
            BY <1>v, <5>1, <5>3
          <6>2. lane[l].ws.schema \in lane[l].ws.tree /\ lane[l].ws.tree \subseteq applied[m]
            BY <1>k, <5>1 DEF Carries
          <6>3. ASSUME NEW k \in Lanes, At(k, "back"), Module(k) = m PROVE k = l
            <7>1. ~lane[k].aborted /\ On(k, m)
              BY <1>k, <6>3 DEF CInv, Apart, Writing, At, On, OnModule
            <7> QED
              BY <5>1, <7>1, AloneOnModule DEF CInv
          <6>4. InTree(m, {mem[m].devSchema})
            BY <5>1, <6>1, <6>2, <6>3 DEF InTree, At, On
          <6> QED
            BY <6>1, <6>2, <6>4 DEF DevKnown, Keeps
        <5> QED
          BY <5>2, <5>3
      <4> QED
        BY <4>1, <4>2
    <3> QED
      BY <1>h, <1>k, <3>1 DEF DevKnown, Keeps
  <2>6. stage = "generate" /\ Pending(m)' => saved[m].client < V(m)'
    BY <1>i, <1>v, <2>1
  <2> QED
    BY <1>k, <1>t, <2>1, <2>2, <2>3, <2>4, <2>5, <2>6
<1>3. CopyIsNew(m)'
  <2> SUFFICES ASSUME InBuild, NEW k \in Lanes, ~lane'[k].aborted, On(k, m)',
                      lane'[k].pc \notin {"create", "prisma", "copy"}
               PROVE  mem[m].client <= lane'[k].ws.schema /\ mem[m].devSchema <= lane'[k].ws.schema
                        /\ lane'[k].ws.schema <= V(m)'
    BY <1>i, <1>k DEF CopyIsNew
  <2>1. CASE k # l
    <3>1. lane'[k] = lane[k]
      BY <1>s, <2>1 DEF Shape
    <3>2. mem[m].client <= lane[k].ws.schema /\ mem[m].devSchema <= lane[k].ws.schema
            /\ lane[k].ws.schema <= V(m)
      BY <1>k, <3>1 DEF CopyIsNew, On, Module
    <3> QED
      BY <1>v, <3>1, <3>2
  <2>2. CASE k = l
    <3>1. /\ ~lane[l].aborted /\ Module(l) = m
          /\ lane'[l].pc \in {"chown", "exec", "chown2", "empty", "back", "emptyClient", "copyClient"}
      BY <1>s, <2>2 DEF Shape, On, Module, OnModule
    <3>2. lane[l].pc \in {"copy", "chown", "exec", "chown2", "empty", "emptyClient"}
            /\ (lane[l].pc = "copy" => lane'[l].pc = "chown")
      BY <1>s, <3>1 DEF Asks, Passes, Resources
    <3>3. On(l, m)
      BY <3>1, <3>2 DEF On, OnModule
    <3>4. CASE lane[l].pc = "copy"
      <4>1. lane'[l].ws.schema = schema[m]
        BY <1>t, <3>1, <3>2, <3>4, CopiedSchema
      <4>2. V(m) = schema[m]
        BY <3>1, <3>3, LaneOfModule DEF V
      <4>3. mem[m].client <= V(m) /\ mem[m].devSchema <= V(m)
        BY <1>k DEF MemTrue, InRange
      <4> QED
        BY <1>v, <2>2, <4>1, <4>2, <4>3
    <3>5. CASE lane[l].pc # "copy"
      <4>1. lane'[l].ws.schema = lane[l].ws.schema
        BY <1>t, <3>5, CopiedSchema
      <4>2. mem[m].client <= lane[l].ws.schema /\ mem[m].devSchema <= lane[l].ws.schema
              /\ lane[l].ws.schema <= V(m)
        BY <1>k, <3>1, <3>2, <3>3, <3>5 DEF CopyIsNew
      <4> QED
        BY <1>v, <2>2, <4>1, <4>2
    <3> QED
      BY <3>4, <3>5
  <2> QED
    BY <2>1, <2>2
<1> QED
  BY <1>1, <1>2, <1>3

\* Every step keeps what is known of a module,
LEMMA KnownStep ==
  ASSUME NoGoingBack, Typed, Ordered, Loads, CInv, TreesKept, Sourced, StageKinds, [Next]_vars,
         NEW m \in Modules, Carries(m), Known(m)
  PROVE  Known(m)'
<1>1. CASE User \/ CreationStep \/ ContainerStep \/ UNCHANGED vars
  <2>1. torn \subseteq torn' /\ UNCHANGED <<client, lane, command, slot, stage, mem, saved>>
    BY <1>1 DEF User, Publish, Meddle, EditSchema, StartDocker, CreationStep, ContainerStep, NodeRemoved, PostgresDies,
                Creation, RemovePostgres, RunPostgres, PostgresReady, Connect, StartNode, InstallPrisma, CreationFails,
                vars, migrateVars, diskVars, cliVars
  <2> QED
    BY <2>1, KnownSame
<1>2. CASE Load
  <2>1. UNCHANGED <<client, lane, torn, cliVars>>
    BY <1>2, LoadMoves DEF Load
  <2> QED
    BY <2>1, KnownSame DEF cliVars
<1>3. CASE StartCommand \/ Change \/ Kill \/ Exit
  <2>1. torn \subseteq torn' /\ UNCHANGED <<client, saved>> /\ stage' = "none"
    BY <1>3 DEF StartCommand, Change, Kill, Exit, migrateVars, diskVars
  <2> QED
    BY <2>1, KnownQuiet DEF InBuild
<1>4. CASE RunShutdown
  <2>1. torn \subseteq torn' /\ UNCHANGED <<client, saved>> /\ stage' \in {"ending", "dying"}
    BY <1>4 DEF RunShutdown, diskVars
  <2> QED
    BY <2>1, KnownQuiet DEF InBuild
<1>5. CASE Build \/ RunCommand
  BY <1>5, KnownBuild
<1>6. ASSUME NEW l \in Lanes, LaneStep(l) PROVE Known(m)'
  BY <1>6, KnownLane
<1> QED
  BY <1>1, <1>2, <1>3, <1>4, <1>5, <1>6 DEF Next, Process, CommandStep

\* What a build has done for module m.
Done(m) ==
  InBuild =>
    /\ ~edited /\ stage # "ensure" => mem[m].client = schema[m]
    /\ stage \in {"deploy", "dev", "over"} /\ command \in {"migrate", "forceDeploy"}
         /\ m \notin left \cup torn /\ ~(stage \in {"deploy", "dev"} /\ Pending(m)) =>
           tree[m] \subseteq applied[m]
    /\ stage \in {"deploy", "dev", "over"} /\ command = "migrate" /\ ~IsExternal
         /\ m \notin left /\ ~edited => mem[m].devSchema = schema[m]

\* A step of a lane applies what the tree of its module has, and more.
LEMMA DoneLane ==
  ASSUME Typed, Ordered, Loads, CInv, TreesKept, StageKinds, NEW m \in Modules, Carries(m), Done(m),
         NEW l \in Lanes, LaneStep(l)
  PROVE  Done(m)'
<1>t. /\ DbTypes /\ LaneRuns(l) /\ UNCHANGED <<registry, cliVars, schema>> /\ Shape(l) /\ Effects(l)
      /\ UNCHANGED <<command, slot, stage, mem, left, edited>>
  BY LaneMoves, LaneEffects DEF Typed, LaneStep, cliVars, projectVars, Shape
<1>i. InBuild' <=> InBuild
  BY <1>t DEF InBuild
<1> SUFFICES ASSUME InBuild, stage \in {"deploy", "dev", "over"}, command \in {"migrate", "forceDeploy"},
                    m \notin left, m \notin torn', ~(stage \in {"deploy", "dev"} /\ Pending(m)')
             PROVE  tree'[m] \subseteq applied'[m]
  BY <1>i, <1>t DEF Done, IsExternal
<1>n. m \notin torn
  BY <1>t DEF Shape
<1>1. CASE ~(stage \in {"deploy", "dev"} /\ Pending(m))
  <2>1. tree[m] \subseteq applied[m]
    BY <1>1, <1>n DEF Done
  <2>2. ASSUME On(l, m), ~lane[l].aborted PROVE FALSE
    <3>1. stage \notin Quiet /\ (stage # "db" => Pending(m))
      BY <2>2, LaneOfModule
    <3> QED
      BY <1>1, <3>1 DEF Quiet
  <2>3. applied[m] \subseteq applied'[m]
    BY <1>n, <1>t, <2>2, AppliedGrows
  <2>4. tree'[m] = tree[m]
    BY <1>n, <1>t, <2>2, TreeMoves
  <2> QED
    BY <2>1, <2>3, <2>4
<1>2. CASE stage \in {"deploy", "dev"} /\ Pending(m)
  <2>1. /\ On(l, m) /\ ~lane[l].aborted /\ lane[l].kind = stage /\ lane'[l].pc = "next"
        /\ \/ stage = "deploy" /\ lane[l].pc = "chown2"
           \/ stage = "dev" /\ lane[l].pc = "back"
    BY <1>2, StepEnds
  <2>2. lane[l].ws.tree \subseteq applied[m] /\ (lane[l].pc = "chown2" => tree[m] \subseteq lane[l].ws.tree)
    BY <1>2, <1>n, <2>1 DEF Carries
  <2>3. applied[m] \subseteq applied'[m]
    BY <1>n, <1>t, <2>1, AppliedGrows
  <2>4. CASE lane[l].pc = "chown2"
    <3>1. tree'[m] = tree[m]
      BY <1>n, <1>t, <2>4, TreeMoves
    <3> QED
      BY <2>2, <2>3, <2>4, <3>1
  <2>5. CASE lane[l].pc = "back"
    <3>1. CopyMigrationsBack(l)
      <4>1. Uncopied(l) /\ ~EmptyMigrations(l) /\ Module(l) \notin torn'
        BY <2>1, <2>5, <1>2 DEF Uncopied, On, EmptyMigrations, At
      <4> QED
        BY <1>t, <2>5, <4>1 DEF Effects
    <3>2. tree'[m] = lane[l].ws.tree
      BY <2>1, <3>1 DEF CopyMigrationsBack, On, Typed, DbTypes
    <3> QED
      BY <2>2, <2>3, <3>2
  <2> QED
    BY <2>1, <2>4, <2>5
<1> QED
  BY <1>1, <1>2

\* The steps that plan begin what is still to be done.
LEMMA DoneBuild ==
  ASSUME Typed, Ordered, Loads, CInv, TreesKept, StageKinds, Build \/ RunCommand,
         NEW m \in DbModules, m \in Modules, Known(m), Done(m), Progress
  PROVE  Done(m)'
<1>b. /\ LanesBegun /\ UNCHANGED <<registry, tree, applied, torn, schema, command, slot>>
      /\ StepsOver /\ mem \in [Modules -> HashType] /\ mem[m] \in HashType
  <2>1. LanesBegun
    BY RunBegins DEF CInv
  <2>2. UNCHANGED registry
    BY DEF Build, PlanGenerate, PlanModule, ModuleFails, PlanDeploy, PlanDev, BuildOver, RunFails,
           DbOver, GenerateHelper, RunCommand, CleanProject, projectVars, remoteVars
  <2> QED
    BY <2>1, <2>2 DEF LanesBegun, diskVars, Typed, CliTypes
<1>i. stage \in {"ensure", "generate", "module", "deploy", "dev"} => InBuild
  BY DEF StageKinds, InBuild
<1>d. StepsDone => ~Pending(m)
  BY NonePending
<1>p. ASSUME NEW kind \in {"generate", "deploy", "dev"}, NEW modules, Plan(kind, modules), ~Pending(m)',
             m \in modules
      PROVE  ~NeedsBuild(m, kind)
  <2> DEFINE k == <<slot, m>>
  <2>1. k \in MyLanes /\ k[2] = m
    BY LanesExist
  <2>2. IF m \in modules /\ NeedsBuild(m, kind) THEN lane'[k].todo = <<k[2]>> ELSE lane'[k] = NoLane
    BY <1>p, <2>1, PlannedLanes
  <2>3. <<k[2]>> # <<>> /\ (Pending(m)' <=> lane'[k].todo # <<>>)
    BY <1>b DEF Pending
  <2> HIDE DEF k
  <2> QED
    BY <1>p, <2>2, <2>3
<1>1. CASE PlanGenerate
  <2>1. stage' = "generate" /\ mem' = [n \in Modules |-> IF n \in DbModules THEN Hashes(n, "generate") ELSE mem[n]]
    BY <1>1 DEF PlanGenerate, Plan
  <2>2. mem'[m] = [mem[m] EXCEPT !.client = schema[m]]
    BY <2>1 DEF Hashes
  <2>3. mem'[m].client = schema'[m]
    BY <1>b, <2>2 DEF HashType
  <2> QED
    BY <2>1, <2>3 DEF Done
<1>2. CASE PlanModule
  <2>1. stage = "generate" /\ stage' = "module" /\ UNCHANGED <<mem, edited>>
    BY <1>2 DEF PlanModule, Wait
  <2>2. ~edited => mem[m].client = schema[m]
    BY <1>i, <2>1 DEF Done
  <2> QED
    BY <1>b, <2>1, <2>2 DEF Done
<1>3. CASE ModuleFails \/ RunFails
  BY <1>3 DEF ModuleFails, RunFails, Done, InBuild
<1>4. CASE PlanDeploy
  <2>1. /\ StepsDone /\ stage = "module" /\ UNCHANGED edited
        /\ IF command = "build" THEN UNCHANGED mem ELSE Plan("deploy", Deployable)
        /\ left' = IF command = "migrate" THEN DbModules \ Deployable ELSE {}
    BY <1>4 DEF PlanDeploy, Wait
  <2>2. ~edited => mem[m].client = schema[m]
    BY <1>i, <2>1 DEF Done
  <2>3. CASE command = "build"
    <3>1. stage' = "over" /\ command' = "build" /\ mem' = mem /\ UNCHANGED <<edited, schema>>
      BY <1>b, <1>4, <2>1, <2>3 DEF PlanDeploy, Wait
    <3> QED
      BY <2>2, <3>1 DEF Done
  <2>4. CASE command # "build"
    <3>1. mem'[m] = mem[m] \/ mem'[m] = [mem[m] EXCEPT !.deployed = @ \cup tree[m]]
      BY <2>1, <2>4 DEF Plan, Hashes
    <3>2. mem'[m].client = mem[m].client
      BY <1>b, <3>1 DEF HashType
    <3>3. command \in {"migrate", "forceDeploy"} /\ m \notin left' => m \in Deployable
      BY <2>1 DEF Deployable
    <3>4. ASSUME m \in Deployable, m \notin torn, ~Pending(m)' PROVE tree[m] \subseteq applied[m]
      <4>1. tree[m] \subseteq mem[m].deployed
        BY <1>p, <2>1, <2>4, <3>4 DEF NeedsBuild
      <4>2. Recorded(mem[m], m)
        BY <1>i, <2>1, <3>4, WaitedFor
      <4> QED
        BY <4>1, <4>2 DEF Recorded, SetsKnown
    <3>5. command = "migrate" /\ ~IsExternal => m \in left'
      BY <2>1 DEF Deployable
    <3>6. stage' = "deploy" /\ (IsExternal' <=> IsExternal)
      BY <1>b, <1>4, <2>4 DEF PlanDeploy, Wait, IsExternal
    <3>7. ~edited' => mem'[m].client = schema'[m]
      BY <1>b, <2>1, <2>2, <3>2
    <3>8. command' \in {"migrate", "forceDeploy"} /\ m \notin left' \cup torn' /\ ~Pending(m)' =>
            tree'[m] \subseteq applied'[m]
      BY <1>b, <3>3, <3>4
    <3> QED
      BY <1>b, <3>5, <3>6, <3>7, <3>8 DEF Done
  <2> QED
    BY <2>3, <2>4
<1>5. CASE PlanDev
  <2>1. StepsDone /\ stage \in {"deploy", "dev"} /\ stage' = "dev" /\ UNCHANGED edited
    BY <1>5 DEF PlanDev, Wait
  <2>2. PICK n \in left : Plan("dev", {n}) /\ left' = left \ {n}
    BY <1>5 DEF PlanDev
  <2>3. ~Pending(m) /\ InBuild /\ (IsExternal' <=> IsExternal)
    BY <1>b, <1>d, <1>i, <2>1 DEF IsExternal
  <2>4. ~edited => mem[m].client = schema[m]
    BY <2>1, <2>3 DEF Done
  <2>5. CASE m # n
    <3>1. mem'[m] = mem[m]
      BY <2>2, <2>5 DEF Plan
    <3>2. command \in {"migrate", "forceDeploy"} /\ m \notin left \cup torn => tree[m] \subseteq applied[m]
      BY <2>1, <2>3 DEF Done
    <3>3. command = "migrate" /\ ~IsExternal /\ m \notin left /\ ~edited => mem[m].devSchema = schema[m]
      BY <2>1, <2>3 DEF Done
    <3>4. m \notin left' => m \notin left
      BY <2>2, <2>5
    <3> QED
      BY <1>b, <2>1, <2>3, <2>4, <3>1, <3>2, <3>3, <3>4 DEF Done
  <2>6. CASE m = n
    <3>1. mem'[m] = [mem[m] EXCEPT !.devSchema = schema[m], !.dev = @ \cup tree[m]]
      BY <2>2, <2>6 DEF Plan, Hashes
    <3>2. mem'[m].client = mem[m].client /\ mem'[m].devSchema = schema[m]
      BY <1>b, <3>1 DEF HashType
    <3>3. ASSUME m \notin torn, ~Pending(m)' PROVE tree[m] \subseteq applied[m]
      <4>1. tree[m] \subseteq mem[m].dev
        BY <1>p, <2>2, <2>6, <3>3 DEF NeedsBuild
      <4>2. Recorded(mem[m], m)
        BY <2>1, <2>3, <3>3, WaitedFor
      <4> QED
        BY <4>1, <4>2 DEF Recorded, SetsKnown
    <3> QED
      BY <1>b, <2>1, <2>3, <2>4, <3>2, <3>3 DEF Done
  <2> QED
    BY <2>5, <2>6
<1>6. CASE BuildOver
  <2>1. /\ StepsDone /\ stage \in {"deploy", "dev"} /\ stage' = "over" /\ UNCHANGED <<mem, left, edited>>
    BY <1>6 DEF BuildOver, Wait
  <2>2. ~Pending(m) /\ InBuild /\ (IsExternal' <=> IsExternal)
    BY <1>b, <1>d, <1>i, <2>1 DEF IsExternal
  <2> QED
    BY <1>b, <2>1, <2>2 DEF Done
<1>7. CASE DbOver
  <2>1. command' \notin Builds
    BY <1>7, <1>b DEF DbOver, StageKinds, DbCommands, Builds
  <2> QED
    BY <2>1 DEF Done, InBuild
<1>8. CASE RunCommand
  <2>1. command' \in Builds => stage' = "ensure"
    BY <1>8, <1>b DEF RunCommand, Builds, DbCommands
  <2> QED
    BY <2>1 DEF Done, InBuild
<1> QED
  BY <1>1, <1>2, <1>3, <1>4, <1>5, <1>6, <1>7, <1>8 DEF Build

\* and so the build makes progress.
LEMMA ProgressStep ==
  ASSUME NoGoingBack, Typed, Ordered, Loads, CInv, TreesKept, RecordsTrue, [Next]_vars
  PROVE  Progress'
<1>t. DbModules \subseteq Modules /\ StageKinds /\ Progress /\ \A m \in DbModules : Done(m)
  BY WorldTyped DEF RecordsTrue, Progress, Done
<1>u. UNCHANGED world
  <2>1. CASE Build \/ RunCommand
    BY <2>1, RunBegins DEF LanesBegun, CInv
  <2>2. CASE User \/ Load \/ UNCHANGED vars
    BY <2>2, OutsideSteps
  <2>3. CASE \/ StartCommand \/ Change \/ Kill \/ RunShutdown \/ Exit \/ CreationStep \/ ContainerStep
             \/ \E l \in Lanes : LaneStep(l)
    BY <2>3 DEF StartCommand, Change, Kill, RunShutdown, Exit, CreationStep, ContainerStep, LaneStep, cliVars
  <2> QED
    BY <2>1, <2>2, <2>3 DEF Next, Process, CommandStep
<1>w. DbModules' = DbModules
  BY <1>u DEF DbModules
<1>p. ASSUME left' \subseteq left, stage' = "over" /\ command' \in {"migrate", "forceDeploy"} => left' = {},
             \A m \in DbModules : Done(m)'
      PROVE  Progress'
  BY <1>p, <1>t, <1>w DEF Progress, Done
<1>q. ASSUME UNCHANGED left, ~InBuild', stage' = "over" => command' \notin {"migrate", "forceDeploy"}
      PROVE  Progress'
  BY <1>p, <1>q DEF Done
<1>1. CASE User \/ CreationStep \/ ContainerStep \/ UNCHANGED vars
  <2>1. /\ torn' = torn /\ UNCHANGED <<lane, command, slot, stage, mem, left, registry, tree, applied>>
        /\ UNCHANGED <<schema, edited>> \/ edited' = TRUE
    BY <1>1 DEF User, Publish, Meddle, EditSchema, StartDocker, CreationStep, ContainerStep, NodeRemoved, PostgresDies,
                Creation, RemovePostgres, RunPostgres, PostgresReady, Connect, StartNode, InstallPrisma, CreationFails,
                vars, migrateVars, diskVars, cliVars, projectVars
  <2>2. ASSUME NEW m \in DbModules PROVE Done(m)'
    BY <1>t, <2>1 DEF Done, InBuild, Pending, IsExternal
  <2> QED
    BY <1>p, <1>t, <2>1, <2>2 DEF Progress
<1>2. CASE Load
  <2>1. UNCHANGED cliVars /\ at \notin {"idle", "loaded", "cleaned", "failed"}
    BY <1>2 DEF Load, Clone, Discard, Fetch, Checkout, SaveGen, EmptyModule, CopyModule, RestoreGen, CheckModule
  <2>2. stage' = "none" /\ UNCHANGED left
    BY <2>1 DEF cliVars, Ordered
  <2> QED
    BY <1>q, <2>2 DEF InBuild
<1>3. CASE StartCommand \/ Change \/ Kill \/ Exit \/ RunShutdown
  <2>1. UNCHANGED left /\ stage' \in {"none", "ending", "dying"}
    BY <1>3 DEF StartCommand, Change, Kill, Exit, RunShutdown
  <2> QED
    BY <1>q, <2>1 DEF InBuild
<1>4. CASE Build \/ RunCommand
  <2>1. ASSUME NEW m \in DbModules PROVE Done(m)'
    BY <1>4, <1>t, DoneBuild DEF RecordsTrue
  <2>2. left' \subseteq DbModules
    BY <1>4, <1>t DEF Build, PlanGenerate, PlanModule, ModuleFails, PlanDeploy, PlanDev, BuildOver, RunFails,
                      DbOver, RunCommand, Progress
  <2>3. stage' = "over" /\ command' \in {"migrate", "forceDeploy"} => left' = {}
    <3>1. CASE Build
      BY <3>1, <1>t DEF Build, PlanGenerate, PlanModule, ModuleFails, PlanDeploy, PlanDev, BuildOver, RunFails,
                  DbOver, Wait, StageKinds, DbCommands
    <3>2. CASE RunCommand
      BY <3>2 DEF RunCommand, Builds, DbCommands
    <3> QED
      BY <1>4, <3>1, <3>2
  <2> QED
    BY <1>w, <2>1, <2>2, <2>3 DEF Progress, Done
<1>5. ASSUME NEW l \in Lanes, LaneStep(l) PROVE Progress'
  <2>1. UNCHANGED <<left, stage, command>>
    BY <1>5 DEF LaneStep, cliVars
  <2>2. ASSUME NEW m \in DbModules PROVE Done(m)'
    BY <1>5, <1>t, DoneLane DEF RecordsTrue
  <2> QED
    BY <1>p, <1>t, <2>1, <2>2 DEF Progress
<1> QED
  BY <1>1, <1>2, <1>3, <1>4, <1>5 DEF Next, Process, CommandStep

\* An empty cache records no migration.
LEMMA RecordsInit == Init => RecordsTrue
<1> SUFFICES ASSUME Init PROVE RecordsTrue
  OBVIOUS
<1>1. /\ \A l \in Lanes : lane[l].pc = "done" /\ lane[l].aborted = FALSE /\ lane[l].kind = "none"
                            /\ lane[l].todo = <<>>
      /\ stage = "none" /\ left = {} /\ command = "none"
      /\ \A m \in Modules : applied[m] = {} /\ tree[m] = {} /\ schema[m] = 1 /\ client[m] = 0
                              /\ saved[m] = NoHash
  BY NewLanesTyped DEF Init, MigrateInit
<1>2. Newest >= 1 /\ Newest \in Nat
  BY NewestTyped, TypedInit, LoadsInit
<1>3. Sourced
  BY <1>1, <1>2 DEF Sourced
<1>4. StageKinds
  BY <1>1 DEF StageKinds, Over, MyLanes
<1>5. \A m \in Modules : Carries(m)
  BY <1>1 DEF Carries, On, OnModule
<1>6. ASSUME NEW m \in Modules PROVE Known(m)
  <2>1. NoHash.client = 0 /\ NoHash.devSchema = 0 /\ NoHash.deployed \cup NoHash.dev = {}
    BY DEF NoHash
  <2>2. V(m) = 1
    BY <1>1 DEF V
  <2>3. Recorded(saved[m], m)
    BY <1>1, <2>1, <2>2 DEF Recorded, InRange, ClientKnown, SetsKnown, DevKnown, InTree
  <2> QED
    BY <1>1, <2>3 DEF Known, MemTrue, CopyIsNew, InBuild
<1>7. Progress
  BY <1>1 DEF Progress, InBuild
<1> QED
  BY <1>3, <1>4, <1>5, <1>6, <1>7 DEF RecordsTrue

\* Every step keeps what the hashes say of the migrations true.
LEMMA RecordsStep ==
  ASSUME NoGoingBack, Typed, Ordered, Loads, CInv, TreesKept, RecordsTrue, [Next]_vars
  PROVE  RecordsTrue'
<1>1. Sourced' /\ StageKinds' /\ Progress'
  BY VersionsGrow, StageKindsStep, ProgressStep DEF RecordsTrue
<1>2. ASSUME NEW m \in Modules PROVE Carries(m)' /\ Known(m)'
  BY CarriesStep, KnownStep DEF RecordsTrue
<1> QED
  BY <1>1, <1>2 DEF RecordsTrue

\* A build that succeeds has migrated the databases and made the clients of all
\* its modules, whatever it has skipped (plan/project.ts: a step runs when its
\* files have changed since the cache was saved): in a project that never loads
\* an older version of a module than before.
THEOREM BuildsMigrate == ASSUME NoGoingBack PROVE Spec => []MigratedWhenDone
<1>1. RecordsTrue /\ Typed /\ Ordered /\ Loads /\ CInv /\ TreesKept /\ [Next]_vars => RecordsTrue'
  BY RecordsStep
<1>2. Init => RecordsTrue
  BY RecordsInit
<1>3. RecordsTrue /\ Typed /\ Ordered /\ Loads /\ CInv /\ TreesKept => MigratedWhenDone
  <2> SUFFICES ASSUME RecordsTrue, Typed, Ordered, Loads, CInv, TreesKept,
                      stage = "over", command \in Builds, ~edited, NEW m \in DbModules, m \notin torn
               PROVE  /\ client[m] = schema[m]
                      /\ command # "build" => tree[m] \subseteq applied[m]
                      /\ command = "migrate" /\ ~IsExternal => schema[m] \in applied[m]
    BY DEF MigratedWhenDone
  <2>1. m \in Modules /\ InBuild /\ Known(m) /\ Progress /\ mem[m] \in HashType
    BY WorldTyped DEF InBuild, RecordsTrue, Typed, CliTypes
  <2>2. schema[m] # 0 /\ V(m) = schema[m] /\ V(m) \in Nat
    BY <2>1, VersionTyped DEF CInv, Copied, V
  <2>3. mem[m].client = schema[m]
    BY <2>1 DEF Progress
  <2>4. client[m] = schema[m]
    BY <2>1, <2>2, <2>3 DEF Known, MemTrue, ClientKnown
  <2>5. command # "build" => left = {} /\ tree[m] \subseteq applied[m]
    BY <2>1 DEF Progress, Builds
  <2>6. ASSUME command = "migrate", ~IsExternal PROVE schema[m] \in applied[m]
    <3>1. mem[m].devSchema = schema[m]
      BY <2>1, <2>5, <2>6 DEF Progress
    <3>2. DevKnown(mem[m], m)
      BY <2>1 DEF Known, MemTrue
    <3> QED
      BY <2>2, <3>1, <3>2 DEF DevKnown, Keeps
  <2> QED
    BY <2>4, <2>5, <2>6
<1> QED
  BY <1>1, <1>2, <1>3, AlwaysKept, PTL DEF Spec
==============================================================================
