---------------------------- MODULE ProjectProofs ----------------------------
(***************************************************************************)
(* Theorems about the loading of a project, for every registry, every set  *)
(* of refs and every sequence of commands, failures and kills: a project   *)
(* is loaded with the version it names, a revision can be checked out, and *)
(* the generated file the cache speaks of is there.                        *)
(***************************************************************************)
EXTENDS Cli, TLAPS

USE CommitAssumption, RefsAssumption

\* A load is begun before the first command, or when the one before is over.
LoadOver == at \in {"idle", "loaded", "cleaned", "failed"}

\* Where the command and its load are.
Ordered ==
  /\ world \in Worlds
  /\ command = "none" => at = "idle" /\ stage = "none"
  /\ stage # "none" => at \in {"loaded", "cleaned", "failed"}

\* What a step of a command does to the project.
EndLoad ==
  /\ LoadOver /\ at' = "idle"
  /\ UNCHANGED <<registry, remoteVars, clone, ext, cached, wanted, tempGen, error, genLost>>
ProjectNext ==
  \/ Publish \/ Meddle \/ LoadSteps \/ KillLoad \/ CleanProject \/ EndLoad
  \/ LoadOver /\ BeginLoad /\ NameVersion
  \/ \E keep \in BOOLEAN : GenerateHelper(keep)
  \/ UNCHANGED projectVars

\* From the discard on the work tree is not modified, from the checkout on it is the
\* commit that was named, and from the copy on so is the module, but for the
\* untracked files.  The clone's default branch is not ahead of the remote's, nor is
\* the copy of a shared directory ahead of that.
Pinned ==
  /\ registry # "git" => ext.version <= head
  /\ registry = "git" =>
    /\ at \in {"fetch", "checkout", "module", "empty", "copy"} => "modified" \notin clone.dirt
    /\ at \in {"module", "empty", "copy"} => Resolves(wanted) /\ clone.tree = LocalCommit(wanted)
    /\ at \in {"restore", "check", "loaded"} =>
         /\ wanted.kind \in {"rev", "tag"} => ext.version = wanted.commit
         /\ ext.extra => "untracked" \in clone.dirt
    /\ clone.main <= head

\* A revision is in the clone once it was looked for.
Fetched ==
  /\ at = "checkout" /\ wanted.kind = "rev" => wanted.commit \in clone.commits
  /\ RevLoads

\* module.gen.ts is in the module, or aside in the temporary directory.
GenFile == IF at \in {"empty", "copy", "restore"} THEN tempGen ELSE ext.gen
GenSafe ==
  registry # "local" =>
    /\ at = "empty" => tempGen = ext.gen
    /\ at \in {"copy", "restore"} => ext.gen = 0
    /\ ~genLost => cached = GenFile

-----------------------------------------------------------------------------
\* A command's steps are steps of its load, or leave the project alone.
LEMMA StepOfProject == Ordered /\ [Next]_vars => ProjectNext /\ Ordered'
<1> SUFFICES ASSUME Ordered, [Next]_vars PROVE ProjectNext /\ Ordered'
  OBVIOUS
<1>1. CASE User
  <2>1. CASE (Publish \/ Meddle) /\ UNCHANGED <<migrateVars, cliVars>>
    BY <2>1 DEF ProjectNext, Ordered, Publish, Meddle, loadVars, cliVars
  <2>2. ASSUME NEW m \in Modules, EditSchema(m)
        PROVE  ProjectNext /\ Ordered'
    BY <2>2 DEF EditSchema, ProjectNext, Ordered, projectVars, loadVars
  <2>3. CASE StartDocker /\ UNCHANGED <<projectVars, cliVars>>
    BY <2>3 DEF ProjectNext, Ordered, projectVars, loadVars, cliVars
  <2> QED
    BY <1>1, <2>1, <2>2, <2>3 DEF User
<1>2. CASE StartCommand
  <2>1. command' # "none"
    BY <1>2, WorldAssumption DEF StartCommand, Ordered, Commands, DbCommands
  <2>2. ProjectNext
    BY <1>2 DEF StartCommand, ProjectNext, Ordered, LoadOver
  <2> QED
    BY <1>2, <2>1, <2>2 DEF StartCommand, Ordered
<1>3. CASE Change
  BY <1>3 DEF Change, ProjectNext, Ordered, LoadOver, cliVars
<1>4. CASE Kill
  BY <1>4 DEF Kill, ProjectNext, Ordered, KillLoad
<1>5. CASE Load
  <2>1. LoadSteps /\ UNCHANGED cliVars
    BY <1>5 DEF Load, LoadSteps
  <2>2. stage = "none" /\ command # "none"
    BY <2>1 DEF LoadSteps, Ordered, Clone, Discard, Fetch, Checkout, SaveGen, EmptyModule,
                CopyModule, RestoreGen, CheckModule
  <2> QED
    BY <2>1, <2>2 DEF ProjectNext, Ordered, cliVars
<1>6. CASE RunCommand
  <2>1. IF command = "clean" THEN CleanProject ELSE UNCHANGED projectVars
    BY <1>6 DEF RunCommand
  <2>2. at' \in {"loaded", "cleaned"} /\ UNCHANGED <<world, command>> /\ command # "none"
    BY <1>6, <2>1 DEF RunCommand, CleanProject, projectVars, loadVars, Ordered
  <2> QED
    BY <2>1, <2>2 DEF ProjectNext, Ordered
<1>7. CASE Build
  <2>1. ASSUME UNCHANGED <<projectVars, world, command>>, stage # "none"
        PROVE  ProjectNext /\ Ordered'
    BY <2>1 DEF ProjectNext, Ordered, projectVars, loadVars
  <2>2. ASSUME \E keep \in BOOLEAN : GenerateHelper(keep), UNCHANGED <<world, command>>, stage # "none"
        PROVE  ProjectNext /\ Ordered'
    BY <2>2 DEF ProjectNext, Ordered, GenerateHelper, loadVars
  <2>3. CASE PlanGenerate \/ PlanDeploy \/ PlanDev \/ BuildOver \/ RunFails \/ DbOver
    BY <2>1, <2>3 DEF PlanGenerate, PlanDeploy, PlanDev, BuildOver, RunFails, DbOver, Wait
  <2>4. CASE PlanModule
    BY <2>2, <2>4 DEF PlanModule, Wait
  <2>5. CASE ModuleFails
    BY <2>1, <2>2, <2>5 DEF ModuleFails
  <2> QED
    BY <1>7, <2>3, <2>4, <2>5 DEF Build
<1>8. CASE RunShutdown
  <2>1. UNCHANGED <<projectVars, world, command>> /\ stage' \in {"ending", "dying"}
    BY <1>8 DEF RunShutdown
  <2>2. command # "none" /\ (stage # "none" \/ at = "failed")
    BY <1>8 DEF RunShutdown, CommandOver
  <2> QED
    BY <2>1, <2>2 DEF ProjectNext, Ordered, projectVars, loadVars
<1>9. CASE Exit
  BY <1>9 DEF Exit, ProjectNext, Ordered, EndLoad, LoadOver
<1>10. CASE \/ CreationStep \/ ContainerStep \/ \E l \in Lanes : LaneStep(l)
            \/ UNCHANGED vars
  <2>1. UNCHANGED <<projectVars, cliVars>>
    BY <1>10 DEF CreationStep, ContainerStep, LaneStep, vars
  <2> QED
    BY <2>1 DEF ProjectNext, Ordered, projectVars, loadVars, cliVars
<1> QED
  BY <1>1, <1>2, <1>3, <1>4, <1>5, <1>6, <1>7, <1>8, <1>9, <1>10
     DEF Next, Process, CommandStep

\* The types of a clone, and of a module of the project.
CloneType == [git : BOOLEAN, main : 0..MaxCommit, commits : SUBSET Commits,
              tags : SUBSET Commits, tree : 0..Side, dirt : SUBSET Dirt]
ModuleType == [version : 0..Side, extra : BOOLEAN, gen : 0..Side]

Loads == ProjectTypeOK /\ Pinned /\ Fetched /\ GenSafe

\* The versions of the local tree and of the remote, and that of a side branch.
LEMMA VersionsInRange ==
  /\ Side \in Nat /\ Side \in Commits /\ 1 \in 1..MaxCommit
  /\ Commits \subseteq 0..Side /\ 1..MaxCommit \subseteq Commits
  /\ 0..MaxCommit \subseteq 0..Side /\ 0 \in 0..Side /\ 0 \in 0..MaxCommit
BY DEF Side, Commits

\* The clones there are made of are clones.
LEMMA ClonesTyped ==
  /\ NoClone \in CloneType /\ PartialClone \in CloneType
  /\ ProjectTypeOK => WholeClone \in CloneType
<1>1. NoClone \in CloneType
  BY VersionsInRange DEF NoClone, CloneType, Dirt
<1>2. PartialClone \in CloneType
  BY <1>1 DEF PartialClone, CloneType
<1>3. ASSUME ProjectTypeOK PROVE WholeClone \in CloneType
  <2>1. head \in 0..MaxCommit /\ head \in 0..Side /\ 1..head \subseteq Commits
    BY <1>3, VersionsInRange DEF ProjectTypeOK, Commits, Side
  <2>2. tags \cap 1..head \in SUBSET Commits
    BY <2>1
  <2> QED
    BY <2>1, <2>2 DEF WholeClone, CloneType, Dirt
<1> QED
  BY <1>1, <1>2, <1>3

\* A ref names a commit, and what is fetched for it is one.
LEMMA RefsTyped ==
  ProjectTypeOK => /\ wanted.kind \in Kinds /\ wanted.commit \in Commits
                   /\ RemoteCommit(wanted) \in Commits /\ LocalCommit(wanted) \in 0..Side
BY VersionsInRange DEF ProjectTypeOK, Kinds, RemoteCommit, LocalCommit

\* What is copied and what is built is a version.
LEMMA SourcesTyped ==
  ProjectTypeOK => SourceVersion \in 0..Side /\ ModuleVersion \in 0..Side
BY VersionsInRange DEF ProjectTypeOK, SourceVersion, ModuleVersion

\* A project that was never loaded.
LEMMA LoadsInit == Init => Loads /\ Ordered
<1> SUFFICES ASSUME Init PROVE Loads /\ Ordered
  OBVIOUS
<1>1. registry \in {"git", "shared", "local"}
  BY WorldAssumption DEF Init
<1>2. wanted \in Refs
  <2>1. AnyRef \in Refs
    BY DEF AnyRef
  <2> QED
    BY <2>1 DEF Init, ProjectInit
<1>3. ProjectTypeOK
  BY <1>1, <1>2, ClonesTyped, VersionsInRange
     DEF Init, ProjectInit, ProjectTypeOK, CloneType, NoModule
<1> QED
  BY <1>3 DEF Init, ProjectInit, Loads, Pinned, Fetched, RevLoads, GenSafe, GenFile, NoModule,
              NoClone, Ordered

\* The version that a ref stands for in the clone is the same while both are.
LEMMA SameClone ==
  ASSUME UNCHANGED <<clone, wanted>>
  PROVE  /\ Resolves(wanted)' <=> Resolves(wanted)
         /\ LocalCommit(wanted)' = LocalCommit(wanted)
BY DEF Resolves, LocalCommit

\* What git leaves of a clone when it is killed is a clone, and its default branch is
\* what it was, or what the remote's is.
LEMMA KilledTyped ==
  ASSUME Loads, clone' \in KilledClones
  PROVE  /\ clone' \in CloneType
         /\ registry = "git" => clone'.main = clone.main \/ (at = "clone" /\ clone'.main \in {0, head})
<1>1. /\ clone \in CloneType /\ ProjectTypeOK /\ head \in 1..MaxCommit
      /\ wanted \in Refs /\ RemoteCommit(wanted) \in Commits /\ LocalCommit(wanted) \in 0..Side
  BY RefsTyped DEF Loads, ProjectTypeOK, CloneType
<1>2. CASE at = "clone"
  <2>1. /\ NoClone \in CloneType /\ PartialClone \in CloneType /\ WholeClone \in CloneType
        /\ NoClone.main = 0 /\ PartialClone.main = 0 /\ WholeClone.main = head
    BY <1>1, ClonesTyped DEF NoClone, PartialClone, WholeClone
  <2>2. ASSUME NEW d \in SUBSET {"modified", "locked"}
        PROVE  LET c == [WholeClone EXCEPT !.dirt = d] IN c \in CloneType /\ c.main = head
    BY <2>1, <2>2 DEF CloneType, Dirt
  <2>3. CASE clone' \in {NoClone, PartialClone}
    BY <1>2, <2>1, <2>3
  <2>4. CASE \E d \in SUBSET {"modified", "locked"} : clone' = [WholeClone EXCEPT !.dirt = d]
    BY <1>2, <2>2, <2>4
  <2> QED
    BY <1>2, <2>3, <2>4 DEF KilledClones
<1>3. CASE at # "clone"
  <2>1. \/ clone' = clone
        \/ \E d \in SUBSET Dirt : clone' = [clone EXCEPT !.dirt = d]
        \/ clone' = FetchedClone
        \/ clone' = CheckedOut
    <3>1. clone.dirt \subseteq Dirt
      BY <1>1 DEF CloneType
    <3>2. CASE at = "discard" /\ "modified" \in clone.dirt /\ ~Locked
      BY <1>3, <3>1, <3>2 DEF KilledClones, ResetClone, Dirt
    <3>3. CASE at = "fetch" /\ ~Resolves(wanted) /\ OnRemote(wanted)
      BY <1>3, <3>3 DEF KilledClones
    <3>4. CASE at = "checkout" /\ Resolves(wanted) /\ ~Locked
      <4>1. CASE \E d \in SUBSET Dirt : clone' = [clone EXCEPT !.dirt = @ \cup d]
        <5>1. PICK d \in SUBSET Dirt : clone' = [clone EXCEPT !.dirt = @ \cup d]
          BY <4>1
        <5>2. clone.dirt \cup d \in SUBSET Dirt
          BY <3>1
        <5> QED
          BY <5>1, <5>2
      <4> QED
        BY <3>4, <4>1 DEF KilledClones
    <3> QED
      BY <1>3, <3>2, <3>3, <3>4 DEF KilledClones
  <2>2. CASE clone' = FetchedClone
    BY <1>1, <2>2 DEF FetchedClone, CloneType
  <2>3. CASE clone' = CheckedOut
    BY <1>1, <2>3 DEF CheckedOut, CloneType
  <2>4. ASSUME NEW d \in SUBSET Dirt, clone' = [clone EXCEPT !.dirt = d]
        PROVE  clone' \in CloneType /\ clone'.main = clone.main
    BY <1>1, <2>4 DEF CloneType
  <2> QED
    BY <1>1, <2>1, <2>2, <2>3, <2>4
<1> QED
  BY <1>2, <1>3

\* Every step that a command makes of the project keeps what is known of it.
LEMMA ProjectStep == Loads /\ ProjectNext => Loads'
<1> SUFFICES ASSUME Loads, ProjectNext PROVE Loads'
  OBVIOUS
<1>t. /\ clone \in CloneType /\ ext \in ModuleType /\ ProjectTypeOK
      /\ wanted \in Refs /\ wanted.kind \in Kinds /\ wanted.commit \in Commits
      /\ head \in 1..MaxCommit
  BY RefsTyped DEF Loads, ProjectTypeOK, CloneType, ModuleType
<1>k. Pinned /\ Fetched /\ GenSafe
  BY DEF Loads
<1>1. CASE Publish
  <2>1. head' \in 1..MaxCommit /\ tags' \subseteq Commits /\ head <= head'
    <3>1. head \in 1..MaxCommit /\ tags \subseteq Commits
      BY <1>t DEF ProjectTypeOK
    <3>2. CASE head < MaxCommit /\ head' = head + 1 /\ UNCHANGED tags
      BY <3>1, <3>2
    <3>3. ASSUME NEW r \in Refs, UNCHANGED head, tags' = tags \cup {r.commit}
          PROVE  head' \in 1..MaxCommit /\ tags' \subseteq Commits /\ head <= head'
      BY <3>1, <3>3
    <3> QED
      BY <1>1, <3>2, <3>3 DEF Publish
  <2>2. UNCHANGED <<registry, clone, ext, cached, loadVars, genLost>>
    BY <1>1 DEF Publish
  <2>3. ProjectTypeOK'
    BY <1>t, <2>1, <2>2 DEF ProjectTypeOK, loadVars
  <2>4. Pinned'
    <3>1. /\ UNCHANGED <<registry, clone, ext, at, wanted>>
          /\ clone.main \in Nat /\ ext.version \in Nat
      BY <1>t, <2>2, VersionsInRange DEF loadVars, CloneType, ModuleType
    <3> QED
      BY <1>k, <1>t, <2>1, <3>1, SameClone DEF Pinned
  <2>5. Fetched' /\ GenSafe'
    BY <1>k, <2>2 DEF Fetched, RevLoads, Leftovers, GenSafe, GenFile, loadVars
  <2> QED
    BY <2>3, <2>4, <2>5 DEF Loads
<1>2. CASE Meddle
  <2>1. PICK d \in SUBSET Dirt : clone' = [clone EXCEPT !.dirt = d]
    <3>1. clone.dirt \subseteq Dirt
      BY <1>t DEF CloneType
    <3>2. CASE \E d \in {"modified", "untracked"} : clone' = [clone EXCEPT !.dirt = @ \cup {d}]
      <4>1. PICK d \in {"modified", "untracked"} : clone' = [clone EXCEPT !.dirt = @ \cup {d}]
        BY <3>2
      <4>2. clone.dirt \cup {d} \in SUBSET Dirt
        BY <3>1 DEF Dirt
      <4> QED
        BY <4>1, <4>2
    <3>3. CASE \E d \in {"untracked", "locked"} : clone' = [clone EXCEPT !.dirt = @ \ {d}]
      <4>1. PICK d \in {"untracked", "locked"} : clone' = [clone EXCEPT !.dirt = @ \ {d}]
        BY <3>3
      <4>2. clone.dirt \ {d} \in SUBSET Dirt
        BY <3>1
      <4> QED
        BY <4>1, <4>2
    <3> QED
      BY <1>2, <3>2, <3>3 DEF Meddle
  <2>2. clone' \in CloneType /\ clone'.main = clone.main
    BY <2>1, <1>t DEF CloneType
  <2>3. UNCHANGED <<registry, remoteVars, ext, cached, loadVars, genLost>> /\ at = "idle"
    BY <1>2 DEF Meddle
  <2> QED
    BY <2>2, <2>3 DEF Loads, ProjectTypeOK, Pinned, Fetched, RevLoads, GenSafe, GenFile,
                      loadVars, remoteVars, CloneType
<1>3. CASE Clone
  <2>1. clone' \in CloneType /\ (clone'.main = 0 \/ clone'.main = head)
    <3>1. /\ NoClone \in CloneType /\ NoClone.main = 0
          /\ WholeClone \in CloneType /\ WholeClone.main = head
      BY <1>t, ClonesTyped DEF NoClone, WholeClone
    <3>2. clone' = NoClone \/ clone' = WholeClone
      BY <1>3 DEF Clone
    <3> QED
      BY <3>1, <3>2
  <2>2. /\ at = "clone" /\ UNCHANGED <<registry, remoteVars, ext, cached, genLost, wanted>>
        /\ \/ at' = "discard" /\ UNCHANGED <<tempGen, error>>
           \/ at' = "failed" /\ tempGen' = 0 /\ error' = "clone"
    BY <1>3 DEF Clone, Goto, Throw
  <2>3. ProjectTypeOK'
    BY <2>1, <2>2, VersionsInRange DEF Loads, ProjectTypeOK, remoteVars, CloneType
  <2>4. Pinned'
    BY <1>k, <1>t, <2>1, <2>2 DEF Pinned, remoteVars
  <2>5. Fetched' /\ GenSafe'
    BY <1>k, <2>2 DEF Fetched, RevLoads, GenSafe, GenFile
  <2> QED
    BY <2>3, <2>4, <2>5 DEF Loads
<1>4. CASE Discard
  <2>1. /\ clone' \in CloneType /\ clone'.main = clone.main
        /\ at' = "fetch" => "modified" \notin clone'.dirt
    <3>1. ResetClone \in CloneType /\ ResetClone.main = clone.main
          /\ "modified" \notin ResetClone.dirt
      <4>1. clone.dirt \ {"modified"} \in SUBSET Dirt
        BY <1>t DEF CloneType
      <4> QED
        BY <1>t, <4>1 DEF ResetClone, CloneType
    <3> QED
      BY <1>4, <1>t, <3>1 DEF Discard, Goto, Throw
  <2>2. /\ at = "discard" /\ UNCHANGED <<registry, remoteVars, ext, cached, genLost, wanted>>
        /\ \/ at' = "fetch" /\ UNCHANGED <<tempGen, error>>
           \/ at' = "failed" /\ tempGen' = 0 /\ error' = "discard"
    BY <1>4 DEF Discard, Goto, Throw
  <2>3. ProjectTypeOK'
    BY <2>1, <2>2, VersionsInRange DEF Loads, ProjectTypeOK, remoteVars, CloneType
  <2>4. Pinned'
    BY <1>k, <2>1, <2>2 DEF Pinned, remoteVars
  <2>5. Fetched' /\ GenSafe'
    BY <1>k, <2>2 DEF Fetched, RevLoads, GenSafe, GenFile
  <2> QED
    BY <2>3, <2>4, <2>5 DEF Loads
<1>5. CASE Fetch
  <2>1. clone' \in CloneType /\ clone'.dirt = clone.dirt /\ clone'.main = clone.main
    <3>1. FetchedClone \in CloneType /\ FetchedClone.dirt = clone.dirt
          /\ FetchedClone.main = clone.main
      BY <1>t, RefsTyped DEF FetchedClone, CloneType
    <3> QED
      BY <1>5, <1>t, <3>1 DEF Fetch
  <2>2. at' = "checkout" /\ wanted.kind = "rev" => wanted.commit \in clone'.commits
    <3>1. wanted.kind = "rev" => wanted.commit \in FetchedClone.commits
      BY <1>t DEF FetchedClone, RemoteCommit, CloneType
    <3> QED
      BY <1>5, <1>t, <3>1 DEF Fetch, Resolves, Throw
  <2>3. /\ at = "fetch" /\ UNCHANGED <<registry, remoteVars, ext, cached, genLost, wanted>>
        /\ \/ at' = "checkout" /\ UNCHANGED <<tempGen, error>>
           \/ at' = "failed" /\ tempGen' = 0 /\ error' = "fetch"
    BY <1>5 DEF Fetch, Goto, Throw
  <2>4. ProjectTypeOK'
    BY <2>1, <2>3, VersionsInRange DEF Loads, ProjectTypeOK, remoteVars, CloneType
  <2>5. Pinned'
    BY <1>k, <2>1, <2>3 DEF Pinned, remoteVars
  <2>6. Fetched'
    BY <2>2, <2>3 DEF Fetched, RevLoads
  <2>7. GenSafe'
    BY <1>k, <2>3 DEF GenSafe, GenFile
  <2> QED
    BY <2>4, <2>5, <2>6, <2>7 DEF Loads
<1>6. CASE Checkout
  <2>1. /\ clone' \in CloneType /\ clone'.dirt = clone.dirt /\ clone'.main = clone.main
        /\ clone'.commits = clone.commits /\ clone'.tags = clone.tags
    <3>1. /\ CheckedOut \in CloneType /\ CheckedOut.dirt = clone.dirt
          /\ CheckedOut.main = clone.main
          /\ CheckedOut.commits = clone.commits /\ CheckedOut.tags = clone.tags
      BY <1>t, RefsTyped DEF CheckedOut, CloneType
    <3> QED
      BY <1>6, <1>t, <3>1 DEF Checkout
  <2>2. at' = "module" => Resolves(wanted) /\ clone'.tree = LocalCommit(wanted)
    BY <1>6, <1>t DEF Checkout, CheckedOut, Throw, CloneType
  <2>3. /\ at = "checkout" /\ UNCHANGED <<registry, remoteVars, ext, cached, genLost, wanted>>
        /\ \/ at' = "module" /\ UNCHANGED <<tempGen, error>>
           \/ at' = "failed" /\ tempGen' = 0 /\ error' = "checkout"
    BY <1>6 DEF Checkout, Goto, Throw
  <2>4. at' = "failed" /\ wanted.kind = "rev" => clone.dirt \cap {"untracked", "locked"} # {}
    BY <1>6, <1>k, <1>t DEF Checkout, Goto, Resolves, Fetched, Leftovers
  <2>5. ProjectTypeOK'
    BY <2>1, <2>3, VersionsInRange DEF Loads, ProjectTypeOK, remoteVars, CloneType
  <2>6. Pinned'
    <3>1. /\ Resolves(wanted)' <=> Resolves(wanted)
          /\ LocalCommit(wanted)' = LocalCommit(wanted)
      BY <2>1, <2>3 DEF Resolves, LocalCommit
    <3> QED
      BY <1>k, <2>1, <2>2, <2>3, <3>1 DEF Pinned, remoteVars
  <2>7. Fetched'
    BY <2>1, <2>3, <2>4 DEF Fetched, RevLoads, Leftovers
  <2>8. GenSafe'
    BY <1>k, <2>3 DEF GenSafe, GenFile
  <2> QED
    BY <2>5, <2>6, <2>7, <2>8 DEF Loads
<1>7. CASE SaveGen
  <2>1. /\ at = "module" /\ UNCHANGED <<registry, remoteVars, clone, ext, cached, genLost>>
        /\ UNCHANGED <<wanted, error>>
        /\ IF registry = "local" THEN at' = "check" /\ UNCHANGED tempGen
           ELSE at' = "empty" /\ tempGen' = ext.gen
    BY <1>7 DEF SaveGen, Goto
  <2>2. ProjectTypeOK' /\ Fetched' /\ GenSafe'
    BY <1>k, <1>t, <2>1 DEF ProjectTypeOK, Fetched, RevLoads, GenSafe, GenFile, remoteVars
  <2>3. Pinned'
    BY <1>k, <2>1, SameClone DEF Pinned, remoteVars
  <2> QED
    BY <2>2, <2>3 DEF Loads
<1>8. CASE EmptyModule
  <2>1. /\ at = "empty" /\ UNCHANGED <<registry, remoteVars, clone, cached, wanted>>
        /\ ext' \in ModuleType /\ ext'.version \in {0, ext.version}
        /\ \/ /\ at' = "copy" /\ UNCHANGED <<genLost, tempGen, error>> /\ ext'.gen = 0
           \/ /\ at' = "failed" /\ tempGen' = 0 /\ error' = "empty"
              /\ genLost' \in BOOLEAN /\ (~genLost' => ~genLost /\ ext'.gen = ext.gen)
    <3>1. NoModule \in ModuleType /\ NoModule.gen = 0 /\ NoModule.version = 0
      BY VersionsInRange DEF NoModule, ModuleType
    <3>2. [ext EXCEPT !.version = 0] \in ModuleType /\ [ext EXCEPT !.version = 0].version = 0
      BY <1>t, VersionsInRange DEF ModuleType
    <3>3. genLost \in BOOLEAN
      BY <1>t DEF ProjectTypeOK
    <3> QED
      BY <1>8, <1>t, <3>1, <3>2, <3>3 DEF EmptyModule, Goto, Throw
  <2>2. ProjectTypeOK' /\ Fetched' /\ GenSafe'
    BY <1>k, <1>t, <2>1, VersionsInRange
       DEF ProjectTypeOK, ModuleType, Fetched, RevLoads, GenSafe, GenFile, remoteVars
  <2>3. Pinned'
    BY <1>k, <1>t, <2>1, SameClone DEF Pinned, remoteVars
  <2> QED
    BY <2>2, <2>3 DEF Loads
<1>9. CASE CopyModule
  <2>1. /\ at = "copy" /\ UNCHANGED <<registry, remoteVars, clone, cached, wanted>>
        /\ ext' \in ModuleType /\ ext'.gen = ext.gen
        /\ \/ /\ at' = "restore" /\ UNCHANGED <<genLost, tempGen, error>>
              /\ ext'.version = SourceVersion /\ ext'.extra = SourceExtra
           \/ /\ at' = "failed" /\ tempGen' = 0 /\ error' = "copy" /\ ext' = ext
              /\ genLost' \in BOOLEAN /\ (~genLost' => ~genLost /\ tempGen = 0)
    <3>1. [ext EXCEPT !.version = SourceVersion, !.extra = SourceExtra] \in ModuleType
      <4>1. SourceExtra \in BOOLEAN
        BY DEF SourceExtra
      <4> QED
        BY <1>t, <4>1, SourcesTyped DEF ModuleType
    <3>2. genLost \in BOOLEAN
      BY <1>t DEF ProjectTypeOK
    <3>3. CASE at' = "restore"
      BY <1>9, <1>t, <3>1, <3>3 DEF CopyModule, Goto, Throw, ModuleType
    <3>4. CASE at' = "failed"
      BY <1>9, <1>t, <3>2, <3>4 DEF CopyModule, Goto, Throw
    <3> QED
      BY <1>9, <3>3, <3>4 DEF CopyModule, Goto, Throw
  <2>2. registry = "git" =>
          /\ wanted.kind \in {"rev", "tag"} => SourceVersion = wanted.commit
          /\ SourceExtra => "untracked" \in clone.dirt
    BY <1>k, <2>1 DEF SourceVersion, SourceExtra, Pinned, LocalCommit
  <2>3. ProjectTypeOK' /\ Fetched'
    BY <1>k, <1>t, <2>1, VersionsInRange
       DEF ProjectTypeOK, ModuleType, Fetched, RevLoads, remoteVars
  <2>4. Pinned'
    <3>1. registry # "git" => SourceVersion = head
      BY DEF SourceVersion
    <3> QED
      BY <1>k, <1>t, <2>1, <2>2, <3>1 DEF Pinned, remoteVars
  <2>5. GenSafe'
    BY <1>k, <2>1 DEF GenSafe, GenFile
  <2> QED
    BY <2>3, <2>4, <2>5 DEF Loads
<1>10. CASE RestoreGen
  <2>1. ext' \in ModuleType /\ ext'.version = ext.version /\ ext'.extra = ext.extra
    BY <1>10, <1>t DEF RestoreGen, ModuleType, ProjectTypeOK
  <2>2. at' = "check" => ext'.gen = tempGen
    BY <1>10, <1>t DEF RestoreGen, Throw, ModuleType
  <2>3. /\ at = "restore" /\ tempGen' = 0 /\ UNCHANGED <<registry, remoteVars, clone, cached, wanted>>
        /\ \/ at' = "check" /\ UNCHANGED <<error, genLost>>
           \/ at' = "failed" /\ error' = "restore" /\ genLost' = TRUE /\ UNCHANGED ext
    BY <1>10 DEF RestoreGen, Throw
  <2>4. ProjectTypeOK' /\ Fetched'
    BY <1>k, <1>t, <2>1, <2>3, VersionsInRange
       DEF ProjectTypeOK, Fetched, RevLoads, remoteVars, ModuleType
  <2>5. Pinned'
    BY <1>k, <2>1, <2>3 DEF Pinned, remoteVars
  <2>6. GenSafe'
    BY <1>k, <2>2, <2>3 DEF GenSafe, GenFile
  <2> QED
    BY <2>4, <2>5, <2>6 DEF Loads
<1>11. CASE CheckModule
  <2>1. /\ at = "check" /\ UNCHANGED <<registry, remoteVars, clone, ext, cached, genLost, wanted>>
        /\ \/ at' = "loaded" /\ UNCHANGED <<tempGen, error>>
           \/ at' = "failed" /\ tempGen' = 0 /\ error' = "module"
    BY <1>11 DEF CheckModule, Goto, Throw
  <2> QED
    BY <1>k, <1>t, <2>1, VersionsInRange
       DEF Loads, ProjectTypeOK, Pinned, Fetched, RevLoads, GenSafe, GenFile, remoteVars
<1>12. CASE KillLoad
  <2>1. /\ clone' \in CloneType
        /\ registry = "git" => clone'.main <= head
    BY <1>12, <1>t, <1>k, KilledTyped DEF KillLoad, Pinned, CloneType
  <2>2. /\ at' = "idle" /\ tempGen' = 0 /\ UNCHANGED <<registry, remoteVars, ext, cached, wanted, error>>
        /\ genLost' \in BOOLEAN
        /\ ~genLost' => ~genLost /\ ~(at \in {"copy", "restore"} /\ tempGen # 0)
    BY <1>12, <1>t DEF KillLoad, ProjectTypeOK
  <2>3. ProjectTypeOK'
    BY <1>t, <2>1, <2>2, VersionsInRange DEF ProjectTypeOK, remoteVars, CloneType
  <2>4. Pinned' /\ Fetched' /\ GenSafe'
    BY <1>k, <2>1, <2>2 DEF Pinned, Fetched, RevLoads, GenSafe, GenFile, remoteVars
  <2> QED
    BY <2>3, <2>4 DEF Loads
<1>13. CASE CleanProject
  <2>1. /\ at' = "cleaned" /\ UNCHANGED <<registry, remoteVars, wanted, tempGen, error>>
        /\ cached' = 0 /\ genLost' = FALSE
    BY <1>13 DEF CleanProject
  <2>2. clone' \in CloneType /\ clone'.main = 0
    BY <1>13, ClonesTyped DEF CleanProject, NoClone
  <2>3. /\ ext' \in ModuleType /\ ext'.version \in {0, ext.version}
        /\ registry # "local" => ext'.gen = 0
    BY <1>13, <1>t, VersionsInRange DEF CleanProject, NoModule, ModuleType
  <2>4. ProjectTypeOK'
    BY <1>t, <2>1, <2>2, <2>3, VersionsInRange
       DEF ProjectTypeOK, remoteVars, CloneType, ModuleType
  <2>5. Pinned' /\ Fetched' /\ GenSafe'
    BY <1>k, <1>t, <2>1, <2>2, <2>3
       DEF Pinned, Fetched, RevLoads, GenSafe, GenFile, remoteVars
  <2> QED
    BY <2>4, <2>5 DEF Loads
<1>14. CASE EndLoad
  BY <1>14 DEF EndLoad, LoadOver, Loads, ProjectTypeOK, Pinned, Fetched, RevLoads, GenSafe, GenFile,
               remoteVars
<1>15. CASE LoadOver /\ BeginLoad
  <2>1. wanted' \in Refs /\ at' \in {"module", "discard", "clone"}
        /\ (registry = "git" => at' # "module")
    BY <1>15, <1>t DEF BeginLoad
  <2>2. UNCHANGED <<registry, remoteVars, clone, ext, cached, tempGen, genLost>> /\ error' = "none"
    BY <1>15 DEF BeginLoad
  <2> QED
    BY <1>15, <2>1, <2>2 DEF LoadOver, Loads, ProjectTypeOK, Pinned, Fetched, RevLoads, GenSafe,
                             GenFile, remoteVars
<1>16. ASSUME NEW keep \in BOOLEAN, GenerateHelper(keep) PROVE Loads'
  <2>1. /\ ext' \in ModuleType /\ ext'.version = ext.version /\ ext'.extra = ext.extra
        /\ ext'.gen = IF cached # ModuleVersion THEN ModuleVersion ELSE ext.gen
    BY <1>16, <1>t, SourcesTyped DEF GenerateHelper, ModuleType
  <2>2. cached' \in 0..Side /\ genLost' \in BOOLEAN
    BY <1>16, SourcesTyped DEF GenerateHelper, Loads, ProjectTypeOK
  <2>3. at = "loaded" /\ UNCHANGED <<registry, remoteVars, clone, loadVars>>
    BY <1>16 DEF GenerateHelper
  <2>4. ~genLost' /\ (~genLost => cached = ext.gen) => cached' = ext'.gen
    BY <1>16, <2>1 DEF GenerateHelper
  <2> QED
    BY <2>1, <2>2, <2>3, <2>4 DEF Loads, ProjectTypeOK, Pinned, Fetched, RevLoads, Leftovers, GenSafe,
                             GenFile, remoteVars, loadVars, ModuleType
<1>17. CASE UNCHANGED projectVars
  <2>1. UNCHANGED <<registry, remoteVars, clone, ext, cached, at, wanted, tempGen, error, genLost>>
    BY <1>17 DEF projectVars, loadVars
  <2>2. ProjectTypeOK' /\ Fetched' /\ GenSafe'
    BY <1>k, <1>t, <2>1 DEF ProjectTypeOK, Fetched, RevLoads, Leftovers, GenSafe, GenFile, remoteVars
  <2>3. Pinned'
    BY <1>k, <2>1, SameClone DEF Pinned, remoteVars
  <2> QED
    BY <2>2, <2>3 DEF Loads
<1> QED
  BY <1>1, <1>2, <1>3, <1>4, <1>5, <1>6, <1>7, <1>8, <1>9, <1>10, <1>11, <1>12, <1>13, <1>14,
     <1>15, <1>16, <1>17 DEF ProjectNext, LoadSteps

\* The invariant of every command.
LEMMA AlwaysLoads == Spec => [](Loads /\ Ordered)
<1>1. (Loads /\ Ordered) /\ [Next]_vars => (Loads /\ Ordered)'
  BY StepOfProject, ProjectStep
<1> QED
  BY LoadsInit, <1>1, PTL DEF Spec

-----------------------------------------------------------------------------
\* The state of the load is well typed.
THEOREM ProjectTypeCorrect == Spec => []ProjectTypeOK
<1>1. Loads => ProjectTypeOK
  BY DEF Loads
<1> QED
  BY AlwaysLoads, <1>1, PTL

\* A project of a git registry that names a revision or a tag is loaded with that
\* version of the module, whatever was configured, published, changed in the clone,
\* interrupted or killed before, and with nothing more but the clone's untracked
\* files (resolveRegistryGit and fetchAndResolveModule: git reset and git checkout
\* leave those, and the copy takes them along).
THEOREM LoadsWhatIsNamed == Spec => []LoadedIsPinned
<1>1. Loads => LoadedIsPinned
  BY DEF Loads, Pinned, LoadedIsPinned
<1> QED
  BY AlwaysLoads, <1>1, PTL

\* The checkout of a revision fails only because of untracked files or a lock in the
\* clone, that somebody put there or a killed git has left: the fetch before it has
\* brought the commit, or has thrown.
THEOREM RevisionsCanBeCheckedOut == Spec => []RevLoads
<1>1. Loads => RevLoads
  BY DEF Loads, Fetched
<1> QED
  BY AlwaysLoads, <1>1, PTL

\* While the cache says that module.gen.ts of an external module is up to date,
\* it is there and of that version, although every load empties the module's
\* directory: what is aside is put back, unless the load throws or is killed
\* meanwhile, which genLost tells.
THEOREM GenFileIsKept == Spec => []GenKept
<1>1. Loads => GenKept
  BY DEF Loads, GenSafe, GenFile, GenKept
<1> QED
  BY AlwaysLoads, <1>1, PTL
=============================================================================
