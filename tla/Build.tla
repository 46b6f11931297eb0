-------------------------------- MODULE Build --------------------------------
(***************************************************************************)
(* src/build_state/{mod,cache}.ts under the plan of src/build/plan/: one   *)
(* build runs the steps of one phase in parallel, waits for them, saves    *)
(* the cache, and goes to the next phase.  A step hashes the files it is   *)
(* conditioned on and is skipped when the saved hashes are the same.       *)
(* Files change between builds and during them; a build may fail, be       *)
(* aborted, or be killed.  Overlapping builds are the matter of Watch.     *)
(***************************************************************************)
EXTENDS Integers, FiniteSets

CONSTANTS
  Files,        \* the source files of the project
  Steps,        \* the build steps of the plan
  Parses,       \* of these, the ones whose result is a schema kept in the cache
  ConfigParses, \* of these, the parsing of a module's config
  Always,       \* the steps without a condition
  Reads,        \* the files each step is conditioned on, and reads
  PhaseOf,      \* the phase each step is planned in
  LastPhase,
  MaxVersion,   \* bound: contents a file may have
  Loaded,       \* the files loadProject reads, before the build begins
  Worlds        \* what the project is, and what may happen to it: records of
                \*   steps     the steps its plan has
                \*   edits     the files the user changes
                \*   optional  of these, the ones that may be missing
                \*   midEdits  the ones that may change while a build runs
                \*   reverts   may a file return to contents it had before?
                \*   failures  may a step fail?
                \*   stops     may a build be aborted or killed?

ASSUME StepsAssumption ==
  /\ Parses \subseteq Steps /\ ConfigParses \subseteq Parses
  /\ Always \subseteq Steps \ Parses
  /\ Reads \in [Steps -> SUBSET Files]
  /\ \A s \in Parses : Reads[s] # {}
ASSUME WorldsAssumption ==
  /\ Loaded \subseteq Files
  /\ \A w \in Worlds :
       /\ w.steps \subseteq Steps
       /\ w.optional \subseteq w.edits \ Loaded
       /\ w.midEdits \subseteq w.edits /\ w.edits \subseteq Files
       /\ {w.reverts, w.failures, w.stops} \subseteq BOOLEAN
ASSUME PhasesAssumption ==
  /\ LastPhase \in Nat /\ PhaseOf \in [Steps -> 1..LastPhase]
ASSUME VersionsAssumption == MaxVersion \in Nat \ {0}

\* A file's content is a number, its hash the same number.
Missing == 0    \* the file does not exist
Unset == -1     \* no hash, no result
AnyJson == -2   \* the schema that admits everything

VARIABLES
  world,      \* the member of Worlds this behaviour is in
  file,       \* the content of each file
  newest,     \* the greatest content each file has had
  loaded,     \* the content each file had when the project was loaded
  output,     \* per step, the contents its generated files were made from
  diskCache,  \* .opengb/cache.json
  status,     \* "idle", "running", or how the last build ended
  mode,       \* opts.strictSchemas of the build: "strict" or "loose"
  cache,      \* buildState.cache.persist
  schema,     \* the schemas the project object holds, as `output`
  phase,      \* the phase whose steps run or were saved last
  pc,         \* per step: "idle", "hash", "build", "done", "failed", "hung", "saved"
  aborted,    \* signal.aborted
  edited,     \* has a file changed since the build began?
  workerClosed \* has a schema worker of this process thrown, and been closed?

vars == <<world, file, newest, loaded, output, diskCache, status, mode, cache, schema,
          phase, pc, aborted, edited, workerClosed>>

sources == <<world, file, newest, loaded, edited>>

\* What a step makes: from the files it reads, as it finds them or as the
\* project was loaded.  A parse makes a schema that admits everything when
\* schemas are loose, and one of nothing for a config that does not exist.
Snapshot(s) == [f \in Files |-> IF f \notin Reads[s] THEN Unset
                                ELSE IF f \in Loaded THEN loaded[f] ELSE file[f]]
NoResult == [f \in Files |-> Unset]
AnySchema == [f \in Files |-> AnyJson]
NoConfig(s) == s \in ConfigParses /\ \A f \in Reads[s] : file[f] = Missing
OnWorker(s) == s \in Parses /\ mode = "strict" /\ ~NoConfig(s)
ParseResult(s) ==
  IF mode = "strict" \/ NoConfig(s) THEN Snapshot(s) ELSE AnySchema

\* createEmptyCachePersist
EmptyCache == [hashes  |-> [s \in Steps |-> [f \in Files |-> Unset]],
               modes   |-> [s \in Steps |-> "unset"],
               schemas |-> [s \in Steps |-> NoResult]]

Init ==
  /\ world \in Worlds
  /\ file \in {f \in [Files -> {Missing, 1}] : \A g \in Files \ world.optional : f[g] = 1}
  /\ newest = file
  /\ loaded = file
  /\ output = [s \in Steps |-> NoResult]
  /\ diskCache = EmptyCache
  /\ status = "idle"
  /\ mode = "strict"
  /\ cache = EmptyCache
  /\ schema = [s \in Steps |-> NoResult]
  /\ phase = 0
  /\ pc = [s \in Steps |-> "idle"]
  /\ aborted = FALSE
  /\ edited = FALSE
  /\ workerClosed = FALSE

-----------------------------------------------------------------------------
\* The user edits, restores or deletes a file.
Edit(f) ==
  /\ f \in (IF status = "running" THEN world.midEdits ELSE world.edits)
  /\ \E c \in 0..MaxVersion :
       /\ c # file[f]
       /\ \/ c = newest[f] + 1
          \/ world.reverts /\ c \in 1..newest[f]
          \/ f \in world.optional /\ c = Missing
       /\ file' = [file EXCEPT ![f] = c]
       /\ newest' = [newest EXCEPT ![f] = IF c > @ THEN c ELSE @]
  /\ edited' = TRUE
  /\ UNCHANGED <<world, loaded, output, diskCache, status, mode, cache, schema, phase,
                 pc, aborted, workerClosed>>

\* opts.strictSchemas; the mutant is a caller that leaves it undefined.
ModesOrUnset == {"strict", "loose", "unset"}
Modes == {"strict", "loose"}

\* loadProject, and build: loadCache into a new build state.  The last build's
\* steps are over.  An edit between the two is an edit during the build.  The
\* process is the watcher that ran the last build, with its workers, or a new
\* one.
StartBuild ==
  /\ status # "running"
  /\ status' = "running"
  /\ mode' \in Modes
  /\ loaded' = file
  /\ cache' = diskCache
  /\ schema' = [s \in Steps |-> NoResult]
  /\ phase' = 0
  /\ pc' = [s \in Steps |-> "idle"]
  /\ aborted' = FALSE
  /\ edited' = FALSE
  /\ workerClosed' \in {workerClosed, FALSE}
  /\ UNCHANGED <<world, file, newest, output, diskCache>>

\* The files compareFileHash is given: a config only when schemas are strict.
Hashed(s) == IF s \in ConfigParses /\ mode = "loose" THEN {} ELSE Reads[s]

InPhase == {s \in world.steps : PhaseOf[s] = phase}
Settled(s) == pc[s] \in {"done", "failed"}

\* waitForBuildPromises has returned; the mutant is a wait that is not awaited.
PhaseStarted == \A s \in InPhase : pc[s] # "idle"
PhaseOver == \A s \in InPhase : pc[s] = "saved"

\* planProjectBuild between two waits: buildStep for the next phase's steps.
PlanPhase ==
  /\ status = "running"
  /\ PhaseOver
  /\ ~aborted
  /\ phase < LastPhase
  /\ phase' = phase + 1
  /\ pc' = [s \in Steps |-> IF s \notin world.steps \/ PhaseOf[s] # phase + 1 THEN pc[s]
                            ELSE IF s \in Always THEN "build" ELSE "hash"]
  /\ UNCHANGED <<sources, output, diskCache, status, mode, cache, schema, aborted,
                 workerClosed>>

\* compareHash: the files with a new hash.  hashValue has none for a file that
\* does not exist, and stores none.  The mutants take a file without a hash for
\* unchanged, and store hashes up to the first difference only.
ChangedIfHashed(s) ==
  {f \in Hashed(s) : file[f] # Missing /\ file[f] # cache.hashes[s][f]}
Changed(s) ==
  {f \in Hashed(s) : file[f] = Missing \/ file[f] # cache.hashes[s][f]}

HashesToFirst(s) ==
  [f \in Files |-> IF Changed(s) # {} /\ f = CHOOSE g \in Changed(s) : TRUE
                     THEN file[f] ELSE cache.hashes[s][f]]
NewHashes(s) ==
  [f \in Files |-> IF f \in Hashed(s) /\ file[f] # Missing
                     THEN file[f] ELSE cache.hashes[s][f]]

\* compareFileHash and compareHash, over all the files and, for a parse, the
\* strictSchemas expression: the step builds if one differs, and else takes
\* the schema it saved (alreadyCached).  The files are hashed one by one; each
\* is read once, so an edit in between is one before or one after.
Hash(s) ==
  LET needsBuild == Changed(s) # {} \/ (s \in Parses /\ cache.modes[s] # mode)
  IN  /\ pc[s] = "hash"
      /\ pc' = [pc EXCEPT ![s] = IF needsBuild THEN "build" ELSE "done"]
      /\ cache' = [cache EXCEPT !.hashes[s] = NewHashes(s),
                                !.modes[s] = IF s \in Parses THEN mode ELSE @]
      /\ schema' = IF s \in Parses /\ ~needsBuild
                     THEN [schema EXCEPT ![s] = cache.schemas[s]] ELSE schema
      /\ UNCHANGED <<sources, output, diskCache, status, mode, phase, aborted,
                     workerClosed>>

\* A parse whose result is not put in the cache.
BuildStepUncached(s) ==
  /\ pc[s] = "build"
  /\ pc' = [pc EXCEPT ![s] = "done"]
  /\ IF s \in Parses
       THEN schema' = [schema EXCEPT ![s] = ParseResult(s)] /\ UNCHANGED output
       ELSE output' = [output EXCEPT ![s] = Snapshot(s)] /\ UNCHANGED schema
  /\ UNCHANGED <<sources, diskCache, status, mode, cache, phase, aborted, workerClosed>>

\* opts.build and opts.finally: a parse puts its schema in the project and in
\* the cache, the other steps write files.
BuildStep(s) ==
  /\ pc[s] = "build"
  /\ pc' = [pc EXCEPT ![s] = "done"]
  /\ IF s \in Parses
       THEN /\ schema' = [schema EXCEPT ![s] = ParseResult(s)]
            /\ cache' = [cache EXCEPT !.schemas[s] = ParseResult(s)]
            /\ UNCHANGED output
       ELSE /\ output' = [output EXCEPT ![s] = Snapshot(s)]
            /\ UNCHANGED <<schema, cache>>
  /\ UNCHANGED <<sources, diskCache, status, mode, phase, aborted, workerClosed>>

\* opts.build rejects: a parse because its worker threw, which closes it, or
\* for another reason.
StepFails(s) ==
  /\ world.failures
  /\ pc[s] = "build"
  /\ pc' = [pc EXCEPT ![s] = "failed"]
  /\ \/ UNCHANGED workerClosed
     \/ OnWorker(s) /\ workerClosed' = TRUE
  /\ UNCHANGED <<sources, output, diskCache, status, mode, cache, schema, phase,
                 aborted>>

\* The parse is given to a closed worker, or waits for a slot such parses have
\* taken for ever: the promise of opts.build never settles.
ParseHangs(s) ==
  /\ workerClosed
  /\ pc[s] = "build" /\ OnWorker(s)
  /\ pc' = [pc EXCEPT ![s] = "hung"]
  /\ UNCHANGED <<sources, output, diskCache, status, mode, cache, schema, phase,
                 aborted, workerClosed>>

\* The build is over: its state goes out of scope.
Forget ==
  /\ mode' = "strict"
  /\ cache' = EmptyCache
  /\ schema' = [s \in Steps |-> NoResult]
  /\ phase' = 0
  /\ pc' = [s \in Steps |-> "idle"]
  /\ aborted' = FALSE
  /\ UNCHANGED <<sources, output>>

\* waitForBuildPromises: every promise of the phase is settled; the mutant
\* waits for them to be resolved.
WaitResolved ==
  status = "running" /\ InPhase # {} /\ \A s \in InPhase : pc[s] = "done"
WaitOver == status = "running" /\ InPhase # {} /\ \A s \in InPhase : Settled(s)

\* A wait that saves the cache and then throws.
BuildFailsSaving ==
  /\ WaitOver
  /\ \E s \in InPhase : pc[s] = "failed"
  /\ status' = "failed"
  /\ Forget
  /\ diskCache' = cache
  /\ UNCHANGED workerClosed

\* It throws a CombinedError when one was rejected.
BuildFails ==
  /\ WaitOver
  /\ \E s \in InPhase : pc[s] = "failed"
  /\ status' = "failed"
  /\ Forget
  /\ UNCHANGED <<diskCache, workerClosed>>

\* It saves the cache when none was, and nobody aborted.
SaveCache ==
  /\ WaitOver
  /\ \A s \in InPhase : pc[s] = "done"
  /\ ~aborted
  /\ diskCache' = cache
  /\ pc' = [s \in Steps |-> IF s \in InPhase THEN "saved" ELSE pc[s]]
  /\ UNCHANGED <<sources, output, status, mode, cache, schema, phase, aborted,
                 workerClosed>>

\* The plan is done.
BuildSucceeds ==
  /\ status = "running"
  /\ phase = LastPhase
  /\ \A s \in InPhase : pc[s] = "saved"
  /\ ~aborted
  /\ status' = "success"
  /\ UNCHANGED <<sources, output, diskCache, mode, cache, schema, phase, pc, aborted,
                 workerClosed>>

\* The watcher aborts the build's signal.
Abort ==
  /\ world.stops
  /\ status = "running" /\ ~aborted
  /\ aborted' = TRUE
  /\ UNCHANGED <<sources, output, diskCache, status, mode, cache, schema, phase,
                 pc, workerClosed>>

\* signal.throwIfAborted, after a wait or before the next step is planned.
BuildAborts ==
  /\ status = "running" /\ aborted
  /\ \A s \in InPhase : pc[s] \in {"done", "saved"}
  /\ status' = "aborted"
  /\ Forget
  /\ UNCHANGED <<diskCache, workerClosed>>

\* The process is killed; in the middle of a write it leaves a file loadCache
\* cannot parse, and resets.
Kill ==
  /\ world.stops
  /\ status = "running"
  /\ status' = "killed"
  /\ Forget
  /\ workerClosed' = FALSE
  /\ \/ UNCHANGED diskCache
     \/ WaitOver /\ ~aborted /\ (\A s \in InPhase : pc[s] = "done")
        /\ diskCache' = EmptyCache

-----------------------------------------------------------------------------
StepRuns(s) ==
  \/ Hash(s)
  \/ BuildStep(s)
  \/ StepFails(s)
  \/ ParseHangs(s)

PlanRuns == PlanPhase \/ BuildFails \/ SaveCache \/ BuildSucceeds \/ BuildAborts

Next ==
  \/ \E f \in Files : Edit(f)
  \/ StartBuild
  \/ \E s \in Steps : StepRuns(s)
  \/ PlanRuns
  \/ Abort
  \/ Kill

\* The steps and the plan go on as their promises settle: ParseHangs is the
\* step that never does.
Spec == Init /\ [][Next]_vars /\ WF_vars(PlanRuns)
             /\ \A s \in Steps : WF_vars(StepRuns(s))

-----------------------------------------------------------------------------
Results == [Files -> -2..MaxVersion]

\* The state is well typed.
TypeOK ==
  /\ world \in Worlds
  /\ file \in [Files -> 0..MaxVersion]
  /\ newest \in [Files -> 0..MaxVersion]
  /\ loaded \in [Files -> 0..MaxVersion]
  /\ output \in [Steps -> Results]
  /\ schema \in [Steps -> Results]
  /\ status \in {"idle", "running", "success", "failed", "aborted", "killed"}
  /\ mode \in {"strict", "loose"}
  /\ phase \in 0..LastPhase
  /\ pc \in [Steps -> {"idle", "hash", "build", "done", "failed", "hung",
                     "saved"}]
  /\ {aborted, edited, workerClosed} \subseteq BOOLEAN
  /\ \A c \in {cache, diskCache} :
       /\ DOMAIN c = {"hashes", "modes", "schemas"}
       /\ c.hashes \in [Steps -> Results]
       /\ c.modes \in [Steps -> {"unset", "strict", "loose"}]
       /\ c.schemas \in [Steps -> Results]

\* "Runs if any of these files are changed, created, or deleted."
\* (build_state/mod.ts:76): when a build succeeds, and no file changed since it
\* began, every generated file and every schema is the one a build from
\* nothing would make.
UpToDate ==
  status = "success" /\ ~edited =>
    \A s \in world.steps : IF s \in Parses THEN schema[s] = ParseResult(s)
                                           ELSE output[s] = Snapshot(s)

\* A step that is skipped finds the schema it saved: the asserts of
\* alreadyCached and finally never fail, whatever was saved by builds that
\* failed later, in the other mode, or were killed.
SchemaFound ==
  \A s \in Parses : pc[s] \in {"done", "saved"} => schema[s] # NoResult

\* A step only runs when all the steps of the phases before it have finished:
\* the entrypoint is generated from complete schemas.
PhasesInOrder ==
  \A s, t \in world.steps :
    pc[s] \in {"hash", "build"} /\ PhaseOf[t] < PhaseOf[s] => pc[t] = "saved"

\* "Write cache if all succeeded" (build_state/mod.ts:188): a hash is saved
\* for a step only with that step, and the whole phase, finished.
SavedWhenDone ==
  [][\A s \in Steps : diskCache'.hashes[s] # diskCache.hashes[s] =>
       diskCache' = EmptyCache \/ (status = "running" /\ pc'[s] = "saved")]_vars

\* A build comes to an end, however its steps fail, unless a parse of it hangs
\* on a worker that has thrown before.
BuildEnds ==
  status = "running" ~> status # "running" \/ \E s \in Steps : pc[s] = "hung"
=============================================================================
