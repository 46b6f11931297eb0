----------------------------- MODULE BuildProofs -----------------------------
(***************************************************************************)
(* Theorems about the build, for every plan of steps and phases: the order *)
(* of the phases, what the cache is saved with, and when what a successful *)
(* build leaves is what a build from nothing would make.                   *)
(***************************************************************************)
EXTENDS Build, TLAPS

USE StepsAssumption, PhasesAssumption, VersionsAssumption

ModesSaved == {"unset", "strict", "loose"}
CacheType == [hashes : [Steps -> Results], modes : [Steps -> ModesSaved], schemas : [Steps -> Results]]

Typed ==
  /\ world \in Worlds
  /\ file \in [Files -> 0..MaxVersion]
  /\ newest \in [Files -> 0..MaxVersion]
  /\ loaded \in [Files -> 0..MaxVersion]
  /\ output \in [Steps -> Results]
  /\ schema \in [Steps -> Results]
  /\ status \in {"idle", "running", "success", "failed", "aborted", "killed"}
  /\ mode \in {"strict", "loose"}
  /\ phase \in 0..LastPhase
  /\ pc \in [Steps -> {"idle", "hash", "build", "done", "failed", "hung", "saved"}]
  /\ aborted \in BOOLEAN /\ edited \in BOOLEAN /\ workerClosed \in BOOLEAN
  /\ cache \in CacheType /\ diskCache \in CacheType

\* The phases before this one are over, those after it have not begun.
Phased ==
  /\ \A s \in Steps :
       /\ s \in world.steps /\ PhaseOf[s] < phase => pc[s] = "saved"
       /\ s \in world.steps /\ PhaseOf[s] = phase => pc[s] # "idle"
       /\ s \notin world.steps \/ PhaseOf[s] > phase => pc[s] = "idle"
       /\ pc[s] = "hash" => s \notin Always
       /\ pc[s] \in {"failed", "hung"} => world.failures = TRUE
  /\ workerClosed = TRUE => world.failures = TRUE
  /\ status \notin {"running", "success"} => phase = 0
  /\ status = "success" => phase = LastPhase /\ \A s \in Steps : pc[s] \in {"idle", "saved"}
  /\ aborted = TRUE => world.stops = TRUE
  /\ status \in {"failed", "aborted", "killed"} => world.failures = TRUE \/ world.stops = TRUE

\* While a build runs, the memory's hashes are the saved ones of each step that
\* has not hashed yet, and of each whose phase was saved.
HashesSaved ==
  status = "running" => \A s \in Steps :
    pc[s] \in {"idle", "hash", "saved"} => cache.hashes[s] = diskCache.hashes[s]

\* A parse saved in some mode has a schema; in memory, once it has finished.
ParsedIn(c, s) == c.modes[s] # "unset" => c.schemas[s] # NoResult
Found ==
  \A s \in Parses :
    /\ ParsedIn(diskCache, s)
    /\ pc[s] \notin {"build", "failed", "hung"} => ParsedIn(cache, s)
    /\ pc[s] \in {"done", "saved"} => schema[s] # NoResult

\* What the files say a step's result is.
FileSnapshot(s) == [f \in Files |-> IF f \in Reads[s] THEN file[f] ELSE Unset]
Result(c, s) == IF s \in Parses THEN c.schemas[s] ELSE output[s]
Match(c, s) == \A f \in Reads[s] : file[f] # Missing /\ file[f] = c.hashes[s][f]
\* A cache that finds nothing changed for a step has the step's result;
Good(c, s) ==
  /\ s \notin Parses \/ c.modes[s] = "strict" => (Match(c, s) => Result(c, s) = FileSnapshot(s))
  /\ s \in Parses /\ c.modes[s] = "loose" => c.schemas[s] = AnySchema
\* where files may return to what they were, it has the result its hashes say.
Tied(c, s) == s \notin Parses \/ c.modes[s] = "strict" => Result(c, s) = c.hashes[s]

\* Hashes are of contents the files had, and the steps read.
Bounded(c) == \A s \in Steps, f \in Files : /\ c.hashes[s][f] <= newest[f]
                                            /\ f \notin Reads[s] => c.hashes[s][f] = Unset
Versions == /\ \A f \in Files : file[f] <= newest[f] /\ (f \notin world.optional => file[f] # Missing)
            /\ Bounded(cache) /\ Bounded(diskCache)
            /\ status = "running" => \A f \in Loaded : loaded[f] = file[f]
            /\ status \in {"running", "success"} /\ edited = FALSE => loaded = file

\* The worlds where a successful build leaves what the files say.
Reliable ==
  \A w \in Worlds :
    /\ w.midEdits \cap Loaded = {}
    /\ \A s \in w.steps \cap ConfigParses : w.optional \cap Reads[s] = {}
    /\ w.reverts = TRUE => /\ w.optional = {} /\ w.midEdits = {}
                           /\ w.failures = FALSE /\ w.stops = FALSE

Checked == world.steps \ Always
Kept ==
  /\ \A s \in Checked :
       /\ Good(diskCache, s)
       /\ status = "running" /\ pc[s] \notin {"build", "failed", "hung"} => Good(cache, s)
  /\ \A s \in Parses : pc[s] = "build" => cache.modes[s] = mode
\* In a world of reverts a build ends by success only.
KeptTied ==
  world.reverts = TRUE =>
    /\ \A s \in Checked :
         /\ status # "running" => Tied(diskCache, s)
         /\ status = "running" /\ pc[s] # "build" => Tied(cache, s)
         /\ pc[s] = "build" /\ (s \notin Parses \/ mode = "strict") => cache.hashes[s] = FileSnapshot(s)
    /\ status = "running" /\ (\A s \in InPhase : pc[s] = "saved") => diskCache = cache
\* What the steps that have finished left.
Made ==
  status \in {"running", "success"} /\ edited = FALSE =>
    \A s \in world.steps : pc[s] \in {"done", "saved"} =>
      IF s \in Parses THEN schema[s] = ParseResult(s) ELSE output[s] = Snapshot(s)

-----------------------------------------------------------------------------
\* What a step stores is typed;
LEMMA ResultsTyped ==
  /\ EmptyCache \in CacheType /\ NoResult \in Results /\ AnySchema \in Results
  /\ Typed => \A s \in Steps : Snapshot(s) \in Results /\ ParseResult(s) \in Results
<1>1. /\ -2 \in -2..MaxVersion /\ -1 \in -2..MaxVersion /\ 0..MaxVersion \subseteq -2..MaxVersion
  OBVIOUS
<1>2. NoResult \in Results /\ AnySchema \in Results
  BY <1>1 DEF NoResult, AnySchema, Results, Unset, AnyJson
<1>3. [s \in Steps |-> [f \in Files |-> Unset]] \in [Steps -> Results]
  BY <1>2 DEF NoResult
<1>4. EmptyCache \in CacheType
  BY <1>2, <1>3 DEF EmptyCache, CacheType, ModesSaved
<1>5. ASSUME Typed, NEW s \in Steps PROVE Snapshot(s) \in Results /\ ParseResult(s) \in Results
  <2>1. Snapshot(s) \in Results
    BY <1>1, <1>5 DEF Typed, Snapshot, Results, Unset
  <2> QED
    BY <1>2, <2>1 DEF ParseResult
<1> QED
  BY <1>2, <1>4, <1>5

\* hashing a step changes that step's part of the cache,
LEMMA HashEffects ==
  ASSUME Typed, NEW s \in Steps, Hash(s)
  PROVE  /\ NewHashes(s) \in Results
         /\ cache'.hashes = [cache.hashes EXCEPT ![s] = NewHashes(s)]
         /\ cache'.modes = [cache.modes EXCEPT ![s] = IF s \in Parses THEN mode ELSE @]
         /\ cache'.schemas = cache.schemas
         /\ cache' \in CacheType
<1>1. /\ cache \in CacheType
      /\ cache' = [cache EXCEPT !.hashes[s] = NewHashes(s), !.modes[s] = IF s \in Parses THEN mode ELSE @]
  BY DEF Typed, Hash
<1>2. cache.hashes \in [Steps -> Results] /\ cache.modes \in [Steps -> ModesSaved] /\ cache.schemas \in [Steps -> Results]
  BY <1>1 DEF CacheType
<1>3. NewHashes(s) \in Results
  <2>1. cache.hashes[s] \in Results
    BY <1>2
  <2> QED
    BY <2>1 DEF NewHashes, Results, Typed
<1>4. /\ cache'.hashes = [cache.hashes EXCEPT ![s] = NewHashes(s)]
      /\ cache'.modes = [cache.modes EXCEPT ![s] = IF s \in Parses THEN mode ELSE @]
      /\ cache'.schemas = cache.schemas
  BY <1>1 DEF CacheType
<1>5. mode \in ModesSaved
  BY DEF Typed, ModesSaved
<1>6. /\ cache' = [hashes |-> cache'.hashes, modes |-> cache'.modes, schemas |-> cache'.schemas]
      /\ cache'.hashes \in [Steps -> Results] /\ cache'.modes \in [Steps -> ModesSaved]
  BY <1>1, <1>2, <1>3, <1>4, <1>5 DEF CacheType
<1> QED
  BY <1>2, <1>3, <1>4, <1>6 DEF CacheType

\* and so does running a parse.
LEMMA BuildStepEffects ==
  ASSUME Typed, NEW s \in Steps, BuildStep(s)
  PROVE  /\ cache' \in CacheType /\ cache'.hashes = cache.hashes /\ cache'.modes = cache.modes
         /\ s \in Parses => /\ cache'.schemas = [cache.schemas EXCEPT ![s] = ParseResult(s)]
                            /\ schema' = [schema EXCEPT ![s] = ParseResult(s)] /\ output' = output
         /\ s \notin Parses => /\ cache' = cache /\ schema' = schema
                               /\ output' = [output EXCEPT ![s] = Snapshot(s)]
<1>t. cache \in CacheType /\ ParseResult(s) \in Results
  BY ResultsTyped DEF Typed
<1>1. CASE s \in Parses
  <2>1. cache' = [cache EXCEPT !.schemas[s] = ParseResult(s)]
    BY <1>1 DEF BuildStep
  <2>2. cache.schemas \in [Steps -> Results]
    BY <1>t DEF CacheType
  <2>3. /\ cache'.hashes = cache.hashes /\ cache'.modes = cache.modes
        /\ cache'.schemas = [cache.schemas EXCEPT ![s] = ParseResult(s)]
    BY <1>t, <2>1 DEF CacheType
  <2>4. cache' \in CacheType
    BY <1>t, <2>1, <2>2 DEF CacheType
  <2> QED
    BY <1>1, <2>3, <2>4 DEF BuildStep
<1>2. CASE s \notin Parses
  BY <1>t, <1>2 DEF BuildStep
<1> QED
  BY <1>1, <1>2

\* The state after a build that forgets its own.
LEMMA ForgetTyped ==
  ASSUME Typed, Forget
  PROVE  /\ mode' = "strict" /\ cache' = EmptyCache /\ cache' \in CacheType
         /\ schema' \in [Steps -> Results] /\ phase' = 0 /\ aborted' = FALSE
         /\ \A s \in Steps : pc'[s] = "idle" /\ schema'[s] = NoResult
         /\ pc' \in [Steps -> {"idle", "hash", "build", "done", "failed", "hung", "saved"}]
         /\ UNCHANGED <<world, file, newest, loaded, edited, output>>
BY ResultsTyped DEF Forget, sources

\* The project and an empty cache before the first build are well typed.
LEMMA TypedInit == Init => Typed
<1> SUFFICES ASSUME Init PROVE Typed
  OBVIOUS
<1>1. 1 \in 0..MaxVersion /\ Missing \in 0..MaxVersion
  BY DEF Missing
<1>2. file \in [Files -> 0..MaxVersion]
  BY <1>1 DEF Init
<1>3. /\ output \in [Steps -> Results] /\ schema \in [Steps -> Results]
      /\ cache \in CacheType /\ diskCache \in CacheType
  BY ResultsTyped DEF Init
<1>4. /\ newest = file /\ loaded = file /\ mode = "strict" /\ status = "idle" /\ phase = 0
      /\ aborted = FALSE /\ edited = FALSE /\ world \in Worlds /\ workerClosed = FALSE
  BY DEF Init
<1>5. pc \in [Steps -> {"idle", "hash", "build", "done", "failed", "hung", "saved"}]
  BY DEF Init
<1>6. 0 \in 0..LastPhase
  OBVIOUS
<1> QED
  BY <1>2, <1>3, <1>4, <1>5, <1>6 DEF Typed

\* Every step of the build, the user and the kill keeps the types.
LEMMA TypedStep == Typed /\ [Next]_vars => Typed'
<1> SUFFICES ASSUME Typed, [Next]_vars PROVE Typed'
  OBVIOUS
<1>1. ASSUME NEW f \in Files, Edit(f) PROVE Typed'
  <2>1. PICK c \in 0..MaxVersion : /\ file' = [file EXCEPT ![f] = c]
                                   /\ newest' = [newest EXCEPT ![f] = IF c > @ THEN c ELSE @]
    BY <1>1 DEF Edit
  <2>2. file' \in [Files -> 0..MaxVersion] /\ newest' \in [Files -> 0..MaxVersion]
    BY <2>1 DEF Typed
  <2> QED
    BY <1>1, <2>2 DEF Typed, Edit
<1>2. CASE StartBuild
  <2>1. schema' \in [Steps -> Results]
    BY <1>2, ResultsTyped DEF StartBuild
  <2>2. pc' \in [Steps -> {"idle", "hash", "build", "done", "failed", "hung", "saved"}]
    BY <1>2 DEF StartBuild
  <2>3. phase' \in 0..LastPhase
    BY <1>2 DEF StartBuild
  <2>4. /\ UNCHANGED <<world, file, newest, output, diskCache>>
        /\ status' = "running" /\ mode' \in {"strict", "loose"} /\ loaded' = file
        /\ cache' = diskCache /\ aborted' = FALSE /\ edited' = FALSE
        /\ workerClosed' \in {workerClosed, FALSE}
    BY <1>2 DEF StartBuild, Modes
  <2> QED
    BY <2>1, <2>2, <2>3, <2>4 DEF Typed
<1>3. ASSUME NEW s \in Steps, Hash(s) PROVE Typed'
  <2>1. cache' \in CacheType
    BY <1>3, HashEffects
  <2>2. cache.schemas \in [Steps -> Results]
    BY DEF Typed, CacheType
  <2>3. schema' \in [Steps -> Results]
    BY <1>3, <2>2 DEF Typed, Hash
  <2>4. pc' \in [Steps -> {"idle", "hash", "build", "done", "failed", "hung", "saved"}]
    BY <1>3 DEF Typed, Hash
  <2> QED
    BY <1>3, <2>1, <2>3, <2>4 DEF Typed, Hash, sources
<1>4. ASSUME NEW s \in Steps, BuildStep(s) PROVE Typed'
  <2>1. /\ cache' \in CacheType
        /\ s \in Parses => schema' = [schema EXCEPT ![s] = ParseResult(s)] /\ output' = output
        /\ s \notin Parses => schema' = schema /\ output' = [output EXCEPT ![s] = Snapshot(s)]
    BY <1>4, BuildStepEffects
  <2>2. schema' \in [Steps -> Results] /\ output' \in [Steps -> Results]
    BY <2>1, ResultsTyped DEF Typed
  <2> QED
    BY <1>4, <2>1, <2>2 DEF Typed, BuildStep, sources
<1>5. ASSUME NEW s \in Steps, StepFails(s) \/ ParseHangs(s) PROVE Typed'
  BY <1>5 DEF Typed, StepFails, ParseHangs, sources
<1>6. CASE PlanPhase
  <2>1. phase' \in 0..LastPhase
    BY <1>6 DEF Typed, PlanPhase
  <2>2. pc' \in [Steps -> {"idle", "hash", "build", "done", "failed", "hung", "saved"}]
    BY <1>6 DEF Typed, PlanPhase
  <2> QED
    BY <1>6, <2>1, <2>2 DEF Typed, PlanPhase, sources
<1>7. CASE BuildFails \/ BuildAborts \/ Kill
  <2>1. Forget /\ status' \in {"failed", "aborted", "killed"}
    BY <1>7 DEF BuildFails, BuildAborts, Kill
  <2>2. diskCache' \in CacheType /\ workerClosed' \in BOOLEAN
    BY <1>7, ResultsTyped DEF BuildFails, BuildAborts, Kill, Typed
  <2>3. /\ mode' = "strict" /\ cache' \in CacheType
        /\ schema' \in [Steps -> Results] /\ phase' = 0 /\ aborted' = FALSE
        /\ pc' \in [Steps -> {"idle", "hash", "build", "done", "failed", "hung", "saved"}]
        /\ UNCHANGED <<world, file, newest, loaded, edited, output>>
    BY <2>1, ForgetTyped
  <2>4. phase' \in 0..LastPhase
    BY <2>3
  <2> QED
    BY <2>1, <2>2, <2>3, <2>4 DEF Typed
<1>8. CASE SaveCache
  <2>1. pc' \in [Steps -> {"idle", "hash", "build", "done", "failed", "hung", "saved"}]
    BY <1>8 DEF Typed, SaveCache
  <2> QED
    BY <1>8, <2>1 DEF Typed, SaveCache, sources
<1>9. CASE BuildSucceeds
  BY <1>9 DEF Typed, BuildSucceeds, sources
<1>10. CASE Abort
  BY <1>10 DEF Typed, Abort, sources
<1>11. CASE UNCHANGED vars
  BY <1>11 DEF Typed, vars
<1> QED
  BY <1>1, <1>2, <1>3, <1>4, <1>5, <1>6, <1>7, <1>8, <1>9, <1>10, <1>11 DEF Next, StepRuns, PlanRuns

\* The types hold in every behaviour.
LEMMA AlwaysTyped == Spec => []Typed
BY TypedInit, TypedStep, PTL DEF Spec

\* The state is of its types, for every plan, world and number of versions.
THEOREM TypeCorrect == Spec => []TypeOK
<1>1. ASSUME Typed PROVE TypeOK
  <2>1. ASSUME NEW c \in {cache, diskCache}
        PROVE  /\ DOMAIN c = {"hashes", "modes", "schemas"}
               /\ c.hashes \in [Steps -> Results]
               /\ c.modes \in [Steps -> {"unset", "strict", "loose"}]
               /\ c.schemas \in [Steps -> Results]
    <3>1. c \in CacheType
      BY <1>1 DEF Typed
    <3> QED
      BY <3>1 DEF CacheType, ModesSaved
  <2> QED
    BY <1>1, <2>1 DEF Typed, TypeOK
<1> QED
  BY <1>1, AlwaysTyped, PTL

-----------------------------------------------------------------------------
\* Before the first build no phase is under way.
LEMMA PhasedInit == Init => Phased
<1> SUFFICES ASSUME Init PROVE Phased
  OBVIOUS
<1>1. phase = 0 /\ status = "idle" /\ aborted = FALSE /\ workerClosed = FALSE
     /\ \A s \in Steps : pc[s] = "idle"
  BY DEF Init
<1>2. \A s \in Steps : ~(PhaseOf[s] < 0) /\ PhaseOf[s] # 0
  OBVIOUS
<1> QED
  BY <1>1, <1>2 DEF Phased

\* A build that is over has no phase, whatever ended it;
LEMMA PhasedOver ==
  ASSUME Typed, phase' = 0, \A s \in Steps : pc'[s] = "idle", status' # "success",
         status' \in {"failed", "aborted", "killed"} => world'.failures = TRUE \/ world'.stops = TRUE,
         aborted' = FALSE,
         workerClosed' = TRUE => world'.failures = TRUE
  PROVE  Phased'
<1>2. \A s \in Steps : ~(PhaseOf[s] < 0) /\ PhaseOf[s] # 0
  OBVIOUS
<1> QED
  BY <1>2 DEF Phased

\* a step that is not idle belongs to the phase that runs;
LEMMA StepOfPhase ==
  ASSUME Typed, Phased, NEW s \in Steps, pc[s] # "idle", pc[s] # "saved"
  PROVE  /\ s \in world.steps /\ PhaseOf[s] = phase /\ s \in InPhase /\ status = "running"
<1>1. PhaseOf[s] \in Nat /\ phase \in Nat
  BY DEF Typed
<1>2. s \in world.steps /\ PhaseOf[s] = phase
  BY <1>1 DEF Phased
<1>3. world.steps \subseteq Steps
  BY WorldsAssumption DEF Typed
<1>4. status = "running"
  <2>1. PhaseOf[s] # 0
    OBVIOUS
  <2> QED
    BY <1>2, <2>1 DEF Phased, Typed
<1> QED
  BY <1>2, <1>4 DEF InPhase

\* and its progress leaves the phases as they are.
LEMMA PhasedWorks ==
  ASSUME Typed, Phased, NEW s \in Steps, NEW x \in {"build", "done", "failed", "hung"},
         pc[s] \in {"hash", "build"}, pc' = [pc EXCEPT ![s] = x],
         x \in {"failed", "hung"} => world.failures = TRUE,
         workerClosed' = TRUE => world.failures = TRUE,
         UNCHANGED <<world, phase, status, aborted>>
  PROVE  Phased'
<1>1. s \in world.steps /\ PhaseOf[s] = phase /\ status = "running"
  BY StepOfPhase
<1>2. pc'[s] = x /\ \A t \in Steps : t # s => pc'[t] = pc[t]
  BY DEF Typed
<1>3. PhaseOf[s] \in Nat /\ phase \in Nat
  BY DEF Typed
<1>4. ASSUME NEW t \in Steps
      PROVE  /\ t \in world.steps /\ PhaseOf[t] < phase => pc'[t] = "saved"
             /\ t \in world.steps /\ PhaseOf[t] = phase => pc'[t] # "idle"
             /\ t \notin world.steps \/ PhaseOf[t] > phase => pc'[t] = "idle"
             /\ pc'[t] = "hash" => t \notin Always
             /\ pc'[t] \in {"failed", "hung"} => world.failures = TRUE
  <2>1. CASE t = s
    BY <1>1, <1>2, <1>3, <2>1
  <2>2. CASE t # s
    BY <1>2, <2>2 DEF Phased
  <2> QED
    BY <2>1, <2>2
<1> QED
  BY <1>1, <1>4 DEF Phased

\* Every step keeps the steps of a build in their phases.
LEMMA PhasedStep == Typed /\ Phased /\ [Next]_vars => Phased'
<1> SUFFICES ASSUME Typed, Phased, [Next]_vars PROVE Phased'
  OBVIOUS
<1>t. \A s \in Steps : PhaseOf[s] \in Nat /\ phase \in Nat /\ PhaseOf[s] <= LastPhase /\ phase <= LastPhase
  BY DEF Typed
<1>w. world \in Worlds /\ world.failures \in BOOLEAN /\ world.stops \in BOOLEAN /\ world.steps \subseteq Steps
  BY WorldsAssumption DEF Typed
<1>1. ASSUME NEW f \in Files, Edit(f) PROVE Phased'
  BY <1>1 DEF Phased, Edit
<1>2. CASE StartBuild
  <2>1. /\ phase' = 0 /\ \A s \in Steps : pc'[s] = "idle"
        /\ status' = "running" /\ aborted' = FALSE
        /\ workerClosed' \in {workerClosed, FALSE} /\ world' = world
    BY <1>2 DEF StartBuild
  <2>2. workerClosed' = TRUE => world'.failures = TRUE
    BY <2>1 DEF Phased
  <2> QED
    BY <2>1, <2>2, PhasedOver
<1>3. ASSUME NEW s \in Steps, StepRuns(s) PROVE Phased'
  <2>1. CASE Hash(s)
    <3>1. PICK x \in {"build", "done", "failed", "hung"} : pc' = [pc EXCEPT ![s] = x] /\ x \in {"build", "done"}
      BY <2>1 DEF Hash
    <3>2. workerClosed' = TRUE => world.failures = TRUE
      BY <2>1 DEF Hash, Phased
    <3> QED
      BY <2>1, <3>1, <3>2, PhasedWorks DEF Hash, sources
  <2>2. CASE BuildStep(s)
    <3>1. workerClosed' = TRUE => world.failures = TRUE
      BY <2>2 DEF BuildStep, Phased
    <3> QED
      BY <2>2, <3>1, PhasedWorks DEF BuildStep, sources
  <2>3. CASE StepFails(s)
    BY <1>w, <2>3, PhasedWorks DEF StepFails, sources
  <2>4. CASE ParseHangs(s)
    <3>1. world.failures = TRUE
      BY <1>w, <2>4 DEF ParseHangs, Phased, Typed
    <3> QED
      BY <2>4, <3>1, PhasedWorks DEF ParseHangs, sources
  <2> QED
    BY <1>3, <2>1, <2>2, <2>3, <2>4 DEF StepRuns
<1>4. CASE PlanPhase
  <2>1. /\ phase' = phase + 1 /\ status = "running" /\ phase < LastPhase
        /\ UNCHANGED <<world, status, aborted, workerClosed>>
    BY <1>4 DEF PlanPhase, sources
  <2>2. \A s \in Steps : pc'[s] = IF s \notin world.steps \/ PhaseOf[s] # phase + 1 THEN pc[s]
                                   ELSE IF s \in Always THEN "build" ELSE "hash"
    BY <1>4 DEF PlanPhase
  <2>3. \A s \in Steps : s \in world.steps /\ PhaseOf[s] = phase => pc[s] = "saved"
    BY <1>4 DEF PlanPhase, PhaseOver, InPhase
  <2>4. ASSUME NEW s \in Steps
        PROVE  /\ s \in world.steps /\ PhaseOf[s] < phase + 1 => pc'[s] = "saved"
               /\ s \in world.steps /\ PhaseOf[s] = phase + 1 => pc'[s] # "idle"
               /\ s \notin world.steps \/ PhaseOf[s] > phase + 1 => pc'[s] = "idle"
               /\ pc'[s] = "hash" => s \notin Always
               /\ pc'[s] \in {"failed", "hung"} => world.failures = TRUE
    <3>1. CASE s \in world.steps /\ PhaseOf[s] = phase + 1
      BY <1>t, <2>2, <3>1
    <3>2. CASE s \notin world.steps \/ PhaseOf[s] # phase + 1
      BY <1>t, <2>2, <2>3, <3>2 DEF Phased
    <3> QED
      BY <3>1, <3>2
  <2> QED
    BY <2>1, <2>4 DEF Phased
<1>5. CASE BuildFails \/ BuildAborts \/ Kill
  <2>1. Forget /\ status' \in {"failed", "aborted", "killed"}
    BY <1>5 DEF BuildFails, BuildAborts, Kill
  <2>2. world.failures = TRUE \/ world.stops = TRUE
    <3>1. CASE BuildFails
      <4>1. PICK s \in InPhase : pc[s] = "failed"
        BY <3>1 DEF BuildFails
      <4>2. s \in Steps
        BY <1>w DEF InPhase
      <4> QED
        BY <1>w, <4>1, <4>2 DEF Phased
    <3>2. CASE BuildAborts
      <4>1. aborted /\ aborted \in BOOLEAN
        BY <3>2 DEF BuildAborts, Typed
      <4>2. aborted = TRUE
        BY <4>1
      <4> QED
        BY <4>2 DEF Phased
    <3>3. CASE Kill
      BY <1>w, <3>3 DEF Kill
    <3> QED
      BY <1>5, <3>1, <3>2, <3>3
  <2>3. phase' = 0 /\ aborted' = FALSE /\ (\A s \in Steps : pc'[s] = "idle") /\ world' = world
    BY <2>1, ForgetTyped
  <2>4. workerClosed' = TRUE => world'.failures = TRUE
    BY <1>5, <2>3 DEF BuildFails, BuildAborts, Kill, Phased
  <2> QED
    BY <2>1, <2>2, <2>3, <2>4, PhasedOver
<1>6. CASE SaveCache
  <2>1. /\ status = "running" /\ (\A s \in InPhase : pc[s] = "done")
        /\ UNCHANGED <<world, status, phase, aborted, workerClosed>>
        /\ \A s \in Steps : pc'[s] = IF s \in InPhase THEN "saved" ELSE pc[s]
    BY <1>6 DEF SaveCache, WaitOver, sources
  <2>2. ASSUME NEW s \in Steps
        PROVE  /\ s \in world.steps /\ PhaseOf[s] < phase => pc'[s] = "saved"
               /\ s \in world.steps /\ PhaseOf[s] = phase => pc'[s] # "idle"
               /\ s \notin world.steps \/ PhaseOf[s] > phase => pc'[s] = "idle"
               /\ pc'[s] = "hash" => s \notin Always
               /\ pc'[s] \in {"failed", "hung"} => world.failures = TRUE
    <3>1. CASE s \in InPhase
      BY <1>t, <2>1, <3>1 DEF InPhase
    <3>2. CASE s \notin InPhase
      BY <2>1, <3>2 DEF Phased
    <3> QED
      BY <3>1, <3>2
  <2> QED
    BY <2>1, <2>2 DEF Phased
<1>7. CASE BuildSucceeds
  <2>1. /\ phase = LastPhase /\ status' = "success" /\ UNCHANGED <<world, phase, pc, aborted, workerClosed>>
        /\ \A s \in InPhase : pc[s] = "saved"
    BY <1>7 DEF BuildSucceeds, sources
  <2>2. ASSUME NEW s \in Steps PROVE pc[s] \in {"idle", "saved"}
    <3>1. CASE s \in world.steps
      BY <1>t, <2>1, <3>1 DEF Phased, InPhase
    <3>2. CASE s \notin world.steps
      BY <3>2 DEF Phased
    <3> QED
      BY <3>1, <3>2
  <2> QED
    BY <2>1, <2>2 DEF Phased
<1>8. CASE Abort
  <2>1. world.stops = TRUE
    BY <1>w, <1>8 DEF Abort
  <2> QED
    BY <1>8, <2>1 DEF Abort, Phased, sources
<1>9. CASE UNCHANGED vars
  BY <1>9 DEF vars, Phased
<1> QED
  BY <1>1, <1>2, <1>3, <1>4, <1>5, <1>6, <1>7, <1>8, <1>9 DEF Next, PlanRuns

\* The phases hold in every behaviour.
LEMMA AlwaysPhased == Spec => []Phased
BY AlwaysTyped, PhasedInit, PhasedStep, PTL DEF Spec

\* No step hashes or builds before all of the phases before its own are saved.
THEOREM PhasesKeepOrder == Spec => []PhasesInOrder
<1>1. ASSUME Typed, Phased PROVE PhasesInOrder
  <2> SUFFICES ASSUME NEW s \in world.steps, NEW t \in world.steps,
                      pc[s] \in {"hash", "build"}, PhaseOf[t] < PhaseOf[s]
               PROVE  pc[t] = "saved"
    BY DEF PhasesInOrder
  <2>1. s \in Steps /\ t \in Steps
    BY <1>1, WorldsAssumption DEF Typed
  <2>2. PhaseOf[s] = phase
    BY <1>1, <2>1, StepOfPhase
  <2> QED
    BY <1>1, <2>1, <2>2 DEF Phased
<1> QED
  BY <1>1, AlwaysTyped, AlwaysPhased, PTL

-----------------------------------------------------------------------------
\* The hashes in memory differ from the saved ones for steps at work only.
LEMMA HashesStep == Typed /\ Phased /\ HashesSaved /\ [Next]_vars => HashesSaved'
<1> SUFFICES ASSUME Typed, Phased, HashesSaved, [Next]_vars PROVE HashesSaved'
  OBVIOUS
<1>1. ASSUME NEW s \in Steps, Hash(s) PROVE HashesSaved'
  <2>1. /\ cache'.hashes = [cache.hashes EXCEPT ![s] = NewHashes(s)] /\ cache.hashes \in [Steps -> Results]
        /\ diskCache' = diskCache
    BY <1>1, HashEffects DEF Typed, CacheType, Hash
  <2>2. status = "running" /\ pc'[s] \notin {"idle", "hash", "saved"} /\ \A t \in Steps : t # s => pc'[t] = pc[t]
    BY <1>1, StepOfPhase DEF Hash, Typed
  <2> QED
    BY <2>1, <2>2 DEF HashesSaved
<1>2. ASSUME NEW s \in Steps, BuildStep(s) PROVE HashesSaved'
  <2>1. cache'.hashes = cache.hashes /\ diskCache' = diskCache /\ status' = status
    BY <1>2, BuildStepEffects DEF BuildStep
  <2>2. \A t \in Steps : pc'[t] = pc[t] \/ pc'[t] = "done"
    BY <1>2 DEF BuildStep, Typed
  <2> QED
    BY <2>1, <2>2 DEF HashesSaved
<1>3. ASSUME NEW s \in Steps, StepFails(s) \/ ParseHangs(s) PROVE HashesSaved'
  <2>1. \A t \in Steps : pc'[t] = pc[t] \/ pc'[t] \in {"failed", "hung"}
    BY <1>3 DEF StepFails, ParseHangs, Typed
  <2> QED
    BY <1>3, <2>1 DEF HashesSaved, StepFails, ParseHangs
<1>4. CASE StartBuild
  BY <1>4 DEF StartBuild, HashesSaved
<1>5. CASE PlanPhase
  <2>1. /\ UNCHANGED <<cache, diskCache>> /\ status = "running"
        /\ \A s \in Steps : \/ pc'[s] = pc[s]
                            \/ s \in world.steps /\ PhaseOf[s] = phase + 1
    BY <1>5 DEF PlanPhase
  <2>2. ASSUME NEW s \in Steps, pc'[s] \in {"idle", "hash", "saved"}
        PROVE  pc[s] \in {"idle", "hash", "saved"}
    <3>1. CASE s \in world.steps /\ PhaseOf[s] = phase + 1
      <4>1. PhaseOf[s] > phase
        BY <3>1 DEF Typed
      <4> QED
        BY <4>1 DEF Phased
    <3> QED
      BY <2>1, <2>2, <3>1
  <2> QED
    BY <2>1, <2>2 DEF HashesSaved
<1>6. CASE SaveCache
  BY <1>6 DEF SaveCache, HashesSaved
<1>7. CASE BuildFails \/ BuildAborts \/ Kill \/ BuildSucceeds
  <2>1. status' # "running"
    BY <1>7 DEF BuildFails, BuildAborts, Kill, BuildSucceeds
  <2> QED
    BY <2>1 DEF HashesSaved
<1>8. ASSUME UNCHANGED <<cache, diskCache, status, pc>> PROVE HashesSaved'
  BY <1>8 DEF HashesSaved
<1>9. ASSUME NEW f \in Files, Edit(f) PROVE HashesSaved'
  BY <1>8, <1>9 DEF Edit
<1>10. CASE Abort \/ UNCHANGED vars
  BY <1>8, <1>10 DEF Abort, vars
<1> QED
  BY <1>1, <1>2, <1>3, <1>4, <1>5, <1>6, <1>7, <1>9, <1>10 DEF Next, StepRuns, PlanRuns

\* A hash is saved for a step only when it and its whole phase have finished,
\* or the cache is lost with all it had.
THEOREM OnlyFinishedIsSaved == Spec => SavedWhenDone
<1> DEFINE Saves == \A s \in Steps : diskCache'.hashes[s] # diskCache.hashes[s] =>
                      diskCache' = EmptyCache \/ (status = "running" /\ pc'[s] = "saved")
<1>1. ASSUME Typed, Phased, HashesSaved, Next PROVE Saves
  <2>1. CASE SaveCache
    <3>1. /\ diskCache' = cache /\ status = "running" /\ (\A s \in InPhase : pc[s] = "done")
          /\ \A s \in Steps : pc'[s] = IF s \in InPhase THEN "saved" ELSE pc[s]
      BY <2>1 DEF SaveCache, WaitOver
    <3>2. ASSUME NEW s \in Steps, s \notin InPhase PROVE diskCache'.hashes[s] = diskCache.hashes[s]
      <4>1. pc[s] \in {"idle", "saved"}
        BY <1>1, <3>2, StepOfPhase
      <4> QED
        BY <1>1, <3>1, <4>1 DEF HashesSaved
    <3> QED
      BY <3>1, <3>2
  <2>2. CASE Kill
    BY <2>2 DEF Kill
  <2>3. CASE ~SaveCache /\ ~Kill
    <3>1. UNCHANGED diskCache
      BY <1>1, <2>3 DEF Next, StepRuns, PlanRuns, Edit, StartBuild, Hash, BuildStep, StepFails,
                        ParseHangs, PlanPhase, BuildFails, BuildSucceeds, BuildAborts, Abort
    <3> QED
      BY <3>1
  <2> QED
    BY <2>1, <2>2, <2>3
<1>2. Init => HashesSaved
  BY DEF Init, HashesSaved
<1>3. ASSUME Typed, Phased, HashesSaved, [Next]_vars PROVE [Saves]_vars
  BY <1>1, <1>3
<1> QED
  BY <1>2, <1>3, HashesStep, AlwaysTyped, AlwaysPhased, PTL DEF Spec, SavedWhenDone

-----------------------------------------------------------------------------
\* What a parse makes is a schema.
LEMMA ParsesMakeSchemas ==
  ASSUME Typed, NEW s \in Parses PROVE ParseResult(s) # NoResult
<1>1. PICK f \in Files : f \in Reads[s]
  OBVIOUS
<1>2. AnySchema[f] # Unset /\ NoResult[f] = Unset
  BY DEF AnySchema, NoResult, AnyJson, Unset
<1>3. Snapshot(s)[f] # Unset
  BY <1>1 DEF Snapshot, Typed, Unset
<1> QED
  BY <1>2, <1>3 DEF ParseResult

\* Every step keeps that what is skipped or done has a schema.
LEMMA FoundStep == Typed /\ Phased /\ Found /\ [Next]_vars => Found'
<1> SUFFICES ASSUME Typed, Phased, Found, [Next]_vars PROVE Found'
  OBVIOUS
<1>t. /\ cache.modes \in [Steps -> ModesSaved] /\ cache.schemas \in [Steps -> Results]
      /\ schema \in [Steps -> Results] /\ Parses \subseteq Steps
      /\ mode \in {"strict", "loose"}
      /\ pc \in [Steps -> {"idle", "hash", "build", "done", "failed", "hung", "saved"}]
  BY DEF Typed, CacheType
<1>e. \A s \in Parses : ParsedIn(EmptyCache, s)
  BY DEF ParsedIn, EmptyCache
<1>1. ASSUME NEW s \in Steps, Hash(s) PROVE Found'
  <2>1. /\ cache'.modes = [cache.modes EXCEPT ![s] = IF s \in Parses THEN mode ELSE @]
        /\ cache'.schemas = cache.schemas
    BY <1>1, HashEffects
  <2>2. /\ diskCache' = diskCache /\ pc[s] = "hash"
        /\ pc' = [pc EXCEPT ![s] = IF Changed(s) # {} \/ (s \in Parses /\ cache.modes[s] # mode)
                                     THEN "build" ELSE "done"]
        /\ schema' = IF s \in Parses /\ ~(Changed(s) # {} \/ (s \in Parses /\ cache.modes[s] # mode))
                       THEN [schema EXCEPT ![s] = cache.schemas[s]] ELSE schema
    BY <1>1 DEF Hash
  <2>3. ASSUME NEW p \in Parses
        PROVE  /\ ParsedIn(diskCache', p)
               /\ pc'[p] \notin {"build", "failed", "hung"} => ParsedIn(cache', p)
               /\ pc'[p] \in {"done", "saved"} => schema'[p] # NoResult
    <3>1. CASE p # s
      BY <1>t, <2>1, <2>2, <3>1 DEF Found, ParsedIn
    <3>2. CASE p = s /\ ~(Changed(s) # {} \/ cache.modes[s] # mode)
      <4>1. cache.modes[s] = mode /\ cache.schemas[s] # NoResult
        BY <1>t, <2>2, <3>2 DEF Found, ParsedIn
      <4> QED
        BY <1>t, <2>1, <2>2, <3>2, <4>1 DEF Found, ParsedIn
    <3>3. CASE p = s /\ (Changed(s) # {} \/ cache.modes[s] # mode)
      BY <1>t, <2>1, <2>2, <3>3 DEF Found, ParsedIn
    <3> QED
      BY <3>1, <3>2, <3>3
  <2> QED
    BY <2>3 DEF Found, ParsedIn
<1>2. ASSUME NEW s \in Steps, BuildStep(s) PROVE Found'
  <2>1. /\ cache'.modes = cache.modes
        /\ s \in Parses => /\ cache'.schemas = [cache.schemas EXCEPT ![s] = ParseResult(s)]
                           /\ schema' = [schema EXCEPT ![s] = ParseResult(s)]
        /\ s \notin Parses => cache' = cache /\ schema' = schema
        /\ diskCache' = diskCache /\ pc' = [pc EXCEPT ![s] = "done"]
    BY <1>2, BuildStepEffects DEF BuildStep
  <2>2. ASSUME NEW p \in Parses
        PROVE  /\ ParsedIn(diskCache', p)
               /\ pc'[p] \notin {"build", "failed", "hung"} => ParsedIn(cache', p)
               /\ pc'[p] \in {"done", "saved"} => schema'[p] # NoResult
    <3>1. CASE p # s
      BY <1>t, <2>1, <3>1 DEF Found, ParsedIn
    <3>2. CASE p = s
      BY <1>t, <2>1, <3>2, ParsesMakeSchemas DEF Found, ParsedIn
    <3> QED
      BY <3>1, <3>2
  <2> QED
    BY <2>2 DEF Found, ParsedIn
<1>3. ASSUME UNCHANGED <<cache, diskCache, schema>>,
             \A p \in Steps : \/ pc'[p] = pc[p] \/ pc'[p] \in {"failed", "hung"}
                              \/ pc[p] = "idle" /\ pc'[p] \in {"hash", "build"}
                              \/ pc[p] = "done" /\ pc'[p] = "saved"
      PROVE  Found'
  BY <1>t, <1>3 DEF Found, ParsedIn
<1>4. ASSUME NEW s \in Steps, StepFails(s) \/ ParseHangs(s) PROVE Found'
  BY <1>3, <1>4, <1>t DEF StepFails, ParseHangs
<1>5. CASE PlanPhase
  <2>1. \A p \in Steps : PhaseOf[p] = phase + 1 => pc[p] = "idle"
    BY DEF Phased, Typed
  <2> QED
    BY <1>3, <1>5, <1>t, <2>1 DEF PlanPhase
<1>6. CASE SaveCache
  <2>1. /\ diskCache' = cache /\ UNCHANGED <<cache, schema>> /\ \A s \in InPhase : pc[s] = "done"
        /\ \A s \in Steps : pc'[s] = IF s \in InPhase THEN "saved" ELSE pc[s]
    BY <1>6 DEF SaveCache
  <2>2. \A p \in Steps : pc[p] \notin {"build", "failed", "hung"}
    BY <2>1, StepOfPhase
  <2> QED
    BY <1>t, <2>1, <2>2 DEF Found, ParsedIn
<1>7. CASE StartBuild
  <2>1. cache' = diskCache /\ diskCache' = diskCache /\ \A s \in Steps : pc'[s] = "idle"
    BY <1>7 DEF StartBuild
  <2> QED
    BY <1>t, <2>1 DEF Found, ParsedIn
<1>8. CASE BuildFails \/ BuildAborts \/ Kill
  <2>1. Forget /\ (diskCache' = diskCache \/ diskCache' = EmptyCache)
    BY <1>8 DEF BuildFails, BuildAborts, Kill
  <2>2. cache' = EmptyCache /\ \A s \in Steps : pc'[s] = "idle"
    BY <2>1, ForgetTyped
  <2> QED
    BY <1>t, <1>e, <2>1, <2>2 DEF Found, ParsedIn
<1>9. ASSUME NEW f \in Files, Edit(f) PROVE Found'
  BY <1>9 DEF Edit, Found, ParsedIn
<1>10. CASE BuildSucceeds \/ Abort \/ UNCHANGED vars
  BY <1>10 DEF BuildSucceeds, Abort, vars, Found, ParsedIn
<1> QED
  BY <1>1, <1>2, <1>4, <1>5, <1>6, <1>7, <1>8, <1>9, <1>10 DEF Next, StepRuns, PlanRuns

\* A step that is skipped finds the schema it saved, whatever builds failed,
\* were aborted or killed before, and in whichever mode.
THEOREM SkippedStepsHaveSchemas == Spec => []SchemaFound
<1>1. Init => Found
  <2> SUFFICES ASSUME Init PROVE Found
    OBVIOUS
  <2>1. \A s \in Steps : pc[s] = "idle"
    BY DEF Init
  <2>2. cache = EmptyCache /\ diskCache = EmptyCache
    BY DEF Init
  <2> QED
    BY <2>1, <2>2 DEF Found, ParsedIn, EmptyCache
<1>2. Found => SchemaFound
  BY DEF Found, SchemaFound
<1> QED
  BY <1>1, <1>2, FoundStep, AlwaysTyped, AlwaysPhased, PTL DEF Spec

-----------------------------------------------------------------------------
\* The files of a new project bear the versions that were handed out.
LEMMA VersionsInit == Init => Versions
<1> SUFFICES ASSUME Init PROVE Versions
  OBVIOUS
<1>1. /\ file \in [Files -> {Missing, 1}] /\ \A f \in Files \ world.optional : file[f] = 1
      /\ newest = file /\ loaded = file /\ cache = EmptyCache /\ diskCache = EmptyCache
  BY DEF Init
<1>2. Bounded(EmptyCache)
  BY <1>1 DEF Bounded, EmptyCache, Unset, Missing
<1> QED
  BY <1>1, <1>2 DEF Versions, Missing

\* Edits hand out new versions, and hashes are of versions there have been.
LEMMA VersionsStep ==
  ASSUME Reliable, Typed, Versions, [Next]_vars PROVE Versions'
<1>t. /\ file \in [Files -> 0..MaxVersion] /\ newest \in [Files -> 0..MaxVersion]
      /\ cache.hashes \in [Steps -> Results] /\ diskCache.hashes \in [Steps -> Results]
      /\ world \in Worlds /\ Loaded \subseteq Files
  BY WorldsAssumption DEF Typed, CacheType
<1>e. Bounded(EmptyCache)
  BY <1>t DEF Bounded, EmptyCache, Unset
<1>1. ASSUME NEW f \in Files, Edit(f) PROVE Versions'
  <2>1. PICK c \in 0..MaxVersion :
          /\ \/ c = newest[f] + 1 \/ c \in 1..newest[f] \/ f \in world.optional
          /\ file' = [file EXCEPT ![f] = c]
          /\ newest' = [newest EXCEPT ![f] = IF c > @ THEN c ELSE @]
    BY <1>1 DEF Edit
  <2>2. /\ edited' = TRUE /\ UNCHANGED <<world, loaded, status, cache, diskCache>>
        /\ status = "running" => f \in world.midEdits
    BY <1>1 DEF Edit
  <2>3. \A g \in Files : /\ newest[g] <= newest'[g] /\ file'[g] <= newest'[g]
                         /\ g \notin world.optional => file'[g] # Missing
    <3> SUFFICES ASSUME NEW g \in Files
                 PROVE /\ newest[g] <= newest'[g] /\ file'[g] <= newest'[g]
                       /\ g \notin world.optional => file'[g] # Missing
      OBVIOUS
    <3>1. CASE g = f
      BY <1>t, <2>1, <3>1 DEF Missing
    <3>2. CASE g # f
      <4>1. file'[g] = file[g] /\ newest'[g] = newest[g]
        BY <1>t, <2>1, <3>2
      <4> QED
        BY <1>t, <4>1 DEF Versions
    <3> QED
      BY <3>1, <3>2
  <2>4. \A s \in Steps, g \in Files : /\ cache.hashes[s][g] \in Int /\ diskCache.hashes[s][g] \in Int
                                      /\ newest[g] \in Int /\ newest'[g] \in Int
    <3>1. newest' \in [Files -> 0..MaxVersion]
      BY <1>t, <2>1
    <3> QED
      BY <1>t, <3>1 DEF Results
  <2>5. \A s \in Steps, g \in Files :
          /\ cache.hashes[s][g] <= newest'[g] /\ diskCache.hashes[s][g] <= newest'[g]
          /\ g \notin Reads[s] => cache.hashes[s][g] = Unset /\ diskCache.hashes[s][g] = Unset
    BY <2>3, <2>4 DEF Versions, Bounded
  <2>6. status = "running" => \A g \in Loaded : loaded[g] = file'[g]
    <3>1. status = "running" => f \notin Loaded
      BY <1>t, <2>2 DEF Reliable
    <3> QED
      BY <1>t, <2>1, <3>1 DEF Versions
  <2> QED
    BY <2>2, <2>3, <2>5, <2>6 DEF Versions, Bounded
<1>2. CASE StartBuild
  BY <1>t, <1>2 DEF StartBuild, Versions, Bounded
<1>3. ASSUME NEW s \in Steps, Hash(s) PROVE Versions'
  <2>1. /\ cache'.hashes = [cache.hashes EXCEPT ![s] = NewHashes(s)]
        /\ UNCHANGED <<sources, diskCache, status>>
    BY <1>3, HashEffects DEF Hash
  <2>2. \A f \in Files : /\ NewHashes(s)[f] <= newest[f]
                         /\ f \notin Reads[s] => NewHashes(s)[f] = Unset
    BY <1>t DEF NewHashes, Hashed, Versions, Bounded
  <2>3. Bounded(cache)'
    BY <1>t, <2>1, <2>2 DEF Versions, Bounded, sources
  <2> QED
    BY <2>1, <2>3 DEF Versions, Bounded, sources
<1>4. ASSUME NEW s \in Steps, BuildStep(s) PROVE Versions'
  <2>1. cache'.hashes = cache.hashes /\ UNCHANGED <<sources, diskCache, status>>
    BY <1>4, BuildStepEffects DEF BuildStep
  <2> QED
    BY <2>1 DEF Versions, Bounded, sources
<1>5. CASE BuildFails \/ BuildAborts \/ Kill
  <2>1. Forget /\ status' \in {"failed", "aborted", "killed"}
        /\ (diskCache' = diskCache \/ diskCache' = EmptyCache \/ diskCache' = cache)
    BY <1>5 DEF BuildFails, BuildAborts, Kill
  <2>2. cache' = EmptyCache /\ UNCHANGED <<world, file, newest, loaded>>
    BY <2>1, ForgetTyped
  <2> QED
    BY <1>e, <2>1, <2>2 DEF Versions, Bounded
<1>6. CASE SaveCache
  BY <1>6 DEF SaveCache, Versions, Bounded, sources
<1>7. ASSUME UNCHANGED <<sources, cache, diskCache>>, status' = status \/ (status' = "success" /\ status = "running")
      PROVE  Versions'
  BY <1>7 DEF Versions, Bounded, sources
<1>8. ASSUME NEW s \in Steps, StepFails(s) \/ ParseHangs(s) PROVE Versions'
  BY <1>7, <1>8 DEF StepFails, ParseHangs
<1>9. CASE PlanPhase \/ BuildSucceeds \/ Abort \/ UNCHANGED vars
  <2>1. UNCHANGED <<sources, cache, diskCache>> /\ (status' = status \/ (status' = "success" /\ status = "running"))
    BY <1>9 DEF PlanPhase, BuildSucceeds, Abort, vars, sources
  <2> QED
    BY <1>7, <2>1
<1> QED
  BY <1>1, <1>2, <1>3, <1>4, <1>5, <1>6, <1>8, <1>9 DEF Next, StepRuns, PlanRuns

-----------------------------------------------------------------------------
\* While a build runs, the files say what its steps make of them,
LEMMA SnapshotIsFiles ==
  ASSUME Typed, Versions, status = "running", NEW s \in Steps
  PROVE  Snapshot(s) = FileSnapshot(s)
BY DEF Snapshot, FileSnapshot, Versions

\* a loose parse of a config that exists admits everything,
LEMMA LooseAdmitsAll ==
  ASSUME Reliable, Typed, Versions, NEW s \in Parses, s \in world.steps, mode = "loose"
  PROVE  ParseResult(s) = AnySchema
<1>1. ASSUME s \in ConfigParses PROVE \E f \in Reads[s] : file[f] # Missing
  <2>1. PICK f \in Files : f \in Reads[s]
    OBVIOUS
  <2>2. f \notin world.optional
    BY <1>1, <2>1 DEF Reliable, Typed
  <2> QED
    BY <2>1, <2>2 DEF Versions
<1>2. ~NoConfig(s)
  BY <1>1 DEF NoConfig
<1> QED
  BY <1>2 DEF ParseResult

\* and a step that finds no change stores none.
LEMMA UnchangedHashes ==
  ASSUME Typed, NEW s \in Steps, Changed(s) = {}
  PROVE  /\ NewHashes(s) = cache.hashes[s]
         /\ s \notin ConfigParses \/ mode = "strict" => Match(cache, s)
<1>1. cache.hashes[s] \in Results
  BY DEF Typed, CacheType
<1>2. \A f \in Hashed(s) : file[f] # Missing /\ file[f] = cache.hashes[s][f]
  BY DEF Changed
<1>3. NewHashes(s) = cache.hashes[s]
  BY <1>1, <1>2 DEF NewHashes, Results
<1>4. s \notin ConfigParses \/ mode = "strict" => Hashed(s) = Reads[s]
  BY DEF Hashed, Typed
<1> QED
  BY <1>2, <1>3, <1>4 DEF Match

\* An empty cache finds a change wherever there is a file to change.
LEMMA EmptyIsGood ==
  ASSUME Typed, NEW s \in Steps,
         s \notin Parses /\ Reads[s] = {} => output[s] = FileSnapshot(s)
  PROVE  Good(EmptyCache, s)
<1>1. s \in Parses => EmptyCache.modes[s] = "unset"
  BY DEF EmptyCache
<1>2. ASSUME NEW f \in Reads[s] PROVE file[f] # EmptyCache.hashes[s][f]
  BY DEF EmptyCache, Typed, Unset
<1>3. s \notin Parses => (Match(EmptyCache, s) => Result(EmptyCache, s) = FileSnapshot(s))
  BY <1>2 DEF Match, Result
<1> QED
  BY <1>1, <1>3 DEF Good

\* What a step makes fits what its caches say of it.
LEMMA MadeIsGood ==
  ASSUME Reliable, Typed, Phased, Versions, Kept, NEW s \in Steps, BuildStep(s)
  PROVE  /\ s \in Checked => Good(cache, s)' /\ Good(diskCache, s)'
         /\ s \in Parses => cache'.schemas[s] = ParseResult(s)
         /\ s \notin Parses => output'[s] = FileSnapshot(s)
<1>1. /\ pc[s] = "build" /\ s \in world.steps /\ status = "running"
  BY StepOfPhase DEF BuildStep
<1>2. Snapshot(s) = FileSnapshot(s) /\ FileSnapshot(s)' = FileSnapshot(s)
  BY <1>1, SnapshotIsFiles DEF BuildStep, sources, FileSnapshot
<1>3. CASE s \in Parses
  <2>1. /\ cache'.hashes = cache.hashes /\ cache'.modes = cache.modes /\ cache'.schemas[s] = ParseResult(s)
        /\ diskCache' = diskCache /\ file' = file
    <3>1. cache.schemas \in [Steps -> Results]
      BY DEF Typed, CacheType
    <3> QED
      BY <1>3, <3>1, BuildStepEffects DEF BuildStep, sources
  <2>2. cache.modes[s] = mode
    BY <1>1, <1>3 DEF Kept
  <2>3. CASE mode = "strict"
    <3>1. ParseResult(s) = FileSnapshot(s)
      BY <1>2, <2>3 DEF ParseResult
    <3>2. Good(cache, s)'
      BY <1>2, <1>3, <2>1, <2>2, <2>3, <3>1 DEF Good, Result
    <3>3. s \in Checked => Good(diskCache, s)'
      BY <1>2, <1>3, <2>1 DEF Good, Result, Match, Kept
    <3> QED
      BY <1>3, <2>1, <3>2, <3>3
  <2>4. CASE mode = "loose"
    <3>1. ParseResult(s) = AnySchema
      BY <1>1, <1>3, <2>4, LooseAdmitsAll
    <3>2. Good(cache, s)'
      BY <1>3, <2>1, <2>2, <2>4, <3>1 DEF Good, AnySchema
    <3>3. s \in Checked => Good(diskCache, s)'
      BY <1>2, <1>3, <2>1 DEF Good, Result, Match, Kept, AnySchema
    <3> QED
      BY <1>3, <2>1, <3>2, <3>3
  <2> QED
    BY <2>3, <2>4 DEF Typed
<1>4. CASE s \notin Parses
  <2>1. output'[s] = FileSnapshot(s)
    <3>1. output' = [output EXCEPT ![s] = Snapshot(s)]
      BY <1>4, BuildStepEffects
    <3>2. output \in [Steps -> Results]
      BY DEF Typed
    <3> QED
      BY <1>2, <3>1, <3>2
  <2>2. Good(cache, s)' /\ Good(diskCache, s)'
    BY <1>2, <1>4, <2>1 DEF Good, Result
  <2> QED
    BY <1>4, <2>1, <2>2
<1> QED
  BY <1>3, <1>4

-----------------------------------------------------------------------------
\* An empty cache promises nothing.
LEMMA KeptInit == Init => Kept /\ KeptTied /\ Made
<1> SUFFICES ASSUME Init PROVE Kept /\ KeptTied /\ Made
  OBVIOUS
<1>1. /\ status = "idle" /\ cache = EmptyCache /\ diskCache = EmptyCache
      /\ \A s \in Steps : pc[s] = "idle" /\ output[s] = NoResult
      /\ world \in Worlds
  BY DEF Init
<1>2. Checked \subseteq Steps /\ Parses \subseteq Steps
  BY <1>1, WorldsAssumption DEF Checked
<1>3. Typed
  BY TypedInit
<1>4. ASSUME NEW s \in Checked PROVE Good(EmptyCache, s) /\ Tied(EmptyCache, s)
  <2>1. Reads[s] = {} => output[s] = FileSnapshot(s)
    BY <1>1, <1>2 DEF NoResult, FileSnapshot
  <2>2. Good(EmptyCache, s)
    BY <1>2, <1>3, <2>1, EmptyIsGood
  <2>3. s \in Parses => EmptyCache.modes[s] = "unset"
    BY <1>2 DEF EmptyCache
  <2>4. EmptyCache.hashes[s] = NoResult
    BY <1>2 DEF EmptyCache, NoResult
  <2> QED
    BY <1>1, <1>2, <2>2, <2>3, <2>4 DEF Tied, Result
<1> QED
  BY <1>1, <1>2, <1>4 DEF Kept, KeptTied, Made

\* Whatever the user changes, an unchanged hash still means the same result.
LEMMA EditKeeps ==
  ASSUME Reliable, Typed, Phased, Versions, Kept, KeptTied, NEW f \in Files, Edit(f)
  PROVE  Kept'
<1>1. PICK c \in 0..MaxVersion :
        /\ \/ c = newest[f] + 1
           \/ world.reverts /\ c \in 1..newest[f]
           \/ c = Missing
        /\ file' = [file EXCEPT ![f] = c]
  BY DEF Edit
<1>2. /\ UNCHANGED <<world, output, diskCache, status, mode, cache, schema, phase, pc>>
      /\ f \in (IF status = "running" THEN world.midEdits ELSE world.edits)
  BY DEF Edit
<1>3. Checked' = Checked /\ Checked \subseteq Steps
  BY <1>2, WorldsAssumption DEF Checked, Typed
<1>t. /\ cache.hashes \in [Steps -> Results] /\ diskCache.hashes \in [Steps -> Results]
      /\ file \in [Files -> 0..MaxVersion] /\ newest \in [Files -> 0..MaxVersion]
  BY DEF Typed, CacheType
<1>4. ASSUME NEW s \in Steps, f \notin Reads[s]
      PROVE  /\ FileSnapshot(s)' = FileSnapshot(s)
             /\ Match(cache, s)' <=> Match(cache, s)
             /\ Match(diskCache, s)' <=> Match(diskCache, s)
  <2>1. \A g \in Reads[s] : g \in Files /\ file'[g] = file[g]
    BY <1>t, <1>1, <1>4
  <2>2. FileSnapshot(s)' = FileSnapshot(s)
    BY <2>1 DEF FileSnapshot
  <2> QED
    BY <1>2, <2>1, <2>2 DEF Match
<1>5. ASSUME NEW s \in Steps, f \in Reads[s], c = newest[f] + 1 \/ c = Missing
      PROVE  ~Match(cache, s)' /\ ~Match(diskCache, s)'
  <2>1. file'[f] = c
    BY <1>t, <1>1
  <2>2. cache.hashes[s][f] <= newest[f] /\ diskCache.hashes[s][f] <= newest[f]
    BY DEF Versions, Bounded
  <2>3. newest[f] \in Nat /\ cache.hashes[s][f] \in Int /\ diskCache.hashes[s][f] \in Int
    BY <1>t DEF Results
  <2>4. c = Missing \/ (c # cache.hashes[s][f] /\ c # diskCache.hashes[s][f])
    BY <1>5, <2>2, <2>3
  <2> QED
    BY <1>2, <1>5, <2>1, <2>4 DEF Match
<1>6. ASSUME NEW s \in Checked, Good(diskCache, s) PROVE Good(diskCache, s)'
  <2>1. CASE f \notin Reads[s]
    BY <1>2, <1>3, <1>4, <1>6, <2>1 DEF Good, Result, AnySchema
  <2>2. CASE f \in Reads[s] /\ (c = newest[f] + 1 \/ c = Missing)
    BY <1>2, <1>3, <1>5, <1>6, <2>2 DEF Good, AnySchema
  <2>3. CASE world.reverts /\ ~(c = newest[f] + 1 \/ c = Missing)
    <3>1. world.reverts = TRUE /\ world.midEdits = {}
      BY <2>3, WorldsAssumption DEF Reliable, Typed
    <3>2. status # "running" /\ Tied(diskCache, s)
      BY <1>2, <3>1 DEF KeptTied
    <3>3. ASSUME Match(diskCache, s)' PROVE diskCache.hashes[s] = FileSnapshot(s)'
      <4>1. \A g \in Reads[s] : file'[g] = diskCache.hashes[s][g]
        BY <1>2, <3>3 DEF Match
      <4>2. diskCache.hashes[s] \in Results /\ \A g \in Files : g \notin Reads[s] => diskCache.hashes[s][g] = Unset
        BY <1>t, <1>3 DEF Versions, Bounded
      <4> QED
        BY <4>1, <4>2 DEF FileSnapshot, Results
    <3> QED
      BY <1>2, <1>6, <3>2, <3>3 DEF Good, Tied, Result, AnySchema
  <2> QED
    BY <1>1, <2>1, <2>2, <2>3
<1>7. ASSUME NEW s \in Checked, Good(cache, s), status = "running" PROVE Good(cache, s)'
  <2>1. CASE f \notin Reads[s]
    BY <1>2, <1>3, <1>4, <1>7, <2>1 DEF Good, Result, AnySchema
  <2>2. CASE f \in Reads[s] /\ (c = newest[f] + 1 \/ c = Missing)
    BY <1>2, <1>3, <1>5, <1>7, <2>2 DEF Good, AnySchema
  <2>3. CASE world.reverts
    <3>1. world.midEdits = {}
      BY <2>3, WorldsAssumption DEF Reliable, Typed
    <3> QED
      BY <1>2, <1>7, <3>1
  <2> QED
    BY <1>1, <2>1, <2>2, <2>3
<1> QED
  BY <1>2, <1>3, <1>6, <1>7 DEF Kept

\* Hashing a step keeps what the caches say.
LEMMA HashKeeps ==
  ASSUME Reliable, Typed, Phased, Versions, Kept, KeptTied, NEW s \in Steps, Hash(s)
  PROVE  Kept' /\ KeptTied'
<1> DEFINE needsBuild == Changed(s) # {} \/ (s \in Parses /\ cache.modes[s] # mode)
<1>1. /\ cache'.hashes = [cache.hashes EXCEPT ![s] = NewHashes(s)]
      /\ cache'.modes = [cache.modes EXCEPT ![s] = IF s \in Parses THEN mode ELSE @]
      /\ cache'.schemas = cache.schemas
      /\ cache.hashes \in [Steps -> Results] /\ cache.modes \in [Steps -> ModesSaved]
  BY HashEffects DEF Typed, CacheType
<1>2. /\ UNCHANGED <<world, file, output, diskCache, status, mode, phase>>
      /\ pc[s] = "hash" /\ status = "running" /\ s \in InPhase /\ s \notin Always /\ s \in world.steps
      /\ pc'[s] = IF needsBuild THEN "build" ELSE "done"
      /\ \A t \in Steps : t # s => pc'[t] = pc[t]
  BY StepOfPhase DEF Hash, sources, Typed, Phased
<1>3. Checked' = Checked /\ Checked \subseteq Steps /\ s \in Checked /\ InPhase' = InPhase
  BY <1>2, WorldsAssumption DEF Checked, Typed, InPhase
<1>4. ASSUME NEW t \in Steps
      PROVE  /\ FileSnapshot(t)' = FileSnapshot(t)
             /\ t # s => /\ cache'.hashes[t] = cache.hashes[t] /\ cache'.modes[t] = cache.modes[t]
             /\ ~needsBuild => /\ cache'.hashes[t] = cache.hashes[t]
                               /\ t \in Parses => cache'.modes[t] = cache.modes[t]
  <2>1. ~needsBuild => NewHashes(s) = cache.hashes[s]
    BY UnchangedHashes
  <2> QED
    BY <1>1, <1>2, <2>1 DEF FileSnapshot
<1>5. ASSUME NEW t \in Checked, t # s \/ ~needsBuild
      PROVE  /\ Good(cache, t) => Good(cache, t)'
             /\ Tied(cache, t) => Tied(cache, t)'
  <2>1. cache'.hashes[t] = cache.hashes[t] /\ (t \in Parses => cache'.modes[t] = cache.modes[t])
    BY <1>3, <1>4, <1>5
  <2> QED
    BY <1>1, <1>2, <1>3, <1>4, <2>1 DEF Good, Tied, Result, Match, AnySchema
<1>6. ASSUME NEW t \in Checked PROVE Good(diskCache, t)'
  BY <1>2, <1>3, <1>4 DEF Kept, Good, Result, Match, AnySchema
<1>7. Kept'
  <2>1. ASSUME NEW t \in Checked, pc'[t] \notin {"build", "failed", "hung"} PROVE Good(cache, t)'
    BY <1>2, <1>3, <1>5, <2>1 DEF Kept
  <2>2. ASSUME NEW t \in Parses, pc'[t] = "build" PROVE cache'.modes[t] = mode
    BY <1>1, <1>2, <2>2 DEF Kept
  <2> QED
    BY <1>2, <1>3, <1>6, <2>1, <2>2 DEF Kept
<1>8. KeptTied'
  <2> SUFFICES ASSUME world.reverts = TRUE PROVE KeptTied'
    BY <1>2 DEF KeptTied
  <2>1. ASSUME NEW t \in Checked, pc'[t] # "build" PROVE Tied(cache, t)'
    BY <1>2, <1>3, <1>5, <2>1 DEF KeptTied
  <2>2. ASSUME NEW t \in Checked, pc'[t] = "build", t \notin Parses \/ mode = "strict"
        PROVE  cache'.hashes[t] = FileSnapshot(t)'
    <3>1. CASE t # s
      BY <1>2, <1>3, <1>4, <2>2, <3>1 DEF KeptTied
    <3>2. CASE t = s
      <4>1. Hashed(s) = Reads[s]
        BY <2>2, <3>2 DEF Hashed, Typed
      <4>2. \A f \in Files : file[f] # Missing
        BY DEF Reliable, Versions, Typed
      <4>3. \A f \in Files : f \notin Reads[s] => cache.hashes[s][f] = Unset
        BY DEF Versions, Bounded
      <4>4. NewHashes(s) = FileSnapshot(s)
        BY <4>1, <4>2, <4>3 DEF NewHashes, FileSnapshot
      <4> QED
        BY <1>1, <1>4, <3>2, <4>4
    <3> QED
      BY <3>1, <3>2
  <2>3. pc'[s] # "saved"
    BY <1>2
  <2> QED
    BY <1>2, <1>3, <2>1, <2>2, <2>3 DEF KeptTied
<1> QED
  BY <1>7, <1>8

\* Running a step keeps it.
LEMMA BuildStepKeeps ==
  ASSUME Reliable, Typed, Phased, Versions, Kept, KeptTied, NEW s \in Steps, BuildStep(s)
  PROVE  Kept' /\ KeptTied'
<1>1. /\ cache'.hashes = cache.hashes /\ cache'.modes = cache.modes
      /\ \A t \in Steps : t # s => cache'.schemas[t] = cache.schemas[t] /\ output'[t] = output[t]
  <2>1. cache.schemas \in [Steps -> Results] /\ output \in [Steps -> Results]
    BY DEF Typed, CacheType
  <2>2. cache'.hashes = cache.hashes /\ cache'.modes = cache.modes
    BY BuildStepEffects
  <2>3. CASE s \in Parses
    <3>1. cache'.schemas = [cache.schemas EXCEPT ![s] = ParseResult(s)] /\ output' = output
      BY <2>3, BuildStepEffects
    <3> QED
      BY <2>1, <2>2, <3>1
  <2>4. CASE s \notin Parses
    <3>1. cache' = cache /\ output' = [output EXCEPT ![s] = Snapshot(s)]
      BY <2>4, BuildStepEffects
    <3> QED
      BY <2>1, <2>2, <3>1
  <2> QED
    BY <2>3, <2>4
<1>2. /\ UNCHANGED <<world, file, diskCache, status, mode, phase>>
      /\ pc[s] = "build" /\ status = "running" /\ s \in InPhase /\ s \in world.steps
      /\ pc'[s] = "done"
      /\ \A t \in Steps : t # s => pc'[t] = pc[t]
  BY StepOfPhase DEF BuildStep, sources, Typed
<1>3. Checked' = Checked /\ Checked \subseteq Steps /\ InPhase' = InPhase
  BY <1>2, WorldsAssumption DEF Checked, Typed, InPhase
<1>4. \A t \in Steps : FileSnapshot(t)' = FileSnapshot(t)
  BY <1>2 DEF FileSnapshot
<1>5. ASSUME NEW t \in Checked, t # s
      PROVE  /\ Good(cache, t) => Good(cache, t)'
             /\ Good(diskCache, t) => Good(diskCache, t)'
             /\ Tied(cache, t) => Tied(cache, t)'
  <2>1. cache'.schemas[t] = cache.schemas[t] /\ output'[t] = output[t]
    BY <1>1, <1>3, <1>5
  <2> QED
    BY <1>1, <1>2, <1>3, <1>4, <2>1 DEF Good, Tied, Result, Match, AnySchema
<1>6. Kept'
  <2>1. ASSUME NEW t \in Checked
        PROVE  /\ Good(diskCache, t)'
               /\ pc'[t] \notin {"build", "failed", "hung"} => Good(cache, t)'
    <3>1. CASE t = s
      BY <2>1, <3>1, MadeIsGood
    <3>2. CASE t # s
      BY <1>2, <1>3, <1>5, <2>1, <3>2 DEF Kept
    <3> QED
      BY <3>1, <3>2
  <2>2. ASSUME NEW t \in Parses, pc'[t] = "build" PROVE cache'.modes[t] = mode
    BY <1>1, <1>2, <2>2 DEF Kept
  <2> QED
    BY <1>2, <1>3, <2>1, <2>2 DEF Kept
<1>7. KeptTied'
  <2> SUFFICES ASSUME world.reverts = TRUE PROVE KeptTied'
    BY <1>2 DEF KeptTied
  <2>1. ASSUME NEW t \in Checked, pc'[t] # "build" PROVE Tied(cache, t)'
    <3>1. CASE t # s
      BY <1>2, <1>3, <1>5, <2>1, <3>1 DEF KeptTied
    <3>2. CASE t = s /\ s \notin Parses
      <4>1. output'[s] = FileSnapshot(s) /\ cache.hashes[s] = FileSnapshot(s)
        BY <1>2, <2>1, <3>2, MadeIsGood DEF KeptTied
      <4> QED
        BY <1>1, <3>2, <4>1 DEF Tied, Result
    <3>3. CASE t = s /\ s \in Parses
      <4>1. cache.modes[s] = mode /\ cache'.schemas[s] = ParseResult(s)
        BY <1>2, <3>3, MadeIsGood DEF Kept
      <4>2. ASSUME mode = "strict" PROVE cache'.schemas[s] = cache.hashes[s]
        <5>1. ParseResult(s) = FileSnapshot(s)
          BY <1>2, <4>2, SnapshotIsFiles DEF ParseResult
        <5>2. cache.hashes[s] = FileSnapshot(s)
          BY <1>2, <2>1, <3>3, <4>2 DEF KeptTied
        <5> QED
          BY <4>1, <5>1, <5>2
      <4> QED
        BY <1>1, <3>3, <4>1, <4>2 DEF Tied, Result
    <3> QED
      BY <3>1, <3>2, <3>3
  <2>2. ASSUME NEW t \in Checked, pc'[t] = "build", t \notin Parses \/ mode = "strict"
        PROVE  cache'.hashes[t] = FileSnapshot(t)'
    BY <1>1, <1>2, <1>3, <1>4, <2>2 DEF KeptTied
  <2>3. pc'[s] # "saved"
    BY <1>2
  <2> QED
    BY <1>2, <1>3, <2>1, <2>2, <2>3 DEF KeptTied
<1> QED
  BY <1>6, <1>7

\* Everything else does.
LEMMA KeptStep ==
  ASSUME Reliable, Typed, Phased, Phased', Versions, Kept, KeptTied, [Next]_vars
  PROVE  Kept' /\ KeptTied'
<1>w. /\ world \in Worlds /\ Checked \subseteq Steps /\ Parses \subseteq Steps
      /\ world.reverts \in BOOLEAN /\ world.failures \in BOOLEAN /\ world.stops \in BOOLEAN
  BY WorldsAssumption DEF Checked, Typed
<1>c. world.reverts = TRUE =>
        world.midEdits = {} /\ world.failures = FALSE /\ world.stops = FALSE
  BY <1>w DEF Reliable
<1>1. ASSUME NEW f \in Files, Edit(f) PROVE Kept' /\ KeptTied'
  <2>1. Kept'
    BY <1>1, EditKeeps
  <2>2. /\ UNCHANGED <<world, output, diskCache, status, mode, cache, phase, pc>>
        /\ status = "running" => f \in world.midEdits
    BY <1>1 DEF Edit
  <2>3. ASSUME world.reverts = TRUE PROVE KeptTied'
    <3>1. status # "running"
      BY <1>c, <2>2, <2>3
    <3>2. \A s \in Steps : pc[s] # "build"
      BY <3>1, StepOfPhase
    <3>3. Checked' = Checked /\ \A s \in Checked : Tied(diskCache, s)' <=> Tied(diskCache, s)
      BY <2>2 DEF Checked, Tied, Result
    <3> QED
      BY <1>w, <2>2, <2>3, <3>1, <3>2, <3>3 DEF KeptTied
  <2> QED
    BY <2>1, <2>2, <2>3 DEF KeptTied
<1>2. CASE StartBuild
  <2>1. /\ UNCHANGED <<world, file, output, diskCache>> /\ cache' = diskCache
        /\ status # "running" /\ status' = "running" /\ \A s \in Steps : pc'[s] = "idle"
    BY <1>2 DEF StartBuild
  <2>2. Checked' = Checked
    BY <2>1 DEF Checked
  <2>3. ASSUME NEW s \in Checked
        PROVE  /\ Good(cache, s)' /\ Good(diskCache, s)'
               /\ Tied(diskCache, s) => Tied(cache, s)'
    <3>1. Good(diskCache, s)
      BY DEF Kept
    <3> QED
      BY <2>1, <3>1 DEF Good, Tied, Result, Match, FileSnapshot, AnySchema
  <2> QED
    BY <1>w, <2>1, <2>2, <2>3 DEF Kept, KeptTied
<1>3. ASSUME NEW s \in Steps, Hash(s) PROVE Kept' /\ KeptTied'
  BY <1>3, HashKeeps
<1>4. ASSUME NEW s \in Steps, BuildStep(s) PROVE Kept' /\ KeptTied'
  BY <1>4, BuildStepKeeps
\* Steps that change neither files nor caches, and make no step build but those
\* without a condition.
<1>5. ASSUME UNCHANGED <<world, file, output, diskCache, status, mode, cache>>,
             \A s \in Steps : /\ pc[s] \in {"build", "failed", "hung"} => pc'[s] \in {"build", "failed", "hung"}
                              /\ pc'[s] = "build" => pc[s] = "build" \/ s \in Always,
             world.reverts = TRUE =>
               /\ \A s \in Steps : pc[s] = "build" => pc'[s] = "build"
               /\ status = "running" /\ (\A s \in InPhase' : pc'[s] = "saved") =>
                    \A s \in InPhase : pc[s] = "saved"
      PROVE  Kept' /\ KeptTied'
  <2>1. Checked' = Checked
    BY <1>5 DEF Checked
  <2>2. \A s \in Checked : /\ Good(cache, s)' <=> Good(cache, s)
                           /\ Good(diskCache, s)' <=> Good(diskCache, s)
                           /\ Tied(cache, s)' <=> Tied(cache, s)
                           /\ Tied(diskCache, s)' <=> Tied(diskCache, s)
                           /\ FileSnapshot(s)' = FileSnapshot(s)
    BY <1>5 DEF Good, Tied, Result, Match, FileSnapshot, AnySchema
  <2>3. Checked \cap Always = {} /\ Parses \cap Always = {}
    BY DEF Checked
  <2>4. Kept'
    BY <1>5, <1>w, <2>1, <2>2, <2>3 DEF Kept
  <2>5. KeptTied'
    BY <1>5, <1>w, <2>1, <2>2, <2>3 DEF KeptTied
  <2> QED
    BY <2>4, <2>5
<1>6. ASSUME NEW s \in Steps, StepFails(s) \/ ParseHangs(s) PROVE Kept' /\ KeptTied'
  <2>1. /\ UNCHANGED <<world, file, output, diskCache, status, mode, cache, phase>>
        /\ world.failures = TRUE /\ pc[s] = "build" /\ pc'[s] \in {"failed", "hung"}
        /\ \A t \in Steps : t # s => pc'[t] = pc[t]
    BY <1>6, <1>w DEF StepFails, ParseHangs, sources, Typed, Phased
  <2>2. world.reverts # TRUE
    BY <1>c, <2>1
  <2>3. \A t \in Steps : /\ pc[t] \in {"build", "failed", "hung"} => pc'[t] \in {"build", "failed", "hung"}
                         /\ pc'[t] = "build" => pc[t] = "build" \/ t \in Always
    BY <2>1
  <2> QED
    BY <1>5, <2>1, <2>2, <2>3
<1>7. CASE PlanPhase
  <2>1. /\ UNCHANGED <<world, file, output, diskCache, status, mode, cache>>
        /\ \A s \in InPhase : pc[s] = "saved"
        /\ \A s \in Steps : \/ pc'[s] = pc[s]
                            \/ /\ s \in world.steps /\ PhaseOf[s] = phase + 1
                               /\ pc'[s] = IF s \in Always THEN "build" ELSE "hash"
    BY <1>7 DEF PlanPhase, sources, PhaseOver
  <2>2. \A s \in Steps : s \in world.steps /\ PhaseOf[s] = phase + 1 => pc[s] = "idle"
    <3>1. \A s \in Steps : PhaseOf[s] = phase + 1 => PhaseOf[s] > phase
      BY DEF Typed
    <3> QED
      BY <3>1 DEF Phased
  <2>3. \A s \in Steps : /\ pc[s] \in {"build", "failed", "hung"} => pc'[s] \in {"build", "failed", "hung"}
                         /\ pc'[s] = "build" => pc[s] = "build" \/ s \in Always
                         /\ pc[s] = "build" => pc'[s] = "build"
    BY <2>1, <2>2
  <2> QED
    BY <1>5, <2>1, <2>3
<1>8. CASE SaveCache
  <2>1. /\ UNCHANGED <<world, file, output, status, mode, cache, phase>> /\ diskCache' = cache
        /\ status = "running" /\ (\A s \in InPhase : pc[s] = "done")
        /\ \A s \in Steps : pc'[s] = IF s \in InPhase THEN "saved" ELSE pc[s]
    BY <1>8 DEF SaveCache, WaitOver, sources
  <2>2. \A s \in Steps : pc[s] \notin {"build", "failed", "hung"}
    BY <2>1, StepOfPhase
  <2>3. Checked' = Checked
    BY <2>1 DEF Checked
  <2>4. ASSUME NEW s \in Checked
        PROVE  /\ Good(cache, s)' /\ Good(diskCache, s)'
               /\ Tied(cache, s) => Tied(cache, s)'
    <3>1. Good(cache, s)
      BY <1>w, <2>1, <2>2 DEF Kept
    <3> QED
      BY <2>1, <3>1 DEF Good, Tied, Result, Match, FileSnapshot, AnySchema
  <2>5. \A s \in Steps : pc'[s] # "build"
    BY <2>1, <2>2
  <2> QED
    BY <1>w, <2>1, <2>2, <2>3, <2>4, <2>5 DEF Kept, KeptTied
<1>9. CASE BuildSucceeds
  <2>1. /\ UNCHANGED <<world, file, output, diskCache, mode, cache, phase, pc>>
        /\ status = "running" /\ status' = "success" /\ \A s \in InPhase : pc[s] = "saved"
    BY <1>9 DEF BuildSucceeds, sources
  <2>2. Checked' = Checked
    BY <2>1 DEF Checked
  <2>3. \A s \in Checked : /\ Good(diskCache, s)' <=> Good(diskCache, s)
                           /\ Tied(diskCache, s)' <=> Tied(diskCache, s)
                           /\ FileSnapshot(s)' = FileSnapshot(s)
    BY <2>1 DEF Good, Tied, Result, Match, FileSnapshot, AnySchema
  <2>4. \A s \in Steps : pc[s] # "build"
    BY <2>1, StepOfPhase
  <2>5. Kept'
    BY <1>w, <2>1, <2>2, <2>3, <2>4 DEF Kept
  <2>6. KeptTied'
    BY <1>w, <2>1, <2>2, <2>3, <2>4 DEF KeptTied
  <2> QED
    BY <2>5, <2>6
<1>10. CASE BuildFails \/ BuildAborts \/ Kill
  <2>1. Forget /\ status' \in {"failed", "aborted", "killed"}
        /\ (diskCache' = diskCache \/ diskCache' = EmptyCache)
    BY <1>10 DEF BuildFails, BuildAborts, Kill
  <2>2. UNCHANGED <<world, file, output>> /\ \A s \in Steps : pc'[s] = "idle"
    BY <2>1, ForgetTyped
  <2>3. world.reverts # TRUE
    BY <1>c, <2>1, <2>2 DEF Phased
  <2>4. Checked' = Checked
    BY <2>2 DEF Checked
  <2>5. ASSUME NEW s \in Checked PROVE Good(diskCache, s)'
    <3>1. Good(diskCache, s)
      BY DEF Kept
    <3>2. s \notin Parses /\ Reads[s] = {} => output[s] = FileSnapshot(s)
      BY <3>1 DEF Good, Match, Result
    <3>3. Good(EmptyCache, s)
      BY <1>w, <3>2, EmptyIsGood
    <3>4. CASE diskCache' = diskCache
      BY <2>2, <3>1, <3>4 DEF Good, Result, Match, FileSnapshot, AnySchema
    <3>5. CASE diskCache' = EmptyCache
      BY <2>2, <3>3, <3>5 DEF Good, Result, Match, FileSnapshot, AnySchema
    <3> QED
      BY <2>1, <3>4, <3>5
  <2>6. status' # "running"
    BY <2>1
  <2> QED
    BY <1>w, <2>2, <2>3, <2>4, <2>5, <2>6 DEF Kept, KeptTied
<1>11. CASE Abort \/ UNCHANGED vars
  <2>1. UNCHANGED <<world, file, output, diskCache, status, mode, cache, phase, pc>>
    BY <1>11 DEF Abort, vars, sources
  <2>2. InPhase' = InPhase
    BY <2>1 DEF InPhase
  <2> QED
    BY <1>5, <2>1, <2>2
<1> QED
  BY <1>1, <1>2, <1>3, <1>4, <1>6, <1>7, <1>8, <1>9, <1>10, <1>11 DEF Next, StepRuns, PlanRuns

-----------------------------------------------------------------------------
\* What a step leaves is what the files say, as long as they stay the same.
LEMMA MadeStep ==
  ASSUME Reliable, Typed, Phased, Versions, Kept, Made, [Next]_vars
  PROVE  Made'
<1>w. /\ world.steps \subseteq Steps /\ schema \in [Steps -> Results] /\ output \in [Steps -> Results]
      /\ Parses \subseteq Steps
  BY WorldsAssumption DEF Typed
<1>1. ASSUME NEW f \in Files, Edit(f) PROVE Made'
  BY <1>1 DEF Edit, Made
<1>2. CASE StartBuild
  BY <1>2, <1>w DEF StartBuild, Made
<1>3. ASSUME NEW s \in Steps, Hash(s) PROVE Made'
  <2>1. /\ UNCHANGED <<world, file, loaded, edited, output, status, mode>>
        /\ pc[s] = "hash" /\ status = "running" /\ s \notin Always /\ s \in world.steps
        /\ \A t \in Steps : t # s => pc'[t] = pc[t] /\ schema'[t] = schema[t]
        /\ pc'[s] \in {"done", "saved"} =>
             /\ Changed(s) = {} /\ (s \in Parses => cache.modes[s] = mode /\ schema'[s] = cache.schemas[s])
    BY <1>3, <1>w, StepOfPhase DEF Hash, sources, Typed, Phased
  <2>2. \A t \in Steps : ParseResult(t)' = ParseResult(t) /\ Snapshot(t)' = Snapshot(t)
    BY <2>1 DEF ParseResult, Snapshot, NoConfig, AnySchema
  <2>3. ASSUME pc'[s] \in {"done", "saved"}
        PROVE  IF s \in Parses THEN schema'[s] = ParseResult(s) ELSE output[s] = Snapshot(s)
    <3>1. Good(cache, s) /\ Snapshot(s) = FileSnapshot(s)
      BY <2>1, SnapshotIsFiles DEF Kept, Checked
    <3>2. s \notin ConfigParses \/ mode = "strict" => Match(cache, s)
      BY <2>1, <2>3, UnchangedHashes
    <3>3. CASE s \notin Parses
      BY <3>1, <3>2, <3>3 DEF Good, Result
    <3>4. CASE s \in Parses /\ mode = "strict"
      BY <2>1, <2>3, <3>1, <3>2, <3>4 DEF Good, Result, ParseResult
    <3>5. CASE s \in Parses /\ mode = "loose"
      <4>1. ParseResult(s) = AnySchema
        BY <2>1, <3>5, LooseAdmitsAll
      <4> QED
        BY <2>1, <2>3, <3>1, <3>5, <4>1 DEF Good
    <3> QED
      BY <3>3, <3>4, <3>5 DEF Typed
  <2> QED
    BY <1>w, <2>1, <2>2, <2>3 DEF Made
<1>4. ASSUME NEW s \in Steps, BuildStep(s) PROVE Made'
  <2>1. /\ UNCHANGED <<world, file, loaded, edited, status, mode>>
        /\ \A t \in Steps : t # s => pc'[t] = pc[t] /\ schema'[t] = schema[t] /\ output'[t] = output[t]
        /\ IF s \in Parses THEN schema'[s] = ParseResult(s) ELSE output'[s] = Snapshot(s)
    BY <1>4, <1>w, BuildStepEffects DEF BuildStep, sources, Typed
  <2>2. \A t \in Steps : ParseResult(t)' = ParseResult(t) /\ Snapshot(t)' = Snapshot(t)
    BY <2>1 DEF ParseResult, Snapshot, NoConfig, AnySchema
  <2> QED
    BY <1>w, <2>1, <2>2 DEF Made
<1>5. ASSUME UNCHANGED <<world, file, loaded, edited, output, schema, mode>>,
             status' = status \/ status = "running",
             \A s \in Steps : pc'[s] \in {"done", "saved"} => pc[s] \in {"done", "saved"}
      PROVE  Made'
  <2>1. \A t \in Steps : ParseResult(t)' = ParseResult(t) /\ Snapshot(t)' = Snapshot(t)
    BY <1>5 DEF ParseResult, Snapshot, NoConfig, AnySchema
  <2> QED
    BY <1>5, <1>w, <2>1 DEF Made
<1>6. ASSUME NEW s \in Steps, StepFails(s) \/ ParseHangs(s) PROVE Made'
  <2>1. /\ UNCHANGED <<world, file, loaded, edited, output, schema, mode, status>>
        /\ \A t \in Steps : pc'[t] \in {"done", "saved"} => pc[t] \in {"done", "saved"}
    BY <1>6 DEF StepFails, ParseHangs, sources, Typed
  <2> QED
    BY <1>5, <2>1
<1>7. CASE PlanPhase
  <2>1. /\ UNCHANGED <<world, file, loaded, edited, output, schema, mode, status>>
        /\ \A t \in Steps : pc'[t] \in {"done", "saved"} => pc[t] \in {"done", "saved"}
    BY <1>7 DEF PlanPhase, sources
  <2> QED
    BY <1>5, <2>1
<1>8. CASE SaveCache
  <2>1. /\ UNCHANGED <<world, file, loaded, edited, output, schema, mode, status>>
        /\ \A t \in Steps : pc'[t] \in {"done", "saved"} => pc[t] \in {"done", "saved"}
    BY <1>8 DEF SaveCache, sources
  <2> QED
    BY <1>5, <2>1
<1>9. CASE BuildSucceeds \/ Abort \/ UNCHANGED vars
  <2>1. /\ UNCHANGED <<world, file, loaded, edited, output, schema, mode, pc>>
        /\ status' = status \/ status = "running"
    BY <1>9 DEF BuildSucceeds, Abort, vars, sources
  <2> QED
    BY <1>5, <2>1
<1>10. CASE BuildFails \/ BuildAborts \/ Kill
  BY <1>10 DEF BuildFails, BuildAborts, Kill, Made
<1> QED
  BY <1>1, <1>2, <1>3, <1>4, <1>6, <1>7, <1>8, <1>9, <1>10 DEF Next, StepRuns, PlanRuns

\* In the worlds where it may be relied on (Reliable), a successful build
\* leaves what a build from nothing would make of the files, unless they have
\* changed since it began: whatever builds failed, were aborted or killed before.
THEOREM SuccessIsUpToDate ==
  ASSUME Reliable PROVE Spec => []UpToDate
<1> DEFINE BInv == Typed /\ Phased /\ Versions /\ Kept /\ KeptTied /\ Made
<1>1. Init => BInv
  BY TypedInit, PhasedInit, VersionsInit, KeptInit
<1>2. BInv /\ [Next]_vars => BInv'
  BY TypedStep, PhasedStep, VersionsStep, KeptStep, MadeStep
<1>3. BInv => UpToDate
  <2> SUFFICES ASSUME BInv, status = "success", edited = FALSE, NEW s \in world.steps
               PROVE  IF s \in Parses THEN schema[s] = ParseResult(s) ELSE output[s] = Snapshot(s)
    BY DEF UpToDate, Typed
  <2>1. s \in Steps /\ PhaseOf[s] <= LastPhase
    BY WorldsAssumption DEF Typed
  <2>2. pc[s] = "saved"
    <3>1. phase = LastPhase /\ pc[s] \in {"idle", "saved"}
      BY <2>1 DEF Phased
    <3>2. pc[s] # "idle"
      BY <2>1, <3>1 DEF Phased
    <3> QED
      BY <3>1, <3>2
  <2> QED
    BY <2>2 DEF Made
<1> QED
  BY <1>1, <1>2, <1>3, PTL DEF Spec
==============================================================================
