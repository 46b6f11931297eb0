----------------------------- MODULE WatchProofs -----------------------------
(***************************************************************************)
(* Theorems about the watch loop, for every set of modules, every layout   *)
(* of their directories and any number of edits: one function runs that    *)
(* nobody aborted, no function runs but for an edit, where no path         *)
(* misleads the filter, and, where edits fall while something watches,     *)
(* none is missed.                                                         *)
(***************************************************************************)
EXTENDS Watch, TLAPS

USE WatchAssumption, PathsAssumption

\* No module with a database lies in or below a directory called "db", and no
\* module's directory holds the project's deno.json.
PlainPaths ==
  /\ \A m \in HasDb : \A k \in DOMAIN PathOf[m] : PathOf[m][k] # "db"
  /\ \A m \in Modules : ~IsBelow(DenoJson, PathOf[m])

\* The user's files are not in a directory of generated files or migrations.
UserPath(path) ==
  \A k \in DOMAIN path :
    /\ path[k] \notin {".opengb", "module.gen.ts"}
    /\ path[k] = "db" /\ k + 1 \in DOMAIN path => path[k + 1] # "migrations"
PlainSources ==
  /\ \A m \in Modules, file \in Sources : UserPath(PathOf[m] \o file)
  /\ UserPath(PathOfPlace(Config))

Run == [project : Projects, aborted : BOOLEAN, state : {"running", "ended", "stopped"}]

\* Types, and what the watcher is open on.
Typed ==
  /\ listed \subseteq Modules /\ broken \subseteq Modules
  /\ content \in [Modules -> 1..(MaxEdits + 1)]
  /\ edits \in 0..MaxEdits
  /\ loop \in {"top", "watching", "loading"}
  /\ event \in BOOLEAN /\ loadProjectSuccess \in BOOLEAN
  /\ project \in Projects
  /\ runs \in Seq(Run)
  /\ \A m \in Modules : content[m] <= edits + 1
  /\ watchPaths = IF loop = "watching" THEN {Config} \cup Loaded ELSE {}
  /\ event => loop = "watching"

\* The functions nobody aborted: none while the loop loads, and while it watches
\* the one that this turn of the loop has started.
Live ==
  \A i \in DOMAIN runs :
    runs[i].state = "running" /\ ~runs[i].aborted =>
      loop = "watching" /\ loadProjectSuccess /\ i = Len(runs) /\ runs[i].project = project

\* An event, and all that follows it up to the next run, has an edit to its name.
Answered ==
  Len(runs) <= IF loop = "watching" /\ ~event THEN edits + 1 ELSE edits

\* The loop has the project of the disk, or knows that it cannot be loaded.
Current ==
  IF Loadable THEN loadProjectSuccess /\ project = OnDisk ELSE ~loadProjectSuccess

\* Where nothing is on its way the loop is current; and a listed module that is
\* broken was loaded before, so that it is watched.
Caught ==
  /\ loop = "top" \/ (loop = "watching" /\ ~event) => Current
  /\ listed \cap broken \subseteq Loaded

-----------------------------------------------------------------------------
\* The filter of the watcher lets the user's paths pass,
LEMMA UserPathTriggers ==
  ASSUME NEW path, UserPath(path) PROVE ShouldPathTriggerRebuild(path)
BY DEF UserPath, ShouldPathTriggerRebuild, IsGenerated, IsMigration

\* and a file below a directory has a path below it.
LEMMA BelowItsDir ==
  ASSUME NEW dir \in Seq(STRING), NEW rest \in Seq(STRING)
  PROVE  IsBelow(dir \o rest, dir)
BY DEF IsBelow

\* Where no path misleads the filter, nothing a function writes is both watched
\* and let through: helpers and .opengb by their names, migrations by the first
\* "db", which is the module's own, and deno.json because nobody watches it.
LEMMA WritesDoNotTrigger ==
  ASSUME PlainPaths, watchPaths \subseteq {Config} \cup Modules, NEW p \in Projects,
         NEW path \in Writes(p), NEW place \in watchPaths, IsBelow(path, PathOfPlace(place))
  PROVE  ~ShouldPathTriggerRebuild(path)
<1>1. ASSUME NEW m \in Modules, path = PathOf[m] \o <<"module.gen.ts">> PROVE IsGenerated(path)
  <2>1. Len(PathOf[m]) + 1 \in DOMAIN path /\ path[Len(PathOf[m]) + 1] = "module.gen.ts"
    BY <1>1
  <2> QED
    BY <2>1 DEF IsGenerated
<1>2. ASSUME NEW m \in HasDb, NEW f \in Migrations, path = PathOf[m] \o f
      PROVE  IsMigration(path)
  <2>1. PICK dir \in Seq(STRING) : dir = PathOf[m]
    OBVIOUS
  <2>3. PICK n \in Nat : n = Len(dir)
    BY <2>1
  <2>4. /\ n + 1 \in DOMAIN path /\ n + 2 \in DOMAIN path
        /\ path[n + 1] = "db" /\ path[n + 2] = "migrations"
        /\ \A j \in 1..n : path[j] = dir[j] /\ j \in DOMAIN dir
    <3>1. CASE f = <<"db", "migrations">>
      BY <1>2, <2>1, <2>3, <3>1
    <3>2. CASE f = <<"db", "migrations", "init", "migration.sql">>
      BY <1>2, <2>1, <2>3, <3>2
    <3> QED
      BY <3>1, <3>2 DEF Migrations
  <2>6. \A j \in 1..n : path[j] # "db"
    BY <2>1, <2>4 DEF PlainPaths
  <2>7. (n + 1) - 1 = n /\ (n + 1) + 1 = n + 2
    OBVIOUS
  <2> QED
    BY <2>4, <2>6, <2>7 DEF IsMigration
<1>3. ASSUME path = DenoJson PROVE FALSE
  <2>1. CASE place = Config
    <3>1. DenoJson[Len(ProjectPath) + 1] = "deno.json"
      BY DEF DenoJson
    <3>2. /\ Len(ProjectPath) + 1 \in DOMAIN PathOfPlace(place)
          /\ PathOfPlace(place)[Len(ProjectPath) + 1] = "backend.json"
      BY <2>1 DEF PathOfPlace, Config
    <3> QED
      BY <1>3, <3>1, <3>2 DEF IsBelow
  <2>2. CASE place # Config
    <3>1. place \in Modules /\ PathOfPlace(place) = PathOf[place]
      BY <2>2 DEF PathOfPlace
    <3> QED
      BY <1>3, <3>1 DEF PlainPaths
  <2> QED
    BY <2>1, <2>2
<1>4. CASE path = ProjectPath \o <<".opengb", "cache.json">>
  <2>1. Len(ProjectPath) + 1 \in DOMAIN path /\ path[Len(ProjectPath) + 1] = ".opengb"
    BY <1>4
  <2> QED
    BY <2>1 DEF IsGenerated, ShouldPathTriggerRebuild
<1>5. ASSUME NEW m \in Modules, NEW f \in WritesIn(m), path = PathOf[m] \o f
      PROVE  ~ShouldPathTriggerRebuild(path)
  <2>1. CASE f = <<"module.gen.ts">>
    BY <1>1, <1>5, <2>1 DEF ShouldPathTriggerRebuild
  <2>2. CASE f \in Migrations /\ m \in HasDb
    BY <1>2, <1>5, <2>2 DEF ShouldPathTriggerRebuild
  <2> QED
    BY <2>1, <2>2 DEF WritesIn
<1>6. \/ path = ProjectPath \o <<".opengb", "cache.json">> \/ path = DenoJson
      \/ \E m \in Modules : \E f \in WritesIn(m) : path = PathOf[m] \o f
  <2>1. CASE path \in {ProjectPath \o <<".opengb", "cache.json">>, DenoJson}
    BY <2>1
  <2>2. CASE path \notin {ProjectPath \o <<".opengb", "cache.json">>, DenoJson}
    <3>1. PICK m \in {n \in Modules : p[n] # Absent} : path \in {PathOf[m] \o f : f \in WritesIn(m)}
      BY <2>2, Zenon DEF Writes
    <3>2. m \in Modules
      BY <3>1
    <3>3. PICK f \in WritesIn(m) : path = PathOf[m] \o f
      BY <3>1, Zenon
    <3> QED
      BY <3>2, <3>3
  <2> QED
    BY <2>1, <2>2
<1> QED
  BY <1>3, <1>4, <1>5, <1>6

-----------------------------------------------------------------------------
\* What the type of the runs says of each.
LEMMA RunsTyped ==
  ASSUME NEW rs \in Seq(Run), NEW i \in DOMAIN rs
  PROVE  /\ rs[i] \in Run
         /\ rs[i].project \in Projects
         /\ rs[i].state \in {"running", "ended", "stopped"}
<1>1. rs[i] \in Run
  OBVIOUS
<1> QED
  BY <1>1 DEF Run

\* The loop starts at the top with the project loaded, or nothing to load.
LEMMA InitTyped == Init => Typed /\ Live /\ Answered /\ Caught
<1> SUFFICES ASSUME Init PROVE Typed /\ Live /\ Answered /\ Caught
  OBVIOUS
<1>1. OnDisk \in Projects
  BY DEF Init, OnDisk, Projects, Absent
<1>2. Typed
  <2>1. content \in [Modules -> 1..(MaxEdits + 1)] /\ edits \in 0..MaxEdits
    BY DEF Init
  <2>2. runs \in Seq(Run)
    BY DEF Init
  <2>3. \A m \in Modules : content[m] <= edits + 1
    BY DEF Init
  <2> QED
    BY <1>1, <2>1, <2>2, <2>3 DEF Init, Typed
<1>3. Live /\ Answered
  BY DEF Init, Live, Answered
<1>4. Caught
  BY DEF Init, Caught, Current, Loadable
<1> QED
  BY <1>2, <1>3, <1>4

\* Each step keeps the types.
LEMMA NextTyped == Typed /\ [Next]_vars => Typed'
<1> SUFFICES ASSUME Typed, [Next]_vars PROVE Typed'
  OBVIOUS
<1> USE DEF Typed
<1>1. CASE \E m \in Modules : EditModule(m)
  <2> PICK m \in Modules : EditModule(m)
    BY <1>1
  <2>1. content' \in [Modules -> 1..(MaxEdits + 1)] /\ edits' \in 0..MaxEdits
    BY DEF EditModule
  <2>2. \A n \in Modules : content'[n] <= edits' + 1
    BY DEF EditModule
  <2>3. event' \in BOOLEAN /\ (event' => loop = "watching")
    BY DEF EditModule, Sees
  <2>4. broken' \subseteq Modules
    BY DEF EditModule
  <2> QED
    BY <2>1, <2>2, <2>3, <2>4 DEF EditModule, Loaded
<1>2. CASE EditConfig
  <2>1. event' \in BOOLEAN /\ (event' => loop = "watching")
    BY <1>2 DEF EditConfig, Sees
  <2>2. listed' \subseteq Modules /\ edits' \in 0..MaxEdits
    BY <1>2 DEF EditConfig
  <2>3. \A n \in Modules : content'[n] <= edits' + 1
    BY <1>2 DEF EditConfig
  <2> QED
    BY <1>2, <2>1, <2>2, <2>3 DEF EditConfig, Loaded
<1>3. CASE RunFn
  <2>1. runs' \in Seq(Run)
    <3>1. [project |-> project, aborted |-> FALSE, state |-> "running"] \in Run
      BY DEF Run
    <3> QED
      BY <1>3, <3>1 DEF RunFn
  <2>2. /\ loop' = "watching" /\ event' = FALSE /\ watchPaths' = {Config} \cup Loaded'
        /\ UNCHANGED <<listed, content, broken, edits, project, loadProjectSuccess>>
    BY <1>3 DEF RunFn, GetWatchPaths, Loaded
  <2> QED
    BY <2>1, <2>2
<1>4. CASE SeeChange
  <2>1. runs' \in Seq(Run)
    <3>1. \A i \in DOMAIN runs : runs[i] \in Run /\ [runs[i] EXCEPT !.aborted = TRUE] \in Run
      <4> TAKE i \in DOMAIN runs
      <4>1. runs[i] \in Run
        BY RunsTyped
      <4> QED
        BY <4>1 DEF Run
    <3>2. Aborted \in [1..Len(runs) -> Run]
      BY <3>1 DEF Aborted
    <3> QED
      BY <1>4, <3>2 DEF SeeChange
  <2> QED
    BY <1>4, <2>1 DEF SeeChange, Loaded
<1>5. CASE Reload
  <2>1. OnDisk \in Projects
    BY DEF OnDisk, Projects, Absent
  <2>2. project' \in Projects /\ loadProjectSuccess' \in BOOLEAN
    BY <1>5, <2>1 DEF Reload, Loadable
  <2> QED
    BY <1>5, <2>2 DEF Reload, Loaded
<1>6. ASSUME NEW i \in DOMAIN runs, FnWrites(i)
      PROVE  Typed'
  <2>1. event' \in BOOLEAN /\ (event' => loop = "watching")
    BY <1>6 DEF FnWrites, Sees
  <2> QED
    BY <1>6, <2>1 DEF FnWrites, Loaded
<1>7. ASSUME NEW i \in DOMAIN runs, FnEnds(i)
      PROVE  Typed'
  <2>1. runs' \in Seq(Run)
    <3>1. runs[i] \in Run
      BY RunsTyped
    <3> DEFINE r == [runs[i] EXCEPT !.state = IF runs[i].aborted THEN "stopped"
                                                                 ELSE "ended"]
    <3>2. r \in Run
      BY <3>1 DEF Run
    <3>3. runs' = [runs EXCEPT ![i] = r]
      BY <1>7 DEF FnEnds
    <3> HIDE DEF r
    <3> QED
      BY <3>2, <3>3
  <2> QED
    BY <1>7, <2>1 DEF FnEnds, Loaded
<1>8. CASE UNCHANGED vars
  BY <1>8 DEF vars, Loaded
<1> QED
  BY <1>1, <1>2, <1>3, <1>4, <1>5, <1>6, <1>7, <1>8 DEF Next, LoopRuns

\* Each step keeps the others aborted: the run that was live is aborted before the
\* loop gets to start the next.
LEMMA NextLive == Typed /\ Live /\ [Next]_vars => Live'
<1> SUFFICES ASSUME Typed, Live, [Next]_vars PROVE Live'
  OBVIOUS
<1>1. runs \in Seq(Run) /\ DOMAIN runs = 1..Len(runs) /\ Len(runs) \in Nat
  BY DEF Typed
<1>2. CASE \E m \in Modules : EditModule(m)
  BY <1>2 DEF EditModule, Live
<1>3. CASE EditConfig
  BY <1>3 DEF EditConfig, Live
<1>4. CASE RunFn
  <2>1. \A i \in DOMAIN runs : ~(runs[i].state = "running" /\ ~runs[i].aborted)
    BY <1>4 DEF RunFn, Live
  <2>2. CASE loadProjectSuccess
    <3>1. runs' = Append(runs, [project |-> project, aborted |-> FALSE, state |-> "running"])
      BY <1>4, <2>2 DEF RunFn
    <3> QED
      BY <1>1, <1>4, <2>1, <2>2, <3>1 DEF RunFn, Live
  <2>3. CASE ~loadProjectSuccess
    BY <1>4, <2>1, <2>3 DEF RunFn, Live
  <2> QED
    BY <2>2, <2>3
<1>5. CASE SeeChange
  <2> SUFFICES ASSUME NEW i \in DOMAIN runs', runs'[i].state = "running"
               PROVE  runs'[i].aborted
    BY DEF Live
  <2>1. i \in DOMAIN runs /\ runs' = Aborted
    BY <1>1, <1>5 DEF SeeChange, Aborted
  <2>2. CASE i = Len(runs) /\ loadProjectSuccess
    <3>1. runs'[i] = [runs[i] EXCEPT !.aborted = TRUE] /\ runs[i] \in Run
      BY <1>1, <2>1, <2>2 DEF Aborted
    <3> QED
      BY <3>1 DEF Run
  <2>3. CASE ~(i = Len(runs) /\ loadProjectSuccess)
    <3>1. runs'[i] = runs[i]
      BY <2>1, <2>3 DEF Aborted
    <3> QED
      BY <2>1, <2>3, <3>1 DEF Live
  <2> QED
    BY <2>2, <2>3
<1>6. CASE Reload
  BY <1>6 DEF Reload, Live
<1>7. ASSUME NEW i \in DOMAIN runs, FnWrites(i)
      PROVE  Live'
  BY <1>7 DEF FnWrites, Live
<1>8. ASSUME NEW i \in DOMAIN runs, FnEnds(i)
      PROVE  Live'
  <2>1. /\ DOMAIN runs' = DOMAIN runs /\ Len(runs') = Len(runs)
        /\ runs'[i].state # "running"
        /\ \A n \in DOMAIN runs : n # i => runs'[n] = runs[n]
    BY <1>1, <1>8 DEF FnEnds, Run
  <2> QED
    BY <1>8, <2>1 DEF FnEnds, Live
<1>9. CASE UNCHANGED vars
  BY <1>9 DEF vars, Live
<1> QED
  BY <1>2, <1>3, <1>4, <1>5, <1>6, <1>7, <1>8, <1>9 DEF Next, LoopRuns

\* Each step keeps the runs within the edits: only a run makes one more, and only an
\* edit an event.
LEMMA NextAnswered ==
  ASSUME PlainPaths
  PROVE  Typed /\ Answered /\ [Next]_vars => Answered'
<1> SUFFICES ASSUME Typed, Answered, [Next]_vars PROVE Answered'
  OBVIOUS
<1>1. /\ runs \in Seq(Run) /\ DOMAIN runs = 1..Len(runs) /\ Len(runs) \in Nat
      /\ edits \in Nat /\ event \in BOOLEAN /\ (event => loop = "watching")
  BY DEF Typed
<1>2. CASE \E m \in Modules : EditModule(m)
  BY <1>1, <1>2 DEF EditModule, Answered
<1>3. CASE EditConfig
  BY <1>1, <1>3 DEF EditConfig, Answered
<1>4. CASE RunFn
  <2>1. Len(runs') <= Len(runs) + 1
    BY <1>1, <1>4 DEF RunFn
  <2>2. runs' \in Seq(Run)
    BY <1>4, NextTyped DEF Typed
  <2> QED
    BY <1>1, <1>4, <2>1, <2>2 DEF RunFn, Answered
<1>5. CASE SeeChange
  <2>1. Len(runs') = Len(runs)
    BY <1>1, <1>5 DEF SeeChange, Aborted
  <2> QED
    BY <1>1, <1>5, <2>1 DEF SeeChange, Answered
<1>6. CASE Reload
  BY <1>1, <1>6 DEF Reload, Answered
<1>7. ASSUME NEW i \in DOMAIN runs, FnWrites(i)
      PROVE  Answered'
  <2>1. PICK path \in Writes(runs[i].project) : Sees(path)
    BY <1>7 DEF FnWrites
  <2>2. runs[i].project \in Projects
    BY <1>1, RunsTyped DEF Typed
  <2>3. watchPaths \subseteq {Config} \cup Modules
    BY DEF Typed, Loaded
  <2>4. ~((\E place \in watchPaths : IsBelow(path, PathOfPlace(place)))
            /\ ShouldPathTriggerRebuild(path))
    BY <2>1, <2>2, <2>3, WritesDoNotTrigger
  <2>5. event' = event
    BY <1>1, <2>1, <2>4 DEF Sees
  <2> QED
    BY <1>7, <2>5 DEF FnWrites, Answered
<1>8. ASSUME NEW i \in DOMAIN runs, FnEnds(i)
      PROVE  Answered'
  <2>1. Len(runs') = Len(runs)
    BY <1>1, <1>8 DEF FnEnds
  <2> QED
    BY <1>8, <2>1 DEF FnEnds, Answered
<1>9. CASE UNCHANGED vars
  BY <1>9 DEF vars, Answered
<1> QED
  BY <1>2, <1>3, <1>4, <1>5, <1>6, <1>7, <1>8, <1>9 DEF Next, LoopRuns

\* Each step keeps the loop current, where edits fall while something is watched and
\* break only what was loaded.
LEMMA NextCaught ==
  ASSUME GapEdits = FALSE, BrokenNew = FALSE, PlainSources
  PROVE  Typed /\ Caught /\ [Next]_vars => Caught'
<1> SUFFICES ASSUME Typed, Caught, [Next]_vars PROVE Caught'
  OBVIOUS
<1>1. /\ event \in BOOLEAN /\ (event => loop = "watching")
      /\ watchPaths = IF loop = "watching" THEN {Config} \cup Loaded ELSE {}
      /\ content \in [Modules -> 1..(MaxEdits + 1)]
      /\ listed \subseteq Modules
  BY DEF Typed
<1>2. ASSUME NEW m \in Modules, EditModule(m)
      PROVE  Caught'
  <2>1. loop = "watching" /\ UNCHANGED <<listed, loop, project, loadProjectSuccess>>
    BY <1>2 DEF EditModule
  <2>2. Loaded' = Loaded
    BY <2>1 DEF Loaded
  <2>3. broken' = broken \ {m} \/ (m \in Loaded /\ broken' = broken \cup {m})
    BY <1>2 DEF EditModule
  <2>4. event \/ m \in Loaded => event'
    <3>1. PICK file \in Sources : Sees(PathOf[m] \o file)
      BY <1>2 DEF EditModule
    <3>2. ShouldPathTriggerRebuild(PathOf[m] \o file)
      BY UserPathTriggers DEF PlainSources
    <3>3. PathOfPlace(m) = PathOf[m] /\ IsBelow(PathOf[m] \o file, PathOf[m])
      BY BelowItsDir DEF PathOfPlace, Config
    <3>4. m \in Loaded => m \in watchPaths
      BY <1>1, <2>1
    <3> QED
      BY <3>1, <3>2, <3>3, <3>4 DEF Sees
  <2>5. listed' \cap broken' \subseteq Loaded'
    BY <2>1, <2>2, <2>3 DEF Caught
  <2>6. ASSUME ~event'
        PROVE  Current'
    <3>1. Current /\ m \notin Loaded /\ broken' = broken \ {m}
      BY <2>1, <2>3, <2>4, <2>6 DEF Caught
    <3>2. m \notin listed \cap broken
      BY <3>1 DEF Caught
    <3>3. Loadable' <=> Loadable
      BY <2>1, <3>1, <3>2 DEF Loadable
    <3>4. CASE Loadable
      <4>1. project = OnDisk /\ loadProjectSuccess
        BY <3>1, <3>4 DEF Current
      <4>2. m \notin listed
        BY <1>1, <3>1, <4>1 DEF Loaded, OnDisk, Absent
      <4>3. OnDisk' = OnDisk
        BY <1>1, <1>2, <2>1, <4>2 DEF EditModule, OnDisk
      <4> QED
        BY <2>1, <3>3, <3>4, <4>1, <4>3 DEF Current
    <3>5. CASE ~Loadable
      BY <2>1, <3>1, <3>3, <3>5 DEF Current
    <3> QED
      BY <3>4, <3>5
  <2> QED
    BY <2>1, <2>5, <2>6 DEF Caught
<1>3. CASE EditConfig
  <2>1. /\ loop = "watching" /\ UNCHANGED <<loop, project, broken>>
        /\ listed' \cap broken \subseteq Loaded
    BY <1>3 DEF EditConfig
  <2>2. event'
    <3>1. ShouldPathTriggerRebuild(PathOfPlace(Config))
      BY UserPathTriggers DEF PlainSources
    <3>2. IsBelow(PathOfPlace(Config), PathOfPlace(Config)) /\ Config \in watchPaths
      BY <1>1, <2>1 DEF IsBelow
    <3> QED
      BY <1>3, <3>1, <3>2 DEF EditConfig, Sees
  <2> QED
    BY <2>1, <2>2 DEF Caught, Loaded
<1>4. CASE RunFn
  BY <1>4 DEF RunFn, Caught, Current, Loadable, OnDisk, Loaded
<1>5. CASE SeeChange
  BY <1>5 DEF SeeChange, Caught, Loaded
<1>6. CASE Reload
  <2>1. UNCHANGED <<listed, content, broken>> /\ loop' = "top"
    BY <1>6 DEF Reload
  <2>2. (Loadable' <=> Loadable) /\ OnDisk' = OnDisk
    BY <2>1 DEF Loadable, OnDisk
  <2>3. CASE Loadable
    <3>1. project' = OnDisk /\ loadProjectSuccess' /\ listed' \cap broken' = {}
      BY <1>6, <2>1, <2>3 DEF Reload, Loadable
    <3> QED
      BY <2>2, <2>3, <3>1 DEF Caught, Current
  <2>4. CASE ~Loadable
    <3>1. project' = project /\ ~loadProjectSuccess'
      BY <1>6, <2>4 DEF Reload
    <3> QED
      BY <2>1, <2>2, <2>4, <3>1 DEF Caught, Current, Loaded
  <2> QED
    BY <2>3, <2>4
<1>7. ASSUME NEW i \in DOMAIN runs, FnWrites(i)
      PROVE  Caught'
  <2>1. event => event'
    BY <1>7 DEF FnWrites, Sees
  <2> QED
    BY <1>7, <2>1 DEF FnWrites, Caught, Current, Loadable, OnDisk, Loaded
<1>8. ASSUME NEW i \in DOMAIN runs, FnEnds(i)
      PROVE  Caught'
  BY <1>8 DEF FnEnds, Caught, Current, Loadable, OnDisk, Loaded
<1>9. CASE UNCHANGED vars
  BY <1>9 DEF vars, Caught, Current, Loadable, OnDisk, Loaded
<1> QED
  BY <1>2, <1>3, <1>4, <1>5, <1>6, <1>7, <1>8, <1>9 DEF Next, LoopRuns

-----------------------------------------------------------------------------
\* The state of the watch loop is well typed (watch/mod.ts).
THEOREM TypeCorrect == Spec => []TypeOK
<1>1. ASSUME Typed PROVE TypeOK
  <2> USE <1>1 DEF Typed
  <2>1. (loop = "watching") = (Config \in watchPaths)
    <3>1. CASE loop = "watching"
      BY <3>1, Config \in watchPaths, Zenon
    <3>2. CASE loop # "watching"
      <4>1. (loop = "watching") = FALSE /\ (Config \in watchPaths) = FALSE
        BY <3>2
      <4> QED
        BY <4>1
    <3> QED
      BY <3>1, <3>2
  <2>2. watchPaths \subseteq Modules \cup {Config}
    BY DEF Loaded
  <2>3. \A i \in DOMAIN runs : /\ runs[i].project \in Projects
                               /\ runs[i].state \in {"running", "ended", "stopped"}
    BY RunsTyped
  <2> QED
    BY <2>1, <2>2, <2>3 DEF TypeOK
<1> QED
  BY <1>1, InitTyped, NextTyped, PTL DEF Spec

\* At most one function runs that nobody aborted, on the project loaded now: the loop
\* aborts it before it loads and starts the next (watch/mod.ts:91-95).
THEOREM OneRunIsLive == Spec => []OneLiveRun
<1>1. Live => OneLiveRun
  BY DEF Live, OneLiveRun
<1> QED
  BY <1>1, InitTyped, NextTyped, NextLive, PTL DEF Spec

\* The loop runs a function once at first and then once per edit at most, whatever
\* the functions write, aborted ones included: shouldPathTriggerRebuild lets no
\* watched file of theirs through, where no module with a database is in or below
\* a directory called "db" and no module's directory holds the project.
THEOREM EveryRunAnswersAnEdit ==
  ASSUME PlainPaths
  PROVE  Spec => []RunsAnswerEdits
<1>1. Typed /\ Answered => RunsAnswerEdits
  BY DEF Typed, Answered, RunsAnswerEdits
<1>2. Typed /\ Answered /\ [Next]_vars => Answered'
  BY NextAnswered
<1> QED
  BY <1>1, <1>2, InitTyped, NextTyped, PTL DEF Spec

\* If edits fall while the watcher is open, break only modules that were loaded
\* before, and are of files that are not generated or migrations, the loop never
\* waits on a project that is not the one on the disk.
THEOREM NoEditIsMissed ==
  ASSUME GapEdits = FALSE, BrokenNew = FALSE, PlainSources
  PROVE  Spec => []NothingMissed
<1>1. Caught => NothingMissed
  BY DEF Caught, Current, NothingMissed
<1>2. Typed /\ Caught /\ [Next]_vars => Caught'
  BY NextCaught
<1> QED
  BY <1>1, <1>2, InitTyped, NextTyped, PTL DEF Spec
=============================================================================
