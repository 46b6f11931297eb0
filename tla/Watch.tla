-------------------------------- MODULE Watch --------------------------------
(***************************************************************************)
(* src/watch/mod.ts: the loop behind --watch.  It runs a function (a build *)
(* and what follows it) on the loaded project, waits for a change, aborts  *)
(* the function and loads the project again.  The user edits modules of    *)
(* the local registry and backend.json at any time.                        *)
(***************************************************************************)
EXTENDS Integers, Sequences, FiniteSets

CONSTANTS
  Modules,      \* the modules of the local registry
  HasDb,        \* the modules with a database
  ProjectPath,  \* the directory of the project, as the sequence of its segments
  PathOf,       \* the directory of each module
  Sources,      \* the files of a module the user edits, as paths below it
  MaxEdits,     \* bound: edits the user makes
  GapEdits,     \* may an edit fall where nothing is watched?
  BrokenNew     \* may a module be broken before it was ever loaded?

ASSUME WatchAssumption == MaxEdits \in Nat /\ {GapEdits, BrokenNew} \subseteq BOOLEAN
ASSUME PathsAssumption ==
  /\ HasDb \subseteq Modules /\ "backend.json" \notin Modules
  /\ ProjectPath \in Seq(STRING) /\ PathOf \in [Modules -> Seq(STRING)]
  /\ Sources \subseteq Seq(STRING)

VARIABLES
  listed,       \* the modules backend.json lists
  content,      \* per module: the version of its sources
  broken,       \* the modules loadModule refuses
  edits,        \* edits made so far
  loop,         \* where the loop is: "top", "watching" or "loading"
  watchPaths,   \* what the open watcher watches: modules, and backend.json
  event,        \* has it an event that triggers a rebuild?
  project,      \* the loaded project: per module its version, or Absent
  loadProjectSuccess,
  runs          \* the functions started so far, in order

vars == <<listed, content, broken, edits, loop, watchPaths, event, project,
          loadProjectSuccess, runs>>

Config == "backend.json"
Absent == 0

\* loadProject: the project on the disk, and whether it throws.
OnDisk == [m \in Modules |-> IF m \in listed THEN content[m] ELSE Absent]
Loadable == listed \cap broken = {}

Loaded == {m \in Modules : project[m] # Absent}

Init ==
  /\ listed \in SUBSET Modules
  /\ content = [m \in Modules |-> 1]
  /\ broken = {}
  /\ edits = 0
  /\ loop = "top"
  /\ watchPaths = {}
  /\ event = FALSE
  /\ project = OnDisk
  /\ loadProjectSuccess = TRUE
  /\ runs = <<>>

-----------------------------------------------------------------------------
\* The paths of what is watched, and of what changes.
PathOfPlace(place) ==
  IF place = Config THEN ProjectPath \o <<Config>> ELSE PathOf[place]

IsBelow(path, dir) == \A k \in DOMAIN dir : k \in DOMAIN path /\ path[k] = dir[k]

\* shouldPathTriggerRebuild: not a generated file, and not where the first
\* "db" of the path is followed by "migrations".  The mutant forgets that
\* Prisma's migrations are written by the functions too.
IsGenerated(path) == \E k \in DOMAIN path : path[k] \in {".opengb", "module.gen.ts"}
IsMigration(path) ==
  \E k \in DOMAIN path :
    /\ path[k] = "db" /\ \A j \in 1..(k - 1) : path[j] # "db"
    /\ k + 1 \in DOMAIN path /\ path[k + 1] = "migrations"
TriggersUnlessGenerated(path) == ~IsGenerated(path)
ShouldPathTriggerRebuild(path) == ~IsGenerated(path) /\ ~IsMigration(path)

\* The watcher sees the file at `path` change.
Sees(path) ==
  event' = (event \/ /\ \E place \in watchPaths : IsBelow(path, PathOfPlace(place))
                     /\ ShouldPathTriggerRebuild(path))

\* The user changes a module's sources, and may break or mend it.
EditModule(m) ==
  /\ edits < MaxEdits /\ (GapEdits \/ loop = "watching")
  /\ edits' = edits + 1
  /\ content' = [content EXCEPT ![m] = @ + 1]
  /\ \/ broken' = broken \ {m}
     \/ (BrokenNew \/ m \in Loaded) /\ broken' = broken \cup {m}
  /\ \E file \in Sources : Sees(PathOf[m] \o file)
  /\ UNCHANGED <<listed, loop, watchPaths, project, loadProjectSuccess, runs>>

\* The user adds a module to backend.json, or removes one.
EditConfig ==
  /\ edits < MaxEdits /\ (GapEdits \/ loop = "watching")
  /\ edits' = edits + 1
  /\ \E m \in Modules :
       listed' = IF m \in listed THEN listed \ {m} ELSE listed \cup {m}
  /\ BrokenNew \/ (listed' \cap broken \subseteq Loaded)
  /\ Sees(PathOfPlace(Config))
  /\ UNCHANGED <<content, broken, loop, watchPaths, project, loadProjectSuccess,
                 runs>>

-----------------------------------------------------------------------------
\* getWatchPaths; the mutants watch backend.json alone, or forget it.
ConfigOnly == {Config}
ModulesOnly == Loaded
GetWatchPaths == {Config} \cup Loaded

\* The top of the loop, after stty: run the function, if there is a project to
\* run it on, and open the watcher, in the same turn of the event loop.
RunFn ==
  /\ loop = "top"
  /\ loop' = "watching"
  /\ runs' = IF loadProjectSuccess
               THEN Append(runs, [project |-> project, aborted |-> FALSE,
                                  state |-> "running"])
               ELSE runs
  /\ watchPaths' = GetWatchPaths
  /\ event' = FALSE
  /\ UNCHANGED <<listed, content, broken, edits, project, loadProjectSuccess>>

\* What abort leaves of the functions; the mutant forgets it.
NotAborted == runs
Aborted ==
  [i \in DOMAIN runs |-> IF i = Len(runs) /\ loadProjectSuccess
                           THEN [runs[i] EXCEPT !.aborted = TRUE] ELSE runs[i]]

\* An event that triggers: leave the watcher, which closes it, and abort.
SeeChange ==
  /\ loop = "watching" /\ event
  /\ loop' = "loading"
  /\ watchPaths' = {}
  /\ event' = FALSE
  /\ runs' = Aborted
  /\ UNCHANGED <<listed, content, broken, edits, project, loadProjectSuccess>>

\* loadProject; when it throws, the old project stays.
Reload ==
  /\ loop = "loading"
  /\ loop' = "top"
  /\ loadProjectSuccess' = Loadable
  /\ project' = IF Loadable THEN OnDisk ELSE project
  /\ UNCHANGED <<listed, content, broken, edits, watchPaths, event, runs>>

\* What a function on the project p writes: the helper of each module, the
\* migrations of those with a database, .opengb and deno.json.
Migrations == {<<"db", "migrations">>, <<"db", "migrations", "init", "migration.sql">>}
WritesIn(m) == {<<"module.gen.ts">>} \cup IF m \in HasDb THEN Migrations ELSE {}
DenoJson == ProjectPath \o <<"deno.json">>
Writes(p) ==
  {ProjectPath \o <<".opengb", "cache.json">>, DenoJson}
    \cup UNION {{PathOf[m] \o f : f \in WritesIn(m)} : m \in {n \in Modules : p[n] # Absent}}

\* A function writes a file.  An aborted one does too: it stops at its next
\* throwIfAborted only.
FnWrites(i) ==
  /\ runs[i].state = "running"
  /\ \E path \in Writes(runs[i].project) : Sees(path)
  /\ UNCHANGED <<listed, content, broken, edits, loop, watchPaths, project,
                 loadProjectSuccess, runs>>

\* A function returns, throws, or notices that it is aborted.
FnEnds(i) ==
  /\ runs[i].state = "running"
  /\ runs' = [runs EXCEPT ![i].state = IF runs[i].aborted THEN "stopped" ELSE "ended"]
  /\ UNCHANGED <<listed, content, broken, edits, loop, watchPaths, event, project,
                 loadProjectSuccess>>

-----------------------------------------------------------------------------
LoopRuns == RunFn \/ SeeChange \/ Reload

Next ==
  \/ \E m \in Modules : EditModule(m)
  \/ EditConfig
  \/ LoopRuns
  \/ \E i \in DOMAIN runs : FnWrites(i) \/ FnEnds(i)

\* The loop goes on as its promises settle; an aborted function comes to a
\* throwIfAborted, and one that is not runs to its end.
Spec == /\ Init /\ [][Next]_vars /\ WF_vars(LoopRuns)
        /\ \A i \in 1..(MaxEdits + 1) : WF_vars(i \in DOMAIN runs /\ FnEnds(i))

-----------------------------------------------------------------------------
Projects == [Modules -> 0..(MaxEdits + 1)]

\* The state is well typed, and the watcher is open where it is waited on.
TypeOK ==
  /\ listed \subseteq Modules /\ broken \subseteq Modules
  /\ content \in [Modules -> 1..(MaxEdits + 1)]
  /\ edits \in 0..MaxEdits
  /\ loop \in {"top", "watching", "loading"}
  /\ watchPaths \subseteq Modules \cup {Config}
  /\ (loop = "watching") = (Config \in watchPaths)
  /\ event \in BOOLEAN /\ loadProjectSuccess \in BOOLEAN
  /\ project \in Projects
  /\ \A i \in DOMAIN runs : /\ runs[i].project \in Projects
                            /\ runs[i].state \in {"running", "ended", "stopped"}

\* At most one function runs that nobody aborted: the last one, on the project
\* that is loaded now.
OneLiveRun ==
  \A i \in DOMAIN runs :
    runs[i].state = "running" /\ ~runs[i].aborted =>
      i = Len(runs) /\ runs[i].project = project

\* What the functions write, helpers, migrations and the project's outputs,
\* never makes the loop run them again: each run but the first answers an edit
\* of the user.  A module with a database whose path has a "db" before its own
\* breaks this: the first "db" is not the one its migrations follow.
RunsAnswerEdits == Len(runs) <= edits + 1

\* "Automatically rebuild on changes" (cli/commands/build.ts:9): when the loop
\* waits and has nothing to react to, the last project it loaded is the one on
\* the disk, or that one cannot be loaded.
NothingMissed ==
  loop = "watching" /\ ~event =>
    IF Loadable THEN loadProjectSuccess /\ project = OnDisk
                ELSE ~loadProjectSuccess

\* Once the user stops at a project that loads, its function runs to the end
\* (a build, or the tests; the server of dev runs until the next abort).
LastEditRuns ==
  edits = MaxEdits /\ Loadable ~>
    runs # <<>> /\ runs[Len(runs)].project = OnDisk /\ runs[Len(runs)].state = "ended"
=============================================================================
