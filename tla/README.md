# A TLA+ model of Open Game Backend

This directory holds specifications of the parts of the repository where order
matters: events, awaits, failures and restarts. Each module is translated from
the TypeScript source named in its header; `PROJECT.json` maps every definition
to the lines it stands for. TLC checks each module on a small instance, and
TLAPS proves the safety properties of each for every instance.

Paths below are relative to `src/` of the repository unless they name a file of
this directory.

## The system

The program is a command line tool (`cli/`) around five activities.

1. **Load the project.** `project/project.ts` reads `backend.json`, resolves the
   registries (`project/registry.ts`, local directories or git clones), copies
   external modules under `.opengb`, and reads each module's `module.json`,
   scripts and actors (`project/module.ts`).
2. **Build it.** `build/mod.ts` loads the cache (`build_state/cache.ts`), and
   `build/plan/` declares build steps phase by phase (`build_state/mod.ts`).
   Steps of a phase run in parallel; between phases the plan waits for all of
   them and saves the cache. Some steps derive JSON schemas in Web Workers
   (`utils/worker_pool.ts`), others write generated files or run migrations.
3. **Watch it.** With `--watch`, `watch/mod.ts` runs a function (a build and what
   follows it), waits for a file to change, aborts the function, and reloads.
4. **Migrate the databases.** `migrate/` runs Prisma in a container against a
   Postgres in another one (`utils/postgres_daemon.ts`).
5. **Run the backend.** The generated entrypoint makes a `Runtime`
   (`runtime/`): an HTTP server, or a test, whose contexts call scripts that
   call scripts of other modules. Scripts use databases (`runtime/postgres.ts`)
   and actors (`runtime/actor.ts` over a driver of `dynamic/`).

| Component | State | Operations | Interacts with | What is hard, and must hold |
|---|---|---|---|---|
| Worker pools | all pools, one slot counter, one queue, each pool's workers, promises | create pool, run job, message, error, shut down | schema compilers call it; shutdown handler | counter against busy workers, no lost or doubled job, order, no starvation, errors, shutdown in the middle |
| Build state and plan | cache on disk and in memory, promises of the phase, schemas in the project | plan, hash, build, wait, save, abort | project files, worker pools, watch | skipping only what is up to date, after failed, aborted, killed, mode-changing builds and edits at any time |
| Watch loop | project, running function, watcher | run, see change, abort, reload | build, user's edits | one live run, no missed edit, no run caused by a run |
| Runtime contexts and server | a tree of calls in flight, responses | request, call, return, throw | scripts, pools | traces and errors of the right call, private scripts, every request answered |
| Runtime pools | pool per database, shutdown flag | get or create, shutdown | contexts, tests | none opened after shutdown, none missing |
| Actors (Deno) | map of actors and storages | id, exists, create, get, call, storage | scripts | interleaved clients, identity of handles |
| Actors (Cloudflare) | durable storage | the same | scripts | partial initialisation, overlapping calls, what the input gates order and what not |
| Migrations | databases, containers, migration files, generated clients | deploy, dev, reset, status, generate | Once, daemon, shutdown, build steps, `db` commands | lanes in parallel and from two runs, check-then-create, stop between empty and copy |
| Once, shutdown, daemon | a cached promise, handlers, two containers | init, run | migrations, cli | rejected promise kept, first rejection ends the wait |
| Project and registries | `.opengb` directories, git clones | load, clone, fetch, checkout, copy, check, clean | everything | kill between steps, refs the clone does not know, changed clones |
| Command line | the command, its run | build, db, clean, exit | everything | commands over what failed, killed or aborted ones left |
| Identifiers, generators, other commands, templates | none | pure functions or one-shot output | | pure algorithms only |

## Modules

| Module | Models | Role |
|---|---|---|
| `WorkerPool` | `utils/worker_pool.ts` | one action per exported function and event handler |
| `JobScheduler` | (abstract) | what the pools promise; `WorkerPool` implements it |
| `WorkerPoolProofs` | | theorems about the slots, jobs and shutdown of `WorkerPool`, and that it implements `JobScheduler` |
| `Build` | `build_state/`, `build/mod.ts`, `build/plan/` | builds, edits, failures, kills, over a plan of steps |
| `Watch` | `watch/mod.ts` | the loop, the runs, the user |
| `Runtime` | `runtime/{context,error,trace,server,postgres,runtime}.ts` | calls as a tree of frames |
| `ActorDeno` | `dynamic/actor.ts`, `runtime/actor.ts` | clients switching at each await |
| `ActorCf` | `dynamic/actor_cf.ts` | extends `ActorDeno`: the clients over either driver |
| `Project` | `project/{project,registry,module}.ts` | the load of a module from its registry, await by await |
| `Migrate` | `migrate/`, `utils/{once,postgres_daemon,shutdown_handler}.ts` | lanes of Prisma commands and what they share |
| `Cli` | `cli/`, `build/plan/project.ts` | composes `Project` and `Migrate` into commands, with kills and watching |
| `BuildProofs`, `WatchProofs`, `RuntimeProofs` | | theorems about `Build`, `Watch`, `Runtime` |
| `ActorProofs` | | theorems about both drivers |
| `ProjectProofs`, `CliProofs`, `MigrateProofs` | | theorems about `Cli`: what is loaded; the commands and what they share; databases, trees and the cache. Each extends the one before |
| `MC...` | | values of the constants for TLC |

**WorkerPool.** The program is single-threaded: an action is one turn of the
event loop. `workers[p]` is the pool's array; a worker's `busy` flag and the job
its handlers close over are one field, `job`. `alive` says whether the runtime
still runs it. `Tick` is `tickGlobalState` as its callers leave the state to it:
the loop of the code starts at most one job per tick, which is an invariant
(`WorkConserving`) and a theorem (`NoIdleSlot`), not an assumption about the
code. `ErrorEndsWorker` says whether the runtime closes a worker that throws, as Deno
does; it is TRUE in the runs.
`Next` is the program, which only shuts down all pools at once; `ApiNext` adds
`shutdownPool` alone.

**Build.** A file's content is a number and its hash the same number; 0 is a file
that does not exist. A step's generated files are remembered as the contents
they were made from, so "up to date" means "made from what is there now".
`Parses` are the steps that put schemas in the project and in the cache,
`Loaded` the files the project was loaded from before the build began. The
source conditions a config parse on `config.ts` only when schemas are strict,
and a parse on the mode; `Hashed` and `Hash` follow it. Both outcomes of a wait,
the signal's checks, and the write of the cache are separate actions; `Kill` may
hit the write, which leaves text that `loadCache` resets. A step reads what it
is conditioned on; scripts that import other files are outside it. `workerClosed`
is what finding 1 makes of the pools: once a parse has thrown in its worker, a later
one of the same process may never be answered (`ParseHangs`).

**Watch.** The loop has three places: at the top, waiting on the watcher, and
loading. `runs` is the history of the functions started. An aborted function
goes on until its next check, so it may still write. Paths are sequences of
segments, and `ShouldPathTriggerRebuild` tests those as the code does; `Writes` is
what a function writes, each file at its path. The user edits module sources or
`backend.json` and may break modules. `GapEdits` allows edits while
no watcher is open, `BrokenNew` modules that are broken before they were loaded.

**Runtime.** Each call of a script is a frame with its caller, trace and state.
A frame may start calls, receive an error one of them threw, rethrow it, throw
its own, or return, while its calls still run. An error is a record with the
fields `enrich` overwrites and, for the properties only, its `origin`. A call
that rejects without its caller looking ends the process (`crashed`), as nothing in
`runtime/` handles such a rejection. The status 200 stands for 204 too. A runtime
serves or runs one test; only tests shut it down.

**ActorDeno and ActorCf.** Clients are scripts such as
`tests/basic/modules/foo/scripts/actor.ts` and the method is `addPong` of the same
module. Each await is a place where the event loop may switch. `Id` builds the
joined name whose hash is the key, as a sequence of characters. `ActorCf` adds the
variable `driver`, which is what `build/entrypoint.ts` picks by runtime. Its durable
objects have a storage; while an event of an object awaits its storage, the
input gate keeps the object's other events out (`Gate`, external), and a method that
awaits anything else opens it (`outside`). The code that runs is the copy of both
drivers inside `build/entrypoint.ts`. (In the Cloudflare copy the `\n` of a commented
line is not escaped, line 134, so the generated file has half of the comment as
code; the model takes `dynamic/actor_cf.ts`.)

**Project.** One module of one registry: git, a shared local directory
(`isExternal`), or a local one. Loading is sequential, so more modules repeat these
steps. A commit of the remote is a number; `Side` is on another branch. The clone has the
local names and commits git would have, what is checked out, and what is wrong with
it (`dirt`): files changed, files untracked, an index lock. A git that is killed leaves
any of the states git passes through (`KilledClones`), untracked files and the lock
included. `ext` is the copy of the module under `.opengb`: the version copied, whether
untracked files came with it, and the version its `module.gen.ts` was made from;
`cached` is what `cache.json` says of the latter. `genLost` is history: the file was
lost on the way to the temporary directory and back, or written by a build that then
failed.

**Migrate.** A lane is a call of `forEachDatabase`: its place (`pc`), the modules it
has still to do, its signal and its directory in the Prisma workspace. A module's
schema is a version, a migration is named by the version it leads to. The creations
of the three `Once`s are steps of their own; `docker run` and the loop around
`pg_isready` are two, and the container may die between them. `Prisma` is what the
command does to the database and to the workspace: `dev` adds a missing migration, and
resets a database that has migrations without a file, as Prisma does when the user
agrees. `torn` is history: modules of which a command was stopped between Prisma's work
and the end of the copy back, or which an aborted run may still write.

**Cli.** A command goes from `initProject` to `Deno.exit`: `stage` is the phase of
the build whose steps run, or that of the command. `mem` and `saved` are the hashes
of the Prisma steps in the cache in memory and on disk; the other steps are in
`Build`. With `watch`, `Change` aborts the run, loads the project anew and turns
`slot`, so that the lanes of the old run go on beside those of the new one. `Kill`
ends the process anywhere before its shutdown. A `world` is a kind of project and
of user, chosen in `Init`; its `back` says whether `backend.json` may go back to an
older version of the module.

## Runs

| Run | Bounds | Shows |
|---|---|---|
| `WorkerPool` | 5 jobs, 2 pools, 2 slots | types; `SlotsMatchBusy`, `WorkConserving`, `JobHeldOnce`, `PoolSizeBounded`, `NoOpenPoolLeft`; `StartsInOrder`; `JobSettles`; refinement of `JobScheduler` |
| `WorkerPoolDead` | the same | violation of `BusyWorkerRuns` |
| `Build` | two plans: 2 files (one may be missing), 3 steps, 2 phases, 2 contents a file, with failures, aborts and kills; 2 files of a helper whose contents are restored | types, `UpToDate`, `SchemaFound`, `PhasesInOrder`, `SavedWhenDone`, `BuildEnds` |
| `BuildMidEdit` | `module.json`, 2 steps | violation of `UpToDate` |
| `BuildDelete` | `config.ts`, 2 steps | violation of `UpToDate` |
| `Runtime` | 2 requests, 2 modules, 3 calls | types, `TraceIsCallChain`, `PrivateFromInside`, `ResponseMatchesCall`, `FrameHasPool`, `PoolsStayClosed`, `RequestAnswered` |
| `RuntimeOrigin` | 1 request, 3 calls | violation of `ErrorNamesOrigin` |
| `Actors` | both drivers, 2 clients, 3 classes of which 2 share a storage id, 2 labels, 3 runs | types, `SeenIsCallable`, `HandleOfItsClass`, `UpdatesKept` |
| `Cli` | 6 worlds, see below | types, `LoadedIsPinned`, `RevLoads`, `GenKept`, `PrismaIsPrepared`, `AppliedInTree`, `MigratedWhenDone`, `NodeContainerGone`, `CommandEnds` |
| `RegistryRef` | git world, another branch and a tag | violation of `FetchedLoads` |
| `Watch` | 2 modules, one with a database and one called `db`, 3 edits | types, `OneLiveRun`, `RunsAnswerEdits`, `NothingMissed`, `LastEditRuns` |
| `WatchGap` | the same, `GapEdits` | violation of `NothingMissed` |

The worlds of `Cli`: `GitWorld`, three commands (build, clean) over a git registry with
revisions, a tag and the default branch, named in any order, and a version that does not
check; `UpgradeWorld`, two commands (migrate, clean) over a module with a database from
such a registry, of which no older version is named than before; `SharedWorld`, a
watched build over a shared registry with a database, three runs; `LocalWorld`, two
builds of two local modules, whose Prisma steps run in parallel; `WatchWorld`, a watched
build over a local module, with Docker not running at first and the schema edited;
`DbWorld`, three commands among all that work on a database.

Run one with `tlc -config WorkerPool.cfg MCWorkerPool`.

**Why the bounds are enough.** Two slots and five jobs over two pools give a full pool,
a full queue, a free slot next to a pool with no idle worker, and a worker reused across
jobs. `JobScheduler` has no state the small instance does not reach. For all safety
properties the theorems below remove the bounds altogether; what follows matters for
liveness, and for finding out what to prove. For builds, two contents per file
distinguish "before" from "after"; a failure, an abort and a kill may each follow any
edit, and a build runs against whatever they left. Two phases are the least in which one
waits for another. In `Runtime`, three calls make a chain of three, two siblings, or
calls of two requests. Two clients are the least that interleave, and three runs allow
one to create, the other to use, and a handle to be used again. Three commands are the
least in which one builds, one does something else, and one builds over both; two
versions of a local module are an old and a new schema, and of a git registry's three
are two of the default branch and one beside it; an aborted run and the next are all the
code lets overlap before the old one notices. Three edits let the loop be broken,
repaired and then edited once more.

**Where a bound or an exception hides something.**

- The plan of `Build` whose contents are restored has no failing builds: with both,
  `UpToDate` is violated, because a failed phase leaves files newer than the saved
  cache, and restoring the sources makes the old hashes match again
  (`build_state/mod.ts:182`). In that plan files change between builds only. For the
  same reason no schema of `Cli` goes back to an earlier version.
- No plan has a config parse over a file that may be missing: with loose schemas
  the parse is conditioned on no file (`build/plan/module.ts:23`), so a `config.ts`
  that comes or goes between two loose builds leaves the old schema, which only
  `build/meta.ts` then reads.
- `Watch` does not let a module be broken before it is first loaded: it is then not
  among the watched paths (`watch/mod.ts:115`) and mending it is missed until
  `backend.json` is touched.
- `AppliedInTree`, `MigratedWhenDone` and the whole copy of `PrismaIsPrepared` except
  modules in `torn`. What is excepted does happen: a command killed or failing after
  Prisma migrated leaves migrations in the database that the tree does not have
  (`migrate/dev.ts:62`), and a lane past its last signalled await writes files of
  the run before, whatever the new run has read (`migrate/generate.ts:64`).
- Untracked files stay in a clone: `git reset --hard` and `git checkout` leave them, and
  the copy takes them into the module, where `loadModule` only notices scripts and
  actors that are not listed. `LoadedIsPinned` therefore says that the tracked files are
  those of the version, and that what comes with them is untracked in the clone. That
  need not be somebody's: a `git checkout` that was killed leaves such files.
- `RevLoads` excepts checkouts that meet untracked files or a locked index, of which a
  git that was killed may be the cause; nothing but `clean` removes them, which has to
  load the project first. It is of revisions. The default branch by name cannot be checked out from
  what a killed clone leaves: it has no refs, and the fetch gives it none
  (`project/registry.ts:106`), until somebody removes `.opengb`. For tags and other
  branches see finding 6.
- `GenKept` excepts `genLost`: when a load is killed between `emptyDir` and the move,
  when `emptyDir` or `copy` throws (`project/project.ts:212`), or when the
  temporary directory is on another device (line 217), `module.gen.ts` is lost,
  and the cache still skips the step that would write it.
- `CommandEnds` excepts the loop around `pg_isready`, which has no way out but success
  (`utils/postgres_daemon.ts:86`): it never ends when the container has died. A Postgres
  that was ready is assumed to stay up while the command lasts.
- `JobSettles`, `BuildEnds` and `RequestAnswered` except what does happen: a job
  given to a closed worker, or waiting for slots that such jobs hold, is never
  answered (finding 1); the build that waits for it never ends; and a nested call that
  rejects with nobody awaiting it ends the server with the requests in flight.
- `RunsAnswerEdits` fails, in a run as in the code, for a module with a database whose
  path has a `db` before its own (`modules/db/db/migrations`, or a project below a
  directory called `db`): the filter looks at the first `db` only (`watch/mod.ts:132`),
  its migrations count as a change, and each build that writes them starts the next.
  The module called `db` of the run has no database.
- `SeenIsCallable` excepts durable objects whose `buildState` threw: they exist, and
  no call of theirs succeeds (`dynamic/actor_cf.ts:44`). `UpdatesKept` excepts the
  state of an object one of whose methods awaited anything but the storage: two such
  calls overlap and the last to end wins (`dynamic/actor_cf.ts:71`).
- `HandleOfItsClass` is of classes that `Apart` tells apart: two modules may give their
  actors the same storage id (`config/module.ts:112` compares within a module), or one
  that begins the other with the delimiter, and then they do share objects.
- `MigratedWhenDone` excepts runs during which a schema was edited, as `BuildMidEdit`
  shows for any step; with `watch` the next run answers the edit.

CHECK_DEADLOCK is off where the program may stop: all jobs done, all runs of the
bound used up, no more edits or requests.

**Mutants.** Next to the definitions stand variants with a plausible slip, such
as a dropped count, a missing tick, or a hash loop that stops at the first
difference. `PROJECT.json` pairs each property with one that breaks it.

## Fairness

- `WorkersReply`: a live worker that was given a job answers; one that has thrown is
  not live, and nothing is assumed of it. The worker's code
  is a finite computation that ends in `postMessage` or a throw. Nothing is
  assumed about the callers: no job has to be submitted.
- `Build`: each step and the plan take their next step when they can, as the
  promises they await settle; `ParseHangs` is among these steps, and a step that
  hangs has no next one. `Edit`, `StartBuild`, `Abort` and `Kill` have none.
- `Watch`: the loop goes on when it has an event; a function ends, or comes to a
  `throwIfAborted`. The user's edits have no fairness.
- `Runtime`: while the process lives, a request's body arrives or fails, and a script's
  function ends. `Settle` needs no fairness of its own: it is part of the ending. `CallThrows`
  and `Call` have none.

- `Cli`: one weak fairness over everything the process does (`Process`). While a command
  is under way, the git and docker commands it awaits end, well or not, a Postgres that
  stays up gets ready, the user answers what Prisma asks, and some await that can
  resolve does; which one is left open, so no branch is promised, success least of all.
  Nothing is assumed of the user, the remote, changes and kills.

The actors have safety properties only and no fairness.

## What is proved

Each invariant and each action property that a passing run checks is a theorem, for all
values of the constants that the named assumptions of its module allow. Left to TLC are
the liveness properties (`JobSettles`, `BuildEnds`, `RequestAnswered`, `LastEditRuns`,
`CommandEnds`): fairness speaks of ENABLED, which is out of the prover's reach. The
violated properties have no theorem, and the exceptions above are in the theorems as
well.

Each proof has an inductive invariant, a lemma per kind of step or per action, and
a last step in temporal logic. Types are part of each invariant.

### Worker pools (`WorkerPoolProofs`)

For all jobs, every finite set of pools and every positive limit, with either value of
`ErrorEndsWorker`:

| Theorem | Of | States |
|---|---|---|
| `ApiTypeCorrect`, `TypeCorrect` | `ApiSpec`, `Spec` | `TypeOK` |
| `SlotsCounted` | `ApiSpec` | `SlotsMatchBusy` |
| `NoIdleSlot` | `ApiSpec` | `WorkConserving` |
| `PoolsStaySmall` | `ApiSpec` | `PoolSizeBounded` |
| `JobsHeldOnce` | `ApiSpec` | `JobHeldOnce` |
| `JobsStartInOrder` | `ApiSpec` | `StartsInOrder` |
| `ShutdownIsComplete` | `Spec` | `NoOpenPoolLeft` |
| `PoolsSchedule` | `Spec` | `SchedulerSpec`: each step is one of the scheduler, or changes nothing it sees |

`ApiSpec` has more steps than `Spec` and no fairness, so what holds of it holds of both.

`SlotsMatchBusy` is inductive together with types, as each action changes the
counter and the set of busy slots by the same one. `WorkConserving` is not inductive
alone: whether the tick after an answer has left anything to start depends on how
many slots were taken before, so it needs the counter to be at most the limit.
`PoolSizeBounded` needs both: a worker is added only when all the others of the pool
hold slots, and then their number is at most the counter, which is below the limit
(`AllBusyBound`, by an injection from the pool's places into the busy slots). The
inductive invariant is therefore

    Slots == TypeOK /\ Counted(workers, activeWorkers) /\ WorkConserving

where `Counted` says that the busy slots are finitely many, counted and bounded,
and the pools small. The jobs have an invariant of their own, with the open
promises as a set:

    Held == TypeOK /\ HeldOnce(workers, pendingJobs, OpenJobs)

`HeldOnce` is stated of any workers, queue and set of jobs, so that a lemma each can
say what a queued job (`AppendHolds`), an answer (`FreeHolds`) and the tick after
either (`TickHolds`) do to it. `NoOpenPoolLeft` is inductive only with what `Downed`
adds: that workers and waiting jobs belong to pools that were created, or a tick could
give a worker to a pool the shutdown does not see; and that no pool is shut down
before the global shutdown, which is where a single `shutdownPool` would break it.

The refinement needs all three. `Counted` and `HeldOnce` together make the counter
the number of jobs that run (`OnJobsCounted`, by a bijection), so that a tick is
`Serve` (`TickServes`); `HeldOnce` says that a submitted job was never seen, and
`Downed` that no answer comes after the close. It is of `Spec`: a pool that is shut
down alone may be given a worker that answers after the global shutdown.

### Builds (`BuildProofs`)

For all files, all plans of steps over any number of phases, and all worlds of users:
`TypeCorrect` (`TypeOK`), `PhasesKeepOrder` (`PhasesInOrder`), `OnlyFinishedIsSaved`
(`SavedWhenDone`), `SkippedStepsHaveSchemas` (`SchemaFound`), and, under `Reliable`,
`SuccessIsUpToDate` (`UpToDate`). Assumed of a plan is that a parse reads some file.

`Phased` says where the steps of each phase are, compared with the phase under way;
`Found` that a mode in the cache comes with a schema, on disk too. `UpToDate` rests on
`Versions` (contents, hashes and what was loaded are numbers the user has handed out,
and a file that did not change is as it was loaded), `Kept` and `Made`. `Kept` says of
both caches that a step whose hashes match the files has the result its files say
(`Good`), also where the cache in memory is ahead of the disk: it is what makes a
skip right after any failure, abort or kill. Where files may return to what they
were, `Good` is not inductive, as files that do not match now may match again;
there `KeptTied` ties a result to its hashes whether they match or not. `Made` says
that what a running build has passed is of the files, or they were edited.

`Reliable` excludes worlds in which the program does not keep its promise: edits
during a build of files that were loaded before it (`BuildMidEdit`); config parses over
files that may be missing; and restored contents together with missing files
(`BuildDelete`), failures, stops or edits during a build. For each of the six TLC finds
`UpToDate` violated in a world that has only it, so that no conjunct can be dropped.
Both worlds of the run `Build` are reliable. The other four theorems need no such
hypothesis.

### Watch loop (`WatchProofs`)

For all modules, paths and any number of edits: `TypeCorrect` (`TypeOK`) and
`OneRunIsLive` (`OneLiveRun`); under `PlainPaths` `EveryRunAnswersAnEdit`
(`RunsAnswerEdits`); and under `PlainSources`, with `GapEdits` and `BrokenNew` false,
`NoEditIsMissed` (`NothingMissed`).

`PlainPaths`: no module with a database lies in or below a directory called `db`, and no
module's directory holds the project's `deno.json`. Then a file that a function writes
is not watched or not let through (`WritesDoNotTrigger`): a helper and `.opengb` by
their segment, a migration because the first `db` of its path is the module's own.
`PlainSources`: the user's files are not in places where the filter expects generated
files or migrations. TLC violates `RunsAnswerEdits` when the module `db` of the run
gets a database.

`Live` adds to `OneLiveRun` that a function that is not aborted runs only while the loop
watches; `Answered` counts a pending event as a run still to come; `Caught` says that
whenever nothing is on its way the loop is `Current`, and that a broken module was
loaded before. `WatchGap` shows that `GapEdits` is needed; `BrokenNew`
is the case of the exceptions above.

### Runtime (`RuntimeProofs`)

For all modules, scripts, dependencies, requests and lengths of histories:
`TypeCorrect` (`TypeOK`), `TracesAreCallChains` (`TraceIsCallChain`),
`PrivateScriptsRunInside` (`PrivateFromInside`), `ResponsesMatchCalls`
(`ResponseMatchesCall`), `RunningCallsHavePools` (`FrameHasPool`), `ShutPoolsStayClosed`
(`PoolsStayClosed`). Assumed is that "none" is not a request.

`StepKinds` sorts the actions by what they do to the tree of calls, and each
invariant is proved along it. `Chained`: a frame's trace is its caller's and its own
link. `Rooted`: a request has one root, which runs only while the request is being
called, and its response is that of its root (`Answered`); without the uniqueness of
the root another call's end could be taken for it. `PoolsKept`: running frames have
pools until the shutdown, which only a test's runtime has; requests are only served
by the other kind, so that no new frame meets a pool that was closed.

### Actors (`ActorProofs`)

For all clients, classes, labels and numbers of runs, over both drivers: `TypeCorrect`
(`TypeOK`), `SeenCanBeCalled` (`SeenIsCallable`), `HandlesKeepTheirClass`
(`HandleOfItsClass`), `NoUpdateLost` (`UpdatesKept`). Nothing is assumed of storage ids,
as the program checks uniqueness within a module only (`config/module.ts:115`) and the
delimiter of `getId` not at all. `ClassesApart`: when two names are equal, the storage
id of one class with the delimiter begins that of the other (`NamesBegin`), whatever the
labels contain; so `Apart` is all that a class needs to have objects of its own.

The invariant has a part per driver and says that the other's state is untouched. For
Deno: an entry of the map holds an object of its id, and what a client saw stays there,
as nothing removes entries. For Cloudflare: `Exclusive`, one client is inside an object
at a time, which is the input gate; `CfKept`, what that client read is still so when it
writes; `CfMade`, an object with a path and no state is being built or has failed.
Counts of finished work are bounded by the runs whose client is past it (`Left`), which
is what the types of the counters need.

### Projects, commands and migrations (`ProjectProofs`, `CliProofs`, `MigrateProofs`)

These are theorems about `Cli`'s `Spec`, whose state has all three components, for all
sets of modules, commits, versions and worlds:

| Theorem | States |
|---|---|
| `ProjectProofs`: `ProjectTypeCorrect` | `ProjectTypeOK` |
| `LoadsWhatIsNamed`, `RevisionsCanBeCheckedOut`, `GenFileIsKept` | `LoadedIsPinned`, `RevLoads`, `GenKept` |
| `CliProofs`: `TypeCorrect` | `TypeOK` |
| `NoContainerIsLeft`, `PrismaRunsPrepared` | `NodeContainerGone`, `PrismaIsPrepared` |
| `MigrateProofs`: `MigrationsAreKept`, `BuildsMigrate` | `AppliedInTree`, `MigratedWhenDone`, with `NoGoingBack` |

The load: `Pinned` follows the checked out version through the copy, and says that no
tracked file is changed by then and that untracked ones come from the clone; `Fetched`
says that from the fetch on the clone has the commit of a revision, so that only
leftovers can stop the checkout; and `GenSafe` where the
generated file is while the directory is emptied and copied, and that what a failure
or a kill loses of it is in `genLost`. `Ordered` says which
commands and stages go with which places of a load; it is what composition costs.

The commands: `CInv` is the conjunction of `Running` (what is created or started belongs
to a lane that waits for it; outside of the stages all lanes of the run are over; a
container that is up has its handler), `Prepared` (what a lane has awaited is there),
`Copied` (while steps run the modules are loaded) and `Apart` (two lanes of a run never
work on one module; what an aborted one still writes is torn).

The migrations: `TreesKept` says, per module, that the applied migrations and those a
lane is about to apply are in the tree, or in the directory of the one lane that owes
the tree its migrations. `RecordsTrue` says for both caches that a hash is of what there
is or of an older version (`Known`); what each lane has copied and applied (`Carries`);
and how far the build under way has brought a module by the end of each stage
(`Progress`), which with `Known` gives `MigratedWhenDone` at the last. It needs that no
version comes back (`VersionsGrow`), or an old hash would match again.

`NoGoingBack`: a project that takes a module with a database from a git registry never
names an older version of it than before (it may name newer ones, and clean, and be
killed). Such a module is copied by every load, so its versions grow only where what
is named does: `Newest` is the version that the next whole copy is of, which no step
makes older (`NewestGrows`), and `CopiedFrom` says that schema and tree are of the copy
there is. A user who goes back has a database with migrations that the tree lacks: TLC
finds `AppliedInTree` violated when `UpgradeWorld` gets `back`, and `MigratedWhenDone`
when it gets a third command as well, as an old hash then matches again. Of local and shared
registries, and of git registries without a database, nothing is assumed.

## Findings

1. **A worker that failed is used again** (`utils/worker_pool.ts:138`, 158-169;
   run `WorkerPoolDead`). The schema workers fail by an uncaught throw, on which
   Deno closes the worker. The next job on it is never answered, and the slot is lost.
2. **Old output under a new hash** (`build/plan/module.ts:55`; `BuildMidEdit`).
   `module.json` is read by `loadProject` and hashed later, by the step.
3. **A deleted file's hash stays** (`build_state/cache.ts:156`; `BuildDelete`).
   Delete, build, restore: the step is skipped.
4. **An error's module is the outermost one** (`runtime/error.ts:67`;
   `RuntimeOrigin`), although the comment says the one it originated from.
5. **Edits between load and watch are lost** (`watch/mod.ts:89`; `WatchGap`).
6. **A branch or a new tag of a git registry cannot be checked out**
   (`project/registry.ts:194`; `RegistryRef`). After `clone --single-branch` the fetch
   of the ref fills `FETCH_HEAD` alone, and `git checkout` does not know the name.

## Not modelled, and why

The text of generated code, OpenAPI and metadata, the terminal output, argument
parsing, the templates and the release-time packaging are one-shot output with
no state to interleave. `runtime/proxy.ts` renames and forwards. The analysis in
the schema workers is an answer or an error. 

Of the command line and the migrations:

- two `opengb` processes at once. Each removes the Postgres container of the other
  (`utils/postgres_daemon.ts:57`);
- Prisma going on in a container whose process was killed or interrupted (no signal
  listener calls `runShutdown`): a lane that is aborted or fails may have migrated, but
  not later than that;
- a build that notices its abort late: after `Change` the old run's lanes go on, but its
  plan declares no more steps, as every wait and every step checks the signal first;
- a Postgres that stops after it was ready, and a `docker rm` that itself fails
  (`migrate/prisma.ts:133`);
- a kill in the middle of an `emptyDir` or `copy`: it comes before or after one, which
  leaves no more than their failures do; of git, the states in between are modelled;
- databases dropped behind the program's back, whose migrations the cache then takes for
  deployed (`build/plan/project.ts:258`); `db sh` and `db url`, which change nothing;
  the Deno process that `dev` and `test` start;
- several registries at once, and the names of modules in them;
- `forEachDatabase` has a signal that none of its callers passes; only the commands of
  `runPrismaCommand` are given one.

Of the Deno actors, `delete` and the batch forms of the storage.

The hazards of `PROJECT.json` that no property covers carry a note.

## Plan

Done: `WorkerPool` with `JobScheduler` and its proofs, `Build`, `Runtime`, `Watch`,
`ActorDeno` and `ActorCf`, `Project`, `Migrate`, and `Cli` composing the last two.

Next, in this order:

1. `Build` in more detail: modules that come and go, conditions apart from what is
   read, and the config validation.
2. The registry proxies of `runtime/proxy.ts`, and identifiers and case conversions
   as operators, against a reference definition.

Proofs: with each new component its types and invariants, in the way of the
existing ones. Of what is there, only liveness is left to TLC.
