------------------------------- MODULE Project -------------------------------
(***************************************************************************)
(* src/project/{project,registry,module}.ts: loadProject resolves the      *)
(* registry of a module (clone, fetch, checkout), copies the module's      *)
(* source under .opengb when the registry is external, and checks it.      *)
(* Every await is a step: the remote and the user's files change in        *)
(* between, and the process may be killed.  The registries and modules of  *)
(* a project are loaded one after the other; this is one of each.          *)
(***************************************************************************)
EXTENDS Integers, FiniteSets

CONSTANTS
  MaxCommit,  \* bound: commits of the registry's default branch
  Refs,       \* what backend.json may name: records of a kind and a commit
  Broken      \* the versions whose directory or files do not check

\* One commit of the remote is on another branch than the default one.
Side == MaxCommit + 1
Commits == 1..Side
Kinds == {"rev", "tag", "main", "branch"}

ASSUME CommitAssumption == MaxCommit \in Nat \ {0} /\ Broken \subseteq Commits
ASSUME RefsAssumption == Refs # {} /\ Refs \subseteq [kind : Kinds, commit : Commits]

VARIABLES
  registry, \* "git", "shared" (local and isExternal), or "local"
  head,     \* the default branch, or the shared directory, is at this version
  tags,     \* the commits of the remote that have a tag
  clone,    \* .opengb/git_registries
  ext,      \* .opengb/external_modules: the version copied, files that came with
            \* it, and the version its module.gen.ts was made from
  cached,   \* the version of module.json whose hash is in cache.json
  at,       \* the await loadProject is at; "idle", "loaded", "cleaned" or
            \* "failed" else
  wanted,   \* the ref backend.json named when it was read
  tempGen,  \* the copy of module.gen.ts in the temporary directory
  error,    \* what the last load threw
  genLost   \* the gen file is not the one that `cached` speaks of: it was lost,
            \* or a build that failed has written it

remoteVars == <<head, tags>>
loadVars == <<at, wanted, tempGen, error>>
projectVars == <<registry, remoteVars, clone, ext, cached, loadVars, genLost>>

\* What can be wrong with a clone: files changed, files added, an index.lock left.
Dirt == {"modified", "untracked", "locked"}

\* No clone; and what is left of one that was killed: a repository without refs.
NoClone == [git |-> FALSE, main |-> 0, commits |-> {}, tags |-> {}, tree |-> 0,
            dirt |-> {}]
PartialClone == [NoClone EXCEPT !.git = TRUE]
WholeClone == [git |-> TRUE, main |-> head, commits |-> 1..head,
               tags |-> tags \cap 1..head, tree |-> head, dirt |-> {}]

NoModule == [version |-> 0, extra |-> FALSE, gen |-> 0]
AnyRef == CHOOSE r \in Refs : TRUE

ProjectInit ==
  /\ head = 1
  /\ tags = {}
  /\ clone = NoClone
  /\ ext = NoModule
  /\ cached = 0
  /\ at = "idle"
  /\ wanted \in IF registry = "git" THEN Refs ELSE {AnyRef}
  /\ tempGen = 0
  /\ error = "none"
  /\ genLost = FALSE

-----------------------------------------------------------------------------
\* The remote and the user.  `git clone` checks the default branch out.
Publish ==
  /\ \/ registry # "local" /\ head < MaxCommit /\ head' = head + 1 /\ UNCHANGED tags
     \/ /\ registry = "git" /\ UNCHANGED head
        /\ \E r \in Refs : /\ r.kind = "tag" /\ r.commit \in (1..head) \cup {Side}
                           /\ tags' = tags \cup {r.commit}
  /\ UNCHANGED <<registry, clone, ext, cached, loadVars, genLost>>

\* Somebody changes the clone's files, adds one, or takes away what is in the way.
Meddle ==
  /\ registry = "git" /\ at = "idle" /\ clone.tree # 0
  /\ \/ \E d \in {"modified", "untracked"} : clone' = [clone EXCEPT !.dirt = @ \cup {d}]
     \/ \E d \in {"untracked", "locked"} : clone' = [clone EXCEPT !.dirt = @ \ {d}]
  /\ UNCHANGED <<registry, remoteVars, ext, cached, loadVars, genLost>>

-----------------------------------------------------------------------------
Goto(label) == at' = label /\ UNCHANGED <<wanted, tempGen, error>>
Throw(what) == at' = "failed" /\ error' = what /\ tempGen' = 0 /\ UNCHANGED wanted

\* loadProject reads backend.json, which the user may have edited.
BeginLoad ==
  /\ at' = IF registry # "git" THEN "module" ELSE IF clone.git THEN "discard" ELSE "clone"
  /\ wanted' \in IF registry = "git" THEN Refs ELSE {wanted}
  /\ error' = "none"
  /\ UNCHANGED <<registry, remoteVars, clone, ext, cached, tempGen, genLost>>

\* git ls-remote on each endpoint, emptyDir, git clone --single-branch, which
\* removes what it wrote when it fails.
Clone ==
  /\ at = "clone"
  /\ \/ clone' = WholeClone /\ Goto("discard")
     \/ clone' = NoClone /\ Throw("clone")
  /\ UNCHANGED <<registry, remoteVars, ext, cached, genLost>>

\* git diff and git reset --hard, which leave untracked files alone; the reset
\* fails when the index is locked, or there is no commit.  The mutant does not
\* look at the work tree.
DiscardStaged == at = "discard" /\ UNCHANGED clone /\ Goto("fetch")
                 /\ UNCHANGED <<registry, remoteVars, ext, cached, genLost>>
Locked == "locked" \in clone.dirt
ResetClone == [clone EXCEPT !.dirt = @ \ {"modified"}]
Discard ==
  /\ at = "discard"
  /\ \/ "modified" \notin clone.dirt /\ Goto("fetch") /\ UNCHANGED clone
     \/ "modified" \in clone.dirt /\ ~Locked /\ Goto("fetch") /\ clone' = ResetClone
     \/ /\ "modified" \in clone.dirt \/ clone.tree = 0
        /\ Throw("discard") /\ UNCHANGED clone
  /\ UNCHANGED <<registry, remoteVars, ext, cached, genLost>>

\* Does git cat-file, or checkout, find the ref in the clone?  Only the default
\* branch ever has a local name.
Resolves(r) ==
  \/ r.kind = "rev" /\ r.commit \in clone.commits
  \/ r.kind = "tag" /\ r.commit \in clone.tags
  \/ r.kind = "main" /\ clone.main # 0
LocalCommit(r) == IF r.kind = "main" THEN clone.main ELSE r.commit

OnRemote(r) ==
  \/ r.kind = "rev" /\ r.commit \in (1..head) \cup {Side}
  \/ r.kind = "tag" /\ r.commit \in tags
  \/ r.kind \in {"main", "branch"}
RemoteCommit(r) == CASE r.kind = "main" -> head
                     [] r.kind = "branch" -> Side
                     [] OTHER -> r.commit

\* git fetch origin, when the ref is unknown: it brings the commit, and leaves
\* its name in FETCH_HEAD alone.  The mutant never fetches.
NoFetch == at = "fetch" /\ Goto("checkout")
           /\ UNCHANGED <<registry, remoteVars, clone, ext, cached, genLost>>
FetchedClone == [clone EXCEPT !.commits = @ \cup {RemoteCommit(wanted)}]
Fetch ==
  /\ at = "fetch"
  /\ \/ Resolves(wanted) /\ Goto("checkout") /\ UNCHANGED clone
     \/ /\ ~Resolves(wanted) /\ OnRemote(wanted)
        /\ clone' = FetchedClone
        /\ Goto("checkout")
     \/ ~Resolves(wanted) /\ Throw("fetch") /\ UNCHANGED clone
  /\ UNCHANGED <<registry, remoteVars, ext, cached, genLost>>

\* git checkout; an untracked file may be in the way, and a locked index is.
Leftovers == clone.dirt \cap {"untracked", "locked"}
CheckedOut == [clone EXCEPT !.tree = LocalCommit(wanted)]
Checkout ==
  /\ at = "checkout"
  /\ \/ /\ Resolves(wanted) /\ ~Locked
        /\ clone' = CheckedOut
        /\ Goto("module")
     \/ /\ ~Resolves(wanted) \/ Leftovers # {}
        /\ Throw("checkout") /\ UNCHANGED clone
  /\ UNCHANGED <<registry, remoteVars, ext, cached, genLost>>

-----------------------------------------------------------------------------
\* What a copy of the registry's module is of; 0 is a commit somebody changed.
\* It brings the untracked files of the clone along.  The mutant is one version
\* ahead.
SourceAhead == clone.tree + 1
SourceVersion == IF registry # "git" THEN head
                 ELSE IF "modified" \in clone.dirt THEN 0 ELSE clone.tree
SourceExtra == registry = "git" /\ "untracked" \in clone.dirt

\* fetchAndResolveModule: module.gen.ts of an external module is put aside.
SaveGen ==
  /\ at = "module"
  /\ IF registry = "local" THEN Goto("check")
     ELSE /\ tempGen' = ext.gen /\ at' = "empty" /\ UNCHANGED <<wanted, error>>
  /\ UNCHANGED <<registry, remoteVars, clone, ext, cached, genLost>>

\* emptyDir, and copy: either may throw half way, and what is aside stays there.
EmptyModule ==
  /\ at = "empty"
  /\ \/ ext' = NoModule /\ Goto("copy") /\ UNCHANGED genLost
     \/ /\ ext' \in {ext, [ext EXCEPT !.version = 0], NoModule}
        /\ Throw("empty") /\ genLost' = (genLost \/ ext'.gen # ext.gen)
  /\ UNCHANGED <<registry, remoteVars, clone, cached>>

CopyModule ==
  /\ at = "copy"
  /\ \/ /\ ext' = [ext EXCEPT !.version = SourceVersion, !.extra = SourceExtra]
        /\ Goto("restore") /\ UNCHANGED genLost
     \/ UNCHANGED ext /\ Throw("copy") /\ genLost' = (genLost \/ tempGen # 0)
  /\ UNCHANGED <<registry, remoteVars, clone, cached>>

\* It is moved back, which fails when the temporary directory is on another
\* device.  The mutant leaves it there.
KeepTemp == at = "restore" /\ Goto("check")
            /\ UNCHANGED <<registry, remoteVars, clone, ext, cached, genLost>>
RestoreGen ==
  /\ at = "restore"
  /\ \/ ext' = [ext EXCEPT !.gen = tempGen] /\ at' = "check" /\ tempGen' = 0
        /\ UNCHANGED <<wanted, error, genLost>>
     \/ tempGen # 0 /\ Throw("restore") /\ genLost' = TRUE /\ UNCHANGED ext
  /\ UNCHANGED <<registry, remoteVars, clone, cached>>

\* loadModule, and the dependencies: module.json can be read, the scripts and
\* actors are the ones it lists, of which a file somebody added may be none.
ModuleVersion == IF registry = "local" THEN head ELSE ext.version
CheckModule ==
  /\ at = "check"
  /\ \/ ModuleVersion \notin Broken /\ Goto("loaded")
     \/ (ModuleVersion \in Broken \/ ext.extra) /\ Throw("module")
  /\ UNCHANGED <<registry, remoteVars, clone, ext, cached, genLost>>

LoadSteps == Clone \/ Discard \/ Fetch \/ Checkout \/ SaveGen \/ EmptyModule
               \/ CopyModule \/ RestoreGen \/ CheckModule

\* What git leaves that is killed at its work: a clone without refs or without
\* all files, or the lock of the index; of a checkout, new files and changed ones.
KilledClones ==
  CASE at = "clone" -> {NoClone, PartialClone} \cup
                       {[WholeClone EXCEPT !.dirt = d] : d \in SUBSET {"modified", "locked"}}
    [] at = "discard" /\ "modified" \in clone.dirt /\ ~Locked ->
         {clone, ResetClone, [clone EXCEPT !.dirt = @ \cup {"locked"}]}
    [] at = "fetch" /\ ~Resolves(wanted) /\ OnRemote(wanted) -> {clone, FetchedClone}
    [] at = "checkout" /\ Resolves(wanted) /\ ~Locked ->
         {CheckedOut} \cup {[clone EXCEPT !.dirt = @ \cup d] : d \in SUBSET Dirt}
    [] OTHER -> {clone}

\* The load dies with its process.
KillLoad ==
  /\ at' = "idle" /\ tempGen' = 0
  /\ clone' \in KilledClones
  /\ genLost' = (genLost \/ (at \in {"copy", "restore"} /\ tempGen # 0))
  /\ UNCHANGED <<registry, remoteVars, ext, cached, wanted, error>>

-----------------------------------------------------------------------------
\* The build step that generates module.gen.ts, conditioned on module.json, and
\* the cache, which is saved when the build gets that far (see Build).
GenerateHelper(saved) ==
  LET stale == cached # ModuleVersion
  IN  /\ at = "loaded"
      /\ ext' = IF stale THEN [ext EXCEPT !.gen = ModuleVersion] ELSE ext
      /\ cached' = IF saved THEN ModuleVersion ELSE cached
      /\ genLost' = IF stale THEN ~saved ELSE genLost
      /\ UNCHANGED <<registry, remoteVars, clone, loadVars>>

\* cleanProject, which the project has to be loaded for.
CleanProject ==
  /\ at = "loaded"
  /\ clone' = NoClone /\ cached' = 0 /\ genLost' = FALSE
  /\ ext' = IF registry = "local" THEN ext ELSE NoModule
  /\ at' = "cleaned"
  /\ UNCHANGED <<registry, remoteVars, wanted, tempGen, error>>

-----------------------------------------------------------------------------
ProjectTypeOK ==
  /\ registry \in {"git", "shared", "local"}
  /\ head \in 1..MaxCommit
  /\ tags \subseteq Commits
  /\ wanted \in Refs
  /\ clone \in [git : BOOLEAN, main : 0..MaxCommit, commits : SUBSET Commits,
                tags : SUBSET Commits, tree : 0..Side,
                dirt : SUBSET Dirt]
  /\ ext \in [version : 0..Side, extra : BOOLEAN, gen : 0..Side]
  /\ {cached, tempGen} \subseteq 0..Side
  /\ at \in {"idle", "clone", "discard", "fetch", "checkout", "module", "empty", "copy",
             "restore", "check", "loaded", "cleaned", "failed"}
  /\ error \in {"none", "clone", "discard", "fetch", "checkout", "empty", "copy", "restore",
               "module"}
  /\ genLost \in BOOLEAN

\* A project that names a revision or a tag is loaded with that version of the
\* module, whatever was configured, changed in the clone, or killed before; and
\* with nothing else but files that are untracked in the clone: nothing removes
\* those, be they somebody's or left by a checkout that was killed.
LoadedIsPinned ==
  at = "loaded" /\ registry = "git" =>
    /\ wanted.kind \in {"rev", "tag"} => ext.version = wanted.commit
    /\ ext.extra => "untracked" \in clone.dirt

\* A revision that the load has found, or fetched, can be checked out, unless
\* files or a lock that somebody, or a git that was killed, has left in the clone
\* are in the way: no earlier load of another ref prevents it.
RevLoads ==
  at = "failed" /\ error = "checkout" /\ wanted.kind = "rev" => Leftovers # {}

\* While the cache says that the gen file of an external module is up to date,
\* it is there and made from the version that is: loading the project copies
\* the module over it on every command, and keeps it.  The exceptions are
\* genLost: a load that throws or is killed while the file is aside.
GenKept ==
  at \in {"idle", "loaded"} /\ registry # "local" /\ ext.version # 0
    /\ cached = ext.version /\ ~genLost => ext.gen = ext.version

\* "Check if rev exists locally, if not try fetch it" (registry.ts:185): once
\* the ref is there or fetched, it can be checked out.
FetchedLoads == at = "failed" /\ error = "checkout" => Leftovers # {}
=============================================================================
