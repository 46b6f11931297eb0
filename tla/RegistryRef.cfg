\* A git registry and a project that names a branch or a tag; the bounds may be
\* used up.
SPECIFICATION Spec
CHECK_DEADLOCK FALSE
CONSTANTS
  a = a
  b = b
  MaxCommit = 2
  Refs <- MCBranches
  Broken = {3}
  Modules = {a, b}
  MaxVersion = 2
  Lanes <- MCLanes
  Worlds <- MCGitWorlds
INVARIANT FetchedLoads
