\* MCWorlds; the bounds on runs, versions and commits may be used up.
SPECIFICATION Spec
CHECK_DEADLOCK FALSE
CONSTANTS
  a = a
  b = b
  MaxCommit = 2
  Refs <- MCRefs
  Broken = {3}
  Modules = {a, b}
  MaxVersion = 3
  Lanes <- MCLanes
  Worlds <- MCWorlds
INVARIANT TypeOK
INVARIANT LoadedIsPinned
INVARIANT RevLoads
INVARIANT GenKept
INVARIANT PrismaIsPrepared
INVARIANT AppliedInTree
INVARIANT MigratedWhenDone
INVARIANT NodeContainerGone
PROPERTY CommandEnds
