SPECIFICATION Spec
CONSTANTS
  users = users
  db = db
  Modules = {users, db}
  HasDb = {users}
  ProjectPath <- MCProjectPath
  PathOf <- MCPathOf
  Sources <- MCSources
  MaxEdits = 3
  GapEdits = TRUE
  BrokenNew = FALSE
CHECK_DEADLOCK FALSE
INVARIANT NothingMissed
