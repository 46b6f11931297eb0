SPECIFICATION Spec
CONSTANTS
  users = users
  db = db
  Modules = {users, db}
  HasDb = {users}
  ProjectPath <- MCProjectPath
  PathOf <- MCPathOf
  Sources <- MCSources
  MaxEdits = 3
  GapEdits = FALSE
  BrokenNew = FALSE
CHECK_DEADLOCK FALSE
INVARIANT TypeOK
INVARIANT OneLiveRun
INVARIANT RunsAnswerEdits
INVARIANT NothingMissed
PROPERTY LastEditRuns
