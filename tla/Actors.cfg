SPECIFICATION Spec
CHECK_DEADLOCK FALSE
CONSTANTS
  a = a
  b = b
  Classes = {"foo.ponger", "bar.pinger", "baz.counter"}
  StorageId <- MCStorageId
  Labels <- MCLabels
  Clients = {a, b}
  MaxRuns = 3
INVARIANT TypeOK
INVARIANT SeenIsCallable
INVARIANT HandleOfItsClass
INVARIANT UpdatesKept
