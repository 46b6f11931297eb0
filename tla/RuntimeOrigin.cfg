SPECIFICATION Spec
CHECK_DEADLOCK FALSE
CONSTANTS
  r1 = r1
  r2 = r2
  Modules = {"app", "users"}
  Scripts = {"login", "fetch"}
  ModuleOf <- MCModuleOf
  Public = {"login"}
  Deps <- MCDeps
  HasDb = {"app", "users"}
  Codes = {"E"}
  ErrorsOf <- MCErrorsOf
  Requests = {r1}
  MaxFrames = 3
INVARIANT ErrorNamesOrigin
