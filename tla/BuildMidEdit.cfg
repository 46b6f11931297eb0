SPECIFICATION Spec
CONSTANTS
  json = json
  config = config
  script = script
  Files <- MCFiles
  Steps <- MCSteps
  Parses = {"script", "config"}
  ConfigParses = {"config"}
  Always = {"entry"}
  Reads <- MCReads
  PhaseOf <- MCPhaseOf
  LastPhase = 2
  MaxVersion = 2
  Loaded = {json}
  Worlds <- MidEdit
INVARIANT UpToDate
