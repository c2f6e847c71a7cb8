SPECIFICATION IsinsSpec
CONSTANTS
  Bundled <- MCBundled
  UsIsins = {"U1"}
  OverTheCounter = {"OPENF"}
  Aliases <- MCAliases
  Lookups <- MCLookups
  Inputs <- MCInputs
  UserFiles <- MCUserFiles
  NoTicker = ""
  NoIsin = "none"
  MaxRuns = 2
INVARIANTS
  NextRunLoads
CHECK_DEADLOCK FALSE
