\* Two loads of one destination; while it does not exist only one is started.
CONSTANTS
  r1 = r1
  r2 = r2
  Runs <- TwoRuns
  NoRun = NoRun
  UsersFile = UsersFile
  NoFile = NoFile
  Csvs <- ThreeCsvs
  NoTable = NoTable
  View = View
  Partial = Partial
  Original = Original
  FirstLoads = 1
  MaxEdits = 1
  MaxKills = 1
SPECIFICATION Spec
SYMMETRY RunsAreAlike
INVARIANTS
  LoadInv
  TablesAreWhole
  LoadedStays
PROPERTIES
  OldTableIntact
CHECK_DEADLOCK FALSE
