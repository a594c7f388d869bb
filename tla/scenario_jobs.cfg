SPECIFICATION ScenarioSpec
CONSTANTS
  Runs = {r1, r2}
  Writers = {w1}
  ServeProcess = ServeProcess
  Names = {n1, n2}
  Launches <- MCLaunches
  n1 = n1
  n2 = n2
  MaxFaults = 1
  Error = Error
  None = None
SYMMETRY Symmetry
INVARIANTS
  
  
  
  FlagHasRun
CHECK_DEADLOCK FALSE
