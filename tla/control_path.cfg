SPECIFICATION ControlSpec
CONSTANTS
  Cockpits = {c1}
  Vehicle = Vehicle
  None = None
  Policies = {"strict"}
  Sigs = {"absent", "good"}
  Seqs = {1, 2}
  MaxDps = 2
  MaxStops = 2
  MaxEvents = 1
  MaxTotal = 2
INVARIANTS
  
  NoCrossedAnswer
  
CHECK_DEADLOCK FALSE
