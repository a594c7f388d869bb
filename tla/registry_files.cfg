SPECIFICATION Spec
CONSTANTS
  Devices = {d1}
  Users = {u1}
  ApiKeys = {a1}
  Roles = {"viewer"}
  Slots = {s1}
  Conns = {c1}
  Vks = {k1, k2}
  None = None
  Torn = Torn
  Empty = Empty
  MaxGen = 2
  MaxFails = 1
  MaxCrashes = 1
  MaxDeferred = 1
  MaxTokens = 1
INVARIANTS
  SettledFileIsMemory
  
PROPERTIES
  KeyChangeNeedsRemoval
  FilesAreAtomic
SYMMETRY Symmetry
CHECK_DEADLOCK FALSE
