SPECIFICATION MCSpec
CONSTANTS
  Upstream = b1
  Brands = {b1, b2}
  EnvKeys = {k1}
  NoFile = NoFile
  Blank = Blank
  Garbled = Garbled
  MaxEdits = 2
  MaxKills = 1
  Dirs = {d1, d2}
  Clash = {d1, d2}
  Enrolled = {d1}
  Apps = {"server", "web"}
  Pids = {p1, p2}
  Default = Default
  Root = Root
  Nothing = Nothing
  Stale = Stale
  MaxCmds = 1
  MaxFaults = 1
  MaxHands = 1
  MaxUpsets = 1
  Servers = {s1}
  Hosts = {h1, h2}
  UnitBrands = {u1, u2}
  Ports = {9810}
  DefaultPort = 17980
  WeaknetPort = 9810
  Unset = Unset
  Clis = {c1, c2}
  MaxOps = 3
  MaxSlips = 1
INVARIANTS
  
  InitConverges
  StopSticks
  
PROPERTIES
  
  KillsStayDead
SYMMETRY Symmetry
CHECK_DEADLOCK FALSE
