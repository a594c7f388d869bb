SPECIFICATION HostSpec
CONSTANTS
  Configs = {a, b, i, k, t}
  Invalid = {i}
  Keyless = {k}
  Tokenless = {t}
  Wide = {b}
  Rewired = {b}
  First = a
  None = None
  MaxEdits = 1
  MaxPushes = 1
  MaxCmds = 2
  MaxFaults = 1
INVARIANTS
  NoStartOverCorpses
  RunningRowIsTrue
  EditsLand
  LampIsHonest
CHECK_DEADLOCK FALSE
