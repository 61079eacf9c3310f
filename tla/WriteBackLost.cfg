\* Two caches with evictions: a written line that was read elsewhere.
CONSTANTS
  x = x
  y = y
  z = z
  NoAddr = NoAddr
  Core = {0, 1}
  Addr = {x}
  Thread = {0, 1}
  LLCOf <- PrivateCache
  DirHome <- HomeAtZero
  DramHome <- HomeAtZero
  Program <- AnyAccess
  Evictable = {x}
  Protocol = "MESI"
  MaxHwSharers = 2
  DirWays = 1
  TrackData = TRUE
SPECIFICATION Spec
INVARIANTS NoDataLost
