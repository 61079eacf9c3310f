\* Three caches, so that a third one may forward the line, MESIF.
CONSTANTS
  x = x
  y = y
  z = z
  NoAddr = NoAddr
  Core = {0, 1, 2}
  Addr = {x}
  Thread = {0, 1, 2}
  LLCOf <- PrivateCache
  DirHome <- HomeAtZero
  DramHome <- HomeAtZero
  Program <- AnyAccess
  Evictable = {x}
  Protocol = "MESIF"
  MaxHwSharers = 3
  DirWays = 1
  TrackData = FALSE
SPECIFICATION Spec
INVARIANTS SingleWriter AssertionsHold NothingForgotten
