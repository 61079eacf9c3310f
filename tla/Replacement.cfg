\* Three lines compete for the two entries of a directory set, which have room for one sharer.
CONSTANTS
  x = x
  y = y
  z = z
  NoAddr = NoAddr
  Core = {0, 1}
  Addr = {x, y, z}
  Thread = {0, 1}
  LLCOf <- PrivateCache
  DirHome <- HomeAtZero
  DramHome <- HomeAtZero
  Program <- ThreeLines
  Evictable = {x}
  Protocol = "MESI"
  MaxHwSharers = 1
  DirWays = 2
  TrackData = FALSE
SPECIFICATION Spec
INVARIANTS AssertionsHold DirectoryCoversCaches NothingForgotten
