\* An upgrade whose requester lost its copy, with two other sharers.
CONSTANTS
  x = x
  y = y
  z = z
  NoAddr = NoAddr
  Core = {0, 1, 2}
  Addr = {x}
  Thread = {0, 1, 2}
  LLCOf <- PrivateCache
  DirHome <- HomeAtZero
  DramHome <- HomeAtZero
  Program <- AnyAccess
  Evictable = {}
  Protocol = "MSI"
  MaxHwSharers = 3
  DirWays = 1
  TrackData = TRUE
SPECIFICATION FairSpec
PROPERTY SavedDataIsSent
