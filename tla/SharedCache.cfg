\* Two threads share a last-level cache, a third has its own.
CONSTANTS
  x = x
  y = y
  z = z
  NoAddr = NoAddr
  Core = {0, 1}
  Addr = {x}
  Thread = {0, 1, 2}
  LLCOf <- SharedCache
  DirHome <- HomeAtZero
  DramHome <- HomeAtZero
  Program <- AnyAccess
  Evictable = {x}
  Protocol = "MSI"
  MaxHwSharers = 2
  DirWays = 1
  TrackData = FALSE
SPECIFICATION FairSpec
INVARIANTS TypeOK OneRequestPerMiss
PROPERTIES EveryAccessServed ImplementsCoherentLines
