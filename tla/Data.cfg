\* The data of the protocol without evictions; two cores with private caches of which the
\* first has one way, the second and the shared L3 two, for three lines, so that all
\* three levels evict, and dirty lines too.
CONSTANTS
  x = x
  y = y
  z = z
  NoAddr = NoAddr
  Core = {0, 1}
  Addr = {x}
  Thread = {0, 1}
  LLCOf <- PrivateCache
  DirHome <- HomeAtZero
  DramHome <- HomeAtZero
  Program <- AnyAccess
  Evictable = {}
  Protocol = "MSI"
  MaxHwSharers = 2
  DirWays = 1
  TrackData = TRUE
  l1a = l1a
  l1b = l1b
  l2a = l2a
  l2b = l2b
  l3 = l3
  line1 = line1
  line2 = line2
  line3 = line3
  StackCache <- MCCaches
  Lower <- MCLower
  LastLevel = l3
  Associativity <- MCWays
  StackLine = {line1, line2, line3}
  NoLine = NoLine
  Subjects = {"protocol", "stack"}
SPECIFICATION MCSpec
INVARIANTS ReadableIsCurrent StackAssertionsHold LevelsAgree LastWriteIsKept
SYMMETRY Symmetry
