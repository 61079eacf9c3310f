\* Program: two threads can wait at the two words while a third one changes them.
\* A timeout before and one after the last barrier: time stops there.
CONSTANTS
  p = p
  q = q
  r = r
  f = f
  g = g
  Program <- MCProgram
  Futex <- MCFutexes
  Value = {0, 1}
  Reset = 0
  Many = 3
  MaxTime = 1
  Timeouts = {1, 2}
  NoOne = NoOne
SPECIFICATION FutexSpec
INVARIANTS FutexTypeOK BlockedAreQueued NoStoreIsMissed TimeoutsAreTrue
PROPERTIES TimeoutsFire
\* An application whose threads all wait without a timeout stops.
CHECK_DEADLOCK FALSE
