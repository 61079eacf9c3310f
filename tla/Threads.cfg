CONSTANTS
  t1 = t1
  t2 = t2
  t3 = t3
  Thread = {t1, t2, t3}
  Main = t1
  Core <- ThreeCores
  None = None
  HostCores = 1
  MaxLag = 1
  MaxSleep = 1
  Operation = {"sync", "sleep", "block", "join", "yield", "affinity"}
SPECIFICATION Safety
INVARIANTS TypeOK AssertionsHold ExecutesOnItsCore EveryStallHasAWaker WaitersWillBeReleased CoresAgree
SYMMETRY Symmetry
PROPERTIES TimeWaitsForRunning
CHECK_DEADLOCK FALSE
