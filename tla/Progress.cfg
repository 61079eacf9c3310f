CONSTANTS
  t1 = t1
  t2 = t2
  t3 = t3
  Thread = {t1, t2, t3}
  Main = t1
  Core <- TwoCores
  None = None
  HostCores = 1
  MaxLag = 0
  MaxSleep = 0
  Operation = {"sleep", "affinity"}
SPECIFICATION Spec
PROPERTIES TimeBringsProgress
CHECK_DEADLOCK FALSE
