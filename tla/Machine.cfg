\* Monitors: three threads, two nested mutexes: one thread can wait for a condition
\* and another lock and signal while a third is in the queue of a mutex or arrives
\* at the barrier of the next round.  Translations: a large page of two halves and
\* three small ones, one of which has the number of the large one, in fewer entries;
\* two lines.  Cache set: more lines than ways, one of them waiting for an upgrade
\* and one query.
CONSTANTS
  a = a
  b = b
  d = d
  e = e
  Subjects = {"monitors", "translations", "cache set"}
  Client <- MCClients
  Mutex = {1, 2}
  Cond <- MCConds
  Parties = 2
  NoOwner = NoOwner
  Addr = {0, 1, 2, 3, 6}
  Large = {2, 3}
  Ratio = 2
  Group = 2
  L1Entries = 1
  L2Entries = 2
  OnWalk = TRUE
  Ways = 3
  Block = {1, 2, 3, 4}
  NoBlock = 0
  Attempts = 2
  MaxUpgrading = 1
SPECIFICATION MCSpec
INVARIANTS MachineTypeOK StalledAreQueued
PROPERTIES ImplementsMonitors LockersAreServed LookupsForgetNothing ImplementsRecencyList
\* An application whose threads all wait for a signal stops.
CHECK_DEADLOCK FALSE
