\* Set lock: three cores share the last-level cache, a thread takes the whole
\* stack.  Semaphore: three threads, three signals.  Mailbox: a thread s that only
\* sends and the network thread n, which also sends to its own node.
CONSTANTS
  NumSharers = 3
  NetThread = {n1}
  NoThread = NoThread
  Waiter = {t1, t2, t3}
  Initial = 0
  MaxSignals = 3
  Sender = {s, n}
  Receiver = {n}
  MaxSends = 2
SPECIFICATION MCSpec
INVARIANTS Exclusion NoCircularWait NoLostWakeup NoMessageStuck
PROPERTIES ImplementsSharedExclusiveLock ImplementsCountingSemaphore ImplementsMessageQueue
\* Waiters may outlast the signals, and the network thread sleeps for ever when
\* nobody sends any more.
CHECK_DEADLOCK FALSE
