------------------------------ MODULE SetLock ------------------------------
(***************************************************************************)
(* The lock of one cache set (common/misc/setlock.cc): one mutex per core  *)
(* that shares the last-level cache.  A first-level transaction of core c  *)
(* takes mutex c; a transaction on the complete stack takes all of them,   *)
(* one after the other, in index order.  The threads are those that use it *)
(* through CacheCntlr::acquireLock, acquireStackLock and their releases:   *)
(* the user thread of every sharing core, and the network threads.         *)
(***************************************************************************)
EXTENDS Integers

CONSTANTS NumSharers,  \* m_locks.size(): cores that share the last-level cache
          NetThread,   \* network threads: they only ever take the whole stack
          NoThread

Sharer == 0 .. NumSharers - 1      \* user threads, numbered from m_core_offset
Thread == Sharer \cup NetThread

ASSUME SharersAssumption == NumSharers \in Nat \ {0}
ASSUME NetThreadAssumption == NetThread \cap Int = {}
ASSUME NoThreadAssumption == NoThread \notin Thread

VARIABLES holder,      \* holder[i]: the thread that has mutex i, or NoThread
          pc,          \* what each thread is doing with the lock
          at           \* the next mutex of a thread's loop over m_locks

vars == <<holder, pc, at>>

PC == {"idle", "shared", "acquiring", "exclusive", "releasing", "downgrading"}

TypeOK == /\ holder \in [Sharer -> Thread \cup {NoThread}]
          /\ pc \in [Thread -> PC]
          /\ at \in [Thread -> 0 .. NumSharers]
          /\ \A t \in Thread : pc[t] \in {"shared", "downgrading"} => t \in Sharer
          /\ \A t \in Thread : pc[t] \in {"acquiring", "releasing"} => at[t] < NumSharers

Init == /\ holder = [i \in Sharer |-> NoThread]
        /\ pc = [t \in Thread |-> "idle"]
        /\ at = [t \in Thread |-> 0]

-----------------------------------------------------------------------------
AcquireShared(c) == /\ pc[c] = "idle"
                    /\ holder[c] = NoThread
                    /\ holder' = [holder EXCEPT ![c] = c]
                    /\ pc' = [pc EXCEPT ![c] = "shared"]
                    /\ UNCHANGED at

ReleaseShared(c) == /\ pc[c] = "shared"
                    /\ holder' = [holder EXCEPT ![c] = NoThread]
                    /\ pc' = [pc EXCEPT ![c] = "idle"]
                    /\ UNCHANGED at

BeginExclusive(t) == /\ pc[t] = "idle"
                     /\ pc' = [pc EXCEPT ![t] = "acquiring"]
                     /\ at' = [at EXCEPT ![t] = 0]
                     /\ UNCHANGED holder

\* Fault: an upgrade that keeps the caller's own mutex while it takes the others.
UpgradeKeepingOwn(c) == /\ pc[c] = "shared"
                        /\ pc' = [pc EXCEPT ![c] = "acquiring"]
                        /\ at' = [at EXCEPT ![c] = 0]
                        /\ UNCHANGED holder

\* upgrade(): release_shared first, then the acquire_exclusive loop.
Upgrade(c) == /\ pc[c] = "shared"
              /\ holder' = [holder EXCEPT ![c] = NoThread]
              /\ pc' = [pc EXCEPT ![c] = "acquiring"]
              /\ at' = [at EXCEPT ![c] = 0]

\* Fault: the loop over m_locks stops one mutex short.
AcquireOneShort(t) == /\ pc[t] = "acquiring"
                      /\ holder[at[t]] = NoThread
                      /\ holder' = [holder EXCEPT ![at[t]] = t]
                      /\ at' = [at EXCEPT ![t] = @ + 1]
                      /\ pc' = [pc EXCEPT ![t] = IF at[t] + 2 >= NumSharers
                                                 THEN "exclusive" ELSE "acquiring"]

AcquireNext(t) == /\ pc[t] = "acquiring"
                  /\ holder[at[t]] = NoThread
                  /\ holder' = [holder EXCEPT ![at[t]] = t]
                  /\ at' = [at EXCEPT ![t] = @ + 1]
                  /\ pc' = [pc EXCEPT ![t] = IF at[t] + 1 = NumSharers
                                             THEN "exclusive" ELSE "acquiring"]

BeginRelease(t) == /\ pc[t] = "exclusive"
                   /\ pc' = [pc EXCEPT ![t] = "releasing"]
                   /\ at' = [at EXCEPT ![t] = 0]
                   /\ UNCHANGED holder

ReleaseNext(t) == /\ pc[t] = "releasing"
                  /\ holder' = [holder EXCEPT ![at[t]] = NoThread]
                  /\ at' = [at EXCEPT ![t] = @ + 1]
                  /\ pc' = [pc EXCEPT ![t] = IF at[t] + 1 = NumSharers
                                             THEN "idle" ELSE "releasing"]

BeginDowngrade(c) == /\ pc[c] = "exclusive"
                     /\ pc' = [pc EXCEPT ![c] = "downgrading"]
                     /\ at' = [at EXCEPT ![c] = 0]
                     /\ UNCHANGED holder

\* Fault: a downgrade that releases the caller's own mutex with the others.
DowngradeAll(c) == /\ pc[c] = "downgrading"
                   /\ at[c] < NumSharers
                   /\ holder' = [holder EXCEPT ![at[c]] = NoThread]
                   /\ at' = [at EXCEPT ![c] = @ + 1]
                   /\ UNCHANGED pc

\* downgrade() releases every mutex but the caller's own.
DowngradeNext(c) == /\ pc[c] = "downgrading"
                    /\ at[c] < NumSharers
                    /\ holder' = IF at[c] = c THEN holder
                                 ELSE [holder EXCEPT ![at[c]] = NoThread]
                    /\ at' = [at EXCEPT ![c] = @ + 1]
                    /\ UNCHANGED pc

EndDowngrade(c) == /\ pc[c] = "downgrading"
                   /\ at[c] = NumSharers
                   /\ pc' = [pc EXCEPT ![c] = "shared"]
                   /\ UNCHANGED <<holder, at>>

\* "Pass stack lock through to user thread": the network thread signals the
\* user thread, which sleeps without any lock, and that thread goes on with
\* the mutexes the network thread acquired.
PassThrough(t, c) == /\ pc[t] = "exclusive"
                     /\ pc[c] = "idle"
                     /\ pc' = [pc EXCEPT ![t] = "idle", ![c] = "exclusive"]
                     /\ holder' = [i \in Sharer |-> c]
                     /\ UNCHANGED at

SharerStep(c) == \/ AcquireShared(c) \/ ReleaseShared(c) \/ Upgrade(c)
                 \/ BeginDowngrade(c) \/ DowngradeNext(c) \/ EndDowngrade(c)

ThreadStep(t) == \/ BeginExclusive(t) \/ AcquireNext(t)
                 \/ BeginRelease(t) \/ ReleaseNext(t)

Next == \/ \E c \in Sharer : SharerStep(c)
        \/ \E t \in Thread : ThreadStep(t)
        \/ \E t \in NetThread, c \in Sharer : PassThrough(t, c)

Spec == Init /\ [][Next]_vars

-----------------------------------------------------------------------------
(* Properties *)

\* A thread that owns the complete stack of the set is alone: no other thread
\* is in a stack transaction, and no core is inside a first-level one.
Exclusion ==
  \A t, u \in Thread :
     pc[t] = "exclusive" /\ u # t => pc[u] \notin {"exclusive", "shared", "downgrading"}

\* The threads that use the lock never all wait for one another (the comment
\* in acquireStackLock: upgrading while keeping the own mutex could deadlock).
Blocked(t) == pc[t] = "acquiring" /\ holder[at[t]] # NoThread

NoCircularWait ==
  (\E t \in Thread : pc[t] # "idle") => \E t \in Thread : pc[t] # "idle" /\ ~Blocked(t)

\* The lock behaves like the shared/exclusive lock its users assume, although
\* it is taken and given back one mutex at a time.
Abstract == INSTANCE SharedExclusiveLock
              WITH readers <- {c \in Sharer : pc[c] \in {"shared", "downgrading"}},
                   writer <- IF \E t \in Thread : pc[t] = "exclusive"
                             THEN CHOOSE t \in Thread : pc[t] = "exclusive"
                             ELSE NoThread

ImplementsSharedExclusiveLock == Abstract!Spec
=============================================================================
