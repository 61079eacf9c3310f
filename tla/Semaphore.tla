------------------------------ MODULE Semaphore ------------------------------
(***************************************************************************)
(* common/misc/semaphore.cc at the level of its futex calls.  The count    *)
(* and the number of waiters are guarded by _lock, _futx is also read by   *)
(* the kernel in FUTEX_WAIT without it.  A critical section that touches   *)
(* only what the lock guards is one step; a signal, whose store to _futx   *)
(* and whose FUTEX_WAKE the kernel sees one after the other, is two steps  *)
(* under the lock.                                                         *)
(***************************************************************************)
EXTENDS Integers, FiniteSets

CONSTANTS Waiter,      \* threads that may wait and signal
          Initial,     \* argument of the constructor
          MaxSignals   \* bound: number of signals and broadcasts

ASSUME InitialAssumption == Initial \in Nat
ASSUME SignalsAssumption == MaxSignals \in Nat
ASSUME WaiterAssumption == IsFiniteSet(Waiter)

VARIABLES count,       \* _count
          numWaiting,  \* _numWaiting
          futx,        \* _futx
          lock,        \* who holds _lock between two steps: {} or {t}
          where,          \* where each thread is
          signals      \* signals and broadcasts so far (bounds the model)

semVars == <<count, numWaiting, futx, lock, where, signals>>

\* "out": not in the semaphore; "enter": in wait(), about to take _lock;
\* "unlocked": before FUTEX_WAIT; "asleep": in the kernel; "awake": FUTEX_WAIT
\* has returned, _lock not yet taken; "wake" and "wakeall": in signal() and in
\* broadcast(), after the store to _futx.
SemPC == {"out", "enter", "unlocked", "asleep", "awake", "wake", "wakeall"}

At(place) == {t \in Waiter : where[t] = place}

SemTypeOK ==
  /\ count \in 0 .. Initial + MaxSignals
  /\ numWaiting \in 0 .. Cardinality(Waiter)
  /\ futx \in {0, 1}
  /\ lock \in SUBSET Waiter
  /\ where \in [Waiter -> SemPC]
  /\ signals \in 0 .. MaxSignals

SemInit ==
  /\ count = Initial
  /\ numWaiting = 0
  /\ futx = 0
  /\ lock = {}
  /\ where = [t \in Waiter |-> "out"]
  /\ signals = 0

Goto(t, place) == where' = [where EXCEPT ![t] = place]

Call(t) ==
  /\ where[t] = "out"
  /\ Goto(t, "enter")
  /\ UNCHANGED <<count, numWaiting, futx, lock, signals>>

\* A thread holding _lock finds a permit: it takes it and leaves.
TakePermit(t, waiters) ==
  /\ count > 0
  /\ count' = count - 1
  /\ numWaiting' = waiters
  /\ Goto(t, "out")
  /\ UNCHANGED futx

\* It finds none: it is (again) counted as a waiter, resets _futx and gives
\* up _lock.
GoWait(t, waiters) ==
  /\ count <= 0
  /\ numWaiting' = waiters + 1
  /\ futx' = 0
  /\ Goto(t, "unlocked")
  /\ UNCHANGED count

Enter(t) ==
  /\ where[t] = "enter"
  /\ lock = {}
  /\ TakePermit(t, numWaiting) \/ GoWait(t, numWaiting)
  /\ UNCHANGED <<lock, signals>>

\* FUTEX_WAIT compares and sleeps in one step of the kernel.
FutexWait(t) ==
  /\ where[t] = "unlocked"
  /\ Goto(t, IF futx = 0 THEN "asleep" ELSE "awake")
  /\ UNCHANGED <<count, numWaiting, futx, lock, signals>>

\* A signal of the operating system ends FUTEX_WAIT early.
Interrupt(t) ==
  /\ where[t] = "asleep"
  /\ Goto(t, "awake")
  /\ UNCHANGED <<count, numWaiting, futx, lock, signals>>

\* Back in the loop of wait(), with _lock.
RecheckWithoutLoop(t) ==
  /\ where[t] = "awake"
  /\ lock = {}
  /\ count' = count - 1
  /\ numWaiting' = numWaiting - 1
  /\ Goto(t, "out")
  /\ UNCHANGED <<futx, lock, signals>>

Recheck(t) ==
  /\ where[t] = "awake"
  /\ lock = {}
  /\ TakePermit(t, numWaiting - 1) \/ GoWait(t, numWaiting - 1)
  /\ UNCHANGED <<lock, signals>>

PostFirstOnly(t, how) ==
  /\ where[t] = "out"
  /\ lock = {}
  /\ signals < MaxSignals
  /\ signals' = signals + 1
  /\ count' = count + 1
  /\ \/ /\ numWaiting > 0 /\ count = 0
        /\ futx' = 1
        /\ lock' = {t}
        /\ Goto(t, how)
     \/ /\ numWaiting = 0 \/ count > 0
        /\ UNCHANGED <<futx, lock, where>>
  /\ UNCHANGED numWaiting

\* signal() (how = "wake") and broadcast() (how = "wakeall") up to FUTEX_WAKE.
Post(t, how) ==
  /\ where[t] = "out"
  /\ lock = {}
  /\ signals < MaxSignals
  /\ signals' = signals + 1
  /\ count' = count + 1
  /\ \/ /\ numWaiting > 0
        /\ futx' = 1
        /\ lock' = {t}
        /\ Goto(t, how)
     \/ /\ numWaiting = 0
        /\ UNCHANGED <<futx, lock, where>>
  /\ UNCHANGED numWaiting

\* FUTEX_WAKE of one sleeper, whichever the kernel picks, or of nobody.
WakeOne(t) ==
  /\ where[t] = "wake"
  /\ \/ \E w \in At("asleep") : where' = [where EXCEPT ![t] = "out", ![w] = "awake"]
     \/ At("asleep") = {} /\ Goto(t, "out")
  /\ lock' = {}
  /\ UNCHANGED <<count, numWaiting, futx, signals>>

WakeAll(t) ==
  /\ where[t] = "wakeall"
  /\ where' = [u \in Waiter |-> IF u = t THEN "out"
                             ELSE IF where[u] = "asleep" THEN "awake" ELSE where[u]]
  /\ lock' = {}
  /\ UNCHANGED <<count, numWaiting, futx, signals>>

\* What a thread does once it is inside the semaphore.
Step(t) == Enter(t) \/ FutexWait(t) \/ Recheck(t) \/ WakeOne(t) \/ WakeAll(t)

SemNext == \E t \in Waiter : \/ Call(t) \/ Step(t) \/ Interrupt(t)
                          \/ Post(t, "wake") \/ Post(t, "wakeall")

\* A thread inside the semaphore goes on; one that waits for _lock gets it
\* although others take it in between (Lock is a pthread mutex).  Nothing is
\* assumed of interrupts or of threads outside.
Fairness == \A t \in Waiter : SF_semVars(Enter(t)) /\ SF_semVars(Recheck(t))
                           /\ WF_semVars(FutexWait(t))
                           /\ WF_semVars(WakeOne(t)) /\ WF_semVars(WakeAll(t))

SemSpec == SemInit /\ [][SemNext]_semVars /\ Fairness
-----------------------------------------------------------------------------
InWait == At("enter") \cup At("unlocked") \cup At("asleep") \cup At("awake")

\* Threads _numWaiting stands for.
Counted == At("unlocked") \cup At("asleep") \cup At("awake")

\* Wake-ups under way: threads whose FUTEX_WAIT has returned or will return
\* without sleeping, and a signal that has yet to call FUTEX_WAKE.
Pending == At("awake") \cup At("wake") \cup At("wakeall")
           \cup (IF futx = 1 THEN At("unlocked") ELSE {})

\* No wake-up is lost: a thread sleeps in the kernel only while each permit is
\* spoken for by somebody who is on the way to look (semaphore.cc wait/signal).
NoLostWakeup == At("asleep") # {} => count <= Cardinality(Pending)

\* A thread about to sleep on a zero _futx does so for want of a permit: the
\* store of 0 by one waiter never hides the signal meant for another.
ResetIsJustified == futx = 0 /\ Counted # {} => count = 0

\* The semaphore hands out permits as its users expect, and a permit is not
\* left while somebody waits.
CS == INSTANCE CountingSemaphore WITH Thread <- Waiter, permits <- count, waiting <- InWait
ImplementsCountingSemaphore == CS!Spec
=============================================================================
