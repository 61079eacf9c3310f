-------------------------- MODULE Primitives_proofs --------------------------
(***************************************************************************)
(* Proofs about the primitives the host threads synchronise with, which    *)
(* share nothing: SetLock for every number of sharing cores and every set  *)
(* of network threads, Semaphore for every finite set of threads and every *)
(* number of signals, Mailbox for all sets of senders and receivers (a     *)
(* thread may be both: a network thread sends to its own node) and any     *)
(* number of messages.                                                     *)
(***************************************************************************)
EXTENDS SetLock, Semaphore, Mailbox,
        WellFoundedInduction, FiniteSetTheorems, SequenceTheorems, TLAPS

-----------------------------------------------------------------------------
(* SetLock.  Exclusion is not inductive: it follows from which mutexes a   *)
(* thread holds at each point of its loops (Holds).                        *)

\* The mutexes thread t holds, by what it is doing.
HoldsOf(t) ==
  /\ pc[t] = "shared" => holder[t] = t
  /\ pc[t] = "acquiring" => \A i \in Sharer : i < at[t] => holder[i] = t
  /\ pc[t] = "exclusive" => \A i \in Sharer : holder[i] = t
  /\ pc[t] = "releasing" => \A i \in Sharer : i >= at[t] => holder[i] = t
  /\ pc[t] = "downgrading" => /\ \A i \in Sharer : i >= at[t] => holder[i] = t
                              /\ holder[t] = t

Holds == \A t \in Thread : HoldsOf(t)

LockIInv == TypeOK /\ Holds

USE SharersAssumption, NetThreadAssumption, NoThreadAssumption

\* No thread holds anything at first.
LEMMA LockInitIInv == Init => LockIInv
  BY DEF Init, LockIInv, TypeOK, Holds, HoldsOf, Sharer, Thread, PC

\* Every step leaves each thread with the mutexes its position promises.
LEMMA LockNextIInv == LockIInv /\ [Next]_vars => LockIInv'
<1> SUFFICES ASSUME LockIInv, [Next]_vars PROVE LockIInv'
  OBVIOUS
<1> USE DEF LockIInv, TypeOK, Holds, HoldsOf, Sharer, Thread, PC
<1>1. ASSUME NEW c \in Sharer, AcquireShared(c) PROVE LockIInv'
  BY <1>1 DEF AcquireShared
<1>2. ASSUME NEW c \in Sharer, ReleaseShared(c) PROVE LockIInv'
  BY <1>2 DEF ReleaseShared
<1>3. ASSUME NEW c \in Sharer, Upgrade(c) PROVE LockIInv'
  BY <1>3 DEF Upgrade
<1>4. ASSUME NEW c \in Sharer, BeginDowngrade(c) PROVE LockIInv'
  BY <1>4 DEF BeginDowngrade
<1>5. ASSUME NEW c \in Sharer, DowngradeNext(c) PROVE LockIInv'
  BY <1>5 DEF DowngradeNext
<1>6. ASSUME NEW c \in Sharer, EndDowngrade(c) PROVE LockIInv'
  BY <1>6 DEF EndDowngrade
<1>7. ASSUME NEW t \in Thread, BeginExclusive(t) PROVE LockIInv'
  BY <1>7 DEF BeginExclusive
<1>8. ASSUME NEW t \in Thread, AcquireNext(t) PROVE LockIInv'
  <2>1. at[t] \in Sharer /\ at[t] + 1 \in 0 .. NumSharers
    BY <1>8 DEF AcquireNext
  <2>2. TypeOK'
    BY <1>8, <2>1 DEF AcquireNext
  <2>3. ASSUME NEW u \in Thread, u # t PROVE HoldsOf(u)'
    <3>1. pc'[u] = pc[u] /\ at'[u] = at[u]
      BY <1>8, <2>3 DEF AcquireNext
    <3>2. \A i \in Sharer : holder[i] = u => holder'[i] = u
      BY <1>8, <2>1, <2>3 DEF AcquireNext
    <3>3. QED
      BY <3>1, <3>2, <2>3
  <2>4. HoldsOf(t)'
    BY <1>8, <2>1 DEF AcquireNext
  <2>5. \A u \in Thread : HoldsOf(u)'
    BY ONLY <2>3, <2>4
  <2>6. QED
    BY ONLY <2>2, <2>5 DEF LockIInv, Holds
<1>9. ASSUME NEW t \in Thread, BeginRelease(t) PROVE LockIInv'
  BY <1>9 DEF BeginRelease
<1>10. ASSUME NEW t \in Thread, ReleaseNext(t) PROVE LockIInv'
  BY <1>10 DEF ReleaseNext
<1>11. ASSUME NEW t \in NetThread, NEW c \in Sharer, PassThrough(t, c) PROVE LockIInv'
  <2>1. c \in Int /\ t # c /\ t \in Thread /\ c \in Thread
    BY DEF Sharer, Thread
  <2>2. /\ pc[t] = "exclusive" /\ pc[c] = "idle"
        /\ holder' = [i \in Sharer |-> c]
        /\ pc' = [pc EXCEPT ![t] = "idle", ![c] = "exclusive"]
        /\ at' = at
    BY <1>11 DEF PassThrough
  <2>3. TypeOK'
    BY <2>1, <2>2
  <2>4. ASSUME NEW u \in Thread, u # t, u # c PROVE HoldsOf(u)'
    <3>1. pc'[u] = pc[u] /\ at'[u] = at[u] /\ \A i \in Sharer : holder[i] = t
      BY <2>1, <2>2, <2>4
    <3>2. pc[u] \notin {"shared", "exclusive", "downgrading"}
      BY <3>1, <2>4
    <3>3. pc[u] = "acquiring" => \A i \in Sharer : i >= at[u]
      BY <3>1, <2>4
    <3>4. pc[u] # "releasing"
      BY <3>1, <2>4
    <3>5. QED
      BY <3>1, <3>2, <3>3, <3>4
  <2>5. HoldsOf(t)' /\ HoldsOf(c)'
    BY <2>1, <2>2
  <2>6. QED
    BY <2>3, <2>4, <2>5
<1>12. CASE UNCHANGED vars
  BY <1>12 DEF vars
<1>13. QED
  BY <1>1, <1>2, <1>3, <1>4, <1>5, <1>6, <1>7, <1>8, <1>9, <1>10, <1>11, <1>12
     DEF Next, SharerStep, ThreadStep

\* A thread with every mutex leaves none for another one to be inside with.
LEMMA IInvExclusion == LockIInv => Exclusion
  BY DEF LockIInv, TypeOK, Holds, HoldsOf, Exclusion, Sharer, Thread, PC

\* The variables of the lock keep their types, in particular the loop index
\* never runs past m_locks.
THEOREM TypeCorrect == Spec => []TypeOK
<1>1. LockIInv => TypeOK
  BY DEF LockIInv
<1>2. QED
  BY LockInitIInv, LockNextIInv, <1>1, PTL DEF Spec

\* A thread that owns the whole stack of a set excludes every other one.
THEOREM StackExclusion == Spec => []Exclusion
<1>1. QED
  BY LockInitIInv, LockNextIInv, IInvExclusion, PTL DEF Spec

-----------------------------------------------------------------------------
\* The converse of Holds: whoever has a mutex is at a point of its loop where
\* it should have it.
OwnedBy(i, t) ==
  /\ pc[t] # "idle"
  /\ pc[t] = "shared" => i = t
  /\ pc[t] = "acquiring" => i < at[t]
  /\ pc[t] = "releasing" => i >= at[t]
  /\ pc[t] = "downgrading" => i >= at[t] \/ i = t

Owned == \A i \in Sharer, t \in Thread : holder[i] = t => OwnedBy(i, t)

\* Nobody has a mutex at first, and no step leaves one with a thread that has
\* passed it.
LEMMA InitOwned == Init => Owned
  BY DEF Init, Owned, Sharer, Thread

LEMMA NextOwned == LockIInv /\ Owned /\ [Next]_vars => Owned'
<1> SUFFICES ASSUME LockIInv, Owned, [Next]_vars PROVE Owned'
  OBVIOUS
<1> USE DEF LockIInv, TypeOK, Owned, OwnedBy, Sharer, Thread, PC
<1>1. ASSUME NEW c \in Sharer, AcquireShared(c) PROVE Owned'
  BY <1>1 DEF AcquireShared
<1>2. ASSUME NEW c \in Sharer, ReleaseShared(c) PROVE Owned'
  BY <1>2 DEF ReleaseShared
<1>3. ASSUME NEW c \in Sharer, Upgrade(c) PROVE Owned'
  BY <1>3 DEF Upgrade
<1>4. ASSUME NEW c \in Sharer, BeginDowngrade(c) PROVE Owned'
  BY <1>4 DEF BeginDowngrade
<1>5. ASSUME NEW c \in Sharer, DowngradeNext(c) PROVE Owned'
  BY <1>5 DEF DowngradeNext
<1>6. ASSUME NEW c \in Sharer, EndDowngrade(c) PROVE Owned'
  BY <1>6 DEF EndDowngrade
<1>7. ASSUME NEW t \in Thread, BeginExclusive(t) PROVE Owned'
  BY <1>7 DEF BeginExclusive
<1>8. ASSUME NEW t \in Thread, AcquireNext(t) PROVE Owned'
  BY <1>8 DEF AcquireNext
<1>9. ASSUME NEW t \in Thread, BeginRelease(t) PROVE Owned'
  BY <1>9 DEF BeginRelease
<1>10. ASSUME NEW t \in Thread, ReleaseNext(t) PROVE Owned'
  BY <1>10 DEF ReleaseNext
<1>11. ASSUME NEW t \in NetThread, NEW c \in Sharer, PassThrough(t, c) PROVE Owned'
  BY <1>11 DEF PassThrough
<1>12. CASE UNCHANGED vars
  BY <1>12 DEF vars
<1>13. QED
  BY <1>1, <1>2, <1>3, <1>4, <1>5, <1>6, <1>7, <1>8, <1>9, <1>10, <1>11, <1>12
     DEF Next, SharerStep, ThreadStep

\* A set of loop indices has a greatest one.
LEMMA Greatest ==
  ASSUME NEW T, T \subseteq 0 .. NumSharers, T # {}
  PROVE  \E x \in T : \A y \in T : y <= x
<1> DEFINE Below == {NumSharers - x : x \in T}
<1>1. Below \subseteq Nat /\ Below # {}
  <2>1. \A x \in T : x \in Int /\ 0 <= x /\ x <= NumSharers
    OBVIOUS
  <2>2. Below \subseteq Nat
    BY <2>1
  <2>3. PICK x \in T : TRUE
    OBVIOUS
  <2>4. NumSharers - x \in Below
    BY <2>3
  <2>5. QED
    BY <2>2, <2>4
<1>2. PICK m \in Below : \A k \in Below : <<k, m>> \notin OpToRel(<, Nat)
  BY <1>1, WFMin, NatLessThanWellFounded, Zenon
<1>3. \A k \in Below : ~(k < m)
  BY <1>1, <1>2, Zenon DEF OpToRel
<1>4. PICK x \in T : m = NumSharers - x
  OBVIOUS
<1>5. ASSUME NEW y \in T PROVE y <= x
  <2>1. NumSharers - y \in Below
    OBVIOUS
  <2>2. ~(NumSharers - y < NumSharers - x)
    BY <2>1, <1>3, <1>4
  <2>3. QED
    BY <2>2
<1>6. QED
  BY <1>5

\* Mutexes are taken in order: of the threads that are taking them, the one that
\* has come farthest waits for nobody who is taking them.
LEMMA FarthestGoesOn == LockIInv /\ Owned => NoCircularWait
<1> SUFFICES ASSUME LockIInv, Owned, NEW u \in Thread, pc[u] # "idle"
             PROVE  \E t \in Thread : pc[t] # "idle" /\ ~Blocked(t)
  BY DEF NoCircularWait
<1> DEFINE Taking == {t \in Thread : pc[t] = "acquiring"}
           Indices == {at[t] : t \in Taking}
<1>1. CASE Taking = {}
  BY <1>1 DEF Blocked
<1>2. CASE Taking # {}
  <2>1. Indices \subseteq 0 .. NumSharers /\ Indices # {}
    BY <1>2 DEF LockIInv, TypeOK
  <2>2. PICK x \in Indices : \A y \in Indices : y <= x
    BY <2>1, Greatest
  <2>3. PICK t \in Taking : at[t] = x
    OBVIOUS
  <2>4. at[t] \in Sharer
    BY DEF LockIInv, TypeOK, Sharer
  <2>5. CASE holder[at[t]] = NoThread
    BY <2>5 DEF Blocked
  <2>6. CASE holder[at[t]] # NoThread
    <3>1. PICK v \in Thread : holder[at[t]] = v
      BY <2>4, <2>6 DEF LockIInv, TypeOK
    <3>2. OwnedBy(at[t], v)
      BY <2>4, <3>1 DEF Owned
    <3>3. pc[v] # "acquiring"
      <4>1. SUFFICES ASSUME pc[v] = "acquiring" PROVE FALSE
        OBVIOUS
      <4>2. at[v] \in Indices /\ at[v] \in Int /\ at[t] \in Int
        BY <4>1 DEF LockIInv, TypeOK
      <4>3. at[t] < at[v] /\ at[v] <= at[t]
        BY <2>2, <2>3, <3>2, <4>1, <4>2 DEF OwnedBy
      <4>4. QED
        BY <4>2, <4>3
    <3>4. QED
      BY <3>2, <3>3 DEF OwnedBy, Blocked
  <2>7. QED
    BY <2>5, <2>6
<1>3. QED
  BY <1>1, <1>2

\* The threads that use the lock of a set never all wait for one another, however
\* many there are (the comment in acquireStackLock about upgrades that keep the
\* own mutex).
THEOREM SomebodyGoesOn == Spec => []NoCircularWait
<1>1. Init => LockIInv /\ Owned
  BY LockInitIInv, InitOwned
<1>2. LockIInv /\ Owned /\ [Next]_vars => (LockIInv /\ Owned)'
  BY LockNextIInv, NextOwned
<1>3. QED
  BY <1>1, <1>2, FarthestGoesOn, PTL DEF Spec

-----------------------------------------------------------------------------
\* The refinement mapping of SetLock!Abstract.
Readers == {c \in Sharer : pc[c] \in {"shared", "downgrading"}}
Writer == IF \E t \in Thread : pc[t] = "exclusive"
          THEN CHOOSE t \in Thread : pc[t] = "exclusive"
          ELSE NoThread

\* The writer is the thread that owns the stack; it has no readers beside it.
WriterOwns ==
  /\ \A t \in Thread : pc[t] = "exclusive" <=> Writer = t
  /\ Writer # NoThread => Writer \in Thread /\ Readers = {}

LEMMA IInvWriter == LockIInv => WriterOwns
<1> SUFFICES ASSUME LockIInv PROVE WriterOwns
  OBVIOUS
<1>1. Exclusion
  BY IInvExclusion
<1>2. ASSUME NEW t \in Thread, pc[t] = "exclusive" PROVE Writer = t /\ Readers = {}
  <2>1. \A u \in Thread : pc[u] = "exclusive" <=> u = t
    BY <1>1, <1>2 DEF Exclusion
  <2>2. Writer = CHOOSE u \in Thread : pc[u] = "exclusive"
    BY <1>2 DEF Writer
  <2>3. Writer \in Thread /\ pc[Writer] = "exclusive"
    BY <1>2, <2>2
  <2>4. Readers = {}
    BY <1>1, <1>2 DEF Exclusion, Readers, Thread
  <2>5. QED
    BY <2>1, <2>3, <2>4
<1>3. (\A t \in Thread : pc[t] # "exclusive") => Writer = NoThread
  BY DEF Writer
<1>4. QED
  BY <1>2, <1>3, NoThreadAssumption DEF WriterOwns

\* Each step of the lock is a step of the lock its users assume, or none.
LEMMA LockStepSimulates == LockIInv /\ LockIInv' /\ [Next]_vars => [Abstract!Next]_<<Readers, Writer>>
<1> SUFFICES ASSUME LockIInv, LockIInv', [Next]_vars
             PROVE  Abstract!Next \/ UNCHANGED <<Readers, Writer>>
  BY DEF Abstract!rwVars
<1>1. WriterOwns
  BY IInvWriter
<1>2. WriterOwns'
  BY IInvWriter, PTL
<1>3. /\ pc \in [Thread -> PC] /\ pc' \in [Thread -> PC]
      /\ Sharer \subseteq Thread /\ NoThread \notin Thread
  BY DEF LockIInv, TypeOK, Thread
<1>4. ASSUME \A t \in Thread : pc'[t] = "exclusive" <=> pc[t] = "exclusive"
      PROVE  Writer' = Writer
  BY <1>1, <1>2, <1>4 DEF WriterOwns
<1>5. ASSUME NEW i \in Sharer, holder[i] = NoThread PROVE Writer = NoThread
  BY <1>1, <1>3, <1>5 DEF WriterOwns, LockIInv, Holds, HoldsOf
<1>6. ASSUME NEW c \in Sharer, AcquireShared(c) PROVE Abstract!Next
  <2>1. Writer' = Writer /\ Writer = NoThread
    BY <1>3, <1>4, <1>5, <1>6 DEF AcquireShared
  <2>2. c \notin Readers /\ Readers' = Readers \cup {c}
    BY <1>3, <1>6 DEF AcquireShared, Readers
  <2>3. QED
    BY <2>1, <2>2 DEF Abstract!Next, Abstract!BeginRead, Readers, Writer
<1>7. ASSUME NEW c \in Sharer, ReleaseShared(c) \/ Upgrade(c) PROVE Abstract!Next
  <2>1. Writer' = Writer
    BY <1>3, <1>4, <1>7 DEF ReleaseShared, Upgrade
  <2>2. c \in Readers /\ Readers' = Readers \ {c}
    BY <1>3, <1>7 DEF ReleaseShared, Upgrade, Readers
  <2>3. QED
    BY <2>1, <2>2 DEF Abstract!Next, Abstract!EndRead, Readers, Writer
<1>8. ASSUME NEW c \in Sharer, BeginDowngrade(c) PROVE Abstract!Next
  <2>1. Writer = c /\ Readers = {}
    BY <1>1, <1>3, <1>8 DEF BeginDowngrade, WriterOwns
  <2>2. \A t \in Thread : pc'[t] # "exclusive"
    BY <1>1, <1>3, <1>8, <2>1 DEF BeginDowngrade, WriterOwns
  <2>3. Writer' = NoThread
    BY <1>2, <2>2 DEF WriterOwns
  <2>4. Readers' = {c}
    BY <1>3, <1>8, <2>1 DEF BeginDowngrade, Readers
  <2>5. QED
    BY <2>1, <2>3, <2>4 DEF Abstract!Next, Abstract!Downgrade, Readers, Writer
<1>9. ASSUME NEW c \in Sharer, DowngradeNext(c) \/ EndDowngrade(c)
      PROVE UNCHANGED <<Readers, Writer>>
  <2>1. Readers' = Readers
    BY <1>3, <1>9 DEF DowngradeNext, EndDowngrade, Readers
  <2>2. Writer' = Writer
    BY <1>3, <1>4, <1>9 DEF DowngradeNext, EndDowngrade
  <2>3. QED
    BY <2>1, <2>2
<1>10. ASSUME NEW t \in Thread, BeginExclusive(t) \/ ReleaseNext(t)
       PROVE UNCHANGED <<Readers, Writer>>
  <2>1. Readers' = Readers
    BY <1>3, <1>10 DEF BeginExclusive, ReleaseNext, Readers
  <2>2. Writer' = Writer
    BY <1>3, <1>4, <1>10 DEF BeginExclusive, ReleaseNext
  <2>3. QED
    BY <2>1, <2>2
<1>11. ASSUME NEW t \in Thread, AcquireNext(t)
       PROVE Abstract!Next \/ UNCHANGED <<Readers, Writer>>
  <2>1. Readers' = Readers
    BY <1>3, <1>11 DEF AcquireNext, Readers
  <2>2. CASE pc'[t] # "exclusive"
    <3>1. Writer' = Writer
      BY <1>3, <1>4, <1>11, <2>2 DEF AcquireNext
    <3>2. QED
      BY <2>1, <3>1
  <2>3. CASE pc'[t] = "exclusive"
    <3>1. Writer' = t /\ Readers' = {}
      BY <1>2, <1>3, <2>3 DEF WriterOwns
    <3>2. at[t] \in Sharer /\ holder[at[t]] = NoThread
      BY <1>11 DEF AcquireNext, LockIInv, TypeOK, Sharer
    <3>3. Writer = NoThread
      BY <1>5, <3>2
    <3>4. QED
      BY <2>1, <3>1, <3>3 DEF Abstract!Next, Abstract!BeginWrite, Readers, Writer
  <2>4. QED
    BY <2>2, <2>3
<1>12. ASSUME NEW t \in Thread, BeginRelease(t) PROVE Abstract!Next
  <2>1. Writer = t
    BY <1>1, <1>12 DEF BeginRelease, WriterOwns
  <2>2. \A u \in Thread : pc'[u] # "exclusive"
    BY <1>1, <1>3, <1>12, <2>1 DEF BeginRelease, WriterOwns
  <2>3. Writer' = NoThread
    BY <1>2, <2>2 DEF WriterOwns
  <2>4. Readers' = Readers
    BY <1>3, <1>12 DEF BeginRelease, Readers
  <2>5. QED
    BY <2>1, <2>3, <2>4 DEF Abstract!Next, Abstract!EndWrite, Readers, Writer
<1>13. ASSUME NEW t \in NetThread, NEW c \in Sharer, PassThrough(t, c) PROVE Abstract!Next
  <2>1. t \in Thread /\ c \in Thread /\ t # c
    BY DEF Thread, Sharer
  <2>2. Writer = t /\ Writer' = c
    BY <1>1, <1>2, <1>3, <1>13, <2>1 DEF PassThrough, WriterOwns
  <2>3. Readers' = Readers
    BY <1>3, <1>13, <2>1 DEF PassThrough, Readers
  <2>4. QED
    BY <2>1, <2>2, <2>3 DEF Abstract!Next, Abstract!Pass, Readers, Writer
<1>14. CASE UNCHANGED vars
  BY <1>14 DEF vars, Readers, Writer
<1>15. QED
  BY <1>6, <1>7, <1>8, <1>9, <1>10, <1>11, <1>12, <1>13, <1>14 DEF Next, SharerStep, ThreadStep

\* The loops over the mutexes of a set, with upgrades, downgrades and hand-over,
\* implement the lock of readers and one writer that CacheCntlr assumes, for every
\* number of sharers and network threads.
THEOREM LockRefines == Spec => ImplementsSharedExclusiveLock
<1>1. Init => Abstract!Init
  <2>1. SUFFICES ASSUME Init PROVE Readers = {} /\ Writer = NoThread
    BY DEF Abstract!Init, Readers, Writer
  <2>2. \A t \in Thread : pc[t] = "idle"
    BY <2>1 DEF Init
  <2>3. \A c \in Sharer : pc[c] = "idle"
    BY <2>2 DEF Thread
  <2>4. QED
    BY <2>2, <2>3 DEF Readers, Writer
<1>2. LockIInv /\ LockIInv' /\ [Next]_vars => [Abstract!Next]_(Abstract!rwVars)
  BY LockStepSimulates DEF Abstract!rwVars, Readers, Writer
<1>3. QED
  BY <1>1, <1>2, LockInitIInv, LockNextIInv, PTL DEF Spec, ImplementsSharedExclusiveLock, Abstract!Spec


-----------------------------------------------------------------------------
(* Semaphore: a sleeping thread never misses a permit.                     *)

\* _numWaiting counts the threads between its increment and its decrement.
WaitersCounted == numWaiting = Cardinality(Counted)

SemIInv == /\ SemTypeOK
        /\ count <= Initial + signals
        /\ WaitersCounted
        /\ ResetIsJustified
        /\ NoLostWakeup

USE InitialAssumption, SignalsAssumption, WaiterAssumption

\* Sets of threads are finite, and so are the two sets that are counted.
LEMMA Finite == ASSUME NEW S, S \subseteq Waiter
                PROVE IsFiniteSet(S) /\ Cardinality(S) \in Nat
  BY FS_Subset, FS_CardinalityType

\* One thread more or less.
LEMMA AddOne == ASSUME NEW S, S \subseteq Waiter, NEW t \in Waiter, t \notin S
                PROVE Cardinality(S \cup {t}) = Cardinality(S) + 1
  BY Finite, FS_AddElement

LEMMA RemoveOne == ASSUME NEW S, S \subseteq Waiter, NEW t \in S
                   PROVE Cardinality(S \ {t}) = Cardinality(S) - 1
  BY Finite, FS_RemoveElement

\* A smaller set of threads has fewer.
LEMMA Fewer == ASSUME NEW S, NEW T, S \subseteq T, T \subseteq Waiter
               PROVE Cardinality(S) <= Cardinality(T)
  BY Finite, FS_Subset

\* A permit taken is matched by at most one wake-up less.
LEMMA OneLess == ASSUME NEW S, NEW T, T \subseteq Waiter, NEW t \in Waiter, S \subseteq Waiter,
                        S \subseteq T \cup {t}
                 PROVE Cardinality(S) <= Cardinality(T) + 1
<1>1. CASE t \in T
  <2>1. S \subseteq T
    BY <1>1
  <2>2. QED
    BY <2>1, Fewer, Finite
<1>2. CASE t \notin T
  <2>1. T \cup {t} \subseteq Waiter
    OBVIOUS
  <2>2. Cardinality(S) <= Cardinality(T \cup {t})
    BY <2>1, Fewer
  <2>3. QED
    BY <2>2, <1>2, AddOne
<1>3. QED
  BY <1>1, <1>2

LEMMA CountedThreads == Counted \subseteq Waiter /\ Pending \subseteq Waiter
  BY DEF Counted, Pending, At

LEMMA SemInitIInv == SemInit => SemIInv
<1> SUFFICES ASSUME SemInit PROVE SemIInv
  OBVIOUS
<1>1. Counted = {} /\ At("asleep") = {}
  BY DEF SemInit, Counted, At
<1>2. Cardinality({}) = 0
  BY FS_EmptySet
<1>3. Cardinality(Waiter) \in Nat
  BY Finite
<1>4. QED
  BY <1>1, <1>2, <1>3 DEF SemInit, SemIInv, SemTypeOK, SemPC, WaitersCounted, ResetIsJustified, NoLostWakeup

\* A thread that waits, counted before (awake) or not (enter): taking a permit.
LEMMA TakePermitIInv ==
  ASSUME SemIInv, NEW t \in Waiter, NEW waiters, TakePermit(t, waiters), UNCHANGED <<lock, signals>>,
         \/ where[t] = "enter" /\ waiters = numWaiting
         \/ where[t] = "awake" /\ waiters = numWaiting - 1
  PROVE  SemIInv'
<1> USE DEF SemIInv, TakePermit, Goto
<1>1. where \in [Waiter -> SemPC] /\ count \in Nat /\ numWaiting = Cardinality(Counted)
  BY DEF SemTypeOK, WaitersCounted
<1>2. /\ At("asleep")' = At("asleep") /\ At("unlocked")' = At("unlocked")
      /\ At("awake")' = At("awake") \ {t} /\ At("wake")' = At("wake")
      /\ At("wakeall")' = At("wakeall")
  BY <1>1 DEF At
<1>3. Counted' = Counted \ {t} /\ (where[t] = "awake" <=> t \in Counted)
  BY <1>1, <1>2 DEF Counted, At
<1>4. Pending' = Pending \ {t} /\ futx' = futx
  BY <1>1, <1>2 DEF Pending, At
<1>5. numWaiting' = Cardinality(Counted')
  <2>1. CASE where[t] = "enter"
    BY <2>1, <1>1, <1>3
  <2>2. CASE where[t] = "awake"
    BY <2>2, <1>1, <1>3, RemoveOne, CountedThreads
  <2>3. QED
    BY <2>1, <2>2
<1>6. Cardinality(Pending) <= Cardinality(Pending') + 1
  BY <1>4, OneLess, CountedThreads
<1>7. numWaiting' \in 0 .. Cardinality(Waiter)
  BY <1>5, <1>3, Finite, Fewer, CountedThreads
<1>8. SemTypeOK'
  BY <1>1, <1>7 DEF SemTypeOK, SemPC
<1>9. ResetIsJustified'
  BY <1>1, <1>3, <1>4 DEF ResetIsJustified
<1>10. Cardinality(Pending) \in Nat /\ Cardinality(Pending') \in Nat
  BY <1>4, Finite, CountedThreads
<1>11. NoLostWakeup'
  BY <1>1, <1>2, <1>6, <1>10 DEF NoLostWakeup
<1>12. count' <= Initial + signals'
  BY <1>1 DEF SemTypeOK
<1>13. QED
  BY <1>5, <1>8, <1>9, <1>11, <1>12 DEF WaitersCounted

\* The same threads finding no permit.
LEMMA GoWaitIInv ==
  ASSUME SemIInv, NEW t \in Waiter, NEW waiters, GoWait(t, waiters), UNCHANGED <<lock, signals>>,
         \/ where[t] = "enter" /\ waiters = numWaiting
         \/ where[t] = "awake" /\ waiters = numWaiting - 1
  PROVE  SemIInv'
<1> USE DEF SemIInv, GoWait, Goto
<1>1. where \in [Waiter -> SemPC] /\ count = 0 /\ numWaiting = Cardinality(Counted)
  BY DEF SemTypeOK, WaitersCounted
<1>2. Counted' = Counted \cup {t} /\ (where[t] = "awake" <=> t \in Counted)
  BY <1>1 DEF Counted, At
<1>3. numWaiting' = Cardinality(Counted')
  <2>1. CASE where[t] = "enter"
    BY <2>1, <1>1, <1>2, AddOne, CountedThreads
  <2>2. CASE where[t] = "awake"
    <3>1. Counted' = Counted
      BY <2>2, <1>2
    <3>2. QED
      BY <2>2, <3>1, <1>1, Finite, CountedThreads
  <2>3. QED
    BY <2>1, <2>2
<1>4. Counted' \subseteq Waiter /\ Pending' \subseteq Waiter
  BY <1>2, CountedThreads DEF Pending, At
<1>5. numWaiting' \in 0 .. Cardinality(Waiter)
  BY <1>3, <1>4, Finite, Fewer
<1>6. SemTypeOK'
  BY <1>1, <1>5 DEF SemTypeOK, SemPC
<1>7. ResetIsJustified'
  BY <1>1 DEF ResetIsJustified
<1>8. NoLostWakeup'
  BY <1>1, <1>4, Finite DEF NoLostWakeup
<1>9. QED
  BY <1>1, <1>3, <1>6, <1>7, <1>8 DEF WaitersCounted, SemTypeOK

\* Steps that move threads without touching _numWaiting's threads or permits.
LEMMA FutexWaitIInv == ASSUME SemIInv, NEW t \in Waiter, FutexWait(t) PROVE SemIInv'
<1> USE DEF SemIInv, FutexWait, Goto
<1>1. where \in [Waiter -> SemPC] /\ futx \in {0, 1} /\ count \in Nat
  BY DEF SemTypeOK
<1>2. Counted' = Counted /\ t \in Counted
  BY <1>1 DEF Counted, At
<1>3. SemTypeOK' /\ WaitersCounted' /\ ResetIsJustified'
  BY <1>1, <1>2 DEF SemTypeOK, SemPC, WaitersCounted, ResetIsJustified
<1>4. NoLostWakeup'
  <2>1. CASE futx = 0
    <3>1. count' = 0
      BY <2>1, <1>2 DEF ResetIsJustified
    <3>2. Cardinality(Pending') \in Nat
      BY Finite DEF Pending, At
    <3>3. QED
      BY <3>1, <3>2 DEF NoLostWakeup
  <2>2. CASE futx = 1
    <3>1. At("asleep")' = At("asleep") /\ Pending' = Pending
      BY <2>2, <1>1 DEF At, Pending
    <3>2. QED
      BY <3>1 DEF NoLostWakeup
  <2>3. QED
    BY <2>1, <2>2, <1>1
<1>5. QED
  BY <1>3, <1>4

LEMMA InterruptIInv == ASSUME SemIInv, NEW t \in Waiter, Interrupt(t) PROVE SemIInv'
<1> USE DEF SemIInv, Interrupt, Goto
<1>1. where \in [Waiter -> SemPC] /\ count \in Nat
  BY DEF SemTypeOK
<1>2. Counted' = Counted
  BY <1>1 DEF Counted, At
<1>3. SemTypeOK' /\ WaitersCounted' /\ ResetIsJustified'
  BY <1>1, <1>2 DEF SemTypeOK, SemPC, WaitersCounted, ResetIsJustified
<1>4. t \in At("asleep") /\ Pending \subseteq Pending' /\ Pending' \subseteq Waiter
  BY <1>1 DEF At, Pending
<1>5. NoLostWakeup'
  BY <1>1, <1>4, Fewer, Finite DEF NoLostWakeup
<1>6. QED
  BY <1>3, <1>5

LEMMA PostIInv == ASSUME SemIInv, NEW t \in Waiter, NEW how \in {"wake", "wakeall"}, Post(t, how)
                  PROVE SemIInv'
<1> USE DEF SemIInv, Post, Goto
<1>1. where \in [Waiter -> SemPC] /\ count \in Nat /\ numWaiting = Cardinality(Counted)
      /\ futx \in {0, 1} /\ signals \in 0 .. MaxSignals
  BY DEF SemTypeOK, WaitersCounted
<1>2. Counted' = Counted /\ At("asleep")' = At("asleep") /\ t \notin Pending
  BY <1>1 DEF Counted, Pending, At
<1>3. SemTypeOK' /\ WaitersCounted' /\ count' <= Initial + signals'
  BY <1>1, <1>2 DEF SemTypeOK, SemPC, WaitersCounted
<1>4. CASE numWaiting > 0
  <2>1. ResetIsJustified'
    BY <1>1, <1>4 DEF ResetIsJustified
  <2>2. Pending \cup {t} \subseteq Pending' /\ Pending' \subseteq Waiter
    BY <1>1, <1>4 DEF Pending, At
  <2>3. Cardinality(Pending) + 1 <= Cardinality(Pending')
    <3>1. Cardinality(Pending \cup {t}) = Cardinality(Pending) + 1
      BY ONLY <1>2, CountedThreads, AddOne, t \in Waiter
    <3>2. Cardinality(Pending \cup {t}) <= Cardinality(Pending')
      BY ONLY <2>2, Fewer
    <3>3. QED
      BY ONLY <3>1, <3>2
  <2>4. Cardinality(Pending) \in Nat /\ Cardinality(Pending') \in Nat
    BY <2>2, Finite, CountedThreads
  <2>5. NoLostWakeup'
    BY <1>1, <1>2, <2>3, <2>4 DEF NoLostWakeup
  <2>6. QED
    BY <1>3, <2>1, <2>5
<1>5. CASE numWaiting = 0
  <2>1. Counted = {}
    BY <1>1, <1>5, Finite, CountedThreads, FS_EmptySet
  <2>2. ResetIsJustified' /\ NoLostWakeup'
    BY <2>1, <1>2 DEF ResetIsJustified, NoLostWakeup, Counted
  <2>3. QED
    BY <1>3, <2>2
<1>6. QED
  BY <1>4, <1>5

LEMMA WakeOneIInv == ASSUME SemIInv, NEW t \in Waiter, WakeOne(t) PROVE SemIInv'
<1> USE DEF SemIInv, WakeOne
<1>1. where \in [Waiter -> SemPC] /\ count \in Nat /\ t \in Pending
  BY DEF SemTypeOK, Pending, At
<1>2. CASE At("asleep") = {} /\ Goto(t, "out")
  <2>1. Counted' = Counted /\ At("asleep")' = {}
    BY <1>1, <1>2 DEF Counted, At, Goto
  <2>2. QED
    BY <1>1, <1>2, <2>1 DEF SemTypeOK, SemPC, WaitersCounted, ResetIsJustified, NoLostWakeup, Goto
<1>3. ASSUME NEW w \in At("asleep"), where' = [where EXCEPT ![t] = "out", ![w] = "awake"] PROVE SemIInv'
  <2>1. w \in Waiter /\ w # t /\ w \notin Pending
    BY <1>1, <1>3 DEF At, Pending
  <2>2. Counted' = Counted
    BY <1>1, <1>3, <2>1 DEF Counted, At
  <2>3. Pending' = (Pending \ {t}) \cup {w}
    BY <1>1, <1>3, <2>1 DEF Pending, At
  <2>4. Cardinality(Pending \ {t}) = Cardinality(Pending) - 1
    BY <1>1, RemoveOne, CountedThreads
  <2>5. Cardinality((Pending \ {t}) \cup {w}) = Cardinality(Pending \ {t}) + 1
    <3>1. Pending \ {t} \subseteq Waiter /\ w \notin Pending \ {t}
      BY <2>1, CountedThreads
    <3>2. QED
      BY ONLY <3>1, <2>1, AddOne
  <2>6. Cardinality(Pending') = Cardinality(Pending)
    <3>1. Cardinality(Pending) \in Nat
      BY Finite, CountedThreads
    <3>2. QED
      BY ONLY <2>3, <2>4, <2>5, <3>1
  <2>7. SemTypeOK' /\ WaitersCounted' /\ ResetIsJustified'
    BY <1>1, <1>3, <2>1, <2>2 DEF SemTypeOK, SemPC, WaitersCounted, ResetIsJustified
  <2>8. NoLostWakeup'
    BY <1>1, <1>3, <2>6 DEF NoLostWakeup
  <2>9. QED
    BY <2>7, <2>8
<1>4. QED
  BY <1>2, <1>3

LEMMA WakeAllIInv == ASSUME SemIInv, NEW t \in Waiter, WakeAll(t) PROVE SemIInv'
<1> USE DEF SemIInv, WakeAll
<1>1. where \in [Waiter -> SemPC] /\ count \in Nat
  BY DEF SemTypeOK
<1>2. Counted' = Counted /\ At("asleep")' = {}
  BY <1>1 DEF Counted, At
<1>3. QED
  BY <1>1, <1>2 DEF SemTypeOK, SemPC, WaitersCounted, ResetIsJustified, NoLostWakeup

LEMMA SemNextIInv == SemIInv /\ [SemNext]_semVars => SemIInv'
<1> SUFFICES ASSUME SemIInv, [SemNext]_semVars PROVE SemIInv'
  OBVIOUS
<1>1. ASSUME NEW t \in Waiter, Call(t) PROVE SemIInv'
  <2>1. where \in [Waiter -> SemPC]
    BY DEF SemIInv, SemTypeOK
  <2>2. Counted' = Counted /\ Pending' = Pending /\ At("asleep")' = At("asleep")
    BY <1>1, <2>1 DEF Call, Goto, Counted, Pending, At
  <2>3. QED
    BY <1>1, <2>1, <2>2 DEF SemIInv, Call, Goto, SemTypeOK, SemPC, WaitersCounted, ResetIsJustified, NoLostWakeup
<1>2. ASSUME NEW t \in Waiter, Enter(t) PROVE SemIInv'
  BY <1>2, TakePermitIInv, GoWaitIInv DEF Enter
<1>3. ASSUME NEW t \in Waiter, FutexWait(t) PROVE SemIInv'
  BY <1>3, FutexWaitIInv
<1>4. ASSUME NEW t \in Waiter, Interrupt(t) PROVE SemIInv'
  BY <1>4, InterruptIInv
<1>5. ASSUME NEW t \in Waiter, Recheck(t) PROVE SemIInv'
  BY <1>5, TakePermitIInv, GoWaitIInv DEF Recheck
<1>6. ASSUME NEW t \in Waiter, NEW how \in {"wake", "wakeall"}, Post(t, how) PROVE SemIInv'
  BY <1>6, PostIInv
<1>7. ASSUME NEW t \in Waiter, WakeOne(t) PROVE SemIInv'
  BY <1>7, WakeOneIInv
<1>8. ASSUME NEW t \in Waiter, WakeAll(t) PROVE SemIInv'
  BY <1>8, WakeAllIInv
<1>9. CASE UNCHANGED semVars
  BY <1>9 DEF semVars, SemIInv, SemTypeOK, WaitersCounted, ResetIsJustified, NoLostWakeup, Counted, Pending, At
<1>10. QED
  BY <1>1, <1>2, <1>3, <1>4, <1>5, <1>6, <1>7, <1>8, <1>9 DEF SemNext, Step

\* In every state of every run of the semaphore its types are right, a zero
\* _futx means there is no permit to miss, and a sleeping thread leaves no
\* permit behind that nobody is on the way to take (semaphore.cc, wait, signal,
\* broadcast).
THEOREM SemaphoreSafe == SemSpec => [](SemTypeOK /\ ResetIsJustified /\ NoLostWakeup)
<1>1. SemInit /\ [][SemNext]_semVars => []SemIInv
  BY SemInitIInv, SemNextIInv, PTL
<1>2. SemIInv => SemTypeOK /\ ResetIsJustified /\ NoLostWakeup
  BY DEF SemIInv
<1>3. QED
  BY <1>1, <1>2, PTL DEF SemSpec

-----------------------------------------------------------------------------
\* Every step of the semaphore gives a permit, takes one, adds a waiter, or is none
\* of its users' business.
LEMMA SemStepSimulates == SemIInv /\ [SemNext]_semVars => [CS!Next]_<<count, InWait>>
<1> SUFFICES ASSUME SemIInv, [SemNext]_semVars PROVE CS!Next \/ UNCHANGED <<count, InWait>>
  OBVIOUS
<1>1. where \in [Waiter -> SemPC] /\ count \in Nat
  BY DEF SemIInv, SemTypeOK
<1> USE DEF At, Goto, SemPC
<1>2. ASSUME NEW t \in Waiter, Call(t) PROVE CS!Next
  <2>1. t \notin InWait /\ InWait' = InWait \cup {t} /\ count' = count
    BY <1>1, <1>2 DEF Call, InWait
  <2>2. QED
    BY <2>1 DEF CS!Next, CS!Ask
<1>3. ASSUME NEW t \in Waiter, NEW waiters, TakePermit(t, waiters), where[t] \in {"enter", "awake"}
      PROVE  CS!Next
  <2>1. t \in InWait /\ InWait' = InWait \ {t} /\ count > 0 /\ count' = count - 1
    BY <1>1, <1>3 DEF TakePermit, InWait
  <2>2. QED
    BY <2>1 DEF CS!Next, CS!Take
<1>4. ASSUME NEW t \in Waiter, NEW waiters, GoWait(t, waiters), where[t] \in {"enter", "awake"}
      PROVE  UNCHANGED <<count, InWait>>
  BY <1>1, <1>4 DEF GoWait, InWait
<1>5. ASSUME NEW t \in Waiter, FutexWait(t) \/ Interrupt(t) PROVE UNCHANGED <<count, InWait>>
  BY <1>1, <1>5 DEF FutexWait, Interrupt, InWait
<1>6. ASSUME NEW t \in Waiter, NEW how \in {"wake", "wakeall"}, Post(t, how) PROVE CS!Next
  <2>1. InWait' = InWait /\ count' = count + 1
    BY <1>1, <1>6 DEF Post, InWait
  <2>2. QED
    BY <2>1 DEF CS!Next, CS!Give
<1>7. ASSUME NEW t \in Waiter, WakeOne(t) \/ WakeAll(t) PROVE UNCHANGED <<count, InWait>>
  BY <1>1, <1>7 DEF WakeOne, WakeAll, InWait
<1>8. CASE UNCHANGED semVars
  BY <1>8 DEF semVars, InWait
<1>9. QED
  BY <1>2, <1>3, <1>4, <1>5, <1>6, <1>7, <1>8 DEF SemNext, Step, Enter, Recheck

\* The semaphore hands out exactly the permits that were signalled, to threads that
\* wait for them (semaphore.cc); that it hands out all of them is liveness, and
\* checked on an instance.
THEOREM SemaphoreCounts == SemSpec => CS!Init /\ [][CS!Next]_<<count, InWait>>
<1>1. SemInit /\ [][SemNext]_semVars => []SemIInv
  BY SemInitIInv, SemNextIInv, PTL
<1>2. SemInit => CS!Init
  BY DEF SemInit, CS!Init, InWait, At
<1>3. QED
  BY <1>1, <1>2, SemStepSimulates, PTL DEF SemSpec


-----------------------------------------------------------------------------
(* Mailbox: no message is stranded beside a sleeping receiver, and none is *)
(* lost, doubled or reordered.                                             *)

\* Who is about to wait holds the lock of the node, and saw an empty queue.
WaiterHoldsLock ==
  \A r \in Receiver : actor[r] = "reset" => nodeLock = {r} /\ queue = <<>>

MailIInv == MailTypeOK /\ WaiterHoldsLock /\ NoMessageStuck

LEMMA MailInitIInv == ASSUME MaxSends \in Nat PROVE MailInit => MailIInv
  BY DEF MailInit, MailIInv, MailTypeOK, WaiterHoldsLock, NoMessageStuck, Actor, Place

LEMMA PushIInv == ASSUME MailIInv, NEW s \in Sender, Push(s), MaxSends \in Nat PROVE MailIInv'
<1> USE DEF MailIInv, Push, Moves
<1>1. actor \in [Actor -> Place] /\ s \in Actor /\ queue \in Seq(Message)
      /\ sent \in [Sender -> 0 .. MaxSends]
  BY DEF MailTypeOK, Actor
<1>2. <<s, sent[s] + 1>> \in Message
  BY <1>1 DEF Message
<1>3. queue' \in Seq(Message)
  BY <1>1, <1>2, AppendProperties
<1>4. MailTypeOK'
  BY <1>1, <1>3 DEF MailTypeOK, Place
<1>5. WaiterHoldsLock'
  BY <1>1 DEF WaiterHoldsLock, Place, Actor
<1>6. NoMessageStuck'
  BY <1>1 DEF NoMessageStuck, Actor
<1>7. QED
  BY <1>4, <1>5, <1>6

LEMMA BroadcastStoreIInv == ASSUME MailIInv, NEW s \in Sender, BroadcastStore(s) PROVE MailIInv'
<1> USE DEF MailIInv, BroadcastStore, Moves, Actor
<1>1. MailTypeOK' /\ WaiterHoldsLock'
  BY DEF MailTypeOK, WaiterHoldsLock, Place
<1>2. NoMessageStuck'
  BY DEF NoMessageStuck, MailTypeOK
<1>3. QED
  BY <1>1, <1>2

LEMMA BroadcastWakeIInv == ASSUME MailIInv, NEW s \in Sender, BroadcastWake(s) PROVE MailIInv'
<1> USE DEF MailIInv, BroadcastWake, Actor
<1>1. MailTypeOK' /\ WaiterHoldsLock'
  BY DEF MailTypeOK, WaiterHoldsLock, Place
<1>2. NoMessageStuck'
  <2>1. \A r \in Receiver : actor'[r] # "asleep"
    OBVIOUS
  <2>2. \A r \in Receiver : actor'[r] = "unlocked" => actor[r] = "unlocked"
    OBVIOUS
  <2>3. \A q \in Sender : actor[q] = "pushed" => actor'[q] = "pushed"
    OBVIOUS
  <2>4. queue' = queue /\ condFutx' = condFutx
    OBVIOUS
  <2>5. QED
    BY <2>1, <2>2, <2>3, <2>4 DEF NoMessageStuck
<1>3. QED
  BY <1>1, <1>2

\* A receiver's steps inside recv() leave the senders where they are.
LEMMA LookIInv ==
  ASSUME MailIInv, NEW r \in Receiver, NEW from \in {"looking", "awake"}, Look(r, from) PROVE MailIInv'
<1> USE DEF MailIInv, Look, Moves, Actor
<1>1. /\ actor \in [Actor -> Place] /\ queue \in Seq(Message) /\ received \in Seq(Message)
      /\ condFutx' = condFutx
  BY DEF MailTypeOK
<1>2. CASE queue # <<>>
  <2>1. Head(queue) \in Message /\ Tail(queue) \in Seq(Message)
    BY <1>1, <1>2, HeadTailProperties
  <2>2. received' \in Seq(Message)
    <3>1. Append(received, Head(queue)) \in Seq(Message)
      BY <1>1, <2>1, AppendProperties
    <3>2. received' = Append(received, Head(queue))
      BY <1>2
    <3>3. QED
      BY ONLY <3>1, <3>2
  <2>3. MailTypeOK'
    BY <1>1, <1>2, <2>1, <2>2 DEF MailTypeOK, Place
  <2>4. WaiterHoldsLock'
    BY <1>1, <1>2 DEF WaiterHoldsLock
  <2>5. \A s \in Sender : actor[s] \in {"pushed", "stored"} => actor'[s] = actor[s]
    BY <1>1, <1>2
  <2>6. \A q \in Receiver : actor'[q] \in {"asleep", "unlocked"} => actor'[q] = actor[q]
    BY <1>1, <1>2
  <2>7. NoMessageStuck'
    BY <1>1, <1>2, <2>5, <2>6 DEF NoMessageStuck
  <2>8. QED
    BY <2>3, <2>4, <2>7
<1>3. CASE queue = <<>>
  BY <1>1, <1>3 DEF MailTypeOK, Place, WaiterHoldsLock, NoMessageStuck
<1>4. QED
  BY <1>2, <1>3

LEMMA ResetFutexIInv == ASSUME MailIInv, NEW r \in Receiver, ResetFutex(r) PROVE MailIInv'
<1> USE DEF MailIInv, ResetFutex, Moves, Actor
<1>1. queue = <<>> /\ queue' = <<>> /\ nodeLock = {r}
  BY DEF WaiterHoldsLock
<1>2. QED
  BY <1>1 DEF MailTypeOK, Place, WaiterHoldsLock, NoMessageStuck

LEMMA CondFutexWaitIInv == ASSUME MailIInv, NEW r \in Receiver, CondFutexWait(r) PROVE MailIInv'
<1> USE DEF MailIInv, CondFutexWait, Moves, Actor
<1>1. MailTypeOK' /\ WaiterHoldsLock'
  BY DEF MailTypeOK, WaiterHoldsLock, Place
<1>2. \A s \in Sender : actor[s] \in {"pushed", "stored"} => actor'[s] = actor[s]
  BY DEF MailTypeOK
<1>3. \A q \in Receiver : actor'[q] = "asleep" =>
        actor[q] = "asleep" \/ (actor[q] = "unlocked" /\ condFutx = 0)
  BY DEF MailTypeOK
<1>4. \A q \in Receiver : actor'[q] = "unlocked" => actor[q] = "unlocked"
  BY DEF MailTypeOK
<1>5. NoMessageStuck'
  BY <1>2, <1>3, <1>4 DEF NoMessageStuck
<1>6. QED
  BY <1>1, <1>5

LEMMA MailNextIInv == ASSUME MaxSends \in Nat PROVE MailIInv /\ [MailNext]_mailVars => MailIInv'
<1> SUFFICES ASSUME MailIInv, [MailNext]_mailVars PROVE MailIInv'
  OBVIOUS
<1>1. ASSUME NEW s \in Sender, Send(s) PROVE MailIInv'
  BY <1>1, PushIInv, BroadcastStoreIInv, BroadcastWakeIInv DEF Send
<1>2. ASSUME NEW r \in Receiver, CallRecv(r) PROVE MailIInv'
  BY <1>2 DEF CallRecv, Moves, MailIInv, MailTypeOK, WaiterHoldsLock, NoMessageStuck, Actor, Place
<1>3. ASSUME NEW r \in Receiver, Look(r, "looking") \/ Look(r, "awake") PROVE MailIInv'
  BY <1>3, LookIInv
<1>4. ASSUME NEW r \in Receiver, ResetFutex(r) PROVE MailIInv'
  BY <1>4, ResetFutexIInv
<1>5. ASSUME NEW r \in Receiver, CondFutexWait(r) PROVE MailIInv'
  BY <1>5, CondFutexWaitIInv
<1>6. ASSUME NEW r \in Receiver, InterruptWait(r) PROVE MailIInv'
  BY <1>6 DEF InterruptWait, Moves, MailIInv, MailTypeOK, WaiterHoldsLock, NoMessageStuck, Actor, Place
<1>7. ASSUME NEW r \in Receiver, AfterInterrupt(r) PROVE MailIInv'
  BY <1>7 DEF AfterInterrupt, SyscallResult, EINTR, Moves, MailIInv, MailTypeOK, WaiterHoldsLock,
              NoMessageStuck, Actor, Place
<1>8. CASE UNCHANGED mailVars
  BY <1>8 DEF mailVars, MailIInv, MailTypeOK, WaiterHoldsLock, NoMessageStuck
<1>9. QED
  BY <1>1, <1>2, <1>3, <1>4, <1>5, <1>6, <1>7, <1>8 DEF MailNext, Receive

\* Whatever the interleaving of pushes, broadcasts and receivers, no receiver
\* sleeps beside a message unless a sender is still on the way to wake it
\* (smtransport.cc send and recv, cond.cc wait and broadcast).
THEOREM MailboxSafe == ASSUME MaxSends \in Nat PROVE MailSpec => [](MailTypeOK /\ NoMessageStuck)
<1>1. MailInit /\ [][MailNext]_mailVars => []MailIInv
  BY MailInitIInv, MailNextIInv, PTL
<1>2. MailIInv => MailTypeOK /\ NoMessageStuck
  BY DEF MailIInv
<1>3. QED
  BY <1>1, <1>2, PTL DEF MailSpec

\* Every step of the mailbox is a step of the message queue or none of it.
LEMMA MailStepSimulates ==
  ASSUME MaxSends \in Nat PROVE MailIInv /\ [MailNext]_mailVars => [MQ!Next]_<<queue, received>>
<1> SUFFICES ASSUME MailIInv, [MailNext]_mailVars PROVE [MQ!Next]_<<queue, received>>
  OBVIOUS
<1>1. ASSUME NEW s \in Sender, Push(s) PROVE MQ!Next
  <2>1. <<s, sent[s] + 1>> \in Message
    BY <1>1 DEF MailIInv, MailTypeOK, Push, Message
  <2>2. MQ!Send(<<s, sent[s] + 1>>)
    BY <1>1 DEF Push, MQ!Send
  <2>3. QED
    BY <2>1, <2>2 DEF MQ!Next
<1>2. ASSUME NEW r \in Receiver, NEW from \in {"looking", "awake"}, Look(r, from)
      PROVE MQ!Next \/ UNCHANGED <<queue, received>>
  BY <1>2 DEF Look, MQ!Next, MQ!Receive
<1>3. QED
  BY <1>1, <1>2 DEF MailNext, Send, Receive, BroadcastStore, BroadcastWake, CallRecv, ResetFutex,
     CondFutexWait, InterruptWait, AfterInterrupt, mailVars

\* The mailbox implements the message queue but for its liveness, which the
\* run of the model checker shows on an instance.
THEOREM MailboxIsQueue ==
  ASSUME MaxSends \in Nat PROVE MailSpec => MQ!Init /\ [][MQ!Next]_<<queue, received>>
<1>1. MailInit /\ [][MailNext]_mailVars => []MailIInv
  BY MailInitIInv, MailNextIInv, PTL
<1>2. MailInit => MQ!Init
  BY DEF MailInit, MQ!Init
<1>3. QED
  BY <1>1, <1>2, MailStepSimulates, PTL DEF MailSpec
=============================================================================
