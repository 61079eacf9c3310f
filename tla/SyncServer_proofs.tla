-------------------------- MODULE SyncServer_proofs --------------------------
(***************************************************************************)
(* Proofs about SyncServer for any threads, mutexes and conditions: who    *)
(* holds a mutex and who waits where, and that they are Monitors.          *)
(***************************************************************************)
EXTENDS SyncServer, SequenceTheorems, FiniteSetTheorems, TLAPS

\* Queues without doubles, and who is in them.
LEMMA EmptyQueue == IsInjective(<<>>) /\ Range(<<>>) = {}
  BY DEF IsInjective, Range

LEMMA RangeOfQueue == ASSUME NEW S, NEW q \in Seq(S)
                      PROVE  Range(q) \subseteq S /\ (Range(q) = {} <=> q = <<>>)
  BY DEF Range

LEMMA Enqueue == ASSUME NEW S, NEW q \in Seq(S), NEW e \in S
                 PROVE  /\ Append(q, e) \in Seq(S) /\ Append(q, e) # <<>>
                        /\ Range(Append(q, e)) = Range(q) \cup {e}
                        /\ IsInjective(q) /\ e \notin Range(q) => IsInjective(Append(q, e))
<1> DEFINE r == Append(q, e)
<1>1. r \in Seq(S) /\ r # <<>> /\ Len(r) = Len(q) + 1
      /\ (\A i \in 1 .. Len(q) : r[i] = q[i]) /\ r[Len(q) + 1] = e
  BY AppendProperties
<1>2. DOMAIN r = 1 .. Len(q) + 1 /\ DOMAIN q = 1 .. Len(q) /\ Len(q) \in Nat
  BY <1>1
<1> HIDE DEF r
<1>3. Range(r) = Range(q) \cup {e}
  <2>1. \A i \in DOMAIN r : r[i] \in Range(q) \cup {e}
    BY <1>1, <1>2 DEF Range
  <2>2. \A x \in Range(q) \cup {e} : \E i \in DOMAIN r : r[i] = x
    BY <1>1, <1>2 DEF Range
  <2>3. QED
    BY <2>1, <2>2 DEF Range
<1>4. IsInjective(q) /\ e \notin Range(q) => IsInjective(r)
  BY <1>1, <1>2 DEF Range, IsInjective
<1>5. QED
  BY <1>1, <1>3, <1>4 DEF r

LEMMA Dequeue == ASSUME NEW S, NEW q \in Seq(S), q # <<>>
                 PROVE  /\ Head(q) \in S /\ Tail(q) \in Seq(S)
                        /\ Range(q) = Range(Tail(q)) \cup {Head(q)}
                        /\ IsInjective(q) => IsInjective(Tail(q)) /\ Head(q) \notin Range(Tail(q))
<1> DEFINE r == Tail(q)
<1>1. Head(q) \in S /\ r \in Seq(S) /\ Len(r) = Len(q) - 1 /\ (\A i \in 1 .. Len(r) : r[i] = q[i + 1])
      /\ Len(q) \in Nat \ {0} /\ Head(q) = q[1]
  BY HeadTailProperties
<1>2. DOMAIN r = 1 .. Len(q) - 1 /\ DOMAIN q = 1 .. Len(q)
  BY <1>1
<1> HIDE DEF r
<1>3. Range(q) = Range(r) \cup {Head(q)}
  <2>1. \A i \in DOMAIN q : q[i] \in Range(r) \cup {Head(q)}
    <3> SUFFICES ASSUME NEW i \in DOMAIN q, i # 1 PROVE q[i] \in Range(r)
      BY <1>1
    <3>1. i - 1 \in DOMAIN r /\ r[i - 1] = q[i]
      BY <1>1, <1>2
    <3>2. QED
      BY <3>1 DEF Range
  <2>2. \A x \in Range(r) \cup {Head(q)} : \E i \in DOMAIN q : q[i] = x
    BY <1>1, <1>2 DEF Range
  <2>3. QED
    BY <2>1, <2>2 DEF Range
<1>4. ASSUME IsInjective(q) PROVE IsInjective(r) /\ Head(q) \notin Range(r)
  <2>1. ASSUME NEW i \in DOMAIN r, NEW j \in DOMAIN r, r[i] = r[j] PROVE i = j
    <3>1. i + 1 \in DOMAIN q /\ j + 1 \in DOMAIN q /\ q[i + 1] = q[j + 1]
      BY <1>1, <1>2, <2>1
    <3>2. i + 1 = j + 1
      BY <3>1, <1>4 DEF IsInjective
    <3>3. QED
      BY <3>2, <1>1, <1>2
  <2>2. ASSUME NEW i \in DOMAIN r PROVE r[i] # Head(q)
    <3>1. i + 1 \in DOMAIN q /\ q[i + 1] = r[i] /\ 1 \in DOMAIN q /\ i + 1 # 1
      BY <1>1, <1>2
    <3>2. QED
      BY <3>1, <1>4, <1>1 DEF IsInjective
  <2>3. QED
    BY <2>1, <2>2 DEF IsInjective, Range
<1>5. QED
  BY <1>1, <1>3, <1>4 DEF r

LEMMA MoveQueue == ASSUME NEW S, NEW p \in Seq(S), NEW q \in Seq(S)
                   PROVE  /\ p \o q \in Seq(S)
                          /\ Range(p \o q) = Range(p) \cup Range(q)
                          /\ IsInjective(p) /\ IsInjective(q) /\ Range(p) \cap Range(q) = {}
                               => IsInjective(p \o q)
<1> DEFINE r == p \o q
<1>1. r \in Seq(S) /\ Len(r) = Len(p) + Len(q) /\ Len(p) \in Nat /\ Len(q) \in Nat
      /\ \A i \in 1 .. Len(p) + Len(q) : r[i] = IF i <= Len(p) THEN p[i] ELSE q[i - Len(p)]
  BY ConcatProperties
<1>2. DOMAIN r = 1 .. Len(p) + Len(q) /\ DOMAIN p = 1 .. Len(p) /\ DOMAIN q = 1 .. Len(q)
  BY <1>1
<1>3. Range(r) = Range(p) \cup Range(q)
  BY RangeConcatenation
<1> HIDE DEF r
<1>4. ASSUME IsInjective(p), IsInjective(q), Range(p) \cap Range(q) = {},
             NEW i \in DOMAIN r, NEW j \in DOMAIN r, r[i] = r[j]
      PROVE  i = j
  <2>1. CASE i <= Len(p) /\ j <= Len(p)
    <3>1. i \in DOMAIN p /\ j \in DOMAIN p /\ p[i] = p[j]
      BY <1>1, <1>2, <1>4, <2>1
    <3>2. QED
      BY <3>1, <1>4 DEF IsInjective
  <2>2. CASE i > Len(p) /\ j > Len(p)
    <3>1. i - Len(p) \in DOMAIN q /\ j - Len(p) \in DOMAIN q /\ q[i - Len(p)] = q[j - Len(p)]
      BY <1>1, <1>2, <1>4, <2>2
    <3>2. i - Len(p) = j - Len(p)
      BY <3>1, <1>4 DEF IsInjective
    <3>3. QED
      BY <3>2, <1>1, <1>2
  <2>3. CASE i <= Len(p) /\ j > Len(p)
    <3>1. i \in DOMAIN p /\ j - Len(p) \in DOMAIN q /\ p[i] = q[j - Len(p)]
      BY <1>1, <1>2, <1>4, <2>3
    <3>2. QED
      BY <3>1, <1>4 DEF Range
  <2>4. CASE i > Len(p) /\ j <= Len(p)
    <3>1. j \in DOMAIN p /\ i - Len(p) \in DOMAIN q /\ p[j] = q[i - Len(p)]
      BY <1>1, <1>2, <1>4, <2>4
    <3>2. QED
      BY <3>1, <1>4 DEF Range
  <2>5. QED
    BY <2>1, <2>2, <2>3, <2>4, <1>1, <1>2
<1>5. IsInjective(p) /\ IsInjective(q) /\ Range(p) \cap Range(q) = {} => IsInjective(r)
  BY <1>4 DEF IsInjective
<1>6. QED
  BY <1>1, <1>3, <1>5 DEF r
-----------------------------------------------------------------------------
USE SyncAssumption

\* A thread does not hold the mutex it is asking for.
ArgNotHeld == \A t \in Client : call[t] \in {"lock", "wait"} => arg[t] \notin held[t]

\* Those who wait for a condition wait with the same mutex.
SameMutex == \A c \in Cond : \A t, u \in Range(condQueue[c]) : arg[t] = arg[u]

IInv == SyncTypeOK /\ HeldIsOwned /\ StalledAreQueued /\ ArgNotHeld /\ SameMutex

\* The three kinds of queues, as sets; "none" is a thread in no call.
LEMMA Queues ==
  ASSUME IInv
  PROVE  /\ \A m \in Mutex : mutexQueue[m] \in Seq(Client) /\ Range(mutexQueue[m]) \subseteq Client
                              /\ (Range(mutexQueue[m]) = {} <=> mutexQueue[m] = <<>>)
         /\ \A c \in Cond : condQueue[c] \in Seq(Client) /\ Range(condQueue[c]) \subseteq Client
                              /\ (Range(condQueue[c]) = {} <=> condQueue[c] = <<>>)
         /\ barrierQueue \in Seq(Client) /\ Range(barrierQueue) \subseteq Client
         /\ \A t \in Client : call[t] = "none" =>
              /\ t \notin stalled /\ t \notin Range(barrierQueue)
              /\ \A m \in Mutex : t \notin Range(mutexQueue[m])
              /\ \A c \in Cond : t \notin Range(condQueue[c])
<1>1. \A m \in Mutex : mutexQueue[m] \in Seq(Client)
  BY DEF IInv, SyncTypeOK
<1>2. \A c \in Cond : condQueue[c] \in Seq(Client)
  BY DEF IInv, SyncTypeOK
<1>3. barrierQueue \in Seq(Client)
  BY DEF IInv, SyncTypeOK
<1>4. ASSUME NEW t \in Client, call[t] = "none"
      PROVE  /\ t \notin Range(barrierQueue)
             /\ \A m \in Mutex : t \notin Range(mutexQueue[m])
             /\ \A c \in Cond : t \notin Range(condQueue[c])
  BY <1>4 DEF IInv, StalledAreQueued, Lockers, SignalWaiters, Arrived
<1>5. \A t \in Client : call[t] = "none" => t \notin stalled
  BY <1>4 DEF IInv, StalledAreQueued, Queued
<1>6. QED
  BY <1>1, <1>2, <1>3, <1>4, <1>5, RangeOfQueue

LEMMA InitIInv == SyncInit => IInv
  BY EmptyQueue DEF SyncInit, IInv, SyncTypeOK, HeldIsOwned, Granted, StalledAreQueued,
                    Lockers, SignalWaiters, Arrived, Queued, ArgNotHeld, SameMutex

\* lock, by a thread in no call that does not hold the mutex.
LEMMA LockIInv ==
  ASSUME IInv, NEW t \in Client, NEW m \in Mutex, m \notin held[t],
         Calls(t, "lock", m), SimLock(t, m), UNCHANGED <<condQueue, barrierQueue, held>>
  PROVE  IInv'
<1> USE DEF IInv
<1>1. call[t] = "none" /\ call' = [call EXCEPT ![t] = "lock"] /\ arg' = [arg EXCEPT ![t] = m]
  BY DEF Calls
<1>2. /\ t \notin stalled /\ t \notin Range(barrierQueue)
      /\ \A k \in Mutex : t \notin Range(mutexQueue[k])
      /\ \A c \in Cond : t \notin Range(condQueue[c])
  BY <1>1, Queues
<1>3. owner[m] # t
  BY <1>1 DEF HeldIsOwned, Granted
<1>4. ArgNotHeld' /\ SameMutex'
  BY <1>1, <1>2, Queues DEF ArgNotHeld, SameMutex, SyncTypeOK
<1>5. CASE owner[m] = NoOwner
  <2>1. owner' = [owner EXCEPT ![m] = t] /\ UNCHANGED <<mutexQueue, stalled>>
    BY <1>5 DEF SimLock
  <2>2. SyncTypeOK' /\ HeldIsOwned'
    BY <1>1, <1>2, <1>5, <2>1 DEF HeldIsOwned, Granted, SyncTypeOK, ArgNotHeld
  <2>3. \A u \in Client : u \in stalled' <=> Queued(u)'
    BY <2>1 DEF StalledAreQueued, Queued
  <2>4. Lockers'
    BY <1>1, <1>2, <1>5, <2>1, Queues DEF StalledAreQueued, Lockers, SyncTypeOK
  <2>5. SignalWaiters' /\ Arrived'
    BY <1>1, <1>2, <2>1, Queues DEF StalledAreQueued, SignalWaiters, Arrived, SyncTypeOK
  <2>6. QED
    BY <1>4, <2>2, <2>3, <2>4, <2>5 DEF StalledAreQueued
<1>6. CASE owner[m] # NoOwner
  <2>1. UNCHANGED owner /\ stalled' = stalled \cup {t}
        /\ mutexQueue' = [mutexQueue EXCEPT ![m] = Append(mutexQueue[m], t)]
    BY <1>6 DEF SimLock
  <2>2. /\ Range(mutexQueue'[m]) = Range(mutexQueue[m]) \cup {t}
        /\ IsInjective(mutexQueue'[m])
        /\ \A k \in Mutex : k # m => mutexQueue'[k] = mutexQueue[k]
    BY <1>2, <2>1, Queues, Enqueue DEF SyncTypeOK, StalledAreQueued, Lockers
  <2>3. SyncTypeOK' /\ HeldIsOwned'
    <3>1. mutexQueue' \in [Mutex -> Seq(Client)]
      BY <2>1, Queues, Enqueue DEF SyncTypeOK
    <3>2. SyncTypeOK'
      BY <1>1, <2>1, <3>1 DEF SyncTypeOK
    <3>3. HeldIsOwned'
      BY <1>1, <1>2, <1>3, <2>1 DEF HeldIsOwned, Granted, SyncTypeOK
    <3>4. QED
      BY <3>2, <3>3
  <2>4. \A u \in Client : u \in stalled' <=> Queued(u)'
    BY <2>1, <2>2 DEF StalledAreQueued, Queued
  <2>5. Lockers'
    BY <1>1, <1>2, <1>3, <1>6, <2>1, <2>2, Queues DEF StalledAreQueued, Lockers, SyncTypeOK
  <2>6. SignalWaiters' /\ Arrived'
    BY <1>1, <1>2, <2>1, <2>2, Queues DEF StalledAreQueued, SignalWaiters, Arrived, SyncTypeOK
  <2>7. QED
    BY <1>4, <2>3, <2>4, <2>5, <2>6 DEF StalledAreQueued
<1>7. QED
  BY <1>5, <1>6

\* What unlock does: the mutex is free, or belongs to the first of the queue.
LEMMA UnlockFacts ==
  ASSUME IInv, NEW t \in Client, NEW m \in Mutex, call[t] = "none", NEW asleep, SimUnlock(t, m, asleep)
  PROVE  /\ mutexQueue' \in [Mutex -> Seq(Client)]
         /\ \A k \in Mutex : k # m => mutexQueue'[k] = mutexQueue[k]
         /\ \/ /\ Range(mutexQueue[m]) = {} /\ UNCHANGED mutexQueue
               /\ owner' = [owner EXCEPT ![m] = NoOwner] /\ stalled' = asleep
            \/ \E h \in Client :
                 /\ h \in Range(mutexQueue[m]) /\ h # t
                 /\ owner' = [owner EXCEPT ![m] = h] /\ stalled' = asleep \ {h}
                 /\ Range(mutexQueue'[m]) = Range(mutexQueue[m]) \ {h}
                 /\ IsInjective(mutexQueue'[m])
<1> USE DEF IInv
<1>1. CASE mutexQueue[m] = <<>>
  BY <1>1, EmptyQueue DEF SimUnlock, SyncTypeOK
<1>2. CASE mutexQueue[m] # <<>>
  <2> DEFINE h == Head(mutexQueue[m])
  <2>1. /\ owner' = [owner EXCEPT ![m] = h] /\ stalled' = asleep \ {h}
        /\ mutexQueue' = [mutexQueue EXCEPT ![m] = Tail(mutexQueue[m])]
    BY <1>2 DEF SimUnlock
  <2>2. /\ h \in Client /\ Tail(mutexQueue[m]) \in Seq(Client)
        /\ Range(mutexQueue[m]) = Range(Tail(mutexQueue[m])) \cup {h}
        /\ IsInjective(Tail(mutexQueue[m])) /\ h \notin Range(Tail(mutexQueue[m]))
    BY <1>2, Queues, Dequeue DEF StalledAreQueued, Lockers
  <2>3. h # t
    BY <2>2, Queues
  <2> HIDE DEF h
  <2>4. mutexQueue' \in [Mutex -> Seq(Client)] /\ mutexQueue'[m] = Tail(mutexQueue[m])
        /\ \A k \in Mutex : k # m => mutexQueue'[k] = mutexQueue[k]
    BY <2>1, <2>2 DEF SyncTypeOK
  <2>5. QED
    BY <2>1, <2>2, <2>3, <2>4
<1>3. QED
  BY <1>1, <1>2

LEMMA UnlockIInv ==
  ASSUME IInv, NEW t \in Client, NEW m \in Mutex, MutexUnlock(t, m)
  PROVE  IInv'
<1> USE DEF IInv
<1>1. call[t] = "none" /\ m \in held[t] /\ held' = [held EXCEPT ![t] = held[t] \ {m}]
      /\ SimUnlock(t, m, stalled) /\ UNCHANGED <<condQueue, barrierQueue, call, arg>>
  BY DEF MutexUnlock
<1>2. owner[m] = t /\ t \notin stalled
  BY <1>1, Queues DEF HeldIsOwned
<1>3. ArgNotHeld' /\ SameMutex'
  BY <1>1 DEF ArgNotHeld, SameMutex, SyncTypeOK
<1>4. /\ mutexQueue' \in [Mutex -> Seq(Client)]
      /\ \A k \in Mutex : k # m => mutexQueue'[k] = mutexQueue[k]
      /\ \/ /\ Range(mutexQueue[m]) = {} /\ UNCHANGED mutexQueue
            /\ owner' = [owner EXCEPT ![m] = NoOwner] /\ stalled' = stalled
         \/ \E h \in Client :
              /\ h \in Range(mutexQueue[m]) /\ h # t
              /\ owner' = [owner EXCEPT ![m] = h] /\ stalled' = stalled \ {h}
              /\ Range(mutexQueue'[m]) = Range(mutexQueue[m]) \ {h}
              /\ IsInjective(mutexQueue'[m])
  BY <1>1, UnlockFacts
<1>5. CASE /\ Range(mutexQueue[m]) = {} /\ UNCHANGED mutexQueue
           /\ owner' = [owner EXCEPT ![m] = NoOwner] /\ stalled' = stalled
  <2>1. SyncTypeOK'
    BY <1>1, <1>5 DEF SyncTypeOK
  <2>2. HeldIsOwned'
    BY <1>1, <1>2, <1>5 DEF HeldIsOwned, Granted, SyncTypeOK
  <2>3. (\A u \in Client : u \in stalled' <=> Queued(u)') /\ SignalWaiters' /\ Arrived'
    BY <1>1, <1>5 DEF StalledAreQueued, Queued, SignalWaiters, Arrived
  <2>4. Lockers'
    BY <1>1, <1>5, Queues DEF StalledAreQueued, Lockers, SyncTypeOK
  <2>5. QED
    BY <1>3, <2>1, <2>2, <2>3, <2>4 DEF StalledAreQueued
<1>6. ASSUME NEW h \in Client, h \in Range(mutexQueue[m]), h # t,
             owner' = [owner EXCEPT ![m] = h], stalled' = stalled \ {h},
             Range(mutexQueue'[m]) = Range(mutexQueue[m]) \ {h}, IsInjective(mutexQueue'[m])
      PROVE  IInv'
  <2>1. h \in stalled /\ call[h] \in {"lock", "wait"} /\ arg[h] = m
    BY <1>6 DEF StalledAreQueued, Queued, Lockers
  <2>2. SyncTypeOK'
    BY <1>1, <1>4, <1>6 DEF SyncTypeOK
  <2>3. HeldIsOwned'
    BY <1>1, <1>2, <1>6, <2>1 DEF HeldIsOwned, Granted, SyncTypeOK, ArgNotHeld
  <2>4. \A u \in Client : u \in stalled' <=> Queued(u)'
    <3>1. h \notin Range(barrierQueue) /\ (\A c \in Cond : h \notin Range(condQueue[c]))
          /\ \A k \in Mutex : k # m => h \notin Range(mutexQueue[k])
      BY <1>6, <2>1 DEF StalledAreQueued, Lockers, SignalWaiters, Arrived
    <3>2. QED
      BY <1>1, <1>4, <1>6, <3>1 DEF StalledAreQueued, Queued
  <2>5. Lockers'
    BY <1>1, <1>4, <1>6, Queues DEF StalledAreQueued, Lockers, SyncTypeOK
  <2>6. SignalWaiters' /\ Arrived'
    BY <1>1, <1>4, <1>6, Queues DEF StalledAreQueued, SignalWaiters, Arrived, SyncTypeOK
  <2>7. QED
    BY <1>3, <2>2, <2>3, <2>4, <2>5, <2>6 DEF StalledAreQueued
<1>7. QED
  BY <1>4, <1>5, <1>6
\* wait: unlock, and into the queue of the condition.
LEMMA CondWaitIInv ==
  ASSUME IInv, NEW t \in Client, NEW c \in Cond, NEW m \in Mutex, CondWait(t, c, m)
  PROVE  IInv'
<1> USE DEF IInv
<1>1. /\ call[t] = "none" /\ held[t] = {m} /\ held' = [held EXCEPT ![t] = {}]
      /\ call' = [call EXCEPT ![t] = "wait"] /\ arg' = [arg EXCEPT ![t] = m]
      /\ (\A u \in Range(condQueue[c]) : arg[u] = m)
      /\ SimUnlock(t, m, stalled \cup {t}) /\ UNCHANGED barrierQueue
      /\ condQueue' = [condQueue EXCEPT ![c] = Append(condQueue[c], t)]
  BY DEF CondWait, Calls
<1>2. /\ owner[m] = t /\ t \notin stalled /\ t \notin Range(barrierQueue)
      /\ \A k \in Mutex : t \notin Range(mutexQueue[k])
      /\ \A d \in Cond : t \notin Range(condQueue[d])
  BY <1>1, Queues DEF HeldIsOwned
<1>3. /\ condQueue' \in [Cond -> Seq(Client)]
      /\ Range(condQueue'[c]) = Range(condQueue[c]) \cup {t}
      /\ IsInjective(condQueue'[c])
      /\ \A d \in Cond : d # c => condQueue'[d] = condQueue[d]
  <2>1. /\ Append(condQueue[c], t) \in Seq(Client) /\ IsInjective(Append(condQueue[c], t))
        /\ Range(Append(condQueue[c], t)) = Range(condQueue[c]) \cup {t}
    BY <1>2, Queues, Enqueue DEF StalledAreQueued, SignalWaiters
  <2>2. QED
    BY <1>1, <2>1 DEF SyncTypeOK
<1>4. /\ mutexQueue' \in [Mutex -> Seq(Client)]
      /\ \A k \in Mutex : k # m => mutexQueue'[k] = mutexQueue[k]
      /\ \/ /\ Range(mutexQueue[m]) = {} /\ UNCHANGED mutexQueue
            /\ owner' = [owner EXCEPT ![m] = NoOwner] /\ stalled' = stalled \cup {t}
         \/ \E h \in Client :
              /\ h \in Range(mutexQueue[m]) /\ h # t
              /\ owner' = [owner EXCEPT ![m] = h] /\ stalled' = (stalled \cup {t}) \ {h}
              /\ Range(mutexQueue'[m]) = Range(mutexQueue[m]) \ {h}
              /\ IsInjective(mutexQueue'[m])
  BY <1>1, UnlockFacts
<1>5. ArgNotHeld' /\ SameMutex'
  <2>1. ArgNotHeld'
    BY <1>1 DEF ArgNotHeld, SyncTypeOK
  <2>2. \A u \in Range(condQueue'[c]) : arg'[u] = m
    BY <1>1, <1>2, <1>3, Queues DEF SyncTypeOK
  <2>3. \A d \in Cond : d # c => \A u \in Range(condQueue'[d]) : arg'[u] = arg[u]
    BY <1>1, <1>2, <1>3, Queues DEF SyncTypeOK
  <2>4. QED
    BY <2>1, <2>2, <2>3, <1>3 DEF SameMutex
<1>6. CASE /\ Range(mutexQueue[m]) = {} /\ UNCHANGED mutexQueue
           /\ owner' = [owner EXCEPT ![m] = NoOwner] /\ stalled' = stalled \cup {t}
  <2>1. SyncTypeOK'
    BY <1>1, <1>3, <1>6 DEF SyncTypeOK
  <2>2. HeldIsOwned'
    BY <1>1, <1>2, <1>6 DEF HeldIsOwned, Granted, SyncTypeOK
  <2>3. \A u \in Client : u \in stalled' <=> Queued(u)'
    BY <1>1, <1>3, <1>6 DEF StalledAreQueued, Queued
  <2>4. Lockers'
    BY <1>1, <1>2, <1>6, Queues DEF StalledAreQueued, Lockers, SyncTypeOK
  <2>5. SignalWaiters' /\ Arrived'
    BY <1>1, <1>2, <1>3, <1>6, Queues DEF StalledAreQueued, SignalWaiters, Arrived, SyncTypeOK
  <2>6. QED
    BY <1>5, <2>1, <2>2, <2>3, <2>4, <2>5 DEF StalledAreQueued
<1>7. ASSUME NEW h \in Client, h \in Range(mutexQueue[m]), h # t,
             owner' = [owner EXCEPT ![m] = h], stalled' = (stalled \cup {t}) \ {h},
             Range(mutexQueue'[m]) = Range(mutexQueue[m]) \ {h}, IsInjective(mutexQueue'[m])
      PROVE  IInv'
  <2>1. h \in stalled /\ call[h] \in {"lock", "wait"} /\ arg[h] = m
    BY <1>7 DEF StalledAreQueued, Queued, Lockers
  <2>2. SyncTypeOK'
    BY <1>1, <1>3, <1>4, <1>7 DEF SyncTypeOK
  <2>3. HeldIsOwned'
    BY <1>1, <1>2, <1>7, <2>1 DEF HeldIsOwned, Granted, SyncTypeOK, ArgNotHeld
  <2>4. \A u \in Client : u \in stalled' <=> Queued(u)'
    <3>1. h \notin Range(barrierQueue) /\ (\A d \in Cond : h \notin Range(condQueue[d]))
          /\ \A k \in Mutex : k # m => h \notin Range(mutexQueue[k])
      BY <1>7, <2>1 DEF StalledAreQueued, Lockers, SignalWaiters, Arrived
    <3>2. \A u \in Client : (\E k \in Mutex : u \in Range(mutexQueue'[k]))
                              <=> u # h /\ \E k \in Mutex : u \in Range(mutexQueue[k])
      BY <1>4, <1>7, <3>1
    <3>3. \A u \in Client : (\E d \in Cond : u \in Range(condQueue'[d]))
                              <=> u = t \/ \E d \in Cond : u \in Range(condQueue[d])
      BY <1>3
    <3>4. \A u \in Client : Queued(u)' <=> (Queued(u) \/ u = t) /\ u # h
      BY <1>1, <1>7, <3>1, <3>2, <3>3 DEF Queued
    <3>5. QED
      BY <1>7, <3>4 DEF StalledAreQueued
  <2>5. Lockers'
    BY <1>1, <1>2, <1>4, <1>7, Queues DEF StalledAreQueued, Lockers, SyncTypeOK
  <2>6. SignalWaiters' /\ Arrived'
    <3>1. \A k \in Mutex : Range(mutexQueue'[k]) \subseteq Range(mutexQueue[k])
      BY <1>4, <1>7
    <3>2. ASSUME NEW d \in Cond, NEW u \in Range(condQueue'[d])
          PROVE  /\ call'[u] = "wait" /\ u \notin Range(mutexQueue'[arg'[u]])
                 /\ \A e \in Cond : u \in Range(condQueue'[e]) => e = d
      <4>1. CASE u = t
        BY <1>1, <1>2, <1>3, <3>1, <3>2, <4>1, Queues DEF SyncTypeOK
      <4>2. CASE u # t
        <5>1. u \in Range(condQueue[d]) /\ u \in Client
          BY <1>3, <3>2, <4>2, Queues
        <5>2. arg'[u] = arg[u] /\ call'[u] = call[u] /\ arg[u] \in Mutex
          BY <1>1, <4>2, <5>1 DEF SyncTypeOK
        <5>3. \A e \in Cond : u \in Range(condQueue'[e]) => u \in Range(condQueue[e])
          BY <1>3, <4>2
        <5>4. QED
          BY <3>1, <5>1, <5>2, <5>3 DEF StalledAreQueued, SignalWaiters
      <4>3. QED
        BY <4>1, <4>2
    <3>3. \A d \in Cond : IsInjective(condQueue'[d])
      BY <1>3 DEF StalledAreQueued, SignalWaiters
    <3>4. Arrived'
      BY <1>1, <1>2, Queues DEF StalledAreQueued, Arrived, SyncTypeOK
    <3>5. QED
      BY <3>2, <3>3, <3>4 DEF SignalWaiters
  <2>7. QED
    BY <1>5, <2>2, <2>3, <2>4, <2>5, <2>6 DEF StalledAreQueued
<1>8. QED
  BY <1>4, <1>6, <1>7

\* The first waiter u of a condition, whose mutex is k: what signal and broadcast
\* know when the mutex is busy or free.
LEMMA FirstWaiter ==
  ASSUME IInv, NEW c \in Cond, condQueue[c] # <<>>
  PROVE  LET u == Head(condQueue[c])
             rest == Tail(condQueue[c])
         IN /\ u \in Client /\ rest \in Seq(Client) /\ IsInjective(rest) /\ u \notin Range(rest)
            /\ Range(condQueue[c]) = Range(rest) \cup {u} /\ IsInjective(condQueue[c])
            /\ arg[u] \in Mutex
            /\ \A v \in Range(condQueue[c]) :
                 /\ v \in Client /\ arg[v] = arg[u] /\ call[v] = "wait" /\ v \in stalled
                 /\ v \notin Range(barrierQueue) /\ owner[arg[u]] # v
                 /\ \A k \in Mutex : v \notin Range(mutexQueue[k])
                 /\ \A d \in Cond : d # c => v \notin Range(condQueue[d])
<1> USE DEF IInv
<1> DEFINE u == Head(condQueue[c])
           rest == Tail(condQueue[c])
<1>1. IsInjective(condQueue[c])
  BY DEF StalledAreQueued, SignalWaiters
<1>2. /\ u \in Client /\ rest \in Seq(Client) /\ IsInjective(rest) /\ u \notin Range(rest)
      /\ Range(condQueue[c]) = Range(rest) \cup {u}
  BY <1>1, Queues, Dequeue
<1> HIDE DEF u, rest
<1>3. ASSUME NEW v \in Range(condQueue[c])
      PROVE  /\ v \in Client /\ arg[v] = arg[u] /\ call[v] = "wait" /\ v \in stalled
             /\ v \notin Range(barrierQueue) /\ owner[arg[v]] # v
             /\ \A k \in Mutex : v \notin Range(mutexQueue[k])
             /\ \A d \in Cond : d # c => v \notin Range(condQueue[d])
  <2>1. v \in Client /\ arg[v] = arg[u] /\ call[v] = "wait"
        /\ (\A d \in Cond : d # c => v \notin Range(condQueue[d]))
        /\ v \notin Range(mutexQueue[arg[v]])
    BY <1>2, Queues DEF SameMutex, StalledAreQueued, SignalWaiters
  <2>2. v \in stalled /\ v \notin Range(barrierQueue)
        /\ \A k \in Mutex : v \notin Range(mutexQueue[k])
    BY <2>1 DEF StalledAreQueued, Queued, Arrived, Lockers
  <2>3. owner[arg[v]] # v
    BY <2>1, <2>2 DEF HeldIsOwned, Granted, ArgNotHeld, SyncTypeOK
  <2>4. QED
    BY <2>1, <2>2, <2>3
<1>4. arg[u] \in Mutex
  BY <1>2 DEF SyncTypeOK
<1>5. QED
  BY <1>1, <1>2, <1>3, <1>4 DEF u, rest

\* Some waiters W of condition c go to their mutex k: the first one, u, gets it if it
\* is free (and is in `given`), the others queue for it.
ToMutex(c, W, given, u, k) ==
  /\ condQueue[c] # <<>> /\ W \subseteq Range(condQueue[c]) /\ given \subseteq W
  /\ u \in W /\ k \in Mutex /\ arg[u] = k
  /\ UNCHANGED <<barrierQueue, call, arg, held>>
  /\ condQueue' \in [Cond -> Seq(Client)] /\ IsInjective(condQueue'[c])
  /\ Range(condQueue'[c]) = Range(condQueue[c]) \ W
  /\ \A d \in Cond : d # c => condQueue'[d] = condQueue[d]
  /\ mutexQueue' \in [Mutex -> Seq(Client)] /\ IsInjective(mutexQueue'[k])
  /\ Range(mutexQueue'[k]) = Range(mutexQueue[k]) \cup (W \ given)
  /\ \A l \in Mutex : l # k => mutexQueue'[l] = mutexQueue[l]
  /\ stalled' = stalled \ given
  /\ \/ owner[k] # NoOwner /\ given = {} /\ UNCHANGED owner
     \/ owner[k] = NoOwner /\ given = {u} /\ owner' = [owner EXCEPT ![k] = u]

LEMMA ToMutexIInv ==
  ASSUME IInv, NEW c \in Cond, NEW W, NEW given, NEW u, NEW k, ToMutex(c, W, given, u, k)
  PROVE  IInv'
<1> USE DEF IInv, ToMutex
<1>1. \A v \in W : /\ v \in Client /\ arg[v] = k /\ call[v] = "wait" /\ v \in stalled
                   /\ v \notin Range(barrierQueue) /\ owner[k] # v
                   /\ \A l \in Mutex : v \notin Range(mutexQueue[l])
                   /\ \A d \in Cond : d # c => v \notin Range(condQueue[d])
  BY FirstWaiter
<1>2. SyncTypeOK'
  BY <1>1 DEF SyncTypeOK
<1>3. ArgNotHeld' /\ SameMutex'
  <2>1. \A d \in Cond : Range(condQueue'[d]) \subseteq Range(condQueue[d])
    OBVIOUS
  <2>2. QED
    BY <2>1 DEF ArgNotHeld, SameMutex
<1>4. HeldIsOwned'
  <2>1. CASE owner[k] # NoOwner /\ given = {} /\ UNCHANGED owner
    BY <2>1 DEF HeldIsOwned, Granted
  <2>2. CASE owner[k] = NoOwner /\ given = {u} /\ owner' = [owner EXCEPT ![k] = u]
    BY <1>1, <2>2 DEF HeldIsOwned, Granted, SyncTypeOK
  <2>3. QED
    BY <2>1, <2>2
<1>5. \A v \in Client : v \in stalled' <=> Queued(v)'
  <2>1. \A v \in Client : (\E l \in Mutex : v \in Range(mutexQueue'[l]))
                            <=> v \in W \ given \/ \E l \in Mutex : v \in Range(mutexQueue[l])
    OBVIOUS
  <2>2. \A v \in Client : (\E d \in Cond : v \in Range(condQueue'[d]))
                            <=> v \notin W /\ \E d \in Cond : v \in Range(condQueue[d])
    BY <1>1
  <2>3. \A v \in Client : Queued(v)' <=> Queued(v) /\ v \notin given
    BY <1>1, <2>1, <2>2 DEF Queued
  <2>4. QED
    BY <2>3 DEF StalledAreQueued
<1>6. Lockers'
  <2>1. owner'[k] # NoOwner /\ \A v \in W \ given : owner'[k] # v
    BY <1>1 DEF SyncTypeOK
  <2>2. \A v \in Range(mutexQueue[k]) : owner'[k] # v
    BY <1>1 DEF StalledAreQueued, Lockers, SyncTypeOK
  <2>3. ASSUME NEW l \in Mutex
        PROVE  /\ IsInjective(mutexQueue'[l])
               /\ mutexQueue'[l] # <<>> => owner'[l] # NoOwner
               /\ \A v \in Range(mutexQueue'[l]) :
                    call'[v] \in {"lock", "wait"} /\ arg'[v] = l /\ owner'[l] # v
    <3>1. CASE l = k
      BY <1>1, <2>1, <2>2, <3>1 DEF StalledAreQueued, Lockers
    <3>2. CASE l # k
      BY <3>2 DEF StalledAreQueued, Lockers, SyncTypeOK
    <3>3. QED
      BY <3>1, <3>2
  <2>4. QED
    BY <2>3 DEF Lockers
<1>7. SignalWaiters' /\ Arrived'
  <2>1. \A d \in Cond : IsInjective(condQueue'[d]) /\ Range(condQueue'[d]) \subseteq Range(condQueue[d])
    BY DEF StalledAreQueued, SignalWaiters
  <2>2. ASSUME NEW d \in Cond, NEW v \in Range(condQueue'[d])
        PROVE  v \notin Range(mutexQueue'[arg[v]])
    <3>1. v \notin W /\ v \notin Range(mutexQueue[arg[v]]) /\ v \in Client
      BY <1>1, <2>1, <2>2, Queues DEF StalledAreQueued, SignalWaiters
    <3>2. arg[v] \in Mutex
      BY <3>1 DEF SyncTypeOK
    <3>3. QED
      BY <3>1, <3>2
  <2>3. SignalWaiters'
    BY <2>1, <2>2 DEF StalledAreQueued, SignalWaiters
  <2>4. QED
    BY <2>3 DEF StalledAreQueued, Arrived
<1>8. QED
  BY <1>2, <1>3, <1>4, <1>5, <1>6, <1>7 DEF StalledAreQueued

LEMMA SignalToMutex ==
  ASSUME IInv, NEW t \in Client, NEW c \in Cond, CondSignal(t, c)
  PROVE  \E u \in Client, k \in Mutex : \E given \in {{}, {u}} : ToMutex(c, {u}, given, u, k)
<1> DEFINE u == Head(condQueue[c])
           rest == Tail(condQueue[c])
           k == arg[u]
<1>1. /\ condQueue[c] # <<>> /\ condQueue' = [condQueue EXCEPT ![c] = rest]
      /\ UNCHANGED <<barrierQueue, call, arg, held>>
      /\ IF owner[k] = NoOwner
         THEN owner' = [owner EXCEPT ![k] = u] /\ stalled' = stalled \ {u} /\ UNCHANGED mutexQueue
         ELSE mutexQueue' = [mutexQueue EXCEPT ![k] = Append(mutexQueue[k], u)]
              /\ UNCHANGED <<owner, stalled>>
  BY DEF CondSignal
<1>2. /\ u \in Client /\ rest \in Seq(Client) /\ IsInjective(rest) /\ u \notin Range(rest)
      /\ Range(condQueue[c]) = Range(rest) \cup {u} /\ k \in Mutex
      /\ u \in Range(condQueue[c]) /\ u \notin Range(mutexQueue[k])
  BY <1>1, FirstWaiter
<1> HIDE DEF u, rest
<1>3. /\ condQueue' \in [Cond -> Seq(Client)] /\ condQueue'[c] = rest
      /\ \A d \in Cond : d # c => condQueue'[d] = condQueue[d]
  BY <1>1, <1>2 DEF IInv, SyncTypeOK
<1>4. Range(condQueue'[c]) = Range(condQueue[c]) \ {u}
  BY <1>2, <1>3
<1>5. CASE owner[k] = NoOwner
  <2>1. mutexQueue' \in [Mutex -> Seq(Client)] /\ IsInjective(mutexQueue'[k])
        /\ Range(mutexQueue'[k]) = Range(mutexQueue[k]) \cup ({u} \ {u})
        /\ \A l \in Mutex : l # k => mutexQueue'[l] = mutexQueue[l]
    BY <1>1, <1>2, <1>5 DEF IInv, SyncTypeOK, StalledAreQueued, Lockers
  <2>2. {u} \in SUBSET Range(condQueue[c]) /\ {u} \in SUBSET {u} /\ u \in {u}
    BY <1>2
  <2>3. ToMutex(c, {u}, {u}, u, k)
    BY <1>1, <1>2, <1>3, <1>4, <1>5, <2>1, <2>2 DEF ToMutex
  <2>4. QED
    BY <1>2, <2>3
<1>6. CASE owner[k] # NoOwner
  <2>1. mutexQueue[k] \in Seq(Client) /\ IsInjective(mutexQueue[k])
        /\ mutexQueue' = [mutexQueue EXCEPT ![k] = Append(mutexQueue[k], u)]
    BY <1>1, <1>2, <1>6, Queues DEF IInv, StalledAreQueued, Lockers
  <2>2. Append(mutexQueue[k], u) \in Seq(Client) /\ IsInjective(Append(mutexQueue[k], u))
        /\ Range(Append(mutexQueue[k], u)) = Range(mutexQueue[k]) \cup {u}
    BY <1>2, <2>1, Enqueue
  <2>3. mutexQueue' \in [Mutex -> Seq(Client)] /\ mutexQueue'[k] = Append(mutexQueue[k], u)
        /\ \A l \in Mutex : l # k => mutexQueue'[l] = mutexQueue[l]
    BY <1>2, <2>1, <2>2 DEF IInv, SyncTypeOK
  <2>4. {u} \in SUBSET Range(condQueue[c]) /\ {} \in SUBSET {u} /\ u \in {u} /\ {u} \ {} = {u}
        /\ stalled' = stalled \ {} /\ UNCHANGED owner
    BY <1>1, <1>2, <1>6
  <2>5. ToMutex(c, {u}, {}, u, k)
    BY <1>1, <1>2, <1>3, <1>4, <1>6, <2>2, <2>3, <2>4 DEF ToMutex
  <2>6. QED
    BY <1>2, <2>5
<1>7. QED
  BY <1>5, <1>6

LEMMA SignalIInv ==
  ASSUME IInv, NEW t \in Client, NEW c \in Cond, CondSignal(t, c)
  PROVE  IInv'
<1>1. PICK u \in Client, k \in Mutex : \E given \in {{}, {u}} : ToMutex(c, {u}, given, u, k)
  BY SignalToMutex
<1>2. QED
  BY <1>1, ToMutexIInv

LEMMA BroadcastToMutex ==
  ASSUME IInv, NEW t \in Client, NEW c \in Cond, CondBroadcast(t, c)
  PROVE  \E u \in Client, k \in Mutex : \E given \in {{}, {u}} :
            ToMutex(c, Range(condQueue[c]), given, u, k)
<1> DEFINE u == Head(condQueue[c])
           rest == Tail(condQueue[c])
           k == arg[u]
           W == Range(condQueue[c])
<1>1. /\ condQueue[c] # <<>> /\ condQueue' = [condQueue EXCEPT ![c] = <<>>]
      /\ UNCHANGED <<barrierQueue, call, arg, held>>
      /\ IF owner[k] = NoOwner
         THEN /\ owner' = [owner EXCEPT ![k] = u] /\ stalled' = stalled \ {u}
              /\ mutexQueue' = [mutexQueue EXCEPT ![k] = mutexQueue[k] \o rest]
         ELSE /\ mutexQueue' = [mutexQueue EXCEPT ![k] = mutexQueue[k] \o condQueue[c]]
              /\ UNCHANGED <<owner, stalled>>
  BY DEF CondBroadcast
<1>2. /\ u \in Client /\ rest \in Seq(Client) /\ IsInjective(rest) /\ u \notin Range(rest)
      /\ W = Range(rest) \cup {u} /\ IsInjective(condQueue[c]) /\ k \in Mutex
      /\ \A v \in W : v \notin Range(mutexQueue[k])
  BY <1>1, FirstWaiter
<1> HIDE DEF u, rest
<1>3. condQueue[c] \in Seq(Client) /\ mutexQueue[k] \in Seq(Client) /\ IsInjective(mutexQueue[k])
  BY <1>2, Queues DEF IInv, StalledAreQueued, Lockers
<1>4. <<>> \in Seq(Client)
  OBVIOUS
<1>5. /\ condQueue' \in [Cond -> Seq(Client)] /\ condQueue'[c] = <<>>
      /\ \A d \in Cond : d # c => condQueue'[d] = condQueue[d]
  BY <1>1, <1>4 DEF IInv, SyncTypeOK
<1>6. IsInjective(condQueue'[c]) /\ Range(condQueue'[c]) = Range(condQueue[c]) \ W
  BY <1>5, EmptyQueue
<1>7. ASSUME NEW q \in Seq(Client), IsInjective(q), Range(q) \subseteq W,
             mutexQueue' = [mutexQueue EXCEPT ![k] = mutexQueue[k] \o q]
      PROVE  /\ mutexQueue' \in [Mutex -> Seq(Client)] /\ IsInjective(mutexQueue'[k])
             /\ Range(mutexQueue'[k]) = Range(mutexQueue[k]) \cup Range(q)
             /\ \A l \in Mutex : l # k => mutexQueue'[l] = mutexQueue[l]
  <2>1. /\ mutexQueue[k] \o q \in Seq(Client) /\ IsInjective(mutexQueue[k] \o q)
        /\ Range(mutexQueue[k] \o q) = Range(mutexQueue[k]) \cup Range(q)
    BY <1>2, <1>3, <1>7, MoveQueue
  <2>2. mutexQueue \in [Mutex -> Seq(Client)]
    BY DEF IInv, SyncTypeOK
  <2>3. QED
    BY <1>2, <1>7, <2>1, <2>2
<1>8. CASE owner[k] = NoOwner
  <2>1. Range(rest) = W \ {u} /\ {u} \in SUBSET W /\ u \in W /\ W \in SUBSET Range(condQueue[c])
    BY <1>2
  <2>2. /\ mutexQueue' \in [Mutex -> Seq(Client)] /\ IsInjective(mutexQueue'[k])
        /\ Range(mutexQueue'[k]) = Range(mutexQueue[k]) \cup (W \ {u})
        /\ \A l \in Mutex : l # k => mutexQueue'[l] = mutexQueue[l]
    BY <1>1, <1>2, <1>7, <1>8, <2>1
  <2>3. ToMutex(c, W, {u}, u, k)
    BY <1>1, <1>2, <1>5, <1>6, <1>8, <2>1, <2>2 DEF ToMutex
  <2>4. QED
    BY <1>2, <2>3
<1>9. CASE owner[k] # NoOwner
  <2>1. W \ {} = W /\ {} \in SUBSET W /\ u \in W /\ W \in SUBSET Range(condQueue[c])
        /\ stalled' = stalled \ {} /\ UNCHANGED owner
    BY <1>1, <1>2, <1>9
  <2>2. /\ mutexQueue' \in [Mutex -> Seq(Client)] /\ IsInjective(mutexQueue'[k])
        /\ Range(mutexQueue'[k]) = Range(mutexQueue[k]) \cup W
        /\ \A l \in Mutex : l # k => mutexQueue'[l] = mutexQueue[l]
    BY <1>1, <1>2, <1>3, <1>7, <1>9
  <2>3. ToMutex(c, W, {}, u, k)
    BY <1>1, <1>2, <1>5, <1>6, <1>9, <2>1, <2>2 DEF ToMutex
  <2>4. QED
    BY <1>2, <2>3
<1>10. QED
  BY <1>8, <1>9

LEMMA BroadcastIInv ==
  ASSUME IInv, NEW t \in Client, NEW c \in Cond, CondBroadcast(t, c)
  PROVE  IInv'
<1>1. PICK u \in Client, k \in Mutex : \E given \in {{}, {u}} :
            ToMutex(c, Range(condQueue[c]), given, u, k)
  BY BroadcastToMutex
<1>2. QED
  BY <1>1, ToMutexIInv

LEMMA BarrierIInv ==
  ASSUME IInv, NEW t \in Client, BarrierWait(t)
  PROVE  IInv'
<1> USE DEF IInv
<1>1. /\ call[t] = "none" /\ held[t] = {} /\ call' = [call EXCEPT ![t] = "barrier"]
      /\ arg' = [arg EXCEPT ![t] = arg[t]]
      /\ UNCHANGED <<owner, mutexQueue, condQueue, held>>
      /\ \/ barrierQueue' = <<>> /\ stalled' = stalled \ Range(barrierQueue)
         \/ barrierQueue' = Append(barrierQueue, t) /\ stalled' = stalled \cup {t}
  BY DEF BarrierWait, Calls
<1>2. arg' = arg
  BY <1>1 DEF SyncTypeOK
<1>3. /\ t \notin stalled /\ t \notin Range(barrierQueue)
      /\ \A k \in Mutex : t \notin Range(mutexQueue[k])
      /\ \A c \in Cond : t \notin Range(condQueue[c])
  BY <1>1, Queues
<1>4. ArgNotHeld' /\ SameMutex'
  BY <1>1, <1>2 DEF ArgNotHeld, SameMutex, SyncTypeOK
<1>5. Lockers' /\ SignalWaiters'
  BY <1>1, <1>2, <1>3, Queues DEF StalledAreQueued, Lockers, SignalWaiters, SyncTypeOK
<1>6. CASE barrierQueue' = <<>> /\ stalled' = stalled \ Range(barrierQueue)
  <2>1. <<>> \in Seq(Client)
    OBVIOUS
  <2>2. SyncTypeOK' /\ Arrived'
    BY <1>1, <1>2, <1>6, <2>1, EmptyQueue DEF SyncTypeOK, Arrived
  <2>3. HeldIsOwned'
    <3>1. \A u \in Range(barrierQueue) : call[u] = "barrier"
      BY DEF StalledAreQueued, Arrived
    <3>2. \A u \in Client, m \in Mutex : Granted(u, m)' <=> Granted(u, m)
      BY <1>1, <1>2, <1>6, <3>1 DEF Granted, SyncTypeOK
    <3>3. QED
      BY <1>1, <3>2 DEF HeldIsOwned
  <2>4. \A u \in Client : u \in stalled' <=> Queued(u)'
    <3>1. \A u \in Range(barrierQueue) : call[u] = "barrier"
                       /\ (\A m \in Mutex : u \notin Range(mutexQueue[m]))
                       /\ \A c \in Cond : u \notin Range(condQueue[c])
      BY DEF StalledAreQueued, Arrived, Lockers, SignalWaiters
    <3>2. QED
      BY <1>1, <1>6, <3>1, EmptyQueue DEF StalledAreQueued, Queued
  <2>5. QED
    BY <1>4, <1>5, <2>2, <2>3, <2>4 DEF StalledAreQueued
<1>7. CASE barrierQueue' = Append(barrierQueue, t) /\ stalled' = stalled \cup {t}
  <2>1. barrierQueue' \in Seq(Client) /\ Range(barrierQueue') = Range(barrierQueue) \cup {t}
        /\ IsInjective(barrierQueue')
    BY <1>3, <1>7, Queues, Enqueue DEF StalledAreQueued, Arrived
  <2>2. SyncTypeOK' /\ Arrived'
    BY <1>1, <1>2, <1>3, <1>7, <2>1, Queues DEF SyncTypeOK, StalledAreQueued, Arrived
  <2>3. HeldIsOwned'
    BY <1>1, <1>2, <1>3, <1>7 DEF HeldIsOwned, Granted, SyncTypeOK
  <2>4. \A u \in Client : u \in stalled' <=> Queued(u)'
    BY <1>1, <1>7, <2>1 DEF StalledAreQueued, Queued
  <2>5. QED
    BY <1>4, <1>5, <2>2, <2>3, <2>4 DEF StalledAreQueued
<1>8. QED
  BY <1>1, <1>6, <1>7

LEMMA ReturnIInv ==
  ASSUME IInv, NEW t \in Client, Return(t)
  PROVE  IInv'
<1> USE DEF IInv
<1> DEFINE got == IF call[t] = "barrier" THEN {} ELSE {arg[t]}
<1>1. /\ call[t] # "none" /\ t \notin stalled /\ call' = [call EXCEPT ![t] = "none"]
      /\ held' = [held EXCEPT ![t] = held[t] \cup got]
      /\ UNCHANGED <<owner, mutexQueue, condQueue, barrierQueue, stalled, arg>>
  BY DEF Return
<1>2. /\ t \notin Range(barrierQueue)
      /\ \A k \in Mutex : t \notin Range(mutexQueue[k])
      /\ \A c \in Cond : t \notin Range(condQueue[c])
  BY <1>1 DEF StalledAreQueued, Queued
<1>3. \A m \in Mutex : m \in got <=> Granted(t, m)
  BY <1>1 DEF Granted, SyncTypeOK
<1>4. got \subseteq Mutex
  BY DEF SyncTypeOK
<1> HIDE DEF got
<1>5. SyncTypeOK'
  BY <1>1, <1>4 DEF SyncTypeOK
<1>6. HeldIsOwned'
  <2>1. ASSUME NEW m \in Mutex PROVE owner'[m] = t <=> m \in held'[t] \/ Granted(t, m)'
    BY <1>1, <1>3 DEF HeldIsOwned, Granted, SyncTypeOK
  <2>2. ASSUME NEW u \in Client, u # t, NEW m \in Mutex
        PROVE  owner'[m] = u <=> m \in held'[u] \/ Granted(u, m)'
    BY <1>1, <2>2 DEF HeldIsOwned, Granted, SyncTypeOK
  <2>3. ASSUME NEW u \in Client, NEW m \in Mutex
        PROVE  owner'[m] = u <=> m \in held'[u] \/ Granted(u, m)'
    <3>1. CASE u = t
      BY <2>1, <3>1 DEF Granted
    <3>2. CASE u # t
      BY <2>2, <3>2
    <3> QED
      BY <3>1, <3>2
  <2>4. QED
    BY <2>3 DEF HeldIsOwned
<1>7. \A u \in Client : u \in stalled' <=> Queued(u)'
  BY <1>1 DEF StalledAreQueued, Queued
<1>8. Lockers' /\ SignalWaiters' /\ Arrived'
  BY <1>1, <1>2, Queues DEF StalledAreQueued, Lockers, SignalWaiters, Arrived, SyncTypeOK
<1>9. ArgNotHeld' /\ SameMutex'
  BY <1>1 DEF ArgNotHeld, SameMutex, SyncTypeOK
<1>10. QED
  BY <1>5, <1>6, <1>7, <1>8, <1>9 DEF StalledAreQueued

LEMMA NextIInv == IInv /\ [SyncNext]_syncVars => IInv'
<1> SUFFICES ASSUME IInv, [SyncNext]_syncVars PROVE IInv'
  OBVIOUS
<1>1. CASE UNCHANGED syncVars
  BY <1>1 DEF syncVars, IInv, SyncTypeOK, HeldIsOwned, Granted, StalledAreQueued, Lockers,
              SignalWaiters, Arrived, Queued, ArgNotHeld, SameMutex
<1>2. ASSUME NEW t \in Client, Return(t) PROVE IInv'
  BY <1>2, ReturnIInv
<1>3. ASSUME NEW t \in Client, BarrierWait(t) PROVE IInv'
  BY <1>3, BarrierIInv
<1>4. ASSUME NEW t \in Client, NEW m \in Mutex, MutexLock(t, m) PROVE IInv'
  <2>1. held[t] \subseteq Nat /\ \A k \in held[t] : k < m
    BY <1>4 DEF MutexLock, IInv, SyncTypeOK
  <2>2. m \notin held[t]
    BY <2>1
  <2>3. QED
    BY <1>4, <2>2, LockIInv DEF MutexLock
<1>5. ASSUME NEW t \in Client, NEW m \in Mutex, MutexTrylock(t, m) PROVE IInv'
  BY <1>5, LockIInv DEF MutexTrylock
<1>6. ASSUME NEW t \in Client, NEW m \in Mutex, MutexUnlock(t, m) PROVE IInv'
  BY <1>6, UnlockIInv
<1>7. ASSUME NEW t \in Client, NEW c \in Cond, CondSignal(t, c) PROVE IInv'
  BY <1>7, SignalIInv
<1>8. ASSUME NEW t \in Client, NEW c \in Cond, CondBroadcast(t, c) PROVE IInv'
  BY <1>8, BroadcastIInv
<1>9. ASSUME NEW t \in Client, NEW c \in Cond, NEW m \in Mutex, CondWait(t, c, m) PROVE IInv'
  BY <1>9, CondWaitIInv
<1>10. QED
  BY <1>1, <1>2, <1>3, <1>4, <1>5, <1>6, <1>7, <1>8, <1>9 DEF SyncNext
-----------------------------------------------------------------------------
\* For any threads, mutexes and conditions: a mutex has the owner the application
\* thinks it has, and a stalled thread is in exactly the queue of what it called
\* (system/sync_server.cc).
THEOREM SyncSafe == SyncSpec => [](SyncTypeOK /\ HeldIsOwned /\ StalledAreQueued)
<1>1. SyncInit => IInv
  BY InitIInv
<1>2. IInv /\ [SyncNext]_syncVars => IInv'
  BY NextIInv
<1>3. IInv => SyncTypeOK /\ HeldIsOwned /\ StalledAreQueued
  BY DEF IInv
<1>4. QED
  BY <1>1, <1>2, <1>3, PTL DEF SyncSpec, SyncSafety

-----------------------------------------------------------------------------
(* The simulated mutexes, conditions and barriers are monitors: every step of *)
(* SyncServer is a step of Monitors or changes neither who holds what nor who *)
(* waits for what.                                                            *)

HIDE SyncAssumption

\* As many threads are in a queue as it is long.
LEMMA QueueSize ==
  ASSUME NEW S, NEW q \in Seq(S), IsInjective(q)
  PROVE  Cardinality(Range(q)) = Len(q)
<1>1. Len(q) \in Nat /\ DOMAIN q = 1 .. Len(q) /\ q \in [1 .. Len(q) -> Range(q)]
  BY DEF Range
<1>2. q \in Bijection(1 .. Len(q), Range(q))
  BY <1>1 DEF Bijection, Injection, Surjection, IsInjective, Range
<1>3. IsFiniteSet(1 .. Len(q)) /\ Cardinality(1 .. Len(q)) = Len(q)
  BY <1>1, FS_Interval
<1>4. QED
  BY <1>2, <1>3, FS_Bijection DEF ExistsBijection

\* What a thread can wait for is never two things at once.
LEMMA Distinct ==
  ASSUME NEW c, NEW d, NEW m, NEW n
  PROVE  /\ Mon!Nothing # Mon!ForMutex(m) /\ Mon!Nothing # Mon!ForSignal(c, m)
         /\ Mon!Nothing # Mon!ForOthers /\ Mon!ForOthers # Mon!ForMutex(m)
         /\ Mon!ForOthers # Mon!ForSignal(c, m) /\ Mon!ForMutex(m) # Mon!ForSignal(c, n)
         /\ Mon!ForMutex(m) = Mon!ForMutex(n) => m = n
         /\ Mon!ForSignal(c, m) = Mon!ForSignal(d, n) => c = d /\ m = n
  BY DEF Mon!Nothing, Mon!ForMutex, Mon!ForSignal, Mon!ForOthers
-----------------------------------------------------------------------------
\* Where a thread is queued says what it waits for, and the other way round.
Where ==
  \A t \in Client :
    /\ WaitsFor(t) = Mon!Nothing <=> t \notin stalled
    /\ \A m \in Mutex : WaitsFor(t) = Mon!ForMutex(m) <=> t \in Range(mutexQueue[m])
    /\ \A c \in Cond, m \in Mutex :
         WaitsFor(t) = Mon!ForSignal(c, m) <=> t \in Range(condQueue[c]) /\ arg[t] = m
    /\ WaitsFor(t) = Mon!ForOthers <=> t \in Range(barrierQueue)

LEMMA WhereIs == IInv => Where
<1> SUFFICES ASSUME IInv, NEW t \in Client
             PROVE /\ WaitsFor(t) = Mon!Nothing <=> t \notin stalled
                   /\ \A m \in Mutex : WaitsFor(t) = Mon!ForMutex(m) <=> t \in Range(mutexQueue[m])
                   /\ \A c \in Cond, m \in Mutex :
                        WaitsFor(t) = Mon!ForSignal(c, m) <=> t \in Range(condQueue[c]) /\ arg[t] = m
                   /\ WaitsFor(t) = Mon!ForOthers <=> t \in Range(barrierQueue)
  BY DEF Where
<1>1. arg[t] \in Mutex
  BY DEF IInv, SyncTypeOK
<1>2. t \in stalled <=> Queued(t)
  BY DEF IInv, StalledAreQueued
<1>3. CASE t \notin stalled
  <2>1. WaitsFor(t) = Mon!Nothing
    BY <1>3 DEF WaitsFor, Mon!Nothing
  <2>2. QED
    BY <1>2, <1>3, <2>1, Distinct DEF Queued
<1>4. ASSUME NEW m \in Mutex, t \in Range(mutexQueue[m])
      PROVE  /\ WaitsFor(t) = Mon!ForMutex(m) /\ t \in stalled /\ t \notin Range(barrierQueue)
             /\ \A k \in Mutex : t \in Range(mutexQueue[k]) => k = m
             /\ \A c \in Cond : t \notin Range(condQueue[c])
  <2>1. t \in stalled /\ call[t] # "barrier" /\ arg[t] = m
    BY <1>2, <1>4 DEF Queued, IInv, StalledAreQueued, Lockers
  <2>2. WaitsFor(t) = Mon!ForMutex(m)
    BY <1>4, <2>1 DEF WaitsFor, Mon!ForMutex
  <2>3. QED
    BY <1>4, <2>1, <2>2 DEF IInv, StalledAreQueued, Lockers, SignalWaiters, Arrived
<1>5. ASSUME NEW c \in Cond, t \in Range(condQueue[c])
      PROVE  /\ WaitsFor(t) = Mon!ForSignal(c, arg[t]) /\ t \in stalled /\ t \notin Range(barrierQueue)
             /\ \A k \in Mutex : t \notin Range(mutexQueue[k])
             /\ \A d \in Cond : t \in Range(condQueue[d]) => d = c
  <2>1. t \in stalled /\ call[t] = "wait" /\ t \notin Range(mutexQueue[arg[t]])
        /\ \A d \in Cond : t \in Range(condQueue[d]) => d = c
    BY <1>2, <1>5 DEF Queued, IInv, StalledAreQueued, SignalWaiters
  <2>2. (CHOOSE d \in Cond : t \in Range(condQueue[d])) = c
    BY <1>5, <2>1
  <2>3. WaitsFor(t) = Mon!ForSignal(c, arg[t])
    BY <2>1, <2>2 DEF WaitsFor, Mon!ForSignal
  <2>4. QED
    BY <1>1, <2>1, <2>3 DEF IInv, StalledAreQueued, Lockers, Arrived
<1>6. ASSUME t \in Range(barrierQueue)
      PROVE  /\ WaitsFor(t) = Mon!ForOthers /\ t \in stalled
             /\ (\A k \in Mutex : t \notin Range(mutexQueue[k]))
             /\ \A c \in Cond : t \notin Range(condQueue[c])
  <2>1. t \in stalled /\ call[t] = "barrier"
    BY <1>2, <1>6 DEF Queued, IInv, StalledAreQueued, Arrived
  <2>2. WaitsFor(t) = Mon!ForOthers
    BY <2>1 DEF WaitsFor, Mon!ForOthers
  <2>3. QED
    BY <2>1, <2>2 DEF IInv, StalledAreQueued, Lockers, SignalWaiters
<1>7. CASE \E m \in Mutex : t \in Range(mutexQueue[m])
  BY <1>4, <1>7, Distinct
<1>8. CASE \E c \in Cond : t \in Range(condQueue[c])
  <2>1. PICK c \in Cond : t \in Range(condQueue[c])
    BY <1>8
  <2>2. /\ WaitsFor(t) = Mon!ForSignal(c, arg[t]) /\ t \in stalled /\ t \notin Range(barrierQueue)
        /\ (\A k \in Mutex : t \notin Range(mutexQueue[k]))
        /\ \A d \in Cond : t \in Range(condQueue[d]) => d = c
    BY <1>5, <2>1
  <2>3. ASSUME NEW d \in Cond, NEW m \in Mutex
        PROVE  WaitsFor(t) = Mon!ForSignal(d, m) <=> t \in Range(condQueue[d]) /\ arg[t] = m
    BY <2>1, <2>2, Distinct
  <2>4. /\ WaitsFor(t) # Mon!Nothing /\ WaitsFor(t) # Mon!ForOthers
        /\ \A m \in Mutex : WaitsFor(t) # Mon!ForMutex(m)
    BY <2>2, Distinct
  <2>5. QED
    BY <2>2, <2>3, <2>4
<1>9. CASE t \in Range(barrierQueue)
  BY <1>6, <1>9, Distinct
<1>10. QED
  BY <1>2, <1>3, <1>7, <1>8, <1>9 DEF Queued

\* Who stays where it is waits for what it waited for.
LEMMA Unmoved ==
  ASSUME IInv, Where, Where', NEW u \in Client,
         u \notin stalled => u \notin stalled',
         \A m \in Mutex : u \in Range(mutexQueue[m]) => u \in Range(mutexQueue'[m]),
         \A c \in Cond : u \in Range(condQueue[c]) => u \in Range(condQueue'[c]),
         u \in stalled => arg'[u] = arg[u],
         u \in Range(barrierQueue) => u \in Range(barrierQueue')
  PROVE  WaitsFor(u)' = WaitsFor(u)
<1>1. u \in stalled <=> Queued(u)
  BY DEF IInv, StalledAreQueued
<1>2. arg[u] \in Mutex
  BY DEF IInv, SyncTypeOK
<1>3. CASE u \notin stalled
  BY <1>3 DEF Where
<1>4. ASSUME NEW m \in Mutex, u \in Range(mutexQueue[m]) PROVE WaitsFor(u)' = WaitsFor(u)
  BY <1>4 DEF Where
<1>5. ASSUME NEW c \in Cond, u \in Range(condQueue[c]) PROVE WaitsFor(u)' = WaitsFor(u)
  BY <1>1, <1>2, <1>5 DEF Where, Queued
<1>6. CASE u \in Range(barrierQueue)
  BY <1>6 DEF Where
<1>7. QED
  BY <1>1, <1>3, <1>4, <1>5, <1>6 DEF Queued
-----------------------------------------------------------------------------
\* What each thread waits for: the second variable of Monitors.
Waits == [t \in Client |-> WaitsFor(t)]

\* Who waits for a mutex, a signal, or the barrier.
LEMMA WaitingSets ==
  ASSUME IInv, Where
  PROVE  /\ \A m \in Mutex : Mon!Waiting(Waits, Mon!ForMutex(m)) = Range(mutexQueue[m])
         /\ \A c \in Cond, m \in Mutex :
              Mon!Waiting(Waits, Mon!ForSignal(c, m)) = {t \in Range(condQueue[c]) : arg[t] = m}
         /\ Mon!Waiting(Waits, Mon!ForOthers) = Range(barrierQueue)
  BY Queues DEF Mon!Waiting, Waits, Where

LEMMA LockIsLock ==
  ASSUME IInv, Where, Where', NEW t \in Client, NEW m \in Mutex,
         Calls(t, "lock", m), SimLock(t, m), UNCHANGED <<condQueue, barrierQueue, held>>
  PROVE  Mon!Lock(t, m)
<1>1. call[t] = "none" /\ arg' = [arg EXCEPT ![t] = m]
  BY DEF Calls
<1>2. t \notin stalled /\ Waits[t] = Mon!Nothing
  BY <1>1, Queues DEF Where, Waits
<1>3. CASE owner[m] = NoOwner
  <2>1. owner' = [owner EXCEPT ![m] = t] /\ UNCHANGED <<mutexQueue, stalled>>
    BY <1>3 DEF SimLock
  <2>2. \A u \in Client : u \in stalled => arg'[u] = arg[u]
    BY <1>1, <1>2 DEF IInv, SyncTypeOK
  <2>3. \A u \in Client : WaitsFor(u)' = WaitsFor(u)
    BY <2>1, <2>2, Unmoved
  <2>4. Waits' = Waits
    BY <2>3 DEF Waits
  <2>5. QED
    BY <1>2, <1>3, <2>1, <2>4 DEF Mon!Lock, Waits
<1>4. CASE owner[m] # NoOwner
  <2>1. UNCHANGED owner /\ stalled' = stalled \cup {t}
        /\ mutexQueue' = [mutexQueue EXCEPT ![m] = Append(mutexQueue[m], t)]
    BY <1>4 DEF SimLock
  <2>2. Range(mutexQueue'[m]) = Range(mutexQueue[m]) \cup {t}
        /\ \A k \in Mutex : k # m => mutexQueue'[k] = mutexQueue[k]
    BY <2>1, Queues, Enqueue DEF IInv, SyncTypeOK
  <2>3. WaitsFor(t)' = Mon!ForMutex(m)
    BY <2>2 DEF Where
  <2>4. ASSUME NEW u \in Client, u # t PROVE WaitsFor(u)' = WaitsFor(u)
    <3>1. arg'[u] = arg[u]
      BY <1>1, <2>4 DEF IInv, SyncTypeOK
    <3>2. \A k \in Mutex : u \in Range(mutexQueue[k]) => u \in Range(mutexQueue'[k])
      BY <2>2
    <3>3. QED
      BY <2>1, <2>4, <3>1, <3>2, Unmoved
  <2>5. Waits' = [Waits EXCEPT ![t] = Mon!ForMutex(m)]
    BY <2>3, <2>4 DEF Waits
  <2>6. QED
    BY <1>2, <1>4, <2>1, <2>5 DEF Mon!Lock, Waits
<1>5. QED
  BY <1>3, <1>4

\* What unlock does to the queue, the owner and the stalled threads.
HandsOver(t, m, asleep) ==
  /\ mutexQueue' \in [Mutex -> Seq(Client)]
  /\ \A k \in Mutex : k # m => mutexQueue'[k] = mutexQueue[k]
  /\ \/ /\ Range(mutexQueue[m]) = {} /\ UNCHANGED mutexQueue
        /\ owner' = [owner EXCEPT ![m] = NoOwner] /\ stalled' = asleep
     \/ \E h \in Client :
          /\ h \in Range(mutexQueue[m]) /\ h # t
          /\ owner' = [owner EXCEPT ![m] = h] /\ stalled' = asleep \ {h}
          /\ Range(mutexQueue'[m]) = Range(mutexQueue[m]) \ {h}
          /\ IsInjective(mutexQueue'[m])

LEMMA UnlockHandsOver ==
  ASSUME IInv, NEW t \in Client, NEW m \in Mutex, call[t] = "none", NEW asleep, SimUnlock(t, m, asleep)
  PROVE  HandsOver(t, m, asleep)
  BY UnlockFacts DEF HandsOver

\* unlock, alone or as the first part of wait: t waits for w[t] then, and the mutex is
\* given away.
LEMMA UnlockGivesAway ==
  ASSUME IInv, Where, Where', NEW t \in Client, NEW m \in Mutex, call[t] = "none",
         NEW asleep, SimUnlock(t, m, asleep), NEW S, NEW w \in [Client -> S],
         w[t] = WaitsFor(t)', \A k \in Mutex : w[t] # Mon!ForMutex(k),
         \A u \in Client : u # t => w[u] = Waits[u],
         asleep \ {t} = stalled \ {t},
         \A u \in Client : u # t => arg'[u] = arg[u],
         \A c \in Cond : \A u \in Range(condQueue[c]) : u \in Range(condQueue'[c]),
         UNCHANGED barrierQueue
  PROVE  Mon!GiveAway(m, w)
<1>1. Mon!Waiting(w, Mon!ForMutex(m)) = Range(mutexQueue[m])
  <2>1. Mon!Waiting(Waits, Mon!ForMutex(m)) = Range(mutexQueue[m])
    BY WaitingSets
  <2>2. t \notin Range(mutexQueue[m])
    BY Queues
  <2>3. QED
    BY <2>1, <2>2 DEF Mon!Waiting
<1>2. /\ mutexQueue' \in [Mutex -> Seq(Client)]
      /\ \A k \in Mutex : k # m => mutexQueue'[k] = mutexQueue[k]
      /\ \/ /\ Range(mutexQueue[m]) = {} /\ UNCHANGED mutexQueue
            /\ owner' = [owner EXCEPT ![m] = NoOwner] /\ stalled' = asleep
         \/ \E h \in Client :
              /\ h \in Range(mutexQueue[m]) /\ h # t
              /\ owner' = [owner EXCEPT ![m] = h] /\ stalled' = asleep \ {h}
              /\ Range(mutexQueue'[m]) = Range(mutexQueue[m]) \ {h}
              /\ IsInjective(mutexQueue'[m])
  <2>1. HandsOver(t, m, asleep)
    BY UnlockHandsOver
  <2>2. QED
    BY <2>1 DEF HandsOver
<1>3. CASE /\ Range(mutexQueue[m]) = {} /\ UNCHANGED mutexQueue
           /\ owner' = [owner EXCEPT ![m] = NoOwner] /\ stalled' = asleep
  <2>1. ASSUME NEW u \in Client, u # t PROVE WaitsFor(u)' = Waits[u]
    <3>1. WaitsFor(u)' = WaitsFor(u)
      BY <1>3, <2>1, Unmoved
    <3>2. QED
      BY <3>1 DEF Waits
  <2>2. Waits' = w
    BY <2>1 DEF Waits
  <2>3. QED
    BY <1>1, <1>3, <2>2 DEF Mon!GiveAway, Waits
<1>4. ASSUME NEW h \in Client, h \in Range(mutexQueue[m]), h # t,
             owner' = [owner EXCEPT ![m] = h], stalled' = asleep \ {h},
             Range(mutexQueue'[m]) = Range(mutexQueue[m]) \ {h}
      PROVE  Mon!GiveAway(m, w)
  <2>1. WaitsFor(h)' = Mon!Nothing
    BY <1>4 DEF Where
  <2>2. ASSUME NEW u \in Client, u # t, u # h PROVE WaitsFor(u)' = Waits[u]
    <3>1. WaitsFor(u)' = WaitsFor(u)
      BY <1>2, <1>4, <2>2, Unmoved
    <3>2. QED
      BY <3>1 DEF Waits
  <2>3. Waits' = [w EXCEPT ![h] = Mon!Nothing]
    BY <1>4, <2>1, <2>2 DEF Waits
  <2>4. QED
    BY <1>1, <1>4, <2>3 DEF Mon!GiveAway, Waits
<1>5. QED
  BY <1>2, <1>3, <1>4

LEMMA UnlockIsUnlock ==
  ASSUME IInv, Where, Where', NEW t \in Client, NEW m \in Mutex, MutexUnlock(t, m)
  PROVE  Mon!Unlock(t, m)
<1>1. /\ call[t] = "none" /\ m \in held[t] /\ SimUnlock(t, m, stalled)
      /\ UNCHANGED <<condQueue, barrierQueue, call, arg>>
  BY DEF MutexUnlock
<1>2. t \notin stalled /\ owner[m] = t /\ Waits[t] = Mon!Nothing
  BY <1>1, Queues DEF Where, Waits, IInv, HeldIsOwned
<1>3. t \notin stalled'
  BY <1>1, <1>2, UnlockFacts
<1>4. WaitsFor(t)' = Mon!Nothing
  BY <1>3 DEF Where
<1>5. Waits \in [Client -> {Waits[u] : u \in Client}]
  BY DEF Waits
<1>6. \A k \in Mutex : Waits[t] # Mon!ForMutex(k)
  BY <1>2, Distinct
<1>7. Mon!GiveAway(m, Waits)
  BY <1>1, <1>2, <1>4, <1>5, <1>6, UnlockGivesAway
<1>8. QED
  BY <1>2, <1>7 DEF Mon!Unlock, Waits

LEMMA CondWaitIsWait ==
  ASSUME IInv, Where, Where', NEW t \in Client, NEW c \in Cond, NEW m \in Mutex, CondWait(t, c, m)
  PROVE  Mon!Wait(t, c, m)
<1> DEFINE w == [Waits EXCEPT ![t] = Mon!ForSignal(c, m)]
<1>1. /\ call[t] = "none" /\ held[t] = {m} /\ arg' = [arg EXCEPT ![t] = m]
      /\ SimUnlock(t, m, stalled \cup {t}) /\ UNCHANGED barrierQueue
      /\ condQueue' = [condQueue EXCEPT ![c] = Append(condQueue[c], t)]
  BY DEF CondWait, Calls
<1>2. t \notin stalled /\ owner[m] = t /\ Waits[t] = Mon!Nothing
  BY <1>1, Queues DEF Where, Waits, IInv, HeldIsOwned
<1>3. Range(condQueue'[c]) = Range(condQueue[c]) \cup {t}
      /\ \A d \in Cond : d # c => condQueue'[d] = condQueue[d]
  BY <1>1, Queues, Enqueue DEF IInv, SyncTypeOK
<1>4. arg'[t] = m /\ \A u \in Client : u # t => arg'[u] = arg[u]
  BY <1>1 DEF IInv, SyncTypeOK
<1>5. WaitsFor(t)' = Mon!ForSignal(c, m)
  BY <1>3, <1>4 DEF Where
<1>6. /\ w \in [Client -> {w[u] : u \in Client}]
      /\ w[t] = WaitsFor(t)' /\ \A u \in Client : u # t => w[u] = Waits[u]
  BY <1>5 DEF Waits
<1>7. \A k \in Mutex : w[t] # Mon!ForMutex(k)
  BY <1>5, <1>6, Distinct
<1> HIDE DEF w
<1>8. \A d \in Cond : \A u \in Range(condQueue[d]) : u \in Range(condQueue'[d])
  BY <1>3
<1>9. (stalled \cup {t}) \ {t} = stalled \ {t}
  OBVIOUS
<1>10. Mon!GiveAway(m, w)
  BY <1>1, <1>4, <1>6, <1>7, <1>8, <1>9, UnlockGivesAway
<1>11. QED
  BY <1>2, <1>10 DEF Mon!Wait, Waits, w

\* A signal or a broadcast moves waiters to their mutex.
LEMMA ToMutexIsSignalled ==
  ASSUME IInv, Where, Where', NEW c \in Cond, NEW W, NEW given, NEW u, NEW k, ToMutex(c, W, given, u, k)
  PROVE  Mon!Signalled(W, c, k)
<1> DEFINE w == [t \in Client |-> IF t \in W THEN Mon!ForMutex(k) ELSE Waits[t]]
<1>1. /\ W \subseteq Range(condQueue[c]) /\ given \subseteq W /\ u \in W /\ k \in Mutex
      /\ UNCHANGED <<barrierQueue, call, arg, held>>
      /\ Range(condQueue'[c]) = Range(condQueue[c]) \ W
      /\ \A d \in Cond : d # c => condQueue'[d] = condQueue[d]
      /\ Range(mutexQueue'[k]) = Range(mutexQueue[k]) \cup (W \ given)
      /\ \A l \in Mutex : l # k => mutexQueue'[l] = mutexQueue[l]
      /\ stalled' = stalled \ given
      /\ \/ owner[k] # NoOwner /\ given = {} /\ UNCHANGED owner
         \/ owner[k] = NoOwner /\ given = {u} /\ owner' = [owner EXCEPT ![k] = u]
  BY DEF ToMutex
<1>2. W \subseteq Client
  BY <1>1, Queues
<1>3. \A v \in W \ given : WaitsFor(v)' = Mon!ForMutex(k)
  BY <1>1, <1>2 DEF Where
<1>4. \A v \in given : WaitsFor(v)' = Mon!Nothing
  BY <1>1, <1>2 DEF Where
<1>5. ASSUME NEW v \in Client, v \notin W PROVE WaitsFor(v)' = Waits[v]
  <2>1. \A d \in Cond : v \in Range(condQueue[d]) => v \in Range(condQueue'[d])
    BY <1>1, <1>5
  <2>2. \A l \in Mutex : v \in Range(mutexQueue[l]) => v \in Range(mutexQueue'[l])
    BY <1>1
  <2>3. WaitsFor(v)' = WaitsFor(v)
    BY <1>1, <2>1, <2>2, Unmoved
  <2>4. QED
    BY <2>3 DEF Waits
<1>6. CASE owner[k] # NoOwner /\ given = {} /\ UNCHANGED owner
  <2>1. Waits' = w
    BY <1>3, <1>5, <1>6 DEF Waits
  <2>2. QED
    BY <1>1, <1>6, <2>1 DEF Mon!Signalled, Waits
<1>7. CASE owner[k] = NoOwner /\ given = {u} /\ owner' = [owner EXCEPT ![k] = u]
  <2>1. u \in Mon!Waiting(w, Mon!ForMutex(k))
    BY <1>1, <1>2 DEF Mon!Waiting
  <2>2. Waits' = [w EXCEPT ![u] = Mon!Nothing]
    BY <1>2, <1>3, <1>4, <1>5, <1>7 DEF Waits
  <2>3. Mon!GiveAway(k, w)
    BY <1>7, <2>1, <2>2 DEF Mon!GiveAway, Waits
  <2>4. QED
    BY <1>1, <1>7, <2>3 DEF Mon!Signalled, Waits
<1>8. QED
  BY <1>1, <1>6, <1>7

LEMMA SignalIsSignal ==
  ASSUME IInv, Where, Where', NEW t \in Client, NEW c \in Cond, CondSignal(t, c)
  PROVE  \E m \in Mutex : Mon!Signal(c, m)
<1>1. PICK u \in Client, k \in Mutex : \E given \in {{}, {u}} : ToMutex(c, {u}, given, u, k)
  BY SignalToMutex
<1>2. u \in Range(condQueue[c]) /\ arg[u] = k
  BY <1>1 DEF ToMutex
<1>3. u \in Mon!Waiting(Waits, Mon!ForSignal(c, k))
  BY <1>2, WaitingSets
<1>4. Mon!Signalled({u}, c, k)
  BY <1>1, ToMutexIsSignalled
<1>5. QED
  BY <1>3, <1>4 DEF Mon!Signal, Waits

LEMMA BroadcastIsBroadcast ==
  ASSUME IInv, Where, Where', NEW t \in Client, NEW c \in Cond, CondBroadcast(t, c)
  PROVE  \E m \in Mutex : Mon!Broadcast(c, m)
<1>1. PICK u \in Client, k \in Mutex : \E given \in {{}, {u}} :
            ToMutex(c, Range(condQueue[c]), given, u, k)
  BY BroadcastToMutex
<1>2. u \in Range(condQueue[c]) /\ arg[u] = k
  BY <1>1 DEF ToMutex
<1>3. Mon!Waiting(Waits, Mon!ForSignal(c, k)) = Range(condQueue[c])
  <2>1. Mon!Waiting(Waits, Mon!ForSignal(c, k)) = {v \in Range(condQueue[c]) : arg[v] = k}
    BY WaitingSets
  <2>2. \A v \in Range(condQueue[c]) : arg[v] = k
    BY <1>2 DEF IInv, SameMutex
  <2>3. QED
    BY <2>1, <2>2
<1>4. Mon!Signalled(Range(condQueue[c]), c, k)
  BY <1>1, ToMutexIsSignalled
<1>5. QED
  BY <1>3, <1>4 DEF Mon!Broadcast, Waits

LEMMA BarrierIsArrive ==
  ASSUME IInv, Where, Where', NEW t \in Client, BarrierWait(t)
  PROVE  Mon!Arrive(t)
<1>1. /\ call[t] = "none" /\ arg' = [arg EXCEPT ![t] = arg[t]]
      /\ UNCHANGED <<owner, mutexQueue, condQueue, held>>
      /\ IF Len(barrierQueue) = Parties - 1
         THEN barrierQueue' = <<>> /\ stalled' = stalled \ Range(barrierQueue)
         ELSE barrierQueue' = Append(barrierQueue, t) /\ stalled' = stalled \cup {t}
  BY DEF BarrierWait, Calls
<1>2. arg' = arg
  BY <1>1 DEF IInv, SyncTypeOK
<1>3. t \notin stalled /\ Waits[t] = Mon!Nothing
  BY <1>1, Queues DEF Where, Waits
<1>4. Mon!Waiting(Waits, Mon!ForOthers) = Range(barrierQueue)
  BY WaitingSets
<1>5. Mon!Cardinality(Range(barrierQueue)) = Len(barrierQueue)
  <2>1. Cardinality(Range(barrierQueue)) = Len(barrierQueue)
    BY Queues, QueueSize DEF IInv, StalledAreQueued, Arrived
  <2>2. QED
    BY <2>1 DEF Mon!Cardinality, Cardinality
<1>6. \A u \in Client : Waits[u] = Mon!ForOthers <=> u \in Range(barrierQueue)
  BY DEF Where, Waits
<1>7. CASE Len(barrierQueue) = Parties - 1
  <2>1. \A u \in Range(barrierQueue) : WaitsFor(u)' = Mon!Nothing
    BY <1>1, <1>7, Queues DEF Where
  <2>2. ASSUME NEW u \in Client, u \notin Range(barrierQueue) PROVE WaitsFor(u)' = Waits[u]
    <3>1. WaitsFor(u)' = WaitsFor(u)
      BY <1>1, <1>2, <1>7, <2>2, Unmoved
    <3>2. QED
      BY <3>1 DEF Waits
  <2>3. Waits' = [u \in Client |-> IF Waits[u] = Mon!ForOthers THEN Mon!Nothing ELSE Waits[u]]
    BY <1>6, <2>1, <2>2 DEF Waits
  <2>4. QED
    BY <1>1, <1>3, <1>4, <1>5, <1>7, <2>3 DEF Mon!Arrive, Waits
<1>8. CASE Len(barrierQueue) # Parties - 1
  <2>1. Range(barrierQueue') = Range(barrierQueue) \cup {t}
    <3>1. barrierQueue \in Seq(Client) /\ barrierQueue' = Append(barrierQueue, t)
      BY <1>1, <1>8, Queues
    <3>2. QED
      BY <3>1, Enqueue
  <2>2. WaitsFor(t)' = Mon!ForOthers
    BY <2>1 DEF Where
  <2>3. ASSUME NEW u \in Client, u # t PROVE WaitsFor(u)' = Waits[u]
    <3>1. WaitsFor(u)' = WaitsFor(u)
      BY <1>1, <1>2, <1>8, <2>1, <2>3, Unmoved
    <3>2. QED
      BY <3>1 DEF Waits
  <2>4. Waits' = [Waits EXCEPT ![t] = Mon!ForOthers]
    BY <2>2, <2>3 DEF Waits
  <2>5. QED
    BY <1>1, <1>3, <1>4, <1>5, <1>8, <2>4 DEF Mon!Arrive, Waits
<1>9. QED
  BY <1>7, <1>8

\* A call that returns waits for nothing, before and after.
LEMMA ReturnIsStutter ==
  ASSUME IInv, Where, Where', NEW t \in Client, Return(t)
  PROVE  UNCHANGED <<owner, Waits>>
<1>1. UNCHANGED <<owner, mutexQueue, condQueue, barrierQueue, stalled, arg>>
  BY DEF Return
<1>2. \A u \in Client : WaitsFor(u)' = WaitsFor(u)
  BY <1>1, Unmoved
<1>3. QED
  BY <1>1, <1>2 DEF Waits

LEMMA StepIsStep ==
  ASSUME IInv, Where, Where', [SyncNext]_syncVars
  PROVE  Mon!Next \/ UNCHANGED <<owner, Waits>>
<1>1. CASE UNCHANGED syncVars
  BY <1>1 DEF syncVars, Waits, WaitsFor
<1>2. ASSUME NEW t \in Client, Return(t) PROVE UNCHANGED <<owner, Waits>>
  BY <1>2, ReturnIsStutter
<1>3. ASSUME NEW t \in Client, BarrierWait(t) PROVE Mon!Next
  <2>1. Mon!Arrive(t)
    BY <1>3, BarrierIsArrive
  <2>2. QED
    BY <2>1 DEF Mon!Next
<1>4. ASSUME NEW t \in Client, NEW m \in Mutex, MutexLock(t, m) \/ MutexTrylock(t, m) PROVE Mon!Next
  <2>1. /\ Calls(t, "lock", m) /\ SimLock(t, m)
        /\ UNCHANGED <<condQueue, barrierQueue, held>>
    BY <1>4 DEF MutexLock, MutexTrylock
  <2>2. Mon!Lock(t, m)
    BY <2>1, LockIsLock
  <2>3. QED
    BY <2>2 DEF Mon!Next
<1>5. ASSUME NEW t \in Client, NEW m \in Mutex, MutexUnlock(t, m) PROVE Mon!Next
  <2>1. Mon!Unlock(t, m)
    BY <1>5, UnlockIsUnlock
  <2>2. QED
    BY <2>1 DEF Mon!Next
<1>6. ASSUME NEW t \in Client, NEW c \in Cond, CondSignal(t, c) PROVE Mon!Next
  <2>1. \E m \in Mutex : Mon!Signal(c, m)
    BY <1>6, SignalIsSignal
  <2>2. QED
    BY <2>1 DEF Mon!Next
<1>7. ASSUME NEW t \in Client, NEW c \in Cond, CondBroadcast(t, c) PROVE Mon!Next
  <2>1. \E m \in Mutex : Mon!Broadcast(c, m)
    BY <1>7, BroadcastIsBroadcast
  <2>2. QED
    BY <2>1 DEF Mon!Next
<1>8. ASSUME NEW t \in Client, NEW c \in Cond, NEW m \in Mutex, CondWait(t, c, m) PROVE Mon!Next
  <2>1. Mon!Wait(t, c, m)
    BY <1>8, CondWaitIsWait
  <2>2. QED
    BY <2>1 DEF Mon!Next
<1>9. QED
  BY <1>1, <1>2, <1>3, <1>4, <1>5, <1>6, <1>7, <1>8 DEF SyncNext

\* At first nobody holds a mutex or waits.
LEMMA InitIsInit == SyncInit => Mon!Init
<1> SUFFICES ASSUME SyncInit PROVE Mon!Init
  OBVIOUS
<1>1. \A t \in Client : WaitsFor(t) = Mon!Nothing
  BY DEF SyncInit, WaitsFor, Mon!Nothing
<1>2. owner = [m \in Mutex |-> NoOwner]
  BY DEF SyncInit
<1>3. QED
  BY <1>1, <1>2 DEF Mon!Init

\* For any threads, mutexes, conditions and parties: FIFO queues, hand-over of mutexes
\* and the stalls of threads behave as monitors (system/sync_server.cc).
THEOREM SyncIsMonitors == SyncSpec => ImplementsMonitors
<1>1. SyncInit => IInv /\ Mon!Init
  BY InitIInv, InitIsInit
<1>2. IInv /\ [SyncNext]_syncVars => IInv'
  BY NextIInv
<1>3. IInv => Where
  BY WhereIs
<1>4. IInv /\ Where /\ Where' /\ [SyncNext]_syncVars => [Mon!Next]_(Mon!monVars)
  <2>1. UNCHANGED <<owner, Waits>> => UNCHANGED Mon!monVars
    BY DEF Mon!monVars, Waits
  <2>2. QED
    BY <2>1, StepIsStep
<1>5. QED
  BY <1>1, <1>2, <1>3, <1>4, PTL DEF SyncSpec, SyncSafety, ImplementsMonitors, Mon!Spec
=============================================================================
