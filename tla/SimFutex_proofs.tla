--------------------------- MODULE SimFutex_proofs ---------------------------
(***************************************************************************)
(* Proofs about SimFutex for every number of threads and words, whatever   *)
(* they are woken, requeued and timed out by.                              *)
(*                                                                         *)
(* The properties of SimFutex are not inductive: that no store is missed   *)
(* depends on what a call has read that has not compared yet (CallsOK), a  *)
(* call wakes whoever it takes from a queue only if no other queue has him *)
(* too, and a timeout is true only for a thread that was stalled.          *)
(***************************************************************************)
EXTENDS SimFutex, SequenceTheorems, TLAPS

USE FutexAssumption

\* Somebody changed word f and is still to wake its waiters.
Owed(f) == \E u \in Program : f \in owes[u]

\* Only threads in a call are stalled, and not while they have the lock; what a
\* call to wait has read is still there, or whoever changed it will wake.
CallsOK ==
  /\ \A t \in blocked : t # inside /\ ask[t] \in Wait \cup Nap
  /\ inside # NoOne =>
       /\ ask[inside] \in Wait \cup WakeOp
       /\ ask[inside] \in Wait /\ oldval # word[ask[inside].at] => Owed(ask[inside].at)

FInv == /\ FutexTypeOK /\ BlockedAreQueued /\ CallsOK
        /\ NoStoreIsMissed /\ TimeoutsAreTrue

-----------------------------------------------------------------------------
(* Queues without repetitions *)

\* The elements of a sequence.
LEMMA RangeOK ==
  ASSUME NEW S, NEW q \in Seq(S)
  PROVE  Range(q) \subseteq S
  BY DEF Range

\* The first elements of a queue and the others.
LEMMA FirstAndRest ==
  ASSUME NEW S, NEW q \in Seq(S), IsInjective(q), NEW k \in 0 .. Len(q)
  PROVE  /\ Rest(q, k) \in Seq(S) /\ IsInjective(Rest(q, k))
         /\ Range(First(q, k)) \subseteq Range(q)
         /\ Range(Rest(q, k)) = Range(q) \ Range(First(q, k))
<1>1. /\ DOMAIN q = 1 .. Len(q) /\ Len(q) \in Nat
      /\ DOMAIN First(q, k) = 1 .. k /\ \A i \in 1 .. k : First(q, k)[i] = q[i]
      /\ DOMAIN Rest(q, k) = 1 .. Len(q) - k
      /\ \A i \in 1 .. Len(q) - k : Rest(q, k)[i] = q[i + k]
      /\ Rest(q, k) \in Seq(S)
  BY DEF First, Rest
<1>2. IsInjective(Rest(q, k))
  <2>1. ASSUME NEW i \in 1 .. Len(q) - k, NEW j \in 1 .. Len(q) - k, q[i + k] = q[j + k]
        PROVE  i = j
    <3>1. i + k \in DOMAIN q /\ j + k \in DOMAIN q
      BY <1>1
    <3>2. i + k = j + k
      BY <2>1, <3>1 DEF IsInjective
    <3>3. QED
      BY <3>2
  <2> DEFINE s == Rest(q, k)
  <2>2. \A i, j \in DOMAIN s : s[i] = s[j] => i = j
    BY <1>1, <2>1
  <2>3. QED
    BY <2>2 DEF IsInjective
<1>3. Range(First(q, k)) \subseteq Range(q)
  BY <1>1 DEF Range
<1>4. ASSUME NEW x \in Range(Rest(q, k)) PROVE x \in Range(q) \ Range(First(q, k))
  <2>1. PICK i \in 1 .. Len(q) - k : x = q[i + k]
    BY <1>1 DEF Range
  <2>2. i + k \in DOMAIN q /\ \A j \in 1 .. k : j \in DOMAIN q /\ j # i + k
    BY <1>1, <2>1
  <2>3. \A j \in 1 .. k : q[j] # q[i + k]
    BY <2>2 DEF IsInjective
  <2>4. x \notin Range(First(q, k))
    BY <1>1, <2>1, <2>3 DEF Range
  <2>5. QED
    BY <2>1, <2>2, <2>4 DEF Range
<1>5. ASSUME NEW x \in Range(q) \ Range(First(q, k)) PROVE x \in Range(Rest(q, k))
  <2>1. PICK i \in 1 .. Len(q) : x = q[i]
    BY <1>1 DEF Range
  <2>2. i \notin 1 .. k
    BY <1>1, <2>1 DEF Range
  <2>3. i - k \in 1 .. Len(q) - k /\ Rest(q, k)[i - k] = x
    BY <1>1, <2>1, <2>2
  <2>4. QED
    BY <1>1, <2>3 DEF Range
<1>6. QED
  BY <1>1, <1>2, <1>3, <1>4, <1>5

\* A thread that is in no queue joins one, ...
LEMMA Appended ==
  ASSUME NEW S, NEW q \in Seq(S), IsInjective(q), NEW t \in S, t \notin Range(q)
  PROVE  /\ Append(q, t) \in Seq(S) /\ IsInjective(Append(q, t))
         /\ Range(Append(q, t)) = Range(q) \cup {t}
<1>1. /\ DOMAIN q = 1 .. Len(q) /\ Len(q) \in Nat
      /\ DOMAIN Append(q, t) = 1 .. Len(q) + 1
      /\ \A i \in 1 .. Len(q) : Append(q, t)[i] = q[i]
      /\ Append(q, t)[Len(q) + 1] = t
      /\ Append(q, t) \in Seq(S)
  OBVIOUS
<1>2. \A i \in 1 .. Len(q) : q[i] # t
  BY <1>1 DEF Range
<1>3. IsInjective(Append(q, t))
  BY <1>1, <1>2 DEF IsInjective
<1>4. Range(Append(q, t)) = Range(q) \cup {t}
  BY <1>1 DEF Range
<1>5. QED
  BY <1>1, <1>3, <1>4

\* ... or a queue is put behind another one.
LEMMA Joined ==
  ASSUME NEW S, NEW p \in Seq(S), NEW q \in Seq(S), IsInjective(p), IsInjective(q),
         Range(p) \cap Range(q) = {}
  PROVE  /\ p \o q \in Seq(S) /\ IsInjective(p \o q)
         /\ Range(p \o q) = Range(p) \cup Range(q)
<1>1. /\ DOMAIN p = 1 .. Len(p) /\ Len(p) \in Nat
      /\ DOMAIN q = 1 .. Len(q) /\ Len(q) \in Nat
      /\ DOMAIN (p \o q) = 1 .. Len(p) + Len(q)
      /\ \A i \in 1 .. Len(p) : (p \o q)[i] = p[i]
      /\ \A i \in 1 .. Len(p) + Len(q) : i > Len(p) => (p \o q)[i] = q[i - Len(p)]
      /\ p \o q \in Seq(S)
  OBVIOUS
<1>2. \A i \in 1 .. Len(p), j \in 1 .. Len(q) : p[i] # q[j]
  BY <1>1 DEF Range
<1>3. IsInjective(p \o q)
  <2> SUFFICES ASSUME NEW i \in 1 .. Len(p) + Len(q), NEW j \in 1 .. Len(p) + Len(q),
                      (p \o q)[i] = (p \o q)[j]
               PROVE  i = j
    BY <1>1 DEF IsInjective
  <2>1. CASE i <= Len(p) /\ j <= Len(p)
    BY <1>1, <2>1 DEF IsInjective
  <2>2. CASE i > Len(p) /\ j > Len(p)
    <3>1. i - Len(p) \in 1 .. Len(q) /\ j - Len(p) \in 1 .. Len(q)
      BY <1>1, <2>2
    <3>2. q[i - Len(p)] = q[j - Len(p)]
      BY <1>1, <2>2
    <3>3. i - Len(p) = j - Len(p)
      BY <1>1, <3>1, <3>2 DEF IsInjective
    <3>4. QED
      BY <1>1, <3>3
  <2>3. CASE i <= Len(p) /\ j > Len(p)
    BY <1>1, <1>2, <2>3
  <2>4. CASE i > Len(p) /\ j <= Len(p)
    BY <1>1, <1>2, <2>4
  <2>5. QED
    BY <1>1, <2>1, <2>2, <2>3, <2>4
<1>4. ASSUME NEW x \in Range(q) PROVE x \in Range(p \o q)
  <2>1. PICK j \in 1 .. Len(q) : x = q[j]
    BY <1>1 DEF Range
  <2>2. j + Len(p) \in 1 .. Len(p) + Len(q) /\ (p \o q)[j + Len(p)] = x
    BY <1>1, <2>1
  <2>3. QED
    BY <1>1, <2>2 DEF Range
<1>5. Range(p \o q) \subseteq Range(p) \cup Range(q)
  BY <1>1 DEF Range
<1>6. Range(p) \subseteq Range(p \o q)
  BY <1>1 DEF Range
<1>7. QED
  BY <1>1, <1>3, <1>4, <1>5, <1>6

\* Whoever is timed out, at most one of a queue, is gone from it.
LEMMA WithoutOK ==
  ASSUME NEW S, NEW q \in Seq(S), IsInjective(q), NEW gone, \A x, y \in gone : x = y
  PROVE  /\ Without(q, gone) \in Seq(S) /\ IsInjective(Without(q, gone))
         /\ Range(Without(q, gone)) = Range(q) \ gone
<1>1. CASE ~ \E i \in DOMAIN q : q[i] \in gone
  BY <1>1 DEF Without, Range
<1>2. CASE \E i \in DOMAIN q : q[i] \in gone
  <2>1. PICK i \in DOMAIN q : q[i] \in gone /\ Without(q, gone) = First(q, i - 1) \o Rest(q, i)
    BY <1>2 DEF Without
  <2>2. i - 1 \in 0 .. Len(q) /\ i \in 0 .. Len(q) /\ Len(q) \in Nat /\ DOMAIN q = 1 .. Len(q)
    BY LenProperties
  <2>3. /\ First(q, i - 1) \in Seq(S) /\ DOMAIN First(q, i - 1) = 1 .. i - 1
        /\ \A j \in 1 .. i - 1 : First(q, i - 1)[j] = q[j]
    BY <2>2 DEF First
  <2>4. IsInjective(First(q, i - 1))
    <3> DEFINE s == First(q, i - 1)
    <3>1. \A j \in DOMAIN s : j \in DOMAIN q /\ s[j] = q[j]
      BY <2>2, <2>3
    <3> HIDE DEF s
    <3>2. \A j, l \in DOMAIN s : s[j] = s[l] => j = l
      BY <3>1 DEF IsInjective
    <3>3. QED
      BY <3>2 DEF IsInjective, s
  <2>5. /\ Rest(q, i) \in Seq(S) /\ IsInjective(Rest(q, i))
        /\ Range(Rest(q, i)) = Range(q) \ Range(First(q, i))
    BY <2>2, FirstAndRest
  <2>6. Range(First(q, i)) = Range(First(q, i - 1)) \cup {q[i]}
    <3>1. DOMAIN First(q, i) = 1 .. i /\ \A j \in 1 .. i : First(q, i)[j] = q[j]
      BY <2>2 DEF First
    <3>2. 1 .. i = (1 .. i - 1) \cup {i} /\ i \in 1 .. i
      BY <2>2
    <3>3. Range(First(q, i)) = {q[j] : j \in 1 .. i}
      BY <3>1 DEF Range
    <3>4. Range(First(q, i - 1)) = {q[j] : j \in 1 .. i - 1}
      BY <2>3 DEF Range
    <3>5. QED
      BY <3>2, <3>3, <3>4
  <2>7. q[i] \notin Range(First(q, i - 1)) /\ Range(First(q, i - 1)) \subseteq Range(q)
    <3> DEFINE s == First(q, i - 1)
    <3>1. \A j \in DOMAIN s : j \in DOMAIN q /\ j # i /\ s[j] = q[j]
      BY <2>2, <2>3
    <3> HIDE DEF s
    <3>2. \A j \in DOMAIN s : s[j] # q[i] /\ s[j] \in Range(q)
      BY <3>1 DEF IsInjective, Range
    <3>3. q[i] \notin Range(s) /\ Range(s) \subseteq Range(q)
      BY <3>2 DEF Range
    <3>4. QED
      BY <3>3 DEF s
  <2>8. Range(q) \cap gone = {q[i]}
    BY <2>1 DEF Range
  <2>9. QED
    BY <2>1, <2>3, <2>4, <2>5, <2>6, <2>7, <2>8, Joined
<1>3. QED
  BY <1>1, <1>2

-----------------------------------------------------------------------------
(* Steps that resume threads *)

\* BlockedAreQueued, thread by thread: no two of the queues w and s have it, and
\* one has it if it is in b.
Apart(w, s, b) ==
  /\ IsInjective(s) /\ \A f \in Futex : IsInjective(w[f])
  /\ \A f, g \in Futex : f # g => \A t \in Range(w[f]) : t \notin Range(w[g])
  /\ \A f \in Futex : \A t \in Range(w[f]) : t \notin Range(s)
  /\ \A t : t \in b <=> t \in Range(s) \/ \E f \in Futex : t \in Range(w[f])

LEMMA ApartQueued ==
  /\ BlockedAreQueued => Apart(waiting, sleeping, blocked)
  /\ Apart(waiting', sleeping', blocked') <=> BlockedAreQueued'
<1>1. ASSUME BlockedAreQueued PROVE Apart(waiting, sleeping, blocked)
  BY <1>1 DEF BlockedAreQueued, Apart
<1>2. ASSUME Apart(waiting', sleeping', blocked') PROVE BlockedAreQueued'
  <2>1. Range(sleeping') \cap UNION {Range(waiting'[f]) : f \in Futex} = {}
    BY <1>2 DEF Apart
  <2>2. blocked' = Range(sleeping') \cup UNION {Range(waiting'[f]) : f \in Futex}
    BY <1>2 DEF Apart
  <2>3. \A f, g \in Futex : f # g => Range(waiting'[f]) \cap Range(waiting'[g]) = {}
    BY <1>2 DEF Apart
  <2>4. QED
    BY <1>2, <2>1, <2>2, <2>3 DEF BlockedAreQueued, Apart
<1>3. ASSUME BlockedAreQueued' PROVE Apart(waiting', sleeping', blocked')
  BY <1>3 DEF BlockedAreQueued, Apart
<1>4. QED
  BY <1>1, <1>2, <1>3

\* Threads leave the queues they are in and go on.
Leave(gone) ==
  /\ waiting' \in [Futex -> Seq(Program)] /\ sleeping' \in Seq(Program)
  /\ \A f \in Futex : /\ IsInjective(waiting'[f])
                      /\ Range(waiting'[f]) = Range(waiting[f]) \ gone
  /\ IsInjective(sleeping') /\ Range(sleeping') = Range(sleeping) \ gone
  /\ blocked' = blocked \ gone

LEMMA LeaveQueues ==
  ASSUME BlockedAreQueued, NEW gone, Leave(gone)
  PROVE  BlockedAreQueued'
<1>1. Range(sleeping') \cap UNION {Range(waiting'[f]) : f \in Futex} = {}
  BY DEF BlockedAreQueued, Leave
<1>2. blocked' = Range(sleeping') \cup UNION {Range(waiting'[f]) : f \in Futex}
  BY DEF BlockedAreQueued, Leave
<1>3. \A f, g \in Futex : f # g => Range(waiting'[f]) \cap Range(waiting'[g]) = {}
  BY DEF BlockedAreQueued, Leave
<1>4. QED
  BY <1>1, <1>2, <1>3 DEF BlockedAreQueued, Leave

\* Whoever still waits at a word waited there before, and was not moved since; and
\* a word that has changed is owed to its waiters.
Unmissed ==
  /\ \A g \in Futex : \A t \in Range(waiting'[g]) :
       t \notin moved' => t \in Range(waiting[g]) /\ t \notin moved /\ ask'[t] = ask[t]
  /\ \A g \in Futex : (\E t \in Range(waiting'[g]) : t \notin moved') =>
       (Owed(g) => Owed(g)') /\ (word'[g] # word[g] => Owed(g)')

LEMMA NothingMissed ==
  ASSUME NoStoreIsMissed, Unmissed
  PROVE  NoStoreIsMissed'
<1> SUFFICES ASSUME NEW g \in Futex, NEW t \in Range(waiting'[g]), t \notin moved'
             PROVE  /\ ask'[t].at = g
                    /\ ask'[t].val # word'[g] => Owed(g)'
  BY DEF NoStoreIsMissed, Owed
<1>1. t \in Range(waiting[g]) /\ t \notin moved /\ ask'[t] = ask[t]
  BY DEF Unmissed
<1>2. ask[t].at = g /\ (ask[t].val # word[g] => Owed(g))
  BY <1>1 DEF NoStoreIsMissed, Owed
<1>3. (Owed(g) => Owed(g)') /\ (word'[g] # word[g] => Owed(g)')
  BY DEF Unmissed
<1>4. QED
  BY <1>1, <1>2, <1>3

\* Whoever is resumed has an answer that is true.
LEMMA AnswersTrue ==
  ASSUME FInv, NEW gone, blocked' = blocked \ gone, gone \subseteq blocked,
         now' \in Int, now <= now',
         \A t \in Program : ask'[t] = None \/ (ask'[t] = ask[t] /\ (t = inside => t = inside')),
         \A t \in Program \ gone : wakeupMsg'[t] = wakeupMsg[t],
         \A t \in gone : wakeupMsg'[t] \/ ask[t].until <= now'
  PROVE  TimeoutsAreTrue'
<1> SUFFICES ASSUME NEW t \in Program, ask'[t] # None, ask'[t].op \in {"wait", "sleep"},
                    t \notin blocked', t # inside'
             PROVE  wakeupMsg'[t] \/ ask'[t].until <= now'
  BY DEF TimeoutsAreTrue
<1>1. ask'[t] = ask[t] /\ t # inside
  OBVIOUS
<1>2. CASE t \in gone
  BY <1>1, <1>2
<1>3. CASE t \notin gone
  <2>1. wakeupMsg[t] \/ ask[t].until <= now
    BY <1>1, <1>3 DEF FInv, TimeoutsAreTrue
  <2>2. now \in Int /\ ask[t].until \in Int
    <3>1. ask[t] \in Wait \cup Nap
      BY <1>1 DEF FInv, FutexTypeOK, WakeOp, None
    <3>2. ask[t].until \in Timeouts /\ Timeouts \subseteq Int
      BY <3>1 DEF Wait, Nap, Never
    <3>3. now \in Int
      BY DEF FInv, FutexTypeOK
    <3>4. QED
      BY <3>2, <3>3
  <2>3. QED
    BY <1>1, <1>3, <2>1, <2>2
<1>4. QED
  BY <1>2, <1>3

\* The first k waiters of a word leave its queue.
TakesFirst(w, old, f, k, gone) ==
  /\ old \in [Futex -> Seq(Program)] /\ \A g \in Futex : IsInjective(old[g])
  /\ k \in 0 .. Len(old[f])
  /\ w = [old EXCEPT ![f] = Rest(old[f], k)]
  /\ gone = Range(First(old[f], k))

FirstLeft(w, old, f, gone) ==
  /\ w \in [Futex -> Seq(Program)] /\ \A g \in Futex : IsInjective(w[g])
  /\ Range(w[f]) = Range(old[f]) \ gone /\ gone \subseteq Range(old[f])
  /\ \A g \in Futex \ {f} : w[g] = old[g]

LEMMA FirstGone ==
  ASSUME NEW w, NEW old, NEW f \in Futex, NEW k, NEW gone, TakesFirst(w, old, f, k, gone)
  PROVE  FirstLeft(w, old, f, gone)
<1>1. /\ Rest(old[f], k) \in Seq(Program) /\ IsInjective(Rest(old[f], k))
      /\ gone \subseteq Range(old[f])
      /\ Range(Rest(old[f], k)) = Range(old[f]) \ gone
  BY FirstAndRest DEF TakesFirst
<1>2. w \in [Futex -> Seq(Program)] /\ w[f] = Rest(old[f], k)
      /\ \A g \in Futex \ {f} : w[g] = old[g]
  BY <1>1 DEF TakesFirst
<1>3. \A g \in Futex : IsInjective(w[g])
  BY <1>1, <1>2 DEF TakesFirst
<1>4. QED
  BY <1>1, <1>2, <1>3 DEF FirstLeft

LEMMA WokenOK == ASSUME NEW q \in Seq(Program), NEW nr \in Nat PROVE Woken(q, nr) \in 0 .. Len(q)
  BY LenProperties DEF Woken

-----------------------------------------------------------------------------
(* What most steps leave *)

LEMMA StoredOwes ==
  ASSUME FutexTypeOK, NEW t \in Program, NEW f \in Futex, NEW v \in Value, Stored(t, f, v)
  PROVE  /\ word' \in [Futex -> Value] /\ owes' \in [Program -> SUBSET Futex]
         /\ \A g \in Futex : (Owed(g) => Owed(g)') /\ (word'[g] # word[g] => Owed(g)')
<1>1. /\ word' \in [Futex -> Value] /\ \A g \in Futex \ {f} : word'[g] = word[g]
      /\ word'[f] = v
  BY DEF FutexTypeOK, Stored
<1>2. /\ owes' \in [Program -> SUBSET Futex]
      /\ \A u \in Program : owes[u] \subseteq owes'[u]
      /\ v # word[f] => f \in owes'[t]
  BY DEF FutexTypeOK, Stored
<1>3. QED
  BY <1>1, <1>2 DEF Owed

\* What else holds after a thread was stalled.
LEMMA StallRest ==
  ASSUME FInv, NEW t \in Program, t \notin blocked, NEW call \in Wait \cup Nap,
         ask'[t] = call, \A u \in Program \ {t} : ask'[u] = ask[u],
         ask' \in [Program -> {None} \cup Wait \cup Nap \cup WakeOp],
         inside' = NoOne, inside = NoOne \/ inside = t,
         oldval' \in Value, blocked' = blocked \cup {t},
         UNCHANGED <<word, now, wakeupMsg, owes, moved>>,
         waiting' \in [Futex -> Seq(Program)], sleeping' \in Seq(Program),
         BlockedAreQueued', NoStoreIsMissed'
  PROVE  FInv'
<1>1. FutexTypeOK'
  BY DEF FInv, FutexTypeOK
<1>2. CallsOK'
  <2>1. \A u \in blocked' : u \in Program /\ u # NoOne /\ ask'[u] \in Wait \cup Nap
    BY DEF FInv, FutexTypeOK, CallsOK
  <2>2. QED
    BY <2>1 DEF CallsOK
<1>3. TimeoutsAreTrue'
  BY DEF FInv, TimeoutsAreTrue
<1>4. QED
  BY <1>1, <1>2, <1>3 DEF FInv

\* A call is over and nobody was resumed.
LEMMA GoOnStep ==
  ASSUME FInv, NEW t \in Program, t \notin blocked, ask' = [ask EXCEPT ![t] = None],
         \/ inside = t /\ inside' = NoOne
         \/ inside # t /\ inside' = inside /\ oldval' = oldval,
         oldval' \in Value,
         \/ wakeupMsg' = wakeupMsg
         \/ wakeupMsg' = [wakeupMsg EXCEPT ![t] = FALSE],
         word' = word, now' = now, owes' = owes, moved' = moved,
         waiting' = waiting, sleeping' = sleeping, blocked' = blocked
  PROVE  FInv'
<1>1. /\ ask'[t] = None /\ \A u \in Program \ {t} : ask'[u] = ask[u]
      /\ ask' \in [Program -> {None} \cup Wait \cup Nap \cup WakeOp]
  BY DEF FInv, FutexTypeOK
<1>2. /\ wakeupMsg' \in [Program -> BOOLEAN]
      /\ \A u \in Program \ {t} : wakeupMsg'[u] = wakeupMsg[u]
  BY DEF FInv, FutexTypeOK
<1>3. FutexTypeOK'
  BY <1>1, <1>2 DEF FInv, FutexTypeOK
<1>4. BlockedAreQueued'
  BY DEF FInv, BlockedAreQueued
<1>5. CallsOK'
  <2>1. \A u \in blocked' : u \in Program /\ u # inside' /\ ask'[u] \in Wait \cup Nap
    <3>1. \A u \in blocked : u \in Program /\ u # t /\ u # inside /\ u # NoOne /\ ask[u] \in Wait \cup Nap
      BY DEF FInv, FutexTypeOK, CallsOK
    <3>2. QED
      BY <1>1, <3>1
  <2>2. CASE inside' = NoOne
    BY <2>1, <2>2 DEF CallsOK
  <2>3. CASE inside' # NoOne
    <3>1. inside' = inside /\ inside # t /\ inside \in Program /\ oldval' = oldval
      BY <2>3 DEF FInv, FutexTypeOK
    <3>2. ask'[inside] = ask[inside]
      BY <1>1, <3>1
    <3>3. QED
      BY <2>1, <2>3, <3>1, <3>2 DEF FInv, CallsOK, Owed
  <2>4. QED
    BY <2>2, <2>3
<1>6. NoStoreIsMissed'
  <2>1. \A g \in Futex : \A u \in Range(waiting[g]) : u \in blocked /\ u \in Program
    BY DEF FInv, FutexTypeOK, BlockedAreQueued
  <2>2. Unmissed
    BY <1>1, <2>1 DEF Unmissed, Owed
  <2>3. QED
    BY <2>2, NothingMissed DEF FInv
<1>7. TimeoutsAreTrue'
  BY <1>1, <1>2 DEF FInv, TimeoutsAreTrue
<1>8. QED
  BY <1>3, <1>4, <1>5, <1>6, <1>7 DEF FInv

-----------------------------------------------------------------------------
(* One lemma per action: the invariant is kept *)

\* The application changes a word.
LEMMA StoreStep ==
  ASSUME FInv, NEW t \in Program, NEW f \in Futex, NEW v \in Value, Store(t, f, v)
  PROVE  FInv'
<1>1. /\ ask[t] = None /\ Stored(t, f, v)
      /\ waiting' = waiting /\ sleeping' = sleeping /\ now' = now /\ blocked' = blocked
      /\ wakeupMsg' = wakeupMsg /\ ask' = ask /\ inside' = inside /\ oldval' = oldval
      /\ moved' = moved
  BY DEF Store
<1>2. /\ word' \in [Futex -> Value] /\ owes' \in [Program -> SUBSET Futex]
      /\ \A g \in Futex : (Owed(g) => Owed(g)') /\ (word'[g] # word[g] => Owed(g)')
  BY <1>1, StoredOwes DEF FInv, FutexTypeOK
<1>3. FutexTypeOK'
  BY <1>1, <1>2 DEF FInv, FutexTypeOK
<1>4. BlockedAreQueued'
  BY <1>1 DEF FInv, BlockedAreQueued
<1>5. CallsOK'
  <2>1. inside # NoOne => ask[inside] \in Wait \cup WakeOp
    BY DEF FInv, CallsOK
  <2>2. ASSUME inside # NoOne, ask[inside] \in Wait, oldval # word'[ask[inside].at]
        PROVE  Owed(ask[inside].at)'
    <3>1. PICK g \in Futex : g = ask[inside].at
      BY <2>2 DEF Wait
    <3>2. oldval # word[g] => Owed(g)
      BY <2>2, <3>1 DEF FInv, CallsOK
    <3>3. Owed(g)'
      BY <1>2, <2>2, <3>1, <3>2
    <3>4. QED
      BY <1>1, <3>1, <3>3
  <2>3. \A u \in blocked : u # inside /\ ask[u] \in Wait \cup Nap
    BY DEF FInv, CallsOK
  <2>4. (inside # NoOne /\ ask[inside] \in Wait /\ oldval # word'[ask[inside].at]) =>
          Owed(ask[inside].at)'
    BY <2>2
  <2>5. QED
    BY <1>1, <2>1, <2>3, <2>4 DEF CallsOK
<1>6. NoStoreIsMissed'
  BY <1>1, <1>2, NothingMissed DEF FInv, Unmissed
<1>7. TimeoutsAreTrue'
  BY <1>1 DEF FInv, TimeoutsAreTrue
<1>8. QED
  BY <1>3, <1>4, <1>5, <1>6, <1>7 DEF FInv

\* A call reads the word.
LEMMA ReadStep ==
  ASSUME FInv, NEW t \in Program, NEW call \in Wait \cup WakeOp, NEW f \in Futex,
         call \in Wait => f = call.at, FutexRead(t, call, f)
  PROVE  FInv'
<1>1. /\ ask[t] = None /\ inside = NoOne
      /\ ask' = [ask EXCEPT ![t] = call] /\ inside' = t /\ oldval' = word[f]
      /\ word' = word /\ waiting' = waiting /\ sleeping' = sleeping /\ now' = now
      /\ blocked' = blocked /\ wakeupMsg' = wakeupMsg /\ owes' = owes /\ moved' = moved
  BY DEF FutexRead, Free
<1>2. t \notin blocked
  BY <1>1 DEF FInv, CallsOK, Wait, Nap, None
<1>3. /\ ask \in [Program -> {None} \cup Wait \cup Nap \cup WakeOp]
      /\ ask'[t] = call /\ \A u \in Program \ {t} : ask'[u] = ask[u]
      /\ ask' \in [Program -> {None} \cup Wait \cup Nap \cup WakeOp]
  BY <1>1 DEF FInv, FutexTypeOK
<1>4. FutexTypeOK'
  BY <1>1, <1>3 DEF FInv, FutexTypeOK
<1>5. BlockedAreQueued'
  BY <1>1 DEF FInv, BlockedAreQueued
<1>6. CallsOK'
  <2>1. \A u \in blocked : u \in Program /\ u # t /\ ask'[u] \in Wait \cup Nap
    BY <1>2, <1>3 DEF FInv, FutexTypeOK, CallsOK
  <2>2. QED
    BY <1>1, <1>3, <2>1 DEF CallsOK
<1>7. NoStoreIsMissed'
  <2>1. \A g \in Futex : \A u \in Range(waiting[g]) : u \in blocked /\ u \in Program
    BY DEF FInv, FutexTypeOK, BlockedAreQueued
  <2>2. Unmissed
    BY <1>1, <1>2, <1>3, <2>1 DEF Unmissed, Owed
  <2>3. QED
    BY <2>2, NothingMissed DEF FInv
<1>8. TimeoutsAreTrue'
  BY <1>1, <1>3 DEF FInv, TimeoutsAreTrue
<1>9. QED
  BY <1>4, <1>5, <1>6, <1>7, <1>8 DEF FInv

\* Nobody else asks for something else, and nobody is resumed.
LEMMA StallStep ==
  ASSUME FInv, NEW t \in Program, t \notin blocked, NEW call \in Wait \cup Nap,
         ask' = [ask EXCEPT ![t] = call], inside' = NoOne, inside = NoOne \/ inside = t,
         oldval' \in Value, blocked' = blocked \cup {t},
         UNCHANGED <<word, now, wakeupMsg, owes, moved>>,
         \/ /\ sleeping' = Append(sleeping, t) /\ waiting' = waiting
         \/ /\ call \in Wait /\ (call.val # word[call.at] => Owed(call.at))
            /\ waiting' = [waiting EXCEPT ![call.at] = Append(@, t)] /\ sleeping' = sleeping
  PROVE  FInv'
<1>1. /\ ask'[t] = call /\ \A u \in Program \ {t} : ask'[u] = ask[u]
      /\ ask' \in [Program -> {None} \cup Wait \cup Nap \cup WakeOp]
  BY DEF FInv, FutexTypeOK
<1>2. /\ waiting \in [Futex -> Seq(Program)] /\ sleeping \in Seq(Program)
      /\ blocked \subseteq Program /\ moved \subseteq blocked
  BY DEF FInv, FutexTypeOK
<1>3. /\ t \notin Range(sleeping) /\ \A g \in Futex : t \notin Range(waiting[g])
      /\ IsInjective(sleeping) /\ \A g \in Futex : IsInjective(waiting[g])
  BY DEF FInv, BlockedAreQueued
<1>4. CASE sleeping' = Append(sleeping, t) /\ waiting' = waiting
  <2>1. /\ sleeping' \in Seq(Program) /\ IsInjective(sleeping')
        /\ Range(sleeping') = Range(sleeping) \cup {t}
    BY <1>2, <1>3, <1>4, Appended
  <2>2. BlockedAreQueued'
    <3>1. Apart(waiting, sleeping, blocked)
      BY ApartQueued DEF FInv
    <3>2. Apart(waiting', sleeping', blocked')
      BY <1>3, <1>4, <2>1, <3>1 DEF Apart
    <3>3. QED
      BY <3>2, ApartQueued
  <2>3. \A g \in Futex : \A u \in Range(waiting'[g]) : u \in Range(waiting[g])
    BY <1>4
  <2>4. waiting' \in [Futex -> Seq(Program)]
    BY <1>2, <1>4
  <2>5. NoStoreIsMissed'
    <3>1. \A g \in Futex : \A u \in Range(waiting[g]) : u # t /\ u \in Program
      BY <1>2, <1>3, RangeOK
    <3>2. Unmissed
      BY <1>1, <1>4, <3>1 DEF Unmissed, Owed
    <3>3. QED
      BY <3>2, NothingMissed DEF FInv
  <2>6. QED
    BY <1>1, <2>1, <2>2, <2>4, <2>5, StallRest
<1>5. CASE /\ call \in Wait /\ (call.val # word[call.at] => Owed(call.at))
           /\ waiting' = [waiting EXCEPT ![call.at] = Append(@, t)] /\ sleeping' = sleeping
  <2>1. PICK f \in Futex : f = call.at
    BY <1>5 DEF Wait
  <2>2. /\ Append(waiting[f], t) \in Seq(Program) /\ IsInjective(Append(waiting[f], t))
        /\ Range(Append(waiting[f], t)) = Range(waiting[f]) \cup {t}
    BY <1>2, <1>3, Appended
  <2>3. /\ waiting' \in [Futex -> Seq(Program)] /\ waiting'[f] = Append(waiting[f], t)
        /\ \A g \in Futex \ {f} : waiting'[g] = waiting[g]
    BY <1>2, <1>5, <2>1, <2>2
  <2>4. BlockedAreQueued'
    <3>1. \A g \in Futex : IsInjective(waiting'[g])
      BY <1>3, <2>2, <2>3
    <3>2. ASSUME NEW g \in Futex, NEW u
          PROVE  u \in Range(waiting'[g]) <=> u \in Range(waiting[g]) \/ (g = f /\ u = t)
      <4>1. CASE g = f
        <5>1. Range(waiting'[g]) = Range(waiting[g]) \cup {t}
          BY <2>2, <2>3, <4>1
        <5>2. QED
          BY <4>1, <5>1
      <4>2. CASE g # f
        BY <2>3, <4>2
      <4>3. QED
        BY <4>1, <4>2
    <3>3. Apart(waiting, sleeping, blocked)
      BY ApartQueued DEF FInv
    <3>4. ASSUME NEW g \in Futex, NEW u \in Range(waiting'[g])
          PROVE  /\ u \notin Range(sleeping')
                 /\ \A h \in Futex \ {g} : u \notin Range(waiting'[h])
      <4>1. u \in Range(waiting[g]) \/ (g = f /\ u = t)
        BY <3>2
      <4>2. \A h \in Futex : u \in Range(waiting'[h]) <=> u \in Range(waiting[h]) \/ (h = f /\ u = t)
        BY <3>2
      <4>3. CASE u = t
        BY <1>3, <1>5, <4>1, <4>2, <4>3
      <4>4. CASE u # t
        BY <1>5, <3>3, <4>1, <4>2, <4>4 DEF Apart
      <4>5. QED
        BY <4>3, <4>4
    <3>5. ASSUME NEW u
          PROVE  u \in blocked' <=> u \in Range(sleeping') \/ \E g \in Futex : u \in Range(waiting'[g])
      BY <1>5, <3>2, <3>3 DEF Apart
    <3>6. Apart(waiting', sleeping', blocked')
      BY <1>3, <1>5, <3>1, <3>4, <3>5 DEF Apart
    <3>7. QED
      BY <3>6, ApartQueued
  <2>5. NoStoreIsMissed'
    <3> SUFFICES ASSUME NEW g \in Futex, NEW u \in Range(waiting'[g]), u \notin moved
                 PROVE  ask'[u].at = g /\ (ask'[u].val # word[g] => Owed(g))
      BY DEF NoStoreIsMissed, Owed
    <3>1. CASE u = t
      <4>1. g = f
        BY <1>3, <2>3, <3>1
      <4>2. QED
        BY <1>1, <1>5, <2>1, <3>1, <4>1
    <3>2. CASE u # t
      <4>1. u \in Range(waiting[g]) /\ u \in Program
        BY <1>2, <2>2, <2>3, <3>2, RangeOK
      <4>2. QED
        BY <1>1, <3>2, <4>1 DEF FInv, NoStoreIsMissed, Owed
    <3>3. QED
      BY <3>1, <3>2
  <2>6. QED
    BY <1>1, <1>2, <1>5, <2>3, <2>4, <2>5, StallRest
<1>6. QED
  BY <1>4, <1>5

\* FUTEX_WAIT compares what it read, and stalls.
LEMMA WaitStep == ASSUME FInv, NEW t \in Program, FutexWait(t) PROVE FInv'
<1>1. /\ inside = t /\ ask[t].op = "wait" /\ inside' = NoOne /\ oldval' = Reset
      /\ word' = word /\ sleeping' = sleeping /\ now' = now /\ wakeupMsg' = wakeupMsg
      /\ owes' = owes /\ moved' = moved
  BY DEF FutexWait
<1>2. ask[t] \in Wait /\ t \notin blocked /\ t # NoOne
      /\ (oldval # word[ask[t].at] => Owed(ask[t].at))
  BY <1>1 DEF FInv, CallsOK, WakeOp
<1>3. CASE oldval # ask[t].val
  <2>1. ask' = [ask EXCEPT ![t] = None] /\ waiting' = waiting /\ blocked' = blocked
    BY <1>3 DEF FutexWait
  <2>2. QED
    BY <1>1, <1>2, <2>1, GoOnStep
<1>4. CASE oldval = ask[t].val
  <2>1. /\ waiting' = [waiting EXCEPT ![ask[t].at] = Append(@, t)]
        /\ blocked' = blocked \cup {t} /\ ask' = ask
    BY <1>4 DEF FutexWait
  <2>2. ask' = [ask EXCEPT ![t] = ask[t]]
    BY <2>1 DEF FInv, FutexTypeOK
  <2>3. QED
    BY <1>1, <1>2, <1>4, <2>1, <2>2, StallStep
<1>5. QED
  BY <1>3, <1>4

\* A thread goes to sleep.
LEMMA SleepStep ==
  ASSUME FInv, NEW t \in Program, NEW until \in Timeouts, SleepCall(t, until) PROVE FInv'
<1>1. PICK call : call = [op |-> "sleep", until |-> until]
  OBVIOUS
<1>2. call \in Nap /\ ask[t] = None /\ inside = NoOne
  BY <1>1 DEF SleepCall, Free, Nap
<1>3. t \notin blocked
  BY <1>2 DEF FInv, CallsOK, Wait, Nap, None
<1>4. oldval \in Value
  BY DEF FInv, FutexTypeOK
<1>5. /\ ask' = [ask EXCEPT ![t] = call] /\ inside' = inside /\ oldval' = oldval
      /\ sleeping' = Append(sleeping, t) /\ blocked' = blocked \cup {t} /\ waiting' = waiting
      /\ UNCHANGED <<word, now, wakeupMsg, owes, moved>>
  BY <1>1 DEF SleepCall
<1>6. QED
  BY <1>2, <1>3, <1>4, <1>5, StallStep

\* A resumed thread returns.
LEMMA ReturnStep == ASSUME FInv, NEW t \in Program, FutexReturn(t) PROVE FInv'
<1>1. /\ t \notin blocked /\ inside # t /\ ask' = [ask EXCEPT ![t] = None]
      /\ wakeupMsg' = [wakeupMsg EXCEPT ![t] = FALSE]
      /\ word' = word /\ waiting' = waiting /\ sleeping' = sleeping /\ now' = now
      /\ blocked' = blocked /\ inside' = inside /\ oldval' = oldval /\ owes' = owes /\ moved' = moved
  BY DEF FutexReturn
<1>2. oldval' \in Value
  BY <1>1 DEF FInv, FutexTypeOK
<1>3. QED
  BY <1>1, <1>2, GoOnStep

\* Calls that wake, and the timeouts: threads leave their queues with an answer.
LEMMA LeaveStep ==
  ASSUME FInv, NEW gone, gone \subseteq blocked, Leave(gone), NEW msg \in BOOLEAN,
         Resume(gone, msg), moved' = moved \cap blocked',
         word' \in [Futex -> Value], owes' \in [Program -> SUBSET Futex], oldval' \in Value,
         now' \in 0 .. MaxTime, now <= now',
         \/ inside' = inside /\ inside = NoOne /\ ask' = ask
         \/ /\ inside' = NoOne /\ inside # NoOne
            /\ ask' = [ask EXCEPT ![inside] = None],
         \A g \in Futex : waiting'[g] # <<>> =>
           (Owed(g) => Owed(g)') /\ (word'[g] # word[g] => Owed(g)'),
         msg \/ \A t \in gone : ask[t].until <= now'
  PROVE  FInv'
<1>1. /\ blocked' = blocked \ gone /\ blocked \subseteq Program
      /\ wakeupMsg' = [t \in Program |-> IF t \in gone THEN msg ELSE wakeupMsg[t]]
      /\ \A t \in Program : wakeupMsg[t] \in BOOLEAN
      /\ ask \in [Program -> {None} \cup Wait \cup Nap \cup WakeOp]
      /\ inside \in Program \cup {NoOne}
  BY DEF Resume, FInv, FutexTypeOK
<1>2. /\ inside' = NoOne /\ ask' \in [Program -> {None} \cup Wait \cup Nap \cup WakeOp]
      /\ \A t \in Program : ask'[t] = None \/ (ask'[t] = ask[t] /\ t # inside)
      /\ \A t \in blocked : ask'[t] = ask[t]
  <2>1. inside \notin blocked
    BY DEF FInv, CallsOK
  <2>2. CASE inside' = inside /\ inside = NoOne /\ ask' = ask
    BY <1>1, <2>2
  <2>3. CASE inside' = NoOne /\ inside # NoOne /\ ask' = [ask EXCEPT ![inside] = None]
    BY <1>1, <2>1, <2>3
  <2>4. QED
    BY <2>2, <2>3
<1>3. wakeupMsg' \in [Program -> BOOLEAN]
  BY <1>1
<1>4. FutexTypeOK'
  BY <1>1, <1>2, <1>3 DEF FutexTypeOK, Leave
<1>5. BlockedAreQueued'
  BY LeaveQueues DEF FInv
<1>6. CallsOK'
  BY <1>1, <1>2 DEF FInv, CallsOK
<1>7. NoStoreIsMissed'
  <2>1. \A g \in Futex : \A t \in Range(waiting'[g]) :
          t \in blocked' /\ t \in Range(waiting[g]) /\ waiting'[g] # <<>>
    <3> SUFFICES ASSUME NEW g \in Futex, NEW t \in Range(waiting'[g])
                 PROVE  t \in blocked' /\ t \in Range(waiting[g]) /\ waiting'[g] # <<>>
      OBVIOUS
    <3>1. t \in Range(waiting[g]) /\ t \notin gone
      BY DEF Leave
    <3>2. Apart(waiting, sleeping, blocked)
      BY ApartQueued DEF FInv
    <3>3. t \in blocked
      BY <3>1, <3>2 DEF Apart
    <3>4. waiting'[g] # <<>>
      BY DEF Range
    <3>5. QED
      BY <1>1, <3>1, <3>3, <3>4
  <2>2. Unmissed
    BY <1>1, <1>2, <2>1 DEF Unmissed
  <2>3. QED
    BY <2>2, NothingMissed DEF FInv
<1>8. TimeoutsAreTrue'
  <2>1. /\ \A t \in gone : wakeupMsg'[t] \/ ask[t].until <= now'
        /\ \A t \in Program \ gone : wakeupMsg'[t] = wakeupMsg[t]
    BY <1>1
  <2>2. now' \in Int
    OBVIOUS
  <2>3. QED
    BY <1>1, <1>2, <2>1, <2>2, AnswersTrue
<1>9. QED
  BY <1>4, <1>5, <1>6, <1>7, <1>8 DEF FInv

\* FUTEX_WAKE.
LEMMA WakeStep ==
  ASSUME FInv, NEW t \in Program, NEW f \in Futex, NEW nr \in Nat, FutexWake(t, f, nr)
  PROVE  FInv'
<1>1. PICK k, gone : k = Woken(waiting[f], nr) /\ gone = Range(First(waiting[f], k))
  OBVIOUS
<1>2. /\ inside = NoOne
      /\ waiting' = [waiting EXCEPT ![f] = Rest(waiting[f], k)] /\ Resume(gone, TRUE)
      /\ owes' = [owes EXCEPT ![t] = IF nr >= Len(waiting[f]) THEN @ \ {f} ELSE @]
      /\ moved' = moved \cap blocked'
      /\ word' = word /\ sleeping' = sleeping /\ now' = now /\ ask' = ask
      /\ inside' = inside /\ oldval' = oldval
  BY <1>1 DEF FutexWake, Free
<1>3. /\ gone \subseteq blocked /\ Range(sleeping) \cap gone = {}
      /\ waiting' \in [Futex -> Seq(Program)]
      /\ \A g \in Futex : IsInjective(waiting'[g]) /\ Range(waiting'[g]) = Range(waiting[g]) \ gone
  <2>1. waiting \in [Futex -> Seq(Program)] /\ k \in 0 .. Len(waiting[f])
    BY <1>1, WokenOK DEF FInv, FutexTypeOK
  <2>2. Apart(waiting, sleeping, blocked)
    BY ApartQueued DEF FInv
  <2>3. TakesFirst(waiting', waiting, f, k, gone)
    BY <1>1, <1>2, <2>1, <2>2 DEF TakesFirst, Apart
  <2>4. /\ waiting' \in [Futex -> Seq(Program)] /\ \A g \in Futex : IsInjective(waiting'[g])
        /\ Range(waiting'[f]) = Range(waiting[f]) \ gone /\ gone \subseteq Range(waiting[f])
        /\ \A g \in Futex \ {f} : waiting'[g] = waiting[g]
    <3>1. FirstLeft(waiting', waiting, f, gone)
      BY <2>3, FirstGone
    <3>2. QED
      BY <3>1 DEF FirstLeft
  <2>5. /\ gone \subseteq blocked /\ Range(sleeping) \cap gone = {}
        /\ \A g \in Futex \ {f} : Range(waiting[g]) \cap gone = {}
    BY <2>2, <2>4 DEF Apart
  <2>6. ASSUME NEW g \in Futex PROVE Range(waiting'[g]) = Range(waiting[g]) \ gone
    <3>1. CASE g = f
      BY <2>4, <3>1
    <3>2. CASE g # f
      BY <2>4, <2>5, <3>2
    <3>3. QED
      BY <3>1, <3>2
  <2>7. QED
    BY <2>4, <2>5, <2>6
<1>4. sleeping \in Seq(Program) /\ IsInjective(sleeping)
  BY DEF FInv, FutexTypeOK, BlockedAreQueued
<1>5. Leave(gone)
  BY <1>2, <1>3, <1>4 DEF Leave, Resume
<1>6. /\ owes \in [Program -> SUBSET Futex] /\ word \in [Futex -> Value] /\ oldval \in Value
      /\ now \in 0 .. MaxTime /\ waiting \in [Futex -> Seq(Program)]
  BY DEF FInv, FutexTypeOK
<1>7. /\ owes' \in [Program -> SUBSET Futex]
      /\ \A u \in Program, g \in Futex : g # f => (g \in owes'[u] <=> g \in owes[u])
  BY <1>2, <1>6
<1>8. \A g \in Futex \ {f} : Owed(g) => Owed(g)'
  BY <1>7 DEF Owed
<1>9. waiting'[f] # <<>> /\ Owed(f) => Owed(f)'
  <2>1. Len(waiting[f]) \in Nat
    BY <1>6, LenProperties
  <2>2. CASE nr >= Len(waiting[f])
    <3>1. k = Len(waiting[f])
      BY <1>1, <2>1, <2>2 DEF Woken
    <3>2. waiting'[f] = <<>>
      BY <1>2, <1>6, <2>1, <3>1 DEF Rest
    <3>3. QED
      BY <3>2
  <2>3. CASE ~(nr >= Len(waiting[f]))
    <3>1. owes' = owes
      BY <1>2, <1>6, <2>3
    <3>2. QED
      BY <3>1 DEF Owed
  <2>4. QED
    BY <2>2, <2>3
<1>10. /\ now' \in 0 .. MaxTime /\ now <= now'
       /\ word' \in [Futex -> Value] /\ oldval' \in Value
  BY <1>2, <1>6
<1>11. \A g \in Futex : waiting'[g] # <<>> =>
         (Owed(g) => Owed(g)') /\ (word'[g] # word[g] => Owed(g)')
  BY <1>2, <1>8, <1>9
<1>12. inside' = inside /\ inside = NoOne /\ ask' = ask
  BY <1>2
<1>13. Resume(gone, TRUE) /\ gone \subseteq blocked /\ moved' = moved \cap blocked'
  BY <1>2, <1>3
<1>14. QED
  BY <1>5, <1>7, <1>10, <1>11, <1>12, <1>13, LeaveStep, Zenon

\* FUTEX_WAKE_OP, which stores and wakes at two words.
LEMMA WakeOpStep == ASSUME FInv, NEW t \in Program, FutexWakeOp(t) PROVE FInv'
<1>1. inside = t /\ ask[t].op = "wakeop" /\ t # NoOne
  BY DEF FutexWakeOp
<1>2. PICK a \in WakeOp : a = ask[t]
  BY <1>1 DEF FInv, CallsOK, Wait
<1>3. PICK f \in Futex, g \in Futex, v \in Value :
        f = a.at /\ g = a.at2 /\ v = a.arg /\ f # g /\ a.nr \in Nat /\ a.nr2 \in Nat
  BY <1>2 DEF WakeOp
<1> PICK k : k = Woken(waiting[f], a.nr)
  OBVIOUS
<1> PICK left : left = [waiting EXCEPT ![f] = Rest(waiting[f], k)]
  OBVIOUS
<1> PICK k2 : k2 = WokenToo(left[g], a)
  OBVIOUS
<1> PICK one, two : one = Range(First(waiting[f], k)) /\ two = Range(First(left[g], k2))
  OBVIOUS
<1>4. /\ Stored(t, g, v)
      /\ waiting' = [left EXCEPT ![g] = Rest(left[g], k2)]
      /\ Resume(one \cup two, TRUE)
  BY <1>2, <1>3, Zenon DEF FutexWakeOp
<1>5. /\ Stored(t, g, v)
      /\ waiting' = [left EXCEPT ![g] = Rest(left[g], k2)]
      /\ Resume(one \cup two, TRUE)
      /\ inside' = NoOne /\ ask' = [ask EXCEPT ![inside] = None] /\ oldval' = Reset
      /\ moved' = moved \cap blocked' /\ sleeping' = sleeping /\ now' = now
  BY <1>1, <1>4 DEF FutexWakeOp
<1>6. /\ waiting \in [Futex -> Seq(Program)] /\ Apart(waiting, sleeping, blocked)
      /\ k \in 0 .. Len(waiting[f])
  BY <1>3, WokenOK, ApartQueued DEF FInv, FutexTypeOK
<1>7. TakesFirst(left, waiting, f, k, one)
  BY <1>6 DEF TakesFirst, Apart
<1>8. /\ left \in [Futex -> Seq(Program)] /\ \A h \in Futex : IsInjective(left[h])
      /\ Range(left[f]) = Range(waiting[f]) \ one /\ one \subseteq Range(waiting[f])
      /\ \A h \in Futex \ {f} : left[h] = waiting[h]
  <2>1. FirstLeft(left, waiting, f, one)
    BY <1>7, FirstGone
  <2>2. QED
    BY <2>1 DEF FirstLeft
<1>9. TakesFirst(waiting', left, g, k2, two)
  <2>1. Woken(left[g], a.nr2) \in 0 .. Len(left[g]) /\ Len(left[g]) \in Nat
    BY <1>3, <1>8, WokenOK, LenProperties
  <2>2. k2 \in 0 .. Len(left[g])
    BY <2>1 DEF WokenToo
  <2>3. QED
    BY <1>5, <1>8, <2>2 DEF TakesFirst
<1>10. /\ waiting' \in [Futex -> Seq(Program)] /\ \A h \in Futex : IsInjective(waiting'[h])
       /\ Range(waiting'[g]) = Range(left[g]) \ two /\ two \subseteq Range(left[g])
       /\ \A h \in Futex \ {g} : waiting'[h] = left[h]
  <2>1. FirstLeft(waiting', left, g, two)
    BY <1>9, FirstGone
  <2>2. QED
    BY <2>1 DEF FirstLeft
<1>11. /\ one \subseteq blocked /\ one \cap Range(sleeping) = {}
       /\ \A h \in Futex \ {f} : Range(waiting[h]) \cap one = {}
  BY <1>6, <1>8 DEF Apart
<1>12. /\ two \subseteq blocked /\ two \cap Range(sleeping) = {}
       /\ \A h \in Futex \ {g} : Range(waiting[h]) \cap two = {}
  <2>1. two \subseteq Range(waiting[g])
    BY <1>3, <1>8, <1>10
  <2>2. QED
    BY <1>6, <2>1 DEF Apart
<1>13. ASSUME NEW h \in Futex PROVE Range(waiting'[h]) = Range(waiting[h]) \ (one \cup two)
  <2>1. CASE h = f
    BY <1>3, <1>8, <1>10, <1>12, <2>1
  <2>2. CASE h = g
    BY <1>3, <1>8, <1>10, <1>11, <2>2
  <2>3. CASE h # f /\ h # g
    BY <1>8, <1>10, <1>11, <1>12, <2>3
  <2>4. QED
    BY <2>1, <2>2, <2>3
<1>14. Leave(one \cup two)
  <2>1. /\ Range(sleeping) = Range(sleeping) \ (one \cup two)
        /\ sleeping \in Seq(Program) /\ IsInjective(sleeping)
    BY <1>6, <1>11, <1>12 DEF Apart, FInv, FutexTypeOK
  <2>2. blocked' = blocked \ (one \cup two)
    BY <1>5 DEF Resume
  <2>3. QED
    BY <1>5, <1>10, <1>13, <2>1, <2>2 DEF Leave
<1>15. /\ word' \in [Futex -> Value] /\ owes' \in [Program -> SUBSET Futex]
       /\ \A h \in Futex : (Owed(h) => Owed(h)') /\ (word'[h] # word[h] => Owed(h)')
  BY <1>5, StoredOwes DEF FInv
<1>16. now \in 0 .. MaxTime /\ now <= now
  BY DEF FInv, FutexTypeOK
<1>17. one \cup two \subseteq blocked
  BY <1>11, <1>12
<1>18. QED
  BY <1>1, <1>5, <1>14, <1>15, <1>16, <1>17, LeaveStep

\* FUTEX_CMP_REQUEUE.
LEMMA RequeueStep ==
  ASSUME FInv, NEW t \in Program, NEW f \in Futex, NEW nr \in Nat, NEW g \in Futex,
         FutexCmpRequeue(t, f, nr, g)
  PROVE  FInv'
<1>1. PICK k : k = Woken(waiting[f], nr)
  OBVIOUS
<1>2. PICK gone, rest : gone = Range(First(waiting[f], k)) /\ rest = Rest(waiting[f], k)
  OBVIOUS
<1>3. /\ inside = NoOne /\ f # g
      /\ waiting' = [waiting EXCEPT ![f] = <<>>, ![g] = waiting[g] \o rest]
      /\ Resume(gone, TRUE)
      /\ moved' = blocked' \cap (moved \cup Range(rest))
      /\ owes' = [owes EXCEPT ![t] = owes[t] \ {f}]
      /\ word' = word /\ sleeping' = sleeping /\ now' = now /\ ask' = ask
      /\ inside' = inside /\ oldval' = oldval
  BY <1>1, <1>2 DEF FutexCmpRequeue, Free
<1>4. /\ waiting \in [Futex -> Seq(Program)] /\ k \in 0 .. Len(waiting[f])
      /\ owes \in [Program -> SUBSET Futex] /\ blocked \subseteq Program
      /\ wakeupMsg \in [Program -> BOOLEAN] /\ now \in Int
  <2>1. /\ waiting \in [Futex -> Seq(Program)] /\ now \in 0 .. MaxTime
        /\ owes \in [Program -> SUBSET Futex] /\ blocked \subseteq Program
        /\ wakeupMsg \in [Program -> BOOLEAN]
    BY DEF FInv, FutexTypeOK
  <2>2. k \in 0 .. Len(waiting[f])
    BY <1>1, <2>1, WokenOK
  <2>3. QED
    BY <2>1, <2>2
<1>5. Apart(waiting, sleeping, blocked)
  BY ApartQueued DEF FInv
<1>6. /\ rest \in Seq(Program) /\ IsInjective(rest) /\ gone \subseteq Range(waiting[f])
      /\ Range(rest) = Range(waiting[f]) \ gone
  BY <1>2, <1>4, <1>5, FirstAndRest DEF Apart
<1>7. /\ waiting[g] \o rest \in Seq(Program) /\ IsInjective(waiting[g] \o rest)
      /\ Range(waiting[g] \o rest) = Range(waiting[g]) \cup Range(rest)
  <2>1. Range(waiting[g]) \cap Range(rest) = {}
    BY <1>3, <1>5, <1>6 DEF Apart
  <2>2. QED
    BY <1>4, <1>5, <1>6, <2>1, Joined DEF Apart
<1>8. /\ waiting' \in [Futex -> Seq(Program)]
      /\ waiting'[f] = <<>> /\ waiting'[g] = waiting[g] \o rest
      /\ \A h \in Futex \ {f, g} : waiting'[h] = waiting[h]
  <2>1. <<>> \in Seq(Program)
    OBVIOUS
  <2> PICK joined \in Seq(Program) : joined = waiting[g] \o rest
    BY <1>7
  <2>2. waiting' = [waiting EXCEPT ![f] = <<>>, ![g] = joined] /\ f # g
    BY <1>3
  <2>3. QED
    BY <1>4, <2>1, <2>2
<1>9. /\ blocked' = blocked \ gone
      /\ wakeupMsg' = [u \in Program |-> IF u \in gone THEN TRUE ELSE wakeupMsg[u]]
  BY <1>3 DEF Resume
<1>10. gone \subseteq blocked /\ Range(sleeping) \cap gone = {}
       /\ \A h \in Futex \ {f} : Range(waiting[h]) \cap gone = {}
  BY <1>5, <1>6 DEF Apart
<1>11. /\ Range(waiting'[f]) = {} /\ IsInjective(waiting'[f])
  BY <1>8 DEF Range, IsInjective
<1>12. ASSUME NEW h \in Futex, NEW u
       PROVE  u \in Range(waiting'[h]) <=>
                h # f /\ (u \in Range(waiting[h]) \/ (h = g /\ u \in Range(rest)))
  <2>1. CASE h = f
    BY <1>11, <2>1
  <2>2. CASE h = g
    <3>1. Range(waiting'[h]) = Range(waiting[g]) \cup Range(rest)
      BY <1>7, <1>8, <2>2
    <3>2. QED
      BY <1>3, <2>2, <3>1
  <2>3. CASE h # f /\ h # g
    BY <1>8, <2>3
  <2>4. QED
    BY <2>1, <2>2, <2>3
<1>13. BlockedAreQueued'
  <2>1. ASSUME NEW h \in Futex PROVE IsInjective(waiting'[h])
    <3>1. CASE h = f
      BY <1>11, <3>1
    <3>2. CASE h = g
      BY <1>7, <1>8, <3>2
    <3>3. CASE h # f /\ h # g
      BY <1>5, <1>8, <3>3 DEF Apart
    <3>4. QED
      BY <3>1, <3>2, <3>3
  <2>2. ASSUME NEW h \in Futex, NEW u \in Range(waiting'[h])
        PROVE  u \notin Range(sleeping) /\ \A i \in Futex \ {h} : u \notin Range(waiting'[i])
    <3>1. h # f /\ (u \in Range(waiting[h]) \/ (h = g /\ u \in Range(waiting[f]) \ gone))
      BY <1>6, <1>12
    <3>2. ASSUME NEW i \in Futex \ {h}, u \in Range(waiting'[i]) PROVE FALSE
      <4>1. i # f /\ (u \in Range(waiting[i]) \/ (i = g /\ u \in Range(waiting[f]) \ gone))
        BY <1>6, <1>12, <3>2
      <4>2. QED
        BY <1>5, <3>1, <4>1 DEF Apart
    <3>3. u \notin Range(sleeping)
      BY <1>5, <3>1 DEF Apart
    <3>4. QED
      BY <3>2, <3>3
  <2>3. ASSUME NEW u
        PROVE  u \in blocked' <=> u \in Range(sleeping) \/ \E h \in Futex : u \in Range(waiting'[h])
    <3>1. ASSUME u \in blocked'
          PROVE  u \in Range(sleeping) \/ \E h \in Futex : u \in Range(waiting'[h])
      <4>1. u \notin gone /\ (u \in Range(sleeping) \/ \E h \in Futex : u \in Range(waiting[h]))
        BY <1>5, <1>9, <3>1 DEF Apart
      <4>2. CASE u \in Range(waiting[f])
        <5>1. u \in Range(rest)
          BY <1>6, <4>1, <4>2
        <5>2. u \in Range(waiting'[g])
          BY <1>3, <1>12, <5>1
        <5>3. QED
          BY <5>2
      <4>3. CASE u \notin Range(waiting[f])
        BY <1>12, <4>1, <4>3
      <4>4. QED
        BY <4>2, <4>3
    <3>2. ASSUME u \in Range(sleeping) PROVE u \in blocked'
      BY <1>5, <1>9, <1>10, <3>2 DEF Apart
    <3>3. ASSUME NEW h \in Futex, u \in Range(waiting'[h]) PROVE u \in blocked'
      <4>1. h # f /\ (u \in Range(waiting[h]) \/ u \in Range(waiting[f]) \ gone)
        BY <1>6, <1>12, <3>3
      <4>2. u \notin gone
        BY <1>10, <4>1
      <4>3. u \in blocked
        BY <1>5, <4>1 DEF Apart
      <4>4. QED
        BY <1>9, <4>2, <4>3
    <3>4. QED
      BY <3>1, <3>2, <3>3
  <2>4. IsInjective(sleeping)
    BY <1>5 DEF Apart
  <2>5. Apart(waiting', sleeping', blocked')
    BY <1>3, <2>1, <2>2, <2>3, <2>4 DEF Apart
  <2>6. QED
    BY <2>5, ApartQueued
<1>14. wakeupMsg' \in [Program -> BOOLEAN] /\ owes' \in [Program -> SUBSET Futex]
  BY <1>3, <1>4, <1>9
<1>15. FutexTypeOK'
  BY <1>3, <1>8, <1>9, <1>14 DEF FInv, FutexTypeOK
<1>16. CallsOK'
  BY <1>3, <1>9 DEF FInv, CallsOK
<1>17. NoStoreIsMissed'
  <2>1. \A h \in Futex \ {f} : Owed(h) => Owed(h)'
    BY <1>3, <1>4 DEF Owed
  <2>2. ASSUME NEW h \in Futex, NEW u \in Range(waiting'[h]), u \notin moved'
        PROVE  h # f /\ u \in Range(waiting[h]) /\ u \notin moved
    <3>1. h # f /\ (u \in Range(waiting[h]) \/ u \in Range(rest))
      BY <1>12
    <3>2. u \in blocked'
      BY <1>13, ApartQueued, <2>2 DEF Apart
    <3>3. u \notin moved /\ u \notin Range(rest)
      BY <1>3, <2>2, <3>2
    <3>4. QED
      BY <3>1, <3>3
  <2>3. Unmissed
    BY <1>3, <2>1, <2>2 DEF Unmissed
  <2>4. QED
    BY <2>3, NothingMissed DEF FInv
<1>18. TimeoutsAreTrue'
  <2>1. \A u \in gone : u \in Program /\ wakeupMsg'[u]
    BY <1>4, <1>9, <1>10
  <2>2. \A u \in Program \ gone : wakeupMsg'[u] = wakeupMsg[u]
    BY <1>9
  <2>3. now' \in Int /\ now <= now'
    BY <1>3, <1>4
  <2>4. QED
    BY <1>3, <1>9, <1>10, <2>1, <2>2, <2>3, AnswersTrue
<1>19. QED
  BY <1>13, <1>15, <1>16, <1>17, <1>18 DEF FInv

\* Of a queue at most one times out at a barrier, and its time has come.
LEMMA TimedOutOK ==
  ASSUME NEW q \in Seq(Program), NEW time
  PROVE  /\ TimedOut(q, time) \subseteq Range(q)
         /\ \A x, y \in TimedOut(q, time) : x = y
         /\ \A x \in TimedOut(q, time) : ask[x].until <= time
<1>1. DOMAIN q \subseteq Int
  BY LenProperties
<1>2. PICK due : due = {i \in DOMAIN q : ask[q[i]].until <= time}
  OBVIOUS
<1>3. TimedOut(q, time) = {q[i] : i \in {j \in due : \A k \in due : j <= k}}
  BY <1>2 DEF TimedOut
<1>4. \A i, j \in {l \in due : \A k \in due : l <= k} : i = j
  BY <1>1, <1>2
<1>5. QED
  BY <1>2, <1>3, <1>4 DEF Range

\* The barrier of simulated time wakes who has waited long enough.
LEMMA PeriodicStep == ASSUME FInv, FutexPeriodic PROVE FInv'
<1>1. /\ waiting \in [Futex -> Seq(Program)] /\ sleeping \in Seq(Program)
      /\ now \in 0 .. MaxTime /\ Apart(waiting, sleeping, blocked)
  BY ApartQueued DEF FInv, FutexTypeOK
<1>2. now' \in 0 .. MaxTime /\ now <= now'
  BY <1>1 DEF FutexPeriodic
<1> PICK slept, late : /\ slept = TimedOut(sleeping, now')
                       /\ late = [f \in Futex |-> TimedOut(waiting[f], now')]
  OBVIOUS
<1> PICK gone : gone = slept \cup UNION Range(late)
  OBVIOUS
<1>3. /\ inside = NoOne /\ inside' = inside
      /\ sleeping' = Without(sleeping, slept)
      /\ waiting' = [f \in Futex |-> Without(waiting[f], late[f])]
      /\ Resume(gone, FALSE)
      /\ moved' = moved \cap blocked'
      /\ word' = word /\ ask' = ask /\ oldval' = oldval /\ owes' = owes
  BY DEF FutexPeriodic
<1>4. /\ slept \subseteq Range(sleeping) /\ \A x \in slept : ask[x].until <= now'
      /\ sleeping' \in Seq(Program) /\ IsInjective(sleeping')
      /\ Range(sleeping') = Range(sleeping) \ slept
  <2>1. IsInjective(sleeping)
    BY <1>1 DEF Apart
  <2>2. /\ slept \subseteq Range(sleeping) /\ \A x, y \in slept : x = y
        /\ \A x \in slept : ask[x].until <= now'
    BY <1>1, TimedOutOK
  <2>3. QED
    BY <1>1, <1>3, <2>1, <2>2, WithoutOK
<1>5. ASSUME NEW f \in Futex
      PROVE  /\ late[f] \subseteq Range(waiting[f]) /\ \A x \in late[f] : ask[x].until <= now'
             /\ waiting'[f] \in Seq(Program) /\ IsInjective(waiting'[f])
             /\ Range(waiting'[f]) = Range(waiting[f]) \ late[f]
  <2>1. IsInjective(waiting[f]) /\ waiting[f] \in Seq(Program)
    BY <1>1 DEF Apart
  <2>2. late[f] = TimedOut(waiting[f], now') /\ waiting'[f] = Without(waiting[f], late[f])
    BY <1>3
  <2>3. /\ late[f] \subseteq Range(waiting[f]) /\ \A x, y \in late[f] : x = y
        /\ \A x \in late[f] : ask[x].until <= now'
    BY <2>1, <2>2, TimedOutOK
  <2>4. QED
    BY <2>1, <2>2, <2>3, WithoutOK
<1>6. \A x : x \in gone <=> x \in slept \/ \E f \in Futex : x \in late[f]
  <2>1. Range(late) = {late[f] : f \in Futex}
    BY DEF Range
  <2>2. QED
    BY <2>1
<1>7. /\ gone \subseteq blocked /\ \A x \in gone : ask[x].until <= now'
  BY <1>1, <1>4, <1>5, <1>6 DEF Apart
<1>8. ASSUME NEW f \in Futex PROVE Range(waiting'[f]) = Range(waiting[f]) \ gone
  <2>1. ASSUME NEW x \in Range(waiting[f]), x \in gone PROVE x \in late[f]
    <3>1. x \notin slept
      BY <1>1, <1>4 DEF Apart
    <3>2. PICK g \in Futex : x \in late[g]
      BY <1>6, <2>1, <3>1
    <3>3. x \in Range(waiting[g])
      BY <1>5, <3>2
    <3>4. g = f
      BY <1>1, <3>3 DEF Apart
    <3>5. QED
      BY <3>2, <3>4
  <2>2. QED
    BY <1>5, <1>6, <2>1
<1>9. Range(sleeping') = Range(sleeping) \ gone
  <2>1. ASSUME NEW x \in Range(sleeping), x \in gone PROVE x \in slept
    BY <1>1, <1>5, <1>6, <2>1 DEF Apart
  <2>2. QED
    BY <1>4, <1>6, <2>1
<1>10. Leave(gone)
  <2>1. waiting' \in [Futex -> Seq(Program)]
    BY <1>3, <1>5
  <2>2. blocked' = blocked \ gone
    BY <1>3 DEF Resume
  <2>3. QED
    BY <1>4, <1>5, <1>8, <1>9, <2>1, <2>2 DEF Leave
<1>11. /\ word' \in [Futex -> Value] /\ owes' \in [Program -> SUBSET Futex] /\ oldval' \in Value
  BY <1>3 DEF FInv, FutexTypeOK
<1>12. \A g \in Futex : (Owed(g) => Owed(g)') /\ (word'[g] # word[g] => Owed(g)')
  BY <1>3 DEF Owed
<1>13. QED
  BY <1>2, <1>3, <1>7, <1>10, <1>11, <1>12, LeaveStep

-----------------------------------------------------------------------------
(* The theorems *)

\* Nobody waits at first.
LEMMA InitFInv == FutexInit => FInv
<1> SUFFICES ASSUME FutexInit PROVE FInv
  OBVIOUS
<1>1. FutexTypeOK
  BY EmptySeq DEF FutexInit, FutexTypeOK
<1>2. Range(<<>>) = {} /\ IsInjective(<<>>)
  BY DEF Range, IsInjective
<1>3. \A f \in Futex : waiting[f] = <<>>
  BY DEF FutexInit
<1>4. BlockedAreQueued
  <2>1. /\ \A f \in Futex : IsInjective(waiting[f]) /\ Range(waiting[f]) = {}
        /\ IsInjective(sleeping) /\ Range(sleeping) = {} /\ blocked = {}
    BY <1>2, <1>3 DEF FutexInit
  <2>2. UNION {Range(waiting[f]) : f \in Futex} = {}
    BY <2>1
  <2>3. QED
    BY <2>1, <2>2 DEF BlockedAreQueued
<1>5. CallsOK
  BY DEF FutexInit, CallsOK
<1>6. NoStoreIsMissed
  BY <1>2, <1>3 DEF NoStoreIsMissed
<1>7. TimeoutsAreTrue
  BY DEF FutexInit, TimeoutsAreTrue
<1>8. QED
  BY <1>1, <1>4, <1>5, <1>6, <1>7 DEF FInv

\* Every step keeps the invariant.
LEMMA NextFInv == FInv /\ [FutexNext]_futexVars => FInv'
<1> SUFFICES ASSUME FInv, [FutexNext]_futexVars PROVE FInv'
  OBVIOUS
<1>1. CASE FutexPeriodic
  BY <1>1, PeriodicStep
<1>2. ASSUME NEW t \in Program, FutexReturn(t) \/ FutexWait(t) \/ FutexWakeOp(t) PROVE FInv'
  BY <1>2, ReturnStep, WaitStep, WakeOpStep
<1>3. ASSUME NEW t \in Program, NEW call \in Wait, FutexRead(t, call, call.at) PROVE FInv'
  <2>1. call.at \in Futex
    BY DEF Wait
  <2>2. QED
    BY <1>3, <2>1, ReadStep
<1>4. ASSUME NEW t \in Program, NEW call \in WakeOp, FutexRead(t, call, call.at2) PROVE FInv'
  <2>1. call.at2 \in Futex /\ call \notin Wait
    BY DEF WakeOp, Wait
  <2>2. QED
    BY <1>4, <2>1, ReadStep
<1>5. ASSUME NEW t \in Program, NEW until \in Timeouts \ {Never}, SleepCall(t, until) PROVE FInv'
  BY <1>5, SleepStep
<1>6. ASSUME NEW t \in Program, NEW f \in Futex, NEW v \in Value, Store(t, f, v) PROVE FInv'
  BY <1>6, StoreStep
<1>7. ASSUME NEW t \in Program, NEW f \in Futex, NEW nr \in {1, Many}, FutexWake(t, f, nr)
      PROVE  FInv'
  <2>1. nr \in Nat
    OBVIOUS
  <2>2. QED
    BY <1>7, <2>1, WakeStep
<1>8. ASSUME NEW t \in Program, NEW f \in Futex, NEW g \in Futex, FutexCmpRequeue(t, f, 1, g)
      PROVE  FInv'
  <2>1. 1 \in Nat
    OBVIOUS
  <2>2. QED
    BY <1>8, <2>1, RequeueStep
<1>9. CASE UNCHANGED futexVars
  <2>1. FutexTypeOK' /\ BlockedAreQueued'
    BY <1>9 DEF futexVars, FInv, FutexTypeOK, BlockedAreQueued
  <2>2. CallsOK' /\ NoStoreIsMissed' /\ TimeoutsAreTrue'
    BY <1>9 DEF futexVars, FInv, CallsOK, NoStoreIsMissed, TimeoutsAreTrue, Owed
  <2>3. QED
    BY <2>1, <2>2 DEF FInv
<1>10. QED
  BY <1>1, <1>2, <1>3, <1>4, <1>5, <1>6, <1>7, <1>8, <1>9 DEF FutexNext

\* The invariant holds in every state.
LEMMA FutexInvariant == FutexSpec => []FInv
  BY InitFInv, NextFInv, PTL DEF FutexSpec

\* The types of the futex server's state.
THEOREM FutexTypes == FutexSpec => []FutexTypeOK
<1>1. FInv => FutexTypeOK
  BY DEF FInv
<1>2. QED
  BY FutexInvariant, <1>1, PTL

\* A stalled thread is in exactly one queue, whatever is woken, requeued and timed
\* out: nobody is resumed twice, and nobody is forgotten.
THEOREM StalledOnce == FutexSpec => []BlockedAreQueued
<1>1. FInv => BlockedAreQueued
  BY DEF FInv
<1>2. QED
  BY FutexInvariant, <1>1, PTL

\* No store between the read of a word and the wait is missed, although stores do
\* not take the lock: the wake-up that belongs to it has to.
THEOREM StoresAreSeen == FutexSpec => []NoStoreIsMissed
<1>1. FInv => NoStoreIsMissed
  BY DEF FInv
<1>2. QED
  BY FutexInvariant, <1>1, PTL

\* ETIMEDOUT is only answered when it is time, whatever queue the waiter was moved to.
THEOREM TimedOutInTime == FutexSpec => []TimeoutsAreTrue
<1>1. FInv => TimeoutsAreTrue
  BY DEF FInv
<1>2. QED
  BY FutexInvariant, <1>1, PTL
=============================================================================
