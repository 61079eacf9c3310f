------------------------------ MODULE SimFutex ------------------------------
(***************************************************************************)
(* The futex and sleep system calls of a simulated application             *)
(* (system/syscall_server.cc).  A call holds the thread manager's lock     *)
(* from beginning to end, but it reads and writes the futex word with      *)
(* accesses of their own, between which other threads of the application   *)
(* may store to it.  Periodic is HOOK_PERIODIC of the time barrier.        *)
(*                                                                         *)
(* The bitsets of a waiter are left out: every call that wakes matches any *)
(* (also FUTEX_WAKE_BITSET, see README).  The application keeps the rule   *)
(* of futexes: who changes a word next wakes (or requeues) everybody who   *)
(* waits at it.                                                            *)
(***************************************************************************)
EXTENDS Integers, Sequences, Functions

CONSTANTS Program,    \* application threads
          Futex,      \* words
          Value,
          Reset,      \* the value of a word nobody uses
          Many,       \* INT_MAX as a number of threads to wake
          MaxTime,    \* bound: barriers
          Timeouts,   \* times until which threads sleep or wait
          NoOne

Never == MaxTime + 1  \* SubsecondTime::MaxTime()

ASSUME FutexAssumption == /\ Many \in Nat /\ MaxTime \in Nat
                          /\ Timeouts \subseteq 0 .. Never /\ Reset \in Value
                          /\ NoOne \notin Program

VARIABLES word,       \* the application's memory
          waiting,    \* SimFutex::m_waiting; the timeout of a waiter is in its `ask`
          sleeping,   \* m_sleeping
          now,        \* time of the last barrier
          blocked,    \* threads whose state is STALLED
          wakeupMsg,  \* Thread::m_wakeup_msg
          ask,        \* the call each thread is in
          inside,     \* who is in a call that has read its word
          oldval,     \* and what it read
          owes,       \* words a thread has changed and not yet woken the waiters of
          moved       \* history: who waits at a word it was requeued to

futexVars ==
  <<word, waiting, sleeping, now, blocked, wakeupMsg, ask, inside, oldval, owes, moved>>

None == [op |-> "none"]
Wait == [op : {"wait"}, at : Futex, val : Value, until : Timeouts]
Nap == [op : {"sleep"}, until : Timeouts]
WakeOp == {a \in [op : {"wakeop"}, at : Futex, nr : {1}, at2 : Futex, nr2 : {Many},
                  arg : {Reset}, cmparg : Value \ {Reset}] : a.at # a.at2}

FutexTypeOK ==
  /\ word \in [Futex -> Value]
  /\ waiting \in [Futex -> Seq(Program)]
  /\ sleeping \in Seq(Program)
  /\ now \in 0 .. MaxTime
  /\ blocked \in SUBSET Program
  /\ wakeupMsg \in [Program -> BOOLEAN]
  /\ ask \in [Program -> {None} \cup Wait \cup Nap \cup WakeOp]
  /\ inside \in Program \cup {NoOne}
  /\ oldval \in Value
  /\ owes \in [Program -> SUBSET Futex]
  /\ moved \subseteq blocked

FutexInit ==
  /\ word = [f \in Futex |-> Reset]
  /\ waiting = [f \in Futex |-> <<>>]
  /\ sleeping = <<>>
  /\ now = 0
  /\ blocked = {}
  /\ wakeupMsg = [t \in Program |-> FALSE]
  /\ ask = [t \in Program |-> None]
  /\ inside = NoOne
  /\ oldval = Reset
  /\ owes = [t \in Program |-> {}]
  /\ moved = {}

\* Calls are made without the lock.
FreeUnlocked(t) == ask[t] = None

Free(t) == ask[t] = None /\ inside = NoOne     \* makes a call and gets the lock

Stored(t, f, v) ==
  /\ word' = [word EXCEPT ![f] = v]
  /\ owes' = IF v = word[f] THEN owes ELSE [owes EXCEPT ![t] = @ \cup {f}]

\* An instruction of the application; the lock means nothing to it.
Store(t, f, v) ==
  /\ ask[t] = None /\ owes[t] = {}
  /\ Stored(t, f, v)
  /\ UNCHANGED <<waiting, sleeping, now, blocked, wakeupMsg, ask, inside, oldval, moved>>

\* handleFutexCall reads the word under the lock ...
FutexRead(t, call, f) ==
  /\ Free(t) /\ owes[t] = {}
  /\ ask' = [ask EXCEPT ![t] = call]
  /\ inside' = t
  /\ oldval' = word[f]
  /\ UNCHANGED <<word, waiting, sleeping, now, blocked, wakeupMsg, owes, moved>>

\* ... and futexWait compares: EWOULDBLOCK, or enqueueWaiter and stall.
FutexWait(t) ==
  /\ inside = t /\ ask[t].op = "wait"
  /\ inside' = NoOne
  /\ IF oldval # ask[t].val
     THEN /\ ask' = [ask EXCEPT ![t] = None]
          /\ UNCHANGED <<waiting, blocked>>
     ELSE /\ waiting' = [waiting EXCEPT ![ask[t].at] = Append(@, t)]
          /\ blocked' = blocked \cup {t}
          /\ UNCHANGED ask
  /\ oldval' = Reset
  /\ UNCHANGED <<word, sleeping, now, wakeupMsg, owes, moved>>

ResumeOnly(threads, msg) == blocked' = blocked \ threads /\ UNCHANGED wakeupMsg

\* resumeThread(waiter, ..., msg)
Resume(threads, msg) ==
  /\ blocked' = blocked \ threads
  /\ wakeupMsg' = [t \in Program |-> IF t \in threads THEN msg ELSE wakeupMsg[t]]

Woken(q, nr) == IF nr < Len(q) THEN nr ELSE Len(q)
First(q, k) == SubSeq(q, 1, k)
Rest(q, k) == SubSeq(q, k + 1, Len(q))

FutexWake(t, f, nr) ==
  /\ Free(t)
  /\ LET k == Woken(waiting[f], nr)
     IN /\ waiting' = [waiting EXCEPT ![f] = Rest(@, k)]
        /\ Resume(Range(First(waiting[f], k)), TRUE)
        /\ owes' = [owes EXCEPT ![t] = IF nr >= Len(waiting[f]) THEN @ \ {f} ELSE @]
  /\ moved' = moved \cap blocked'
  /\ UNCHANGED <<word, sleeping, now, ask, inside, oldval>>

\* FUTEX_OP_CMP_EQ: of the queue q of the second word, how many are woken.
WokenToo(q, a) == IF oldval = a.cmparg THEN Woken(q, a.nr2) ELSE 0

\* futexWakeOp with FUTEX_OP_SET and FUTEX_OP_CMP_EQ: futexDoOp writes what it
\* decided to write, wakes at the first word and, if the old value says so, at the
\* second.
FutexWakeOp(t) ==
  /\ inside = t /\ ask[t].op = "wakeop"
  /\ LET a == ask[t]
         k == Woken(waiting[a.at], a.nr)
         left == [waiting EXCEPT ![a.at] = Rest(@, k)]
         k2 == WokenToo(left[a.at2], a)
     IN /\ Stored(t, a.at2, a.arg)
        /\ waiting' = [left EXCEPT ![a.at2] = Rest(@, k2)]
        /\ Resume(Range(First(waiting[a.at], k)) \cup Range(First(left[a.at2], k2)), TRUE)
  /\ inside' = NoOne
  /\ ask' = [ask EXCEPT ![t] = None]
  /\ oldval' = Reset
  /\ moved' = moved \cap blocked'
  /\ UNCHANGED <<sleeping, now>>

RequeueAll(t, f, nr, g) ==
  /\ Free(t) /\ f # g
  /\ LET k == Woken(waiting[f], nr)
     IN /\ waiting' = [waiting EXCEPT ![f] = <<>>, ![g] = @ \o waiting[f]]
        /\ Resume(Range(First(waiting[f], k)), TRUE)
        /\ moved' = blocked' \cap (moved \cup Range(Rest(waiting[f], k)))
  /\ owes' = [owes EXCEPT ![t] = @ \ {f}]
  /\ UNCHANGED <<word, sleeping, now, ask, inside, oldval>>

\* futexCmpRequeue: wakes some, moves the others to the other word.  The comparison
\* with the word changes nothing for the waiters: EAGAIN is a call that does nothing.
FutexCmpRequeue(t, f, nr, g) ==
  /\ Free(t) /\ f # g
  /\ LET k == Woken(waiting[f], nr)
     IN /\ waiting' = [waiting EXCEPT ![f] = <<>>, ![g] = @ \o Rest(waiting[f], k)]
        /\ Resume(Range(First(waiting[f], k)), TRUE)
        /\ moved' = blocked' \cap (moved \cup Range(Rest(waiting[f], k)))
  /\ owes' = [owes EXCEPT ![t] = @ \ {f}]
  /\ UNCHANGED <<word, sleeping, now, ask, inside, oldval>>

SleepWithoutTime(t, until) ==
  /\ Free(t) /\ owes[t] = {}
  /\ ask' = [ask EXCEPT ![t] = [op |-> "sleep", until |-> 0]]
  /\ sleeping' = Append(sleeping, t)
  /\ blocked' = blocked \cup {t}
  /\ UNCHANGED <<word, waiting, now, wakeupMsg, inside, oldval, owes, moved>>

\* handleSleepCall
SleepCall(t, until) ==
  /\ Free(t) /\ owes[t] = {}
  /\ ask' = [ask EXCEPT ![t] = [op |-> "sleep", until |-> until]]
  /\ sleeping' = Append(sleeping, t)
  /\ blocked' = blocked \cup {t}
  /\ UNCHANGED <<word, waiting, now, wakeupMsg, inside, oldval, owes, moved>>

TimedOutIfFirst(q, time) ==
  {q[i] : i \in {j \in DOMAIN q : j = 1 /\ ask[q[j]].until <= time}}

\* The first of a queue whose time has come; the loops stop after it, the others
\* have to wait for the next barrier.
TimedOut(q, time) ==
  LET due == {i \in DOMAIN q : ask[q[i]].until <= time}
  IN {q[i] : i \in {j \in due : \A k \in due : j <= k}}

\* A queue without that one.
Without(q, threads) ==
  IF \E i \in DOMAIN q : q[i] \in threads
  THEN LET i == CHOOSE i \in DOMAIN q : q[i] \in threads IN First(q, i - 1) \o Rest(q, i)
  ELSE q

\* futexPeriodic at the end of a quantum of barrier time.
FutexPeriodic ==
  /\ inside = NoOne
  /\ now' = IF now < MaxTime THEN now + 1 ELSE now
  /\ LET slept == TimedOut(sleeping, now')
         late == [f \in Futex |-> TimedOut(waiting[f], now')]
     IN /\ sleeping' = Without(sleeping, slept)
        /\ waiting' = [f \in Futex |-> Without(waiting[f], late[f])]
        /\ Resume(slept \cup UNION Range(late), FALSE)
  /\ moved' = moved \cap blocked'
  /\ UNCHANGED <<word, ask, inside, oldval, owes>>

\* The thread runs again and sees the answer of its call.
FutexReturn(t) ==
  /\ ask[t] # None /\ ask[t].op # "wakeop" /\ t \notin blocked /\ inside # t
  /\ ask' = [ask EXCEPT ![t] = None]
  /\ wakeupMsg' = [wakeupMsg EXCEPT ![t] = FALSE]
  /\ UNCHANGED <<word, waiting, sleeping, now, blocked, inside, oldval, owes, moved>>

FutexNext ==
  \/ FutexPeriodic
  \/ \E t \in Program :
       \/ FutexReturn(t) \/ FutexWait(t) \/ FutexWakeOp(t)
       \/ \E call \in Wait : FutexRead(t, call, call.at)
       \/ \E call \in WakeOp : FutexRead(t, call, call.at2)
       \/ \E until \in Timeouts \ {Never} : SleepCall(t, until)
       \/ \E f \in Futex :
            \/ \E v \in Value : Store(t, f, v)
            \/ \E nr \in {1, Many} : FutexWake(t, f, nr)
            \/ \E g \in Futex : FutexCmpRequeue(t, f, 1, g)

\* Barriers go on as long as a timeout is pending (see Threads), however many calls
\* the threads that run make between two of them, and a call that has begun is
\* finished by the simulator itself.
FutexFairness == /\ SF_futexVars(FutexPeriodic)
                 /\ WF_futexVars(\E t \in Program : FutexWait(t) \/ FutexWakeOp(t))

FutexSpec == FutexInit /\ [][FutexNext]_futexVars /\ FutexFairness
-----------------------------------------------------------------------------
\* A thread is stalled by a futex or a sleep as long as one queue has it, once,
\* whatever was woken, requeued or timed out in between (wakeFutexOne, requeueWaiter,
\* wakeTimedOut, futexPeriodic).
BlockedAreQueued ==
  /\ \A f \in Futex : IsInjective(waiting[f])
  /\ IsInjective(sleeping)
  /\ \A f, g \in Futex : f # g => Range(waiting[f]) \cap Range(waiting[g]) = {}
  /\ Range(sleeping) \cap UNION {Range(waiting[f]) : f \in Futex} = {}
  /\ blocked = Range(sleeping) \cup UNION {Range(waiting[f]) : f \in Futex}

\* The point of a futex: nobody sleeps at a word that has changed from the value it
\* waits for, unless the thread that changed it is still to wake him (FUTEX_WAIT
\* compares under the lock that FUTEX_WAKE takes).  Who was requeued waits for the
\* word it was moved to, whatever its value, also when that is its own one again.
NoStoreIsMissed ==
  \A f \in Futex : \A t \in Range(waiting[f]) :
    t \notin moved => /\ ask[t].at = f
                      /\ ask[t].val # word[f] => \E u \in Program : f \in owes[u]

\* A wait that answers ETIMEDOUT lasted at least as long as it was asked to, also
\* when the waiter was requeued to another word; and so did a sleep.
TimeoutsAreTrue ==
  \A t \in Program :
    ask[t] # None /\ ask[t].op \in {"wait", "sleep"} /\ t \notin blocked /\ t # inside
      => wakeupMsg[t] \/ ask[t].until <= now

\* Whoever has a timeout is resumed some time, wherever it stands in whatever queue.
TimeoutsFire ==
  \A t \in Program :
    (t \in blocked /\ ask[t] # None /\ ask[t].until < Never) ~> t \notin blocked
=============================================================================
