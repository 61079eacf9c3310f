----------------------------- MODULE SyncServer -----------------------------
(***************************************************************************)
(* The pthread objects of a simulated application: SimMutex, SimCond and   *)
(* SimBarrier (system/sync_server.cc), as SyncClient (sync_client.cc)      *)
(* calls them.  Each call is one critical section of the thread manager's  *)
(* lock up to stallThread; what a stalled thread needs is a resumeThread,  *)
(* which Threads shows to reach it.  When it runs again the call returns   *)
(* in a step of its own, so a mutex is handed over long before its new     *)
(* owner knows.                                                            *)
(*                                                                         *)
(* The application is a legal one: it unlocks what it holds, does not lock *)
(* what it holds, takes mutexes in ascending order, waits for a condition  *)
(* with no other mutex and always with the same one while others wait, and *)
(* enters the barrier with none.                                           *)
(***************************************************************************)
EXTENDS Naturals, Sequences, Functions

CONSTANTS Client,      \* application threads
          Mutex,       \* numbers, in the order in which they are taken
          Cond,
          Parties,     \* m_count of the barrier
          NoOwner      \* SimMutex::NO_OWNER

ASSUME SyncAssumption ==
  /\ Mutex \subseteq Nat
  /\ Parties \in Nat \ {0}
  /\ NoOwner \notin Client

VARIABLES owner,         \* SimMutex::m_owner
          mutexQueue,    \* SimMutex::m_waiting
          condQueue,     \* SimCond::m_waiting; the mutex of a waiter is its `arg`
          barrierQueue,  \* SimBarrier::m_waiting
          stalled,       \* threads whose state is STALLED
          call,          \* the call each thread is in
          arg,           \* the mutex of that call (of the last one)
          held           \* mutexes whose lock or wait has returned to the application

syncVars == <<owner, mutexQueue, condQueue, barrierQueue, stalled, call, arg, held>>

SyncTypeOK ==
  /\ owner \in [Mutex -> Client \cup {NoOwner}]
  /\ mutexQueue \in [Mutex -> Seq(Client)]
  /\ condQueue \in [Cond -> Seq(Client)]
  /\ barrierQueue \in Seq(Client)
  /\ stalled \in SUBSET Client
  /\ call \in [Client -> {"none", "lock", "wait", "barrier"}]
  /\ arg \in [Client -> Mutex]
  /\ held \in [Client -> SUBSET Mutex]

SyncInit ==
  /\ owner = [m \in Mutex |-> NoOwner]
  /\ mutexQueue = [m \in Mutex |-> <<>>]
  /\ condQueue = [c \in Cond |-> <<>>]
  /\ barrierQueue = <<>>
  /\ stalled = {}
  /\ call = [t \in Client |-> "none"]
  /\ arg \in [Client -> {m \in Mutex : \A k \in Mutex : m <= k}]
  /\ held = [t \in Client |-> {}]

Calls(t, c, m) ==
  /\ call[t] = "none"
  /\ call' = [call EXCEPT ![t] = c]
  /\ arg' = [arg EXCEPT ![t] = m]

\* SimMutex::lock.  A thread that finds the mutex free does not wait.
SimLock(t, m) ==
  IF owner[m] = NoOwner
  THEN /\ owner' = [owner EXCEPT ![m] = t]
       /\ UNCHANGED <<mutexQueue, stalled>>
  ELSE /\ mutexQueue' = [mutexQueue EXCEPT ![m] = Append(@, t)]
       /\ stalled' = stalled \cup {t}
       /\ UNCHANGED owner

MutexLock(t, m) ==
  /\ Calls(t, "lock", m)
  /\ \A k \in held[t] : k < m
  /\ SimLock(t, m)
  /\ UNCHANGED <<condQueue, barrierQueue, held>>

\* mutexLock with tryLock; when it is locked nothing changes and the application is
\* told.  (A mutex the caller holds itself is not reported: see README.)
IsLocked(t, m) == owner[m] \notin {NoOwner, t}

MutexTrylock(t, m) ==
  /\ call[t] = "none" /\ m \notin held[t]
  /\ ~IsLocked(t, m)
  /\ Calls(t, "lock", m)
  /\ SimLock(t, m)
  /\ UNCHANGED <<condQueue, barrierQueue, held>>

\* SimMutex::unlock hands the mutex over to the first in the queue.
SimUnlock(t, m, asleep) ==
  IF mutexQueue[m] = <<>>
  THEN /\ owner' = [owner EXCEPT ![m] = NoOwner]
       /\ stalled' = asleep
       /\ UNCHANGED mutexQueue
  ELSE /\ owner' = [owner EXCEPT ![m] = Head(mutexQueue[m])]
       /\ mutexQueue' = [mutexQueue EXCEPT ![m] = Tail(@)]
       /\ stalled' = asleep \ {Head(mutexQueue[m])}

MutexUnlock(t, m) ==
  /\ call[t] = "none" /\ m \in held[t]
  /\ held' = [held EXCEPT ![t] = @ \ {m}]
  /\ SimUnlock(t, m, stalled)
  /\ UNCHANGED <<condQueue, barrierQueue, call, arg>>

\* SimCond::wait: unlock, then the condition's queue, then stall.
CondWait(t, c, m) ==
  /\ held[t] = {m}
  /\ \A u \in Range(condQueue[c]) : arg[u] = m
  /\ Calls(t, "wait", m)
  /\ held' = [held EXCEPT ![t] = {}]
  /\ SimUnlock(t, m, stalled \cup {t})
  /\ condQueue' = [condQueue EXCEPT ![c] = Append(@, t)]
  /\ UNCHANGED barrierQueue

\* The waiter is only moved to the mutex if it is free.
SignalIfFree(t, c) ==
  /\ call[t] = "none" /\ condQueue[c] # <<>>
  /\ condQueue' = [condQueue EXCEPT ![c] = Tail(@)]
  /\ LET u == Head(condQueue[c])
     IN IF owner[arg[u]] = NoOwner
        THEN /\ owner' = [owner EXCEPT ![arg[u]] = u]
             /\ stalled' = stalled \ {u}
        ELSE UNCHANGED <<owner, stalled>>
  /\ UNCHANGED <<mutexQueue, barrierQueue, call, arg, held>>

\* signal: lock_async of the mutex for the first waiter.
CondSignal(t, c) ==
  /\ call[t] = "none" /\ condQueue[c] # <<>>
  /\ condQueue' = [condQueue EXCEPT ![c] = Tail(@)]
  /\ LET u == Head(condQueue[c])
     IN IF owner[arg[u]] = NoOwner
        THEN /\ owner' = [owner EXCEPT ![arg[u]] = u]
             /\ stalled' = stalled \ {u}
             /\ UNCHANGED mutexQueue
        ELSE /\ mutexQueue' = [mutexQueue EXCEPT ![arg[u]] = Append(@, u)]
             /\ UNCHANGED <<owner, stalled>>
  /\ UNCHANGED <<barrierQueue, call, arg, held>>

BroadcastToQueue(t, c) ==
  /\ call[t] = "none" /\ condQueue[c] # <<>>
  /\ condQueue' = [condQueue EXCEPT ![c] = <<>>]
  /\ mutexQueue' = [mutexQueue EXCEPT ![arg[Head(condQueue[c])]] = @ \o condQueue[c]]
  /\ UNCHANGED <<owner, stalled, barrierQueue, call, arg, held>>

\* broadcast: the loop gives the mutex of the waiters to the first one if it is
\* free, and queues the others for it.
CondBroadcast(t, c) ==
  /\ call[t] = "none" /\ condQueue[c] # <<>>
  /\ condQueue' = [condQueue EXCEPT ![c] = <<>>]
  /\ LET u == Head(condQueue[c])
     IN IF owner[arg[u]] = NoOwner
        THEN /\ owner' = [owner EXCEPT ![arg[u]] = u]
             /\ stalled' = stalled \ {u}
             /\ mutexQueue' = [mutexQueue EXCEPT ![arg[u]] = @ \o Tail(condQueue[c])]
        ELSE /\ mutexQueue' = [mutexQueue EXCEPT ![arg[u]] = @ \o condQueue[c]]
             /\ UNCHANGED <<owner, stalled>>
  /\ UNCHANGED <<barrierQueue, call, arg, held>>

BarrierWaitForOneMore(t) ==
  /\ held[t] = {}
  /\ Calls(t, "barrier", arg[t])
  /\ IF Len(barrierQueue) = Parties
     THEN barrierQueue' = <<>> /\ stalled' = stalled \ Range(barrierQueue)
     ELSE barrierQueue' = Append(barrierQueue, t) /\ stalled' = stalled \cup {t}
  /\ UNCHANGED <<owner, mutexQueue, condQueue, held>>

\* The last thread to arrive resumes the others and does not wait.
BarrierWait(t) ==
  /\ held[t] = {}
  /\ Calls(t, "barrier", arg[t])
  /\ IF Len(barrierQueue) = Parties - 1
     THEN barrierQueue' = <<>> /\ stalled' = stalled \ Range(barrierQueue)
     ELSE barrierQueue' = Append(barrierQueue, t) /\ stalled' = stalled \cup {t}
  /\ UNCHANGED <<owner, mutexQueue, condQueue, held>>

\* stallThread has returned (or was not called): back to the application.
Return(t) ==
  /\ call[t] # "none" /\ t \notin stalled
  /\ call' = [call EXCEPT ![t] = "none"]
  /\ held' = [held EXCEPT ![t] = @ \cup IF call[t] = "barrier" THEN {} ELSE {arg[t]}]
  /\ UNCHANGED <<owner, mutexQueue, condQueue, barrierQueue, stalled, arg>>

SyncNext ==
  \E t \in Client :
    \/ Return(t)
    \/ BarrierWait(t)
    \/ \E m \in Mutex : MutexLock(t, m) \/ MutexTrylock(t, m) \/ MutexUnlock(t, m)
    \/ \E c \in Cond : \/ CondSignal(t, c) \/ CondBroadcast(t, c)
                       \/ \E m \in Mutex : CondWait(t, c, m)

\* A thread that was resumed returns, and the one thread that holds a mutex and is
\* again and again between two calls gives it up some time: critical sections end.
GivesUp(m) == \E t \in Client : MutexUnlock(t, m) \/ \E c \in Cond : CondWait(t, c, m)

SyncFairness == /\ \A t \in Client : WF_syncVars(Return(t))
                /\ \A m \in Mutex : SF_syncVars(GivesUp(m))

SyncSafety == SyncInit /\ [][SyncNext]_syncVars

SyncSpec == SyncSafety /\ SyncFairness
-----------------------------------------------------------------------------
\* The owner in the simulator is whoever the application thinks holds the mutex, or
\* was resumed to take it and has not run yet: nobody else, so that there is one
\* holder at most, and no mutex is owned by a thread that does not know
\* (sync_server.cc unlock and lock_async; `assert(m_owner == thread_id)`).
Granted(t, m) == call[t] \in {"lock", "wait"} /\ arg[t] = m /\ t \notin stalled

HeldIsOwned ==
  \A t \in Client, m \in Mutex : owner[m] = t <=> m \in held[t] \/ Granted(t, m)

\* The queues: of those who lock a mutex or were signalled, which has an owner who
\* will serve it; of those who wait for a signal; and of the barrier.
Lockers ==
  \A m \in Mutex :
    /\ IsInjective(mutexQueue[m])
    /\ mutexQueue[m] # <<>> => owner[m] # NoOwner
    /\ \A t \in Range(mutexQueue[m]) :
         call[t] \in {"lock", "wait"} /\ arg[t] = m /\ owner[m] # t

SignalWaiters ==
  \A c \in Cond :
    /\ IsInjective(condQueue[c])
    /\ \A t \in Range(condQueue[c]) :
         /\ call[t] = "wait" /\ t \notin Range(mutexQueue[arg[t]])
         /\ \A d \in Cond : t \in Range(condQueue[d]) => d = c

Arrived ==
  IsInjective(barrierQueue) /\ \A t \in Range(barrierQueue) : call[t] = "barrier"

Queued(t) == \/ \E m \in Mutex : t \in Range(mutexQueue[m])
             \/ \E c \in Cond : t \in Range(condQueue[c])
             \/ t \in Range(barrierQueue)

\* A thread is stalled as long as it is in one queue, once, and it is the queue of
\* what it called: nobody is resumed twice or forgotten on the way from a condition
\* to its mutex.
StalledAreQueued ==
  /\ \A t \in Client : t \in stalled <=> Queued(t)
  /\ Lockers /\ SignalWaiters /\ Arrived

\* What a thread waits for, in the terms of Monitors.
WaitsFor(t) ==
  IF t \notin stalled THEN <<"nothing">>
  ELSE IF call[t] = "barrier" THEN <<"others">>
  ELSE IF t \in Range(mutexQueue[arg[t]]) THEN <<"mutex", arg[t]>>
  ELSE <<"signal", CHOOSE c \in Cond : t \in Range(condQueue[c]), arg[t]>>

\* The objects are the monitors an application expects: FIFO queues, hand-over and
\* the stalls of threads implement "who holds what and who waits for what".
Mon == INSTANCE Monitors WITH holder <- owner, waits <- [t \in Client |-> WaitsFor(t)]
ImplementsMonitors == Mon!Spec

\* Nobody who waits for a mutex is passed over for ever.
LockersAreServed ==
  \A t \in Client, m \in Mutex : t \in Range(mutexQueue[m]) ~> owner[m] = t
=============================================================================
