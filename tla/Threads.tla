------------------------------- MODULE Threads -------------------------------
(***************************************************************************)
(* How simulated threads get on and off simulated cores and through the    *)
(* barrier of simulated time: ThreadManager (system/thread_manager.cc),    *)
(* the pinned scheduler (scheduler/scheduler_pinned*.cc, reached through   *)
(* the hooks of scheduler_dynamic.cc), BarrierSyncServer                   *)
(* (system/barrier_sync_server.cc), the sleepers of SyscallServer, and the *)
(* host thread of a simulated one (TraceThread::run, Thread::reschedule).  *)
(*                                                                         *)
(* All of them run under one lock, m_thread_lock, and call each other      *)
(* through hooks while they hold it.  What the lock protects is therefore  *)
(* one record, `sim`, and a handler maps it to the set of records it may   *)
(* leave (more than one: the order of m_to_release is random, scores of    *)
(* the scheduler compare clocks of different cores, quanta expire).  The   *)
(* lock is only given up in ConditionVariable::wait, where a thread is in  *)
(* `place` "barrier" or "parked"; between two handlers anything interleaves.*)
(*                                                                         *)
(* Abstractions.  Simulated time is counted in barrier quanta relative to  *)
(* m_next_barrier_time.  Fast-forward, SMT groups and m_disable are off.   *)
(* An affinity mask holds one core, as threadSetInitialAffinity gives it   *)
(* and sched_setaffinity in OneCoreMasks: so a thread that is resumed by   *)
(* moveThread finds no other free core, and handlers do not nest.          *)
(***************************************************************************)
EXTENDS Integers, FiniteSets, Sequences

CONSTANTS Thread,      \* threads the application may have
          Main,        \* its first one
          Core,        \* application cores, 0 .. n - 1
          None,        \* INVALID_THREAD_ID, INVALID_CORE_ID, NULL
          HostCores,   \* general/num_host_cores
          MaxLag,      \* bound: quanta by which one instruction may overshoot
          MaxSleep,    \* bound: quanta a thread may sleep
          Operation    \* the system calls the application makes

ASSUME ThreadsAssumption ==
  /\ Main \in Thread
  /\ None \notin Thread \cup Core
  /\ HostCores \in Nat \ {0}
  /\ Operation \subseteq {"sync", "sleep", "block", "join", "join early", "yield", "affinity", "exit"}

VARIABLE sim

Place == {"absent", "created", "check", "run", "barrier", "parked", "blocked",
          "unblock", "gone"}

TypeOK ==
  sim \in [
    \* ThreadManager::m_thread_state
    st : [Thread -> {"none", "initializing", "running", "stalled", "idle"}],
    why : [Thread -> {"none", "unscheduled", "sync", "sleep", "syscall", "join"}],
    waiter : [Thread -> Thread \cup {None}],
    \* Thread::m_core, Core::m_thread, Core::m_core_state
    core : [Thread -> Core \cup {None}],
    holder : [Core -> Thread \cup {None}],
    coreState : [Core -> {"idle", "initializing", "running"}],
    \* SchedulerDynamic::m_threads_runnable, SchedulerPinnedBase::m_thread_info
    \* (core running, affinity) and m_core_thread_running
    runnable : [Thread -> BOOLEAN],
    on : [Thread -> Core \cup {None}],
    aff : [Thread -> Core \cup {None}],
    running : [Core -> Thread \cup {None}],
    \* BarrierSyncServer: m_barrier_acquire_list, m_local_clock_list in quanta past
    \* m_next_barrier_time (-1: before it), m_core_thread, m_to_release
    acquired : [Core -> BOOLEAN],
    lag : [Core -> -1 .. MaxLag],
    sleeper : [Core -> Thread \cup {None}],
    toRelease : SUBSET Core,
    \* SyscallServer::m_sleeping, and the quanta until the timeout (-1: no sleeper)
    sleeping : Seq(Thread),
    left : [Thread -> -1 .. MaxSleep],
    \* the host thread: where it is, the core it executes on (its local `core`)
    \* and whether TraceThread::unblock has another step to take
    place : [Thread -> Place],
    at : [Thread -> Core \cup {None}],
    unblocking : [Thread -> BOOLEAN],
    \* assertions that failed (the program ends)
    failed : SUBSET {"restarted", "deadlock", "occupied", "state", "twice", "ended"}]

(* Composition of steps that may have several outcomes. *)
Then(S, Step(_)) == UNION {Step(s) : s \in S}

Expect(s, condition, assertion) ==
  IF condition THEN s ELSE [s EXCEPT !.failed = s.failed \cup {assertion}]

-----------------------------------------------------------------------------
(* The barrier's release list, and Thread::setCore. *)

Waiters(s, c) == {t \in Thread : s.place[t] = "barrier" /\ s.at[t] = c}

ReleaseAndForget(s, n) ==
  {[s EXCEPT !.toRelease = {},
             !.place = [t \in Thread |-> IF t \in W THEN "check" ELSE s.place[t]],
             !.at = [t \in Thread |-> IF t \in W THEN None ELSE s.at[t]]] :
    W \in {Waiters(s, c) : c \in s.toRelease} \cup {{}}}

\* doRelease: signals one waiter of each of the next n cores of the list.
DoRelease(s, n) ==
  LET size == IF n < Cardinality(s.toRelease) THEN n ELSE Cardinality(s.toRelease)
      Lists == {R \in SUBSET s.toRelease : Cardinality(R) = size}
      Woken(R) == {W \in SUBSET UNION {Waiters(s, c) : c \in R} :
                     \A c \in R : Waiters(s, c) # {} => Cardinality(W \cap Waiters(s, c)) = 1}
  IN IF size = 0 THEN {s}
     ELSE UNION {{[s EXCEPT !.toRelease = s.toRelease \ R,
                            !.place = [t \in Thread |-> IF t \in W THEN "check" ELSE s.place[t]],
                            !.at = [t \in Thread |-> IF t \in W THEN None ELSE s.at[t]]] :
                W \in Woken(R)} : R \in Lists}

\* releaseThread: a thread that stalls, ends or moves leaves the barrier at the
\* end of the round, and another one may use its host core now.
ReleaseThread(s, t) ==
  DoRelease([s EXCEPT !.lag = [c \in Core |-> IF s.acquired[c] /\ s.sleeper[c] = t
                                              THEN -1 ELSE s.lag[c]]], 1)

SetCore(s, t, c) ==
  LET s1 == IF s.core[t] = None THEN s ELSE [s EXCEPT !.holder[s.core[t]] = None]
  IN IF c = None THEN [s1 EXCEPT !.core[t] = None]
     ELSE [Expect(s1, s1.holder[c] = None, "occupied") EXCEPT !.core[t] = c, !.holder[c] = t]

-----------------------------------------------------------------------------
(* Scheduling: moveThread and reschedule. *)

Vacate(s, t) ==
  IF s.core[t] = None THEN s ELSE [s EXCEPT !.coreState[s.core[t]] = "idle"]

MoveOff(s, t) == ReleaseThread(SetCore(Vacate(s, t), t, None), t)

\* Thread::signal is lost unless the thread is in wait().
Signalled(s, t) == IF s.place[t] = "parked" THEN [s EXCEPT !.place[t] = "check"] ELSE s

\* m_thread_state.status, and the scheduler's hook.  The reason of the stall is
\* not read again.
Runs(s, t) == [s EXCEPT !.st[t] = "running", !.why[t] = "none", !.runnable[t] = TRUE]

Unscheduled(s, t) == s.st[t] = "stalled" /\ s.why[t] = "unscheduled"

MoveOn(s, t, c) ==
  LET s1 == IF s.core[t] = None /\ Unscheduled(s, t)
            THEN Runs(Signalled(s, t), t)
            ELSE Vacate(s, t)
      s2 == SetCore(s1, t, c)
  IN ReleaseThread(IF s2.st[t] = "stalled" THEN s2 ELSE [s2 EXCEPT !.coreState[c] = "running"], t)

\* Which candidate has the highest score depends on clocks of different cores.
Candidates(s, c) ==
  {t \in Thread : s.aff[t] = c /\ s.runnable[t] /\ s.on[t] \in {None, c}}

SwitchTo(s, c, new) ==
  LET old == s.running[c]
      Off == IF old = None THEN {s} ELSE MoveOff([s EXCEPT !.on[old] = None], old)
      On(x) == IF new = None THEN {[x EXCEPT !.running[c] = None]}
               ELSE MoveOn([x EXCEPT !.running[c] = new, !.on[new] = c], new, c)
  IN IF new = old THEN {s} ELSE Then(Off, On)

Reschedule(s, c) ==
  IF s.running[c] # None /\ s.st[s.running[c]] = "initializing" THEN {s}
  ELSE UNION {SwitchTo(s, c, new) :
                new \in IF Candidates(s, c) = {} THEN {None} ELSE Candidates(s, c)}

ScheduleIfFree(s, t) ==
  IF s.running[s.aff[t]] = None THEN Reschedule(s, s.aff[t]) ELSE {s}

ResumeAsync(s, t) == ScheduleIfFree(Runs(s, t), t)

ResumeThread(s, t) == ResumeAsync(Signalled(s, t), t)

\* periodic: core by core, each that is free or whose quantum has expired.
RECURSIVE PeriodicFrom(_, _)
PeriodicFrom(S, c) ==
  LET Slot(s) == Reschedule(s, c) \cup (IF s.running[c] = None THEN {} ELSE {s})
  IN IF c \notin Core THEN S ELSE PeriodicFrom(Then(S, Slot), c + 1)

SchedulerPeriodic(s) == PeriodicFrom({s}, 0)

-----------------------------------------------------------------------------
(* The barrier. *)

AnyThreadRunning(s) == \E t \in Thread : s.st[t] \in {"running", "initializing"}

IsCoreRunning(s, c) ==
  s.coreState[c] = "running" /\ s.holder[c] # None /\ s.st[s.holder[c]] = "running"

BarrierReachedByOne(s) ==
  LET Running == {c \in Core : IsCoreRunning(s, c)}
  IN Running # {} /\ \E c \in Running : s.lag[c] >= 0

IsBarrierReached(s) ==
  LET Running == {c \in Core : IsCoreRunning(s, c)}
  IN Running # {} /\ \A c \in Running : s.lag[c] >= 0

\* SyscallServer::futexPeriodic (an ORDER_NOTIFY_PRE hook, so before the
\* scheduler's): one sleeper that is due is resumed, the others next time.
WakeSleeper(s) ==
  IF \A t \in Thread : s.left[t] # 0 THEN {s}
  ELSE LET t == SelectSeq(s.sleeping, LAMBDA u : s.left[u] = 0)[1]
       IN ResumeThread([s EXCEPT !.left[t] = -1,
                                 !.sleeping = SelectSeq(s.sleeping, LAMBDA u : u # t)], t)

Periodic(s) == Then(WakeSleeper(s), SchedulerPeriodic)

NextBarrierForAll(s) ==
  [s EXCEPT !.lag = [c \in Core |-> IF s.lag[c] >= 0 THEN s.lag[c] - 1 ELSE -1],
            !.left = [t \in Thread |-> s.left[t] - 1]]

\* m_next_barrier_time += m_barrier_interval
NextBarrier(s) ==
  [s EXCEPT !.lag = [c \in Core |-> IF s.lag[c] >= 0 THEN s.lag[c] - 1 ELSE -1],
            !.left = [t \in Thread |-> IF s.left[t] > 0 THEN s.left[t] - 1 ELSE s.left[t]]]

InTime(s) == {c \in Core : s.acquired[c] /\ s.lag[c] < 0}

Leave(s, caller) ==
  [s EXCEPT !.acquired = [c \in Core |-> s.acquired[c] /\ c \notin InTime(s)],
            !.sleeper = [c \in Core |-> IF c \in InTime(s) THEN None ELSE s.sleeper[c]],
            !.toRelease = s.toRelease \cup {c \in InTime(s) : s.sleeper[c] # caller}]

\* The loop of barrierRelease.  advance() calls it with untilRunning.
RECURSIVE Rounds(_, _, _)
Rounds(s, caller, untilRunning) ==
  Then(Periodic(s), LAMBDA x :
    IF untilRunning /\ AnyThreadRunning(x) THEN {x}
    ELSE IF untilRunning /\ x.sleeping = <<>>
    THEN {Expect(x, FALSE, "deadlock")}
    ELSE LET y == NextBarrier(x)
         IN IF InTime(y) = {} THEN Rounds(y, caller, untilRunning)
            ELSE DoRelease(Leave(y, caller), HostCores))

BarrierRelease(s, caller, untilRunning) ==
  IF s.toRelease = {} THEN Rounds(s, caller, untilRunning)
  ELSE {Expect(s, FALSE, "restarted")}

SignalNot(s) == {s}

Signal(s) == IF IsBarrierReached(s) THEN BarrierRelease(s, None, FALSE) ELSE {s}

-----------------------------------------------------------------------------
(* The thread manager. *)

\* stallThread_async: the hook of the scheduler (which leaves alone who is only
\* unscheduled), then that of the barrier.
StallAsync(s, t, reason) ==
  LET s1 == [s EXCEPT !.st[t] = "stalled", !.why[t] = reason]
      s2 == [s1 EXCEPT !.runnable[t] = FALSE]
      S == IF reason = "unscheduled" THEN {s1}
           ELSE IF s.on[t] = None THEN {s2} ELSE Reschedule(s2, s.on[t])
  IN Then(Then(S, LAMBDA x : ReleaseThread(x, t)), Signal)

StallThreadAndWait(s, t, reason) ==
  LET Advanced(x) == IF AnyThreadRunning(x) \/ x.failed # {} THEN {x}
                     ELSE BarrierRelease(x, None, TRUE)
  IN {[x EXCEPT !.at[t] = None, !.place[t] = "parked"] : x \in Then(StallAsync(s, t, reason), Advanced)}

\* stallThread: while no thread runs, time advances; a thread that was resumed
\* meanwhile does not wait, since its signal was lost.
StallThread(s, t, reason) ==
  LET Advanced(x) == IF AnyThreadRunning(x) \/ x.failed # {} THEN {x}
                     ELSE BarrierRelease(x, None, TRUE)
      Wait(x) == [x EXCEPT !.at[t] = None,
                           !.place[t] = IF x.st[t] = "running" THEN "check" ELSE "parked"]
  IN {Wait(x) : x \in Then(StallAsync(s, t, reason), Advanced)}

FreeCores(s) == {c \in Core : s.running[c] = None}

\* createThread.  The round-robin of threadSetInitialAffinity is abstracted to
\* what it is for: a free core if there is one.
CreateThread(s, t) ==
  {LET s1 == [s EXCEPT !.place[t] = "created", !.st[t] = "initializing", !.aff[t] = c]
   IN IF s.running[c] # None THEN s1
      ELSE [SetCore([s1 EXCEPT !.on[t] = c, !.running[c] = t], t, c)
              EXCEPT !.coreState[c] = "initializing"] :
   c \in IF FreeCores(s) = {} THEN Core ELSE FreeCores(s)}

\* onThreadStart.  A waiter (joinThread may have left one) is only signalled.
OnThreadStart(s, t) ==
  LET S == ScheduleIfFree([Runs(s, t) EXCEPT !.place[t] = "check"], t)
      OnCore(x) == IF x.core[t] = None
                   THEN {[x EXCEPT !.st[t] = "stalled", !.why[t] = "unscheduled"]}
                   ELSE ReleaseThread([x EXCEPT !.coreState[x.core[t]] = "running"], t)
      Started(x) == IF x.waiter[t] = None THEN x
                    ELSE [Signalled(x, x.waiter[t]) EXCEPT !.waiter[t] = None]
  IN {Started(x) : x \in Then(S, OnCore)}

WakeUpWaiter(s, t) ==
  IF s.waiter[t] = None THEN {s}
  ELSE ResumeThread([s EXCEPT !.waiter[t] = None], s.waiter[t])

OnThreadExitQuietly(s, t) ==
  LET Ended(x) == [SetCore([x EXCEPT !.coreState[x.core[t]] = "idle"], t, None)
                     EXCEPT !.runnable[t] = FALSE, !.place[t] = "gone", !.at[t] = None]
      S == WakeUpWaiter([s EXCEPT !.st[t] = "idle"], t)
  IN Then(Then({Ended(x) : x \in S}, LAMBDA x : ReleaseThread(x, t)), Signal)

OnThreadExit(s, t) ==
  LET Ended(x) == [SetCore([x EXCEPT !.coreState[x.core[t]] = "idle"], t, None)
                     EXCEPT !.runnable[t] = FALSE, !.place[t] = "gone", !.at[t] = None]
      Successor(x) == IF x.on[t] = None THEN {x} ELSE Reschedule(x, x.on[t])
      S == WakeUpWaiter([s EXCEPT !.st[t] = "idle"], t)
  IN IF s.core[t] = None \/ s.st[t] # "running" THEN {Expect(s, FALSE, "ended")}
     ELSE Then(Then(Then({Ended(x) : x \in S}, Successor), LAMBDA x : ReleaseThread(x, t)), Signal)

\* BarrierSyncServer::synchronize with a clock past the barrier; a call before it
\* returns at once.
Synchronize(s, t, lag) ==
  LET c == s.at[t]
      s1 == Expect(Expect(s, s.coreState[c] # "idle", "state"), ~s.acquired[c], "twice")
      Entered(x) == [x EXCEPT !.lag[c] = lag, !.acquired[c] = TRUE, !.sleeper[c] = s.holder[c]]
      Release(x) == IF IsBarrierReached(x) THEN BarrierRelease(x, s.holder[c], FALSE) ELSE {x}
      Wait(x) == IF x.acquired[c] THEN [x EXCEPT !.place[t] = "barrier"]
                 ELSE [x EXCEPT !.place[t] = "check", !.at[t] = None]
  IN {Wait(x) : x \in Then({Entered(x) : x \in DoRelease(s1, 1)}, Release)}

-----------------------------------------------------------------------------
(* What a host thread does next.  Each action is one critical section of   *)
(* m_thread_lock.                                                          *)

Empty ==
  [st |-> [t \in Thread |-> "none"], why |-> [t \in Thread |-> "none"],
   waiter |-> [t \in Thread |-> None], core |-> [t \in Thread |-> None],
   holder |-> [c \in Core |-> None], coreState |-> [c \in Core |-> "idle"],
   runnable |-> [t \in Thread |-> FALSE], on |-> [t \in Thread |-> None],
   aff |-> [t \in Thread |-> None], running |-> [c \in Core |-> None],
   acquired |-> [c \in Core |-> FALSE], lag |-> [c \in Core |-> -1],
   sleeper |-> [c \in Core |-> None], toRelease |-> {},
   sleeping |-> <<>>, left |-> [t \in Thread |-> -1], place |-> [t \in Thread |-> "absent"],
   at |-> [t \in Thread |-> None], unblocking |-> [t \in Thread |-> FALSE], failed |-> {}]

Init == sim \in CreateThread(Empty, Main)

In(t, place) == sim.failed = {} /\ sim.place[t] = place

Create(t, new) ==
  /\ In(t, "run") /\ sim.place[new] = "absent"
  /\ sim' \in CreateThread(sim, new)

Start(t) == In(t, "created") /\ sim' \in OnThreadStart(sim, t)

\* Thread::reschedule, after every wait and instruction; then the thread goes on
\* executing, or unblocking.
Check(t) ==
  /\ In(t, "check")
  /\ IF sim.core[t] = None THEN sim' \in StallThread(sim, t, "unscheduled")
     ELSE sim' = [sim EXCEPT !.at[t] = sim.core[t],
                             !.place[t] = IF sim.unblocking[t] THEN "unblock" ELSE "run"]

Sync(t, lag) == In(t, "run") /\ sim' \in Synchronize(sim, t, lag)

\* A futex, mutex, condition or barrier of the application, and who resumes it.
StallSync(t) ==
  /\ In(t, "run") /\ "sync" \in Operation
  /\ sim' \in StallThread(sim, t, "sync")

WakeSync(t, other) ==
  /\ In(t, "run") /\ sim.st[other] = "stalled" /\ sim.why[other] = "sync"
  /\ sim' \in ResumeThread(sim, other)

Sleep(t, quanta) ==
  /\ In(t, "run") /\ "sleep" \in Operation
  /\ sim' \in StallThread([sim EXCEPT !.left[t] = quanta,
                                     !.sleeping = Append(sim.sleeping, t)], t, "sleep")

\* read(), poll(), ... run natively: the thread is stalled, but not in wait().
Block(t) ==
  /\ In(t, "run") /\ "block" \in Operation
  /\ sim' \in {[s EXCEPT !.place[t] = "blocked", !.at[t] = None] : s \in StallAsync(sim, t, "syscall")}

\* TraceThread::unblock: SyscallMdl::runExit resumes the thread and has it
\* rescheduled; then it is resumed once more.
Unblock(t) ==
  /\ In(t, "blocked")
  /\ sim' \in {[s EXCEPT !.place[t] = "check", !.unblocking[t] = TRUE] : s \in ResumeAsync(sim, t)}

UnblockAgain(t) ==
  /\ In(t, "unblock")
  /\ sim' \in {[s EXCEPT !.place[t] = IF s.core[t] = None THEN "check" ELSE "run",
                         !.at[t] = s.core[t], !.unblocking[t] = FALSE] : s \in ResumeAsync(sim, t)}

\* joinThread.  A thread is joined once.
Join(t, other) ==
  /\ In(t, "run") /\ "join" \in Operation
  /\ sim.st[other] = "idle" \/ sim.st[other] \in {"running", "stalled"} \cup
       (IF "join early" \in Operation THEN {"initializing"} ELSE {})
  /\ t # other /\ sim.waiter[other] = None
  /\ IF sim.st[other] = "idle" THEN UNCHANGED sim
     ELSE sim' \in StallThread([sim EXCEPT !.waiter[other] = t], t, "join")

\* threadYield: the quantum of the core is over; a thread that may not return to
\* it moves if its new core is free.
Yielded(s, t) ==
  IF s.on[t] = None THEN {s}
  ELSE Then(Reschedule(s, s.on[t]),
            LAMBDA x : IF x.aff[t] = s.on[t] THEN {x} ELSE ScheduleIfFree(x, t))

SchedYield(t) ==
  /\ In(t, "run") /\ "yield" \in Operation
  /\ sim' \in {[s EXCEPT !.place[t] = "check", !.at[t] = None] : s \in Yielded(sim, t)}

\* threadSetAffinity; the caller also yields.
OneCoreMasks(s, t, c) == [s EXCEPT !.aff[t] = c]

SetAffinity(t, other, c) ==
  /\ In(t, "run") /\ "affinity" \in Operation
  /\ sim.place[other] \notin {"absent", "gone"} /\ sim.aff[other] # c
  /\ LET s == OneCoreMasks(sim, other, c)
         S == IF other = t THEN Yielded(s, t)
              ELSE IF s.runnable[other] /\ s.on[other] = None THEN ScheduleIfFree(s, other)
              ELSE {s}
     IN sim' \in {[x EXCEPT !.place[t] = "check", !.at[t] = None] : x \in S}

\* The trace of a thread ends, also in the middle of a system call.
Exit(t) ==
  /\ In(t, "run") \/ (In(t, "blocked") /\ "exit" \in Operation)
  /\ sim' \in OnThreadExit(sim, t)

Next ==
  \E t \in Thread :
    \/ Start(t) \/ Check(t) \/ StallSync(t) \/ Block(t) \/ Unblock(t) \/ UnblockAgain(t)
    \/ SchedYield(t) \/ Exit(t)
    \/ \E lag \in 0 .. MaxLag : Sync(t, lag)
    \/ \E quanta \in 0 .. MaxSleep : Sleep(t, quanta)
    \/ \E other \in Thread :
         \/ Create(t, other) \/ WakeSync(t, other) \/ Join(t, other)
         \/ \E c \in Core : SetAffinity(t, other, c)

\* The host schedules every runnable host thread.  A thread that goes on executing
\* reaches the next barrier, since every instruction takes time: that is strong
\* fairness, for it may yield and be moved in between.  No fairness is assumed of
\* what the application or the kernel may never do (end a read, wake a waiter).
Fairness ==
  \A t \in Thread :
    /\ WF_sim(Start(t) \/ Check(t) \/ UnblockAgain(t))
    /\ SF_sim(\E lag \in 0 .. MaxLag : Sync(t, lag))

Safety == Init /\ [][Next]_sim

Spec == Safety /\ Fairness

-----------------------------------------------------------------------------
(* Properties. *)

\* No assertion of the barrier, of Thread::setCore or of onThreadExit fails:
\* barrier_sync_server.cc:75, 76, 165, 249, thread.cc:44, thread_manager.cc:156, 160.
\* (That of line 279, the application has deadlocked, is the application's.)
AssertionsHold ==
  /\ sim.failed \subseteq {"deadlock"}
  /\ \A c \in Core : sim.coreState[c] = "running" => sim.holder[c] # None

\* A thread that executes instructions has the core it executes on to itself, in
\* the eyes of the thread, the core and the scheduler alike: no other thread's
\* handler ever takes it away ("Threads will re-check their core_id on return from
\* barrier, or on wakeup", scheduler_dynamic.cc:66).
ExecutesOnItsCore ==
  \A t \in Thread : sim.place[t] = "run" =>
    LET c == sim.at[t] IN
    /\ c # None /\ sim.core[t] = c /\ sim.holder[c] = t
    /\ sim.running[c] = t /\ sim.on[t] = c
    /\ sim.st[t] = "running" /\ sim.coreState[c] = "running"

\* A thread in Thread::wait is stalled, and what it waits for is still to come: no
\* resume is lost, however many handlers run before it waits.
EveryStallHasAWaker ==
  \A t \in Thread : sim.place[t] = "parked" =>
    /\ sim.st[t] = "stalled"
    /\ sim.why[t] = "unscheduled" => sim.runnable[t]
    /\ sim.why[t] = "sleep" => sim.left[t] >= 0
    /\ sim.why[t] = "join" => \E u \in Thread : sim.waiter[u] = t /\ sim.st[u] # "idle"

\* A thread asleep in the barrier is alone on the condition of its core and still
\* counted there, or on the list to be released, also after it lost its core.
WaitersWillBeReleased ==
  \A t \in Thread : sim.place[t] = "barrier" =>
    LET c == sim.at[t] IN
    /\ Waiters(sim, c) = {t}
    /\ IF sim.acquired[c] THEN sim.sleeper[c] = t ELSE c \in sim.toRelease

\* Between two handlers the scheduler and the thread manager have the same thread
\* on each core, and only a core in the barrier has a clock past it (an old clock
\* would let the barrier open without the thread that is on the core now).
CoresAgree ==
  /\ \A t \in Thread : sim.core[t] = sim.on[t]
  /\ \A c \in Core :
       /\ sim.holder[c] = sim.running[c]
       /\ sim.holder[c] # None => sim.core[sim.holder[c]] = c
       /\ sim.lag[c] >= 0 => sim.acquired[c]

\* Time does not pass a running core: no step lets a core out of the barrier while
\* another thread is executing, or about to, on a core.
TimeWaitsForRunning ==
  [][\A c \in Core, t \in Thread :
       /\ sim.acquired[c] /\ ~sim'.acquired[c]
       /\ sim.place[t] \in {"run", "check", "unblock"} /\ sim'.place[t] = sim.place[t]
       => sim.core[t] = None]_sim

\* In the barrier, asleep, or waiting for a core that is free (periodic() took the
\* affinity of a thread into account after that core's turn).
WaitsForTime(t) ==
  \/ sim.place[t] = "barrier"
  \/ sim.left[t] >= 0
  \/ sim.place[t] = "parked" /\ sim.runnable[t] /\ sim.running[sim.aff[t]] = None

\* Whoever waits for simulated time to pass goes on, as long as there is a thread
\* that runs and drives the barrier: rounds, the list to be released, sleepers woken
\* one per round and the scheduler's turns do not wait for each other.
TimeBringsProgress ==
  \A t \in Thread : WaitsForTime(t) ~> (~WaitsForTime(t) \/ ~AnyThreadRunning(sim))
=============================================================================
