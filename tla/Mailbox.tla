------------------------------- MODULE Mailbox -------------------------------
(***************************************************************************)
(* SmTransport::SmNode (transport/smtransport.cc): the mailbox every       *)
(* message between memory managers goes through, with its lock m_lock and  *)
(* its ConditionVariable m_cond (misc/cond.cc) at the level of futex       *)
(* calls.  A sender pushes under the lock of the node but broadcasts after *)
(* it has released it, so pushes, the store to m_futx, FUTEX_WAKE and the  *)
(* steps of the receiver interleave.                                       *)
(***************************************************************************)
EXTENDS Integers, Sequences

CONSTANTS Sender,      \* threads that send to this node
          Receiver,    \* threads that receive from it (one network thread)
          MaxSends     \* bound: messages per sender

VARIABLES queue,       \* SmNode::m_queue
          received,    \* what recv() returned, in order (history)
          nodeLock,    \* who holds SmNode::m_lock between two steps: {} or {r}
          condLock,    \* who holds ConditionVariable::m_lock: {} or {s}
          condFutx,    \* ConditionVariable::m_futx
          actor,       \* where each thread is
          sent         \* messages sent by each sender (bounds the model)

mailVars == <<queue, received, nodeLock, condLock, condFutx, actor, sent>>

Actor == Sender \cup Receiver

\* "out": not in the mailbox.  recv(): "looking" (about to take m_lock and look
\* at the queue), "reset" (holds it, in ConditionVariable::wait), "unlocked"
\* (before FUTEX_WAIT), "asleep" (in the kernel), "interrupted" (FUTEX_WAIT
\* failed with EINTR), "awake" (about to take m_lock again).  send(): "pushed"
\* (before the broadcast), "stored" (m_futx is 1, before FUTEX_WAKE).
Place == {"out", "looking", "reset", "unlocked", "asleep", "interrupted", "awake",
          "pushed", "stored"}

Message == Sender \X (1 .. MaxSends)

MailTypeOK ==
  /\ queue \in Seq(Message)
  /\ received \in Seq(Message)
  /\ nodeLock \in SUBSET Receiver
  /\ condLock \in SUBSET Sender
  /\ condFutx \in {0, 1}
  /\ actor \in [Actor -> Place]
  /\ sent \in [Sender -> 0 .. MaxSends]

MailInit ==
  /\ queue = <<>>
  /\ received = <<>>
  /\ nodeLock = {}
  /\ condLock = {}
  /\ condFutx = 0
  /\ actor = [a \in Actor |-> "out"]
  /\ sent = [s \in Sender |-> 0]

Moves(a, from, to) == actor[a] = from /\ actor' = [actor EXCEPT ![a] = to]

\* send(): push under m_lock, which is free again before the broadcast.
Push(s) ==
  /\ Moves(s, "out", "pushed")
  /\ nodeLock = {}
  /\ sent[s] < MaxSends
  /\ sent' = [sent EXCEPT ![s] = sent[s] + 1]
  /\ queue' = Append(queue, <<s, sent[s] + 1>>)
  /\ UNCHANGED <<received, nodeLock, condLock, condFutx>>

BroadcastWithoutStore(s) ==
  /\ Moves(s, "pushed", "stored")
  /\ condLock = {}
  /\ condLock' = {s}
  /\ UNCHANGED <<queue, received, nodeLock, condFutx, sent>>

\* broadcast() up to its FUTEX_WAKE.
BroadcastStore(s) ==
  /\ Moves(s, "pushed", "stored")
  /\ condLock = {}
  /\ condLock' = {s}
  /\ condFutx' = 1
  /\ UNCHANGED <<queue, received, nodeLock, sent>>

\* FUTEX_WAKE of all sleepers, and the end of broadcast().
BroadcastWake(s) ==
  /\ actor[s] = "stored"
  /\ actor' = [a \in Actor |-> IF a = s THEN "out"
                               ELSE IF actor[a] = "asleep" THEN "awake" ELSE actor[a]]
  /\ condLock' = {}
  /\ UNCHANGED <<queue, received, nodeLock, condFutx, sent>>

CallRecv(r) ==
  /\ Moves(r, "out", "looking")
  /\ UNCHANGED <<queue, received, nodeLock, condLock, condFutx, sent>>

LookAndUnlock(r, from) ==
  /\ nodeLock = {}
  /\ \/ /\ queue # <<>>
        /\ Moves(r, from, "out")
        /\ received' = Append(received, Head(queue))
        /\ queue' = Tail(queue)
     \/ /\ queue = <<>>
        /\ Moves(r, from, "reset")
        /\ UNCHANGED <<queue, received>>
  /\ UNCHANGED <<nodeLock, condLock, condFutx, sent>>

\* recv() with m_lock, for the first time or back from the condition variable:
\* take the oldest message and leave, or keep m_lock and wait.
Look(r, from) ==
  /\ nodeLock = {}
  /\ \/ /\ queue # <<>>
        /\ Moves(r, from, "out")
        /\ received' = Append(received, Head(queue))
        /\ queue' = Tail(queue)
        /\ UNCHANGED nodeLock
     \/ /\ queue = <<>>
        /\ Moves(r, from, "reset")
        /\ nodeLock' = {r}
        /\ UNCHANGED <<queue, received>>
  /\ UNCHANGED <<condLock, condFutx, sent>>

\* wait(): m_futx is reset under the condition variable's own lock, then the
\* caller's lock is given up.
ResetFutex(r) ==
  /\ Moves(r, "reset", "unlocked")
  /\ condLock = {}
  /\ condFutx' = 0
  /\ nodeLock' = {}
  /\ UNCHANGED <<queue, received, condLock, sent>>

\* The kernel compares m_futx with 0 and puts the thread to sleep in one step.
CondFutexWait(r) ==
  /\ Moves(r, "unlocked", IF condFutx = 0 THEN "asleep" ELSE "awake")
  /\ UNCHANGED <<queue, received, nodeLock, condLock, condFutx, sent>>

\* A signal of the operating system ends FUTEX_WAIT with the error EINTR.
InterruptWait(r) ==
  /\ Moves(r, "asleep", "interrupted")
  /\ UNCHANGED <<queue, received, nodeLock, condLock, condFutx, sent>>

EINTR == 4

\* What the wrapper syscall() returns for an error: -1, the number is in errno.
SyscallResult(err) == -1

\* The loop of wait() after an interrupt: while (res == -EINTR).
AfterInterrupt(r) ==
  /\ Moves(r, "interrupted", IF SyscallResult(EINTR) = -EINTR THEN "unlocked" ELSE "awake")
  /\ UNCHANGED <<queue, received, nodeLock, condLock, condFutx, sent>>

Receive(r) == \/ CallRecv(r) \/ Look(r, "looking") \/ ResetFutex(r)
              \/ CondFutexWait(r) \/ AfterInterrupt(r) \/ Look(r, "awake")

Send(s) == Push(s) \/ BroadcastStore(s) \/ BroadcastWake(s)

MailNext == \/ \E s \in Sender : Send(s)
            \/ \E r \in Receiver : Receive(r) \/ InterruptWait(r)

\* A network thread always comes back for the next message (Network::
\* netPullFromTransport) and gets the lock it asks for; a sender finishes its
\* broadcast.  Nobody has to send, and no interrupt has to happen.
MailFairness ==
  /\ \A r \in Receiver : /\ WF_mailVars(CallRecv(r)) /\ SF_mailVars(Look(r, "looking"))
                         /\ SF_mailVars(ResetFutex(r)) /\ WF_mailVars(CondFutexWait(r))
                         /\ WF_mailVars(AfterInterrupt(r)) /\ SF_mailVars(Look(r, "awake"))
  /\ \A s \in Sender : SF_mailVars(BroadcastStore(s)) /\ WF_mailVars(BroadcastWake(s))

MailSpec == MailInit /\ [][MailNext]_mailVars /\ MailFairness
-----------------------------------------------------------------------------
\* No message waits for a sleeping receiver: while one sleeps, or is about to,
\* beside a message, some sender still has to wake it (smtransport.cc send and
\* recv, which broadcast outside the lock the queue is guarded by).
NoMessageStuck ==
  queue # <<>> =>
    /\ \A r \in Receiver : actor[r] = "asleep" =>
         \E s \in Sender : actor[s] \in {"pushed", "stored"}
    /\ \A r \in Receiver : actor[r] = "unlocked" /\ condFutx = 0 =>
         \E s \in Sender : actor[s] = "pushed"

\* The mailbox is the queue its users expect, up to liveness.
MQ == INSTANCE MessageQueue WITH inbox <- queue, taken <- received
ImplementsMessageQueue == MQ!Spec
=============================================================================
