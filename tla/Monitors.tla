------------------------------ MODULE Monitors ------------------------------
(***************************************************************************)
(* What an application expects of mutexes, condition variables and a       *)
(* barrier: who holds a mutex, and what each thread waits for.  No queues, *)
(* no scheduling: any waiting thread may be next.                          *)
(***************************************************************************)
EXTENDS Naturals, FiniteSets

CONSTANTS Client, Mutex, Cond, Parties, NoOwner

VARIABLES holder,      \* who holds each mutex
          waits        \* what each thread waits for

monVars == <<holder, waits>>

Nothing == <<"nothing">>
ForMutex(m) == <<"mutex", m>>
ForSignal(c, m) == <<"signal", c, m>>
ForOthers == <<"others">>

Waiting(w, x) == {t \in Client : w[t] = x}

Init == holder = [m \in Mutex |-> NoOwner] /\ waits = [t \in Client |-> Nothing]

\* A mutex becomes free and is given to one of those that wait for it.
GiveAway(m, w) ==
  IF Waiting(w, ForMutex(m)) = {}
  THEN holder' = [holder EXCEPT ![m] = NoOwner] /\ waits' = w
  ELSE \E u \in Waiting(w, ForMutex(m)) :
         holder' = [holder EXCEPT ![m] = u] /\ waits' = [w EXCEPT ![u] = Nothing]

Lock(t, m) ==
  /\ waits[t] = Nothing
  /\ IF holder[m] = NoOwner
     THEN holder' = [holder EXCEPT ![m] = t] /\ UNCHANGED waits
     ELSE waits' = [waits EXCEPT ![t] = ForMutex(m)] /\ UNCHANGED holder

Unlock(t, m) == waits[t] = Nothing /\ holder[m] = t /\ GiveAway(m, waits)

\* The mutex is free for others as soon as the thread waits for a signal.
Wait(t, c, m) ==
  /\ waits[t] = Nothing /\ holder[m] = t
  /\ GiveAway(m, [waits EXCEPT ![t] = ForSignal(c, m)])

\* Who is signalled has to get the mutex back before it goes on.
Signalled(S, c, m) ==
  /\ S # {}
  /\ LET w == [t \in Client |-> IF t \in S THEN ForMutex(m) ELSE waits[t]]
     IN IF holder[m] = NoOwner THEN GiveAway(m, w) ELSE waits' = w /\ UNCHANGED holder

Signal(c, m) == \E t \in Waiting(waits, ForSignal(c, m)) : Signalled({t}, c, m)

Broadcast(c, m) == Signalled(Waiting(waits, ForSignal(c, m)), c, m)

Arrive(t) ==
  /\ waits[t] = Nothing
  /\ waits' = IF Cardinality(Waiting(waits, ForOthers)) = Parties - 1
              THEN [u \in Client |-> IF waits[u] = ForOthers THEN Nothing ELSE waits[u]]
              ELSE [waits EXCEPT ![t] = ForOthers]
  /\ UNCHANGED holder

Next ==
  \/ \E t \in Client : Arrive(t)
  \/ \E m \in Mutex :
       \/ \E t \in Client : Lock(t, m) \/ Unlock(t, m)
       \/ \E c \in Cond : Signal(c, m) \/ Broadcast(c, m) \/ \E t \in Client : Wait(t, c, m)

Spec == Init /\ [][Next]_monVars
=============================================================================
