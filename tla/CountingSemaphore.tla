-------------------------- MODULE CountingSemaphore --------------------------
(***************************************************************************)
(* What the users of Semaphore expect: a permit per signal, given to one   *)
(* of the threads that ask for it, and none left unused for ever while     *)
(* somebody waits.                                                         *)
(***************************************************************************)
EXTENDS Naturals

CONSTANTS Thread, Initial

VARIABLES permits,     \* permits not yet taken
          waiting      \* threads inside wait()

csVars == <<permits, waiting>>

Init == permits = Initial /\ waiting = {}

Ask(t) == /\ t \notin waiting
          /\ waiting' = waiting \cup {t}
          /\ UNCHANGED permits

Take(t) == /\ t \in waiting
           /\ permits > 0
           /\ permits' = permits - 1
           /\ waiting' = waiting \ {t}

Give == permits' = permits + 1 /\ UNCHANGED waiting

Next == Give \/ \E t \in Thread : Ask(t) \/ Take(t)

\* Some waiting thread takes a permit when there is one.
Spec == Init /\ [][Next]_csVars /\ WF_csVars(\E t \in Thread : Take(t))
=============================================================================
