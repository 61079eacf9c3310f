------------------------ MODULE SharedExclusiveLock ------------------------
(***************************************************************************)
(* What the cache controllers expect of the lock that guards one cache     *)
(* set ("Lock design" comment, cache_cntlr.cc): first-level transactions   *)
(* of different cores run together, a transaction on the whole stack runs  *)
(* alone, an upgrade gives up the shared access before it asks for the     *)
(* exclusive one, and a thread may pass its exclusive access on to another.*)
(***************************************************************************)
CONSTANTS Sharer,      \* the cores whose first-level cache the lock covers
          Thread       \* every thread that may take the lock

CONSTANT NoThread

VARIABLES readers,     \* threads inside a first-level transaction
          writer       \* the thread that owns the complete stack, or NoThread

rwVars == <<readers, writer>>

Init == readers = {} /\ writer = NoThread

BeginRead(c) == /\ writer = NoThread
                /\ c \notin readers
                /\ readers' = readers \cup {c}
                /\ UNCHANGED writer

EndRead(c) == /\ c \in readers
              /\ readers' = readers \ {c}
              /\ UNCHANGED writer

BeginWrite(t) == /\ writer = NoThread
                 /\ readers = {}
                 /\ writer' = t
                 /\ UNCHANGED readers

EndWrite(t) == /\ writer = t
               /\ writer' = NoThread
               /\ UNCHANGED readers

Downgrade(c) == /\ writer = c
                /\ writer' = NoThread
                /\ readers' = {c}

Pass(t, u) == /\ writer = t
              /\ writer' = u
              /\ UNCHANGED readers

Next == \/ \E c \in Sharer : BeginRead(c) \/ EndRead(c) \/ Downgrade(c)
        \/ \E t \in Thread : BeginWrite(t) \/ EndWrite(t)
        \/ \E t, u \in Thread : Pass(t, u)

Spec == Init /\ [][Next]_rwVars
=============================================================================
