------------------------------- MODULE MCData -------------------------------
(***************************************************************************)
(* Where the last value written to a line is: in the protocol between      *)
(* last-level caches (Coherence) and in a stack of caches above one of     *)
(* them (CacheStack).  A behaviour is about one of the two; `subject` says *)
(* which.                                                                  *)
(***************************************************************************)
EXTENDS MCCoherence, CacheStack, TLC

CONSTANTS l1a, l1b, l2a, l2b, l3,   \* two cores with private caches, a shared L3
          line1, line2, line3,      \* lines of the stack
          Subjects

MCCaches == {l1a, l1b, l2a, l2b, l3}
MCLower == (l1a :> l2a) @@ (l1b :> l2b) @@ (l2a :> l3) @@ (l2b :> l3)
MCWays == [c \in MCCaches |-> IF c \in {l1a, l1b} THEN 1 ELSE 2]

\* Safety only, and no definition tells one line of the stack from another, nor the
\* caches of one core from those of the other: updates of siblings commute, for at
\* most one of them writes to the level below.
CoreSwap == (l1a :> l1b) @@ (l1b :> l1a) @@ (l2a :> l2b) @@ (l2b :> l2a)
Symmetry == Permutations(StackLine) \cup {CoreSwap}

VARIABLE subject

MCInit == subject \in Subjects /\ Init /\ StackInit

MCNext ==
  /\ \/ subject = "protocol" /\ Next /\ UNCHANGED stackVars
     \/ subject = "stack" /\ StackNext /\ UNCHANGED vars
  /\ UNCHANGED subject

MCSpec == MCInit /\ [][MCNext]_<<subject, vars, stackVars>>
=============================================================================
