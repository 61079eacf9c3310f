----------------------------- MODULE RecencyList -----------------------------
(***************************************************************************)
(* What a set of a cache promises: its lines in the order of their last    *)
(* use, latest first.  A line that is pinned stays.  When the set is full  *)
(* the line unused for longest makes room, or, with queries, the first of  *)
(* the oldest Attempts that the caches below do not have; the ones they do *)
(* have count as used.                                                     *)
(***************************************************************************)
EXTENDS Naturals, Sequences, SequencesExt

CONSTANTS Size, Line, Attempts

VARIABLES list, pinned

listVars == <<list, pinned>>

Without(S) == SelectSeq(list, LAMBDA t : t \notin S)

Init == list = <<>> /\ pinned = {}

Use(t) == t \in ToSet(list) /\ list' = <<t>> \o Without({t}) /\ UNCHANGED pinned

Add(t, below) ==
  /\ t \notin ToSet(list)
  /\ IF Len(list) < Size
     THEN list' = <<t>> \o list
     ELSE LET oldest == Reverse(Without(pinned))
              asked(k) == k < Attempts /\ \A i \in 1 .. k : oldest[i] \in below
              k == CHOOSE n \in 0 .. Attempts : asked(n) /\ ~asked(n + 1)
              spared == SubSeq(oldest, 1, k)
          IN list' = <<t>> \o Reverse(spared) \o Without(ToSet(SubSeq(oldest, 1, k + 1)))
  /\ UNCHANGED pinned

Drop(t) == list' = Without({t}) /\ pinned' = pinned \ {t}

Pin(t) == t \in ToSet(list) /\ pinned' = pinned \cup {t} /\ UNCHANGED list
Unpin(t) == t \in pinned /\ pinned' = pinned \ {t} /\ UNCHANGED list

Next == \E t \in Line : \/ Use(t) \/ Drop(t) \/ Pin(t) \/ Unpin(t)
                        \/ \E below \in SUBSET Line : Add(t, below)

Spec == Init /\ [][Next]_listVars
=============================================================================
