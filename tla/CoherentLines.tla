--------------------------- MODULE CoherentLines ---------------------------
(***************************************************************************)
(* What cache coherence promises the program, without messages: caches     *)
(* hold permissions on lines, one to write or several to read, and get     *)
(* them only for an access that waits for one; an access that waits is     *)
(* over only when the cache of its thread has the permission it needs.     *)
(***************************************************************************)
CONSTANTS Cache, Line, Thread, CacheOf

VARIABLES perm,      \* perm[c][l]: what cache c may do with line l
          pending    \* accesses that wait

vars == <<perm, pending>>

Permission == {"none", "read", "write"}
Pending == [thread : Thread, line : Line, exclusive : BOOLEAN]

Weaker == {<<"none", "read">>, <<"none", "write">>, <<"read", "write">>}

Suffices(p, exclusive) == IF exclusive THEN p = "write" ELSE p # "none"

Init == /\ perm = [c \in Cache |-> [l \in Line |-> "none"]]
        /\ pending = {}

\* A thread waits for one access at a time.
Ask(r) == /\ \A q \in pending : q.thread # r.thread
          /\ pending' = pending \cup {r}
          /\ UNCHANGED perm

Grant(c, l, p) ==
  /\ <<perm[c][l], p>> \in Weaker
  /\ \E r \in pending : CacheOf[r.thread] = c /\ r.line = l
  /\ \A k \in Cache \ {c} : perm[k][l] \in IF p = "read" THEN {"none", "read"} ELSE {"none"}
  /\ perm' = [perm EXCEPT ![c][l] = p]
  /\ UNCHANGED pending

\* Another cache wants the line, or this one has no room for it.
Yield(c, l, p) ==
  /\ <<p, perm[c][l]>> \in Weaker
  /\ perm' = [perm EXCEPT ![c][l] = p]
  /\ UNCHANGED pending

Finish(r) == /\ Suffices(perm[CacheOf[r.thread]][r.line], r.exclusive)
             /\ pending' = pending \ {r}
             /\ UNCHANGED perm

Next == \/ \E r \in Pending : Ask(r)
        \/ \E r \in pending : Finish(r)
        \/ \E c \in Cache, l \in Line, p \in Permission : Grant(c, l, p) \/ Yield(c, l, p)

Spec == Init /\ [][Next]_vars
=============================================================================
