----------------------------- MODULE MCMachine -----------------------------
(***************************************************************************)
(* What the simulated machine offers to its application: mutexes,          *)
(* conditions and barriers of three threads; the translations of a core;   *)
(* one set of a cache.  They share nothing, so a behaviour exercises one   *)
(* of them; `subject` says which.                                          *)
(***************************************************************************)
EXTENDS SyncServer, Tlb, CacheSet

CONSTANTS a, b, d, e,     \* three threads, a condition
          Subjects

MCClients == {a, b, d}
MCConds == {e}

VARIABLE subject

MCInit == subject \in Subjects /\ SyncInit /\ TlbInit /\ CacheSetInit

MCNext ==
  /\ \/ subject = "monitors" /\ SyncNext /\ UNCHANGED <<tlbVars, setVars>>
     \/ subject = "translations" /\ TlbNext /\ UNCHANGED <<syncVars, setVars>>
     \/ subject = "cache set" /\ CacheSetNext /\ UNCHANGED <<syncVars, tlbVars>>
  /\ UNCHANGED subject

\* The values of all three, among them that the ages of a set are a permutation, so
\* that one way is the oldest, and that no level of the TLB holds more than it may.
MachineTypeOK == SyncTypeOK /\ TlbTypeOK /\ CacheSetTypeOK

\* Threads outside a call owe no step: the fairness holds where they are not the
\* subject.
MCSpec == MCInit /\ [][MCNext]_<<subject, syncVars, tlbVars, setVars>> /\ SyncFairness
=============================================================================
