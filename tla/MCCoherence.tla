---------------------------- MODULE MCCoherence ----------------------------
(* Values of the constants of Coherence for TLC. *)
EXTENDS Coherence

CONSTANTS x, y, z      \* lines

\* Core 0 has the directory and the DRAM of every line, as in the default
\* configuration, where directories sit at the DRAM controllers.
HomeAtZero == [a \in Addr |-> 0]

\* Every thread has a last-level cache of its own, or all but thread 0 share
\* the one of core 1.
PrivateCache == [t \in Thread |-> t]
SharedCache == [t \in Thread |-> IF t = 0 THEN 0 ELSE 1]

AnyAccess == [thread : Thread, addr : Addr, exclusive : BOOLEAN]

\* Two threads that share x, and write a line of their own each.
Reads(t, a) == [thread |-> t, addr |-> a, exclusive |-> FALSE]
Writes(t, a) == [thread |-> t, addr |-> a, exclusive |-> TRUE]
ThreeLines == {Reads(0, x), Writes(0, x), Writes(0, y), Reads(1, x), Writes(1, z)}
=============================================================================
