------------------------------ MODULE MCFutex ------------------------------
(***************************************************************************)
(* Three threads of an application and two words: enough for a waiter that *)
(* is requeued behind another one while a third thread changes the words.  *)
(***************************************************************************)
EXTENDS SimFutex

CONSTANTS p, q, r, f, g

MCProgram == {p, q, r}
MCFutexes == {f, g}
=============================================================================
