---------------------------- MODULE MessageQueue ----------------------------
(***************************************************************************)
(* What the senders and the network thread of a core expect of its         *)
(* mailbox: messages come out once each, in the order they went in, and    *)
(* every message comes out.                                                *)
(***************************************************************************)
EXTENDS Sequences

CONSTANT Message

VARIABLES inbox,       \* messages not yet received, oldest first
          taken        \* messages received so far, in order

mqVars == <<inbox, taken>>

Init == inbox = <<>> /\ taken = <<>>

Send(m) == inbox' = Append(inbox, m) /\ UNCHANGED taken

Receive == /\ inbox # <<>>
           /\ taken' = Append(taken, Head(inbox))
           /\ inbox' = Tail(inbox)

Next == Receive \/ \E m \in Message : Send(m)

Spec == Init /\ [][Next]_mqVars /\ WF_mqVars(Receive)
=============================================================================
