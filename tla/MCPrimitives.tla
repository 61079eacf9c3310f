---------------------------- MODULE MCPrimitives ----------------------------
(***************************************************************************)
(* One instance of each primitive the host threads synchronise with: the   *)
(* lock of a cache set, a semaphore and the mailbox of a node.  They share *)
(* nothing, so a behaviour exercises one of them; `primitive` says which.  *)
(***************************************************************************)
EXTENDS SetLock, Semaphore, Mailbox

VARIABLE primitive

\* Where the mailbox is not the subject its receiver sleeps.
MCInit ==
  /\ primitive \in {"setlock", "semaphore", "mailbox"}
  /\ Init /\ SemInit
  /\ queue = <<>> /\ received = <<>> /\ nodeLock = {} /\ condLock = {} /\ condFutx = 0
  /\ actor = [a \in Actor |-> IF primitive = "mailbox" \/ a \notin Receiver
                              THEN "out" ELSE "asleep"]
  /\ sent = [s \in Sender |-> 0]

MCNext ==
  /\ \/ primitive = "setlock" /\ Next /\ UNCHANGED <<semVars, mailVars>>
     \/ primitive = "semaphore" /\ SemNext /\ UNCHANGED <<vars, mailVars>>
     \/ primitive = "mailbox" /\ MailNext /\ UNCHANGED <<vars, semVars>>
  /\ UNCHANGED primitive

\* Threads outside a semaphore and sleeping receivers owe no step, so the
\* fairness of a primitive holds of the behaviours of the others.
MCSpec == /\ MCInit /\ [][MCNext]_<<primitive, vars, semVars, mailVars>>
          /\ Fairness /\ MailFairness
=============================================================================
