----------------------------- MODULE CacheStack -----------------------------
(***************************************************************************)
(* The caches between the cores and the directory: first-level caches,     *)
(* each of one thread, and the levels below them down to the last one,     *)
(* which they share (parametric_dram_directory_msi/cache_cntlr.cc).  The   *)
(* lines are those of one set of the first level, so one lock guards them  *)
(* (SetLock): a hit takes it shared; a miss gives it up to take the whole  *)
(* stack, which makes what follows one step.  Of the directory there are   *)
(* the messages it may send (Coherence).  The caches are write-back.       *)
(***************************************************************************)
EXTENDS Naturals, FiniteSets, FiniteSetsExt, SequencesExt

CONSTANTS StackCache,   \* all caches of the stack
          Lower,        \* the next level of each but the last: m_next_cache_cntlr
          LastLevel,
          Associativity,  \* the ways each cache has for these lines
          StackLine,
          NoLine

Level1 == StackCache \ {Lower[c] : c \in DOMAIN Lower}

ASSUME StackAssumption ==
  /\ LastLevel \in StackCache \ Level1 /\ Lower \in [StackCache \ {LastLevel} -> StackCache]
  /\ Associativity \in [StackCache -> Nat \ {0}] /\ NoLine \notin StackLine

VARIABLES stack,      \* the caches, see StackTypeOK
          missing,    \* m_directory_waiters: per line, who waits and whether to write
          request,    \* the request to the directory under way for a line
          user,       \* what the user thread of a first-level cache does
          server      \* what the network thread of the last level does

stackVars == <<stack, missing, request, user, server>>

Op == {"READ", "WRITE", "READ_EX"}     \* READ_EX: the first half of an atomic pair (LOCK)
LineState == {"INVALID", "SHARED", "SHARED_UPGRADING", "EXCLUSIVE", "MODIFIED"}
Idle == [at |-> "idle", addr |-> NoLine, op |-> "READ"]

\* stack.data tells a copy that holds the last write from one that does not,
\* stack.outside whether the directory's side has it, stack.evicting whose buffer takes
\* write-backs (none between steps), stack.failed whether an assertion of the code did.
StackTypeOK ==
  /\ stack \in [state : [StackCache -> [StackLine -> LineState]],
                data : [StackCache -> [StackLine -> {"none", "current", "stale"}]],
                outside : [StackLine -> {"current", "stale"}],
                evicting : {{}}, failed : BOOLEAN]
  /\ \A c \in StackCache, a \in StackLine :
       stack.data[c][a] = "none" <=> stack.state[c][a] = "INVALID"
  /\ request \in [StackLine -> {"none", "SH_REQ", "EX_REQ", "UPGRADE_REQ"}]
  /\ user \in [Level1 -> [at : {"idle", "missed", "waiting", "locked"},
                          addr : StackLine \cup {NoLine}, op : Op]]
  /\ server \in [at : {"recv", "serve", "dequeue"}, addr : StackLine \cup {NoLine}]
  /\ \A a \in StackLine : \A i \in DOMAIN missing[a] : missing[a][i] \in Level1

StackInit ==
  /\ stack = [state |-> [c \in StackCache |-> [a \in StackLine |-> "INVALID"]],
              data |-> [c \in StackCache |-> [a \in StackLine |-> "none"]],
              outside |-> [a \in StackLine |-> "current"],
              evicting |-> {}, failed |-> FALSE]
  /\ missing = [a \in StackLine |-> <<>>]
  /\ request = [a \in StackLine |-> "none"]
  /\ user = [l \in Level1 |-> Idle]
  /\ server = [at |-> "recv", addr |-> NoLine]
-----------------------------------------------------------------------------
(* Operations on the caches: from one value of stack to another *)

Permissible(s, c, a, op) ==
  IF op = "READ" THEN s.state[c][a] \in {"SHARED", "EXCLUSIVE", "MODIFIED"}
                 ELSE s.state[c][a] = "MODIFIED"

Expect(s, ok) == [s EXCEPT !.failed = @ \/ ~ok]
Put(s, c, a, state, data) == [s EXCEPT !.state[c][a] = state, !.data[c][a] = data]
Clear(s, c, a) == Put(s, c, a, "INVALID", "none")

\* Path[c]: c and the levels below it, downwards.
Path[c \in StackCache] == IF c = LastLevel THEN <<c>> ELSE <<c>> \o Path[Lower[c]]
\* The levels above c and c, each after those above it.
Upper == [c \in StackCache |-> SetToSortSeq({p \in StackCache : c \in ToSet(Path[p])},
                                            LAMBDA p, q : Len(Path[p]) > Len(Path[q]))]
Siblings(c, p) == {q \in DOMAIN Lower : Lower[q] = c /\ q # p}

\* writeCacheBlock: into the line, or into the buffer of the line that is being
\* evicted (here the line itself, until it goes).
WriteBlock(s, c, a, data) ==
  Expect([s EXCEPT !.data[c][a] = data],
         <<c, a>> \in s.evicting \/ s.state[c][a] = "MODIFIED")

\* What updateCacheBlock does at one level; with out the last level hands its data
\* to the directory.
UpdateHere(s, c, a, new, out) ==
  LET old == s.state[c][a]
      saved == IF old = "MODIFIED" /\ c # LastLevel
               THEN WriteBlock(s, Lower[c], a, s.data[c][a])
               ELSE Expect(s, old = "MODIFIED" => out)
      given == IF out THEN [saved EXCEPT !.outside[a] = s.data[c][a]] ELSE saved
  IN IF old = "INVALID" THEN Expect(s, ~out)
     ELSE IF new = "INVALID" THEN Clear(given, c, a)
     ELSE Expect([given EXCEPT !.state[c][a] = new], new # "EXCLUSIVE")

\* Faults: this level first; the data read before the levels above have written theirs.
UpdateThisLevelFirst(s, c, a, new, out) ==
  FoldRight(LAMBDA p, t : UpdateHere(t, p, a, new, out /\ p = c), Upper[c], s)
UpdateReadingFirst(s, c, a, new, out) ==
  FoldLeft(LAMBDA t, p : UpdateHere(t, p, a, new, FALSE),
           IF out THEN [s EXCEPT !.outside[a] = s.data[c][a]] ELSE s, Upper[c])

\* updateCacheBlock: the levels above first.
Update(s, c, a, new, out) ==
  FoldLeft(LAMBDA t, p : UpdateHere(t, p, a, new, out /\ p = c), s, Upper[c])

UpdateAll(s, caches, a, new) == FoldSet(LAMBDA p, t : Update(t, p, a, new, FALSE), s, caches)

\* A line makes room, by wish where there is a choice: SHARED_UPGRADING ones only if
\* there is no other.
Victim(s, c, wish) ==
  LET held == {a \in StackLine : s.state[c][a] # "INVALID"}
      free == {a \in held : s.state[c][a] # "SHARED_UPGRADING"}
      choice == IF free = {} THEN held ELSE free
  IN IF Cardinality(held) < Associativity[c] THEN NoLine
     ELSE IF c \in DOMAIN wish /\ wish[c] \in choice THEN wish[c]
     ELSE CHOOSE a \in choice : TRUE

\* A cache that is not full, or has one way, has no choice.
Wishes(s, caches) ==
  LET full(c) == Cardinality({a \in StackLine : s.state[c][a] # "INVALID"}) = Associativity[c]
  IN [{c \in caches : Associativity[c] > 1 /\ full(c)} -> StackLine]

\* Fault: the levels above are not told.
KeepAbove(s, c, v) == s

\* The levels above give up a line that is being evicted, and write it to the buffer.
GiveUpAbove(s, c, v) ==
  [UpdateAll([s EXCEPT !.evicting = {<<c, v>>}], Siblings(c, c), v, "INVALID")
     EXCEPT !.evicting = {}]

\* The second half of insertCacheBlock: then its data goes down, or to the directory.
EvictLine(s, c, v) ==
  LET kept == GiveUpAbove(s, c, v)
      dirty == s.state[c][v] = "MODIFIED"
      gone == IF c = LastLevel
              THEN Expect(IF dirty THEN [kept EXCEPT !.outside[v] = kept.data[c][v]] ELSE kept,
                          s.state[c][v] # "SHARED_UPGRADING")
              ELSE IF dirty THEN WriteBlock(kept, Lower[c], v, kept.data[c][v]) ELSE kept
  IN Clear(gone, c, v)

InsertBlock(s, c, a, state, data, wish) ==
  LET v == Victim(s, c, wish)
  IN Put(Expect(IF v = NoLine THEN s ELSE EvictLine(s, c, v), s.state[c][a] = "INVALID"),
         c, a, state, data)

CopyFromNext(s, c, a, op, wish) ==
  LET n == Lower[c] IN
  Expect(IF s.state[c][a] = "INVALID"
         THEN InsertBlock(s, c, a, s.state[n][a], s.data[n][a], wish)
         ELSE Update(s, c, a, s.state[n][a], FALSE),
         Permissible(s, n, a, op))

\* invalidateCacheBlock, where the line is there.
InvalidateBlock(s, c, a) ==
  IF s.state[c][a] = "INVALID" THEN s
  ELSE Clear(Expect(s, s.state[c][a] # "MODIFIED"), c, a)

\* processShmemReqFromPrevCache at a level that cannot answer p: a write asks the
\* other caches above to give up a SHARED line.
PassOn(s, c, p, a) ==
  LET alone == IF s.state[c][a] = "SHARED" THEN UpdateAll(s, Siblings(c, p), a, "INVALID") ELSE s
  IN IF c = LastLevel THEN alone ELSE InvalidateBlock(alone, c, a)

\* ... and at the level that can: what the other caches above may keep.
Answer(s, c, p, a, op) ==
  IF op # "READ"
  THEN [UpdateAll(s, Siblings(c, p), a, "INVALID") EXCEPT !.state[c][a] = "MODIFIED"]
  ELSE IF s.state[c][a] \in {"MODIFIED", "EXCLUSIVE"}
  THEN UpdateAll(s, Siblings(c, p), a, "SHARED")
  ELSE s

\* The last level writes an EXCLUSIVE line without asking.
Answers(s, c, a, op) ==
  Permissible(s, c, a, op) \/ (c = LastLevel /\ s.state[c][a] = "EXCLUSIVE")

\* The place on the path of l of the level that answers, after l; 0 for the
\* directory.
AnsweredAt(s, l, a, op) ==
  LET able == {k \in 2 .. Len(Path[l]) : Answers(s, Path[l][k], a, op)}
  IN IF able = {} THEN 0 ELSE Min(able)

\* The request goes down the path of l to the level that answers.
Requested(s, l, a, op) ==
  LET path == Path[l]
      k == AnsweredAt(s, l, a, op)
      asked == IF k = 0 THEN Len(path) ELSE k - 1
      passed == FoldLeft(LAMBDA t, i : PassOn(t, path[i], path[i - 1], a), s,
                         [i \in 1 .. asked - 1 |-> i + 1])
  IN IF k = 0 THEN passed ELSE Answer(passed, path[k], path[k - 1], a, op)

\* ... and the line comes up again, from level to level.
Filled(s, l, a, op, wish) ==
  LET path == Path[l]
      k == AnsweredAt(s, l, a, op)
  IN FoldLeft(LAMBDA t, i : CopyFromNext(t, path[k - i], a, op, wish),
              Requested(s, l, a, op), [i \in 1 .. k - 1 |-> i])

\* accessCache: after a write every other copy is out of date.
Accessed(s, l, a, op) ==
  IF op # "WRITE" THEN s
  ELSE [s EXCEPT !.data = [c \in StackCache |->
                   [@[c] EXCEPT ![a] = IF c = l THEN "current"
                                       ELSE IF @ = "current" THEN "stale" ELSE @]],
                 !.outside[a] = "stale"]

-----------------------------------------------------------------------------
(* The lock of the set *)

\* Nobody inside a first-level transaction, and the network thread not between a
\* reply and its waiter.
StackIsFree(l) == /\ server.at # "serve"
                  /\ \A m \in Level1 \ {l} : user[m].at # "locked"

After(l, a, op) == [user EXCEPT ![l] = IF op = "READ_EX" THEN [at |-> "locked", addr |-> a, op |-> "WRITE"]
                                       ELSE Idle]
-----------------------------------------------------------------------------
(* processMemOpFromCore *)

FirstLevelHit(l, a, op) ==
  /\ user[l].at = "idle" /\ server.at # "serve"
  /\ Permissible(stack, l, a, op)
  /\ stack' = Accessed(stack, l, a, op)
  /\ user' = After(l, a, op)
  /\ UNCHANGED <<missing, request, server>>

\* The first level cannot serve it: the lock is given up, to take all of it.
FirstLevelMiss(l, a, op) ==
  /\ user[l].at = "idle" /\ server.at # "serve"
  /\ ~Permissible(stack, l, a, op)
  /\ user' = [user EXCEPT ![l] = [at |-> "missed", addr |-> a, op |-> op]]
  /\ UNCHANGED <<stack, missing, request, server>>

\* The second half of an atomic pair, for which the lock was kept.
Unlock(l) ==
  /\ user[l].at = "locked"
  /\ stack' = Expect(Accessed(stack, l, user[l].addr, "WRITE"),
                     Permissible(stack, l, user[l].addr, "WRITE"))
  /\ user' = [user EXCEPT ![l] = Idle]
  /\ UNCHANGED <<missing, request, server>>

FillFromStack(l) ==
  LET a == user[l].addr
      op == user[l].op
      own == InvalidateBlock(stack, l, a)
  IN
  /\ user[l].at = "missed" /\ StackIsFree(l)
  /\ AnsweredAt(own, l, a, op) # 0
  /\ \E wish \in Wishes(stack, ToSet(Path[l])) : stack' = Accessed(Filled(own, l, a, op, wish), l, a, op)
  /\ user' = After(l, a, op)
  /\ UNCHANGED <<missing, request, server>>

\* initiateDirectoryAccess: the first to miss the line asks for it.
AskDirectory(l) ==
  LET a == user[l].addr
      op == user[l].op
      own == InvalidateBlock(stack, l, a)
      passed == Requested(own, l, a, op)
      type == IF op = "READ" THEN "SH_REQ"
              ELSE IF passed.state[LastLevel][a] = "SHARED" THEN "UPGRADE_REQ" ELSE "EX_REQ"
      first == missing[a] = <<>>
  IN
  /\ user[l].at = "missed" /\ StackIsFree(l)
  /\ AnsweredAt(own, l, a, op) = 0
  /\ missing' = [missing EXCEPT ![a] = Append(@, l)]
  /\ user' = [user EXCEPT ![l].at = "waiting"]
  /\ request' = IF first THEN [request EXCEPT ![a] = type] ELSE request
  /\ stack' = IF first /\ type = "UPGRADE_REQ"
              THEN [passed EXCEPT !.state[LastLevel][a] = "SHARED_UPGRADING"]
              ELSE Expect(passed, first /\ type = "EX_REQ"
                                    => passed.state[LastLevel][a] = "INVALID")
  /\ UNCHANGED server
-----------------------------------------------------------------------------
(* handleMsgFromDramDirectory *)

NetMayTake == server.at = "recv" /\ \A m \in Level1 : user[m].at # "locked"

\* EX_REP, SH_REP: the line, or the permission to write it if it is lost meanwhile.
ReplyWithLine(a) ==
  /\ NetMayTake
  /\ request[a] # "none" /\ stack.state[LastLevel][a] = "INVALID"
  /\ \E state \in {"EXCLUSIVE"} \cup IF request[a] = "SH_REQ" THEN {"SHARED"} ELSE {} :
     \E wish \in Wishes(stack, {LastLevel}) :
       stack' = InsertBlock(stack, LastLevel, a, state, stack.outside[a], wish)
  /\ request' = [request EXCEPT ![a] = "none"]
  /\ server' = [at |-> "serve", addr |-> a]
  /\ UNCHANGED <<missing, user>>

\* UPGRADE_REP
ReplyWithUpgrade(a) ==
  /\ NetMayTake
  /\ request[a] = "UPGRADE_REQ" /\ stack.state[LastLevel][a] = "SHARED_UPGRADING"
  /\ stack' = Update(stack, LastLevel, a, "MODIFIED", FALSE)
  /\ request' = [request EXCEPT ![a] = "none"]
  /\ server' = [at |-> "serve", addr |-> a]
  /\ UNCHANGED <<missing, user>>

\* The first waiter gets the stack from the network thread and looks into the next
\* levels again.
ServeWaiter ==
  LET a == server.addr
      l == Head(missing[a])
      op == user[l].op
  IN
  /\ server.at = "serve"
  /\ ~(op # "READ" /\ stack.state[LastLevel][a] = "SHARED")
  /\ \E wish \in Wishes(stack, ToSet(Path[l])) :
       stack' = IF AnsweredAt(stack, l, a, op) = 0 THEN Expect(stack, FALSE)
                ELSE Accessed(Filled(stack, l, a, op, wish), l, a, op)
  /\ user' = After(l, a, op)
  /\ server' = [server EXCEPT !.at = "dequeue"]
  /\ UNCHANGED <<missing, request>>

\* ... unless it wants to write what has come SHARED.
UpgradeForWaiter ==
  LET a == server.addr IN
  /\ server.at = "serve"
  /\ user[Head(missing[a])].op # "READ" /\ stack.state[LastLevel][a] = "SHARED"
  /\ stack' = [stack EXCEPT !.state[LastLevel][a] = "SHARED_UPGRADING"]
  /\ request' = [request EXCEPT ![a] = "UPGRADE_REQ"]
  /\ server' = [at |-> "recv", addr |-> NoLine]
  /\ UNCHANGED <<missing, user>>

\* The stack is taken again, for the next waiter if there is one.
DequeueWaiter ==
  LET a == server.addr IN
  /\ server.at = "dequeue" /\ \A m \in Level1 : user[m].at # "locked"
  /\ missing' = [missing EXCEPT ![a] = Tail(@)]
  /\ server' = IF Len(missing[a]) = 1 THEN [at |-> "recv", addr |-> NoLine]
                                      ELSE [server EXCEPT !.at = "serve"]
  /\ UNCHANGED <<stack, request, user>>

\* INV_REQ comes only for lines the directory takes to be SHARED; FLUSH_REQ and
\* WB_REQ for any.  A command for a line that is gone is ignored.
Commanded(a) ==
  /\ NetMayTake
  /\ stack.state[LastLevel][a] # "INVALID"
  /\ UNCHANGED <<missing, request, user, server>>

InvReq(a) ==
  /\ Commanded(a) /\ stack.state[LastLevel][a] \in {"SHARED", "SHARED_UPGRADING"}
  /\ stack' = Update(stack, LastLevel, a, "INVALID", FALSE)

FlushReq(a) == Commanded(a) /\ stack' = Update(stack, LastLevel, a, "INVALID", TRUE)

WbReq(a) ==
  /\ Commanded(a) /\ stack.state[LastLevel][a] # "SHARED_UPGRADING"
  /\ stack' = Update(stack, LastLevel, a, "SHARED", TRUE)

StackNext ==
  \/ \E l \in Level1 : \/ Unlock(l) \/ FillFromStack(l) \/ AskDirectory(l)
                       \/ \E a \in StackLine, op \in Op : FirstLevelHit(l, a, op) \/ FirstLevelMiss(l, a, op)
  \/ ServeWaiter \/ UpgradeForWaiter \/ DequeueWaiter
  \/ \E a \in StackLine : \/ ReplyWithLine(a) \/ ReplyWithUpgrade(a)
                          \/ InvReq(a) \/ FlushReq(a) \/ WbReq(a)

StackSpec == StackInit /\ [][StackNext]_stackVars
-----------------------------------------------------------------------------
\* No access sees an old value: what a first-level cache may read is the last write
\* to the line.
ReadsAreCurrent ==
  \A l \in Level1, a \in StackLine :
    Permissible(stack, l, a, "READ") => stack.data[l][a] = "current"

\* "All caches are inclusive" (isInLowerLevelCache), and a dirty line above is dirty
\* below, so that every eviction and every command finds it; no two first-level
\* caches may write a line at a time.
LevelsAgree ==
  /\ \A c \in DOMAIN Lower, a \in StackLine :
       /\ stack.state[c][a] # "INVALID" => stack.state[Lower[c]][a] # "INVALID"
       /\ stack.state[c][a] = "MODIFIED" => stack.state[Lower[c]][a] = "MODIFIED"
  /\ server.at # "serve" =>
       \A l, m \in Level1, a \in StackLine :
         stack.state[l][a] = "MODIFIED" /\ stack.state[m][a] = "MODIFIED" => m = l

\* The last write survives upgrades, downgrades, evictions at every level and the
\* commands of the directory: it is in the topmost dirty copy, in the last level if
\* none above is dirty, and outside if the last level has it clean or not at all.
LastWriteIsKept ==
  \A a \in StackLine :
    /\ \A c \in StackCache :
         stack.state[c][a] = "MODIFIED"
           => \/ stack.data[c][a] = "current"
              \/ \E p \in Siblings(c, c) : stack.state[p][a] = "MODIFIED"
    /\ stack.state[LastLevel][a] # "MODIFIED"
         => /\ stack.outside[a] = "current"
            /\ stack.state[LastLevel][a] # "INVALID" => stack.data[LastLevel][a] = "current"

\* All values have their types, and none of the assertions of the controllers fails:
\* "MODIFIED data is about to get lost!", "Got writeback for non-MODIFIED line", "data
\* is already gone", "Expected to find address in L1 Cache" for the second half of an
\* atomic pair, and others.
StackAssertionsHold == StackTypeOK /\ ~stack.failed
=============================================================================
