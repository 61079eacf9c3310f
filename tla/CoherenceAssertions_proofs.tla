--------------------- MODULE CoherenceAssertions_proofs ---------------------
(***************************************************************************)
(* No assertion of the protocol of Coherence fails, for every number of    *)
(* caches, lines and threads, every protocol and every order of messages,  *)
(* where a directory entry has room for every cache or for one.            *)
(*                                                                         *)
(* An assertion says that a message or a request finds what its sender     *)
(* left.  SafeLines says it of what would give two caches the same line;   *)
(* what the assertions need beyond that is in AssertedLines: an INV_REQ    *)
(* that nobody waits for any more finds the line gone, a cache that waits  *)
(* for an upgrade keeps its copy until a command takes it, a sharer        *)
(* without the line is about to get it or has said that it is gone, and a  *)
(* line that is granted for writing is written before anything else        *)
(* happens to it.                                                          *)
(***************************************************************************)
EXTENDS CoherenceSafety_proofs

USE MapsAssumption, ConfigAssumption

-----------------------------------------------------------------------------
(* The invariant *)

InvRep == {"INV_REP"}
InvCmd == {"INV_REQ"}
ShGrantRep == {"SH_REP"}
WriteReq == {"EX_REQ", "UPGRADE_REQ"}

\* The request at the head of the queue waits for cache c to give up a shared
\* line; a reader only where an entry has room for one sharer.
InvLive(a, c) ==
  /\ Blocked(a, {"EX_REQ", "SH_REQ", "UPGRADE_REQ", "NULLIFY_REQ"})
  /\ dir[a].state = "SHARED"
  /\ c \in dir[a].sharers
  /\ Head(Pend(a)).type = "UPGRADE_REQ" => Head(Pend(a)).from # c
  /\ Head(Pend(a)).type = "SH_REQ" => MaxHwSharers = 1 /\ Head(Pend(a)).from \notin dir[a].sharers

\* An INV_REQ that is out of date finds the line gone, and no reply that brings
\* it back overtakes it.
InvCommand(a, c) ==
  ~InvLive(a, c) => /\ Got(inbox, InvCmd, a, c) => llc[c][a] = "INVALID"
                    /\ GotNotThen(inbox, Grant, InvCmd, a, c)

\* A cache that asks for an upgrade gives the line up only to an INV_REQ that is
\* waited for (or to a FLUSH_REQ: FlushAnswer), and one that was granted it, never.
UpgradeKept(a, c) ==
  /\ Outstanding(UpgradeReq, a, c) /\ Sent(inbox, InvRep, a, c) => InvLive(a, c)
  /\ Got(inbox, UpgradeRep, a, c) => llc[c][a] = "SHARED_UPGRADING"

\* The request of cache c is served: the line comes from DRAM or the forwarder.
Coming(a, c) ==
  /\ Pend(a) # <<>>
  /\ Head(Pend(a)).from = c
  /\ \/ Head(Pend(a)).waitForData
     \/ /\ Head(Pend(a)).type = "SH_REQ"
        /\ dir[a].state = "SHARED"
        /\ Head(Pend(a)).forwardingFrom # NoCore

\* A sharer without the line has said so, or is about to get it.
Justified(a, c) ==
  c \in dir[a].sharers /\ llc[c][a] = "INVALID" =>
    Sent(inbox, GivesUp, a, c) \/ Got(inbox, DirReply, a, c) \/ Coming(a, c)

\* The owner has the line shared only after it wrote it back, or before it learns
\* that it is the owner; a line that is shared stays so until its reader has it.
OwnerState(a, c) ==
  /\ IsOwner(a, c) /\ llc[c][a] \in {"SHARED", "SHARED_UPGRADING"} =>
       Sent(inbox, WbRep, a, c) \/ Got(inbox, UpgradeRep, a, c)
  /\ dir[a].state = "MODIFIED" /\ Sent(inbox, InvRep, a, c) => Sent(inbox, WbRep, a, c)
  /\ Got(inbox, ShGrantRep, a, c) => dir[a].state = "SHARED"

\* The waiters of a line are served while the cache has it; a line granted for
\* writing is served to a writer at once.
Serves(a, c) == net[c].at \in {"serve", "woken"} /\ net[c].addr = a

ServiceFits(a, c) ==
  /\ Serves(a, c) => llc[c][a] \in Readable
  /\ dir[a].state = "MODIFIED" /\ llc[c][a] = "EXCLUSIVE" => net[c].at = "serve" /\ net[c].addr = a
  /\ \/ dir[a].state = "MODIFIED" /\ llc[c][a] = "EXCLUSIVE"
     \/ dir[a].state = "MODIFIED" /\ Got(inbox, ExGrantRep, a, c)
     \/ Outstanding(WriteReq, a, c)
     => waiters[c][a] # <<>> /\ Head(waiters[c][a]).exclusive

PairAsserted(a, c) == /\ InvCommand(a, c) /\ UpgradeKept(a, c) /\ Justified(a, c)
                      /\ OwnerState(a, c) /\ ServiceFits(a, c)

\* The entry of a line that is read from DRAM is the one the answer is for.
WaitFits(a) ==
  HeadWaits(a) =>
    /\ Head(Pend(a)).type = "SH_REQ" => dir[a].state \in {"SHARED", "EXCLUSIVE"}
    /\ Head(Pend(a)).type = "EX_REQ" => dir[a].state = "MODIFIED"

\* A request goes on with data only when no cache may write the line, a writer
\* and the replacement of an entry only when no cache has it.
HeadFits(a) ==
  HeadAt(a) =>
    /\ net[DirHome[a]].data # "none" =>
         /\ dir[a].state \notin Owned
         /\ Head(queue[a]).type = "EX_REQ" => dir[a].state = "UNCACHED"
    /\ Head(queue[a]).type = "NULLIFY_REQ" => dir[a].state = "UNCACHED"

\* A shared line has a sharer, and no second one where there is room for one.
SharersFit(a) ==
  /\ dir[a].state = "SHARED" => dir[a].sharers # {}
  /\ MaxHwSharers = 1 => \A c, k \in dir[a].sharers : c = k

LineAsserted(a) == /\ \A c \in Core : PairAsserted(a, c)
                   /\ WaitFits(a) /\ HeadFits(a) /\ SharersFit(a)

AssertedLines == \A a \in Addr : LineAsserted(a)

\* No request is forwarded to a sharer where an entry has room for one: the
\* reader is that sharer.
NoForwarding ==
  MaxHwSharers = 1 =>
    \A a \in Addr : \A i \in DOMAIN queue[a] : queue[a][i].forwardingFrom = NoCore

\* An entry has room for every cache, or for one.
RoomForSharers == MaxHwSharers = 1 \/ Cardinality(Core) <= MaxHwSharers

-----------------------------------------------------------------------------
(* Steps that leave a line, or a cache's share in it, as it is *)

\* Which messages are of which kind.
LEMMA MoreKinds ==
  \A x : /\ x \in InvRep <=> x = "INV_REP"
         /\ x \in InvCmd <=> x = "INV_REQ"
         /\ x \in ShGrantRep <=> x = "SH_REP"
         /\ x \in WriteReq <=> x = "EX_REQ" \/ x = "UPGRADE_REQ"
  BY DEF InvRep, InvCmd, ShGrantRep, WriteReq

\* The loop over the waiters of line a at cache c is where it was.
SameService(a, c) ==
  /\ waiters[c][a] # <<>> =>
       waiters'[c][a] # <<>> /\ Head(waiters'[c][a]) = Head(waiters[c][a])
  /\ \/ net'[c].at = net[c].at /\ net'[c].addr = net[c].addr
     \/ ~Serves(a, c) /\ ~Serves(a, c)'

\* What is waited for and what is coming is a matter of the directory.
LEMMA AssertedView ==
  ASSUME NEW a, NEW c, SameLine(a)
  PROVE  (InvLive(a, c)' <=> InvLive(a, c)) /\ (Coming(a, c)' <=> Coming(a, c))
<1> DEFINE old == Pend(a)
           new == Pend(a)'
<1>1. /\ new = <<>> <=> old = <<>>
      /\ old # <<>> => /\ Head(new).type = Head(old).type
                       /\ Head(new).from = Head(old).from
                       /\ Head(new).waitForData = Head(old).waitForData
                       /\ Head(new).forwardingFrom = Head(old).forwardingFrom
  BY DEF SameLine, SameRequests
<1>2. dir'[a] = dir[a] /\ (old # <<>> => (Parked(a)' <=> Parked(a)))
  BY DEF SameLine
<1> HIDE DEF old, new
<1>3. \A types : Blocked(a, types)' <=> Blocked(a, types)
  BY <1>1, <1>2 DEF Blocked, old, new
<1>4. InvLive(a, c)' <=> InvLive(a, c)
  BY <1>1, <1>2, <1>3 DEF InvLive, Blocked, old, new
<1>5. Coming(a, c)' <=> Coming(a, c)
  BY <1>1, <1>2 DEF Coming, old, new
<1>6. QED
  BY <1>4, <1>5

\* Nothing happened to line a and cache c but that waiters are served.
LEMMA OnlyServed ==
  ASSUME NEW a \in Addr, NEW c \in Core, PairAsserted(a, c), SameLine(a), SamePair(a, c)
  PROVE  /\ ServiceFits(a, c)' => PairAsserted(a, c)'
         /\ dir'[a] = dir[a] /\ llc'[c][a] = llc[c][a]
         /\ \A T : /\ Got(inbox', T, a, c) <=> Got(inbox, T, a, c)
                   /\ Outstanding(T, a, c)' <=> Outstanding(T, a, c)
<1>1. /\ InvLive(a, c)' <=> InvLive(a, c)
      /\ Coming(a, c)' <=> Coming(a, c)
      /\ SameView(a, c)
  BY AssertedView, ViewStays
<1>2. llc'[c][a] = llc[c][a] /\ dir'[a] = dir[a] /\ (IsOwner(a, c)' <=> IsOwner(a, c))
  BY <1>1 DEF SamePair, SameView
<1>3. \A T, U : /\ Sent(inbox', T, a, c) <=> Sent(inbox, T, a, c)
                /\ Got(inbox', T, a, c) <=> Got(inbox, T, a, c)
                /\ GotNotThen(inbox', T, U, a, c) <=> GotNotThen(inbox, T, U, a, c)
  BY DEF SamePair, SameMail, SameMailAbout
<1>4. \A T : Outstanding(T, a, c)' <=> Outstanding(T, a, c)
  BY <1>1, <1>3 DEF Outstanding, SameView
<1>5. InvCommand(a, c)' /\ UpgradeKept(a, c)' /\ Justified(a, c)'
  BY <1>1, <1>2, <1>3, <1>4 DEF PairAsserted, InvCommand, UpgradeKept, Justified
<1>6. OwnerState(a, c)'
  BY <1>2, <1>3 DEF PairAsserted, OwnerState
<1>7. QED
  BY <1>2, <1>3, <1>4, <1>5, <1>6 DEF PairAsserted

\* Nothing happened to line a and cache c.
LEMMA AssertedStays ==
  ASSUME NEW a \in Addr, NEW c \in Core, PairAsserted(a, c),
         SameLine(a), SamePair(a, c), SameService(a, c)
  PROVE  PairAsserted(a, c)'
<1>1. /\ dir'[a] = dir[a] /\ llc'[c][a] = llc[c][a]
      /\ \A T : /\ Got(inbox', T, a, c) <=> Got(inbox, T, a, c)
                /\ Outstanding(T, a, c)' <=> Outstanding(T, a, c)
  BY OnlyServed
<1>2. ServiceFits(a, c)'
  BY <1>1 DEF PairAsserted, ServiceFits, SameService, Serves
<1>3. QED
  BY <1>2, OnlyServed

\* What the directories know stays, and no request goes on: then the invariant
\* is a matter of each line and cache.
LEMMA AssertedAgain ==
  ASSUME IInv, AssertedLines,
         \A b \in Addr : SameLine(b),
         \A k \in Core : net'[k].at = "head" =>
           /\ net[k].at = "head" /\ net'[k].addr = net[k].addr
           /\ net'[k].data # "none" => net[k].data # "none",
         \A b \in Addr, k \in Core : PairAsserted(b, k)'
  PROVE  AssertedLines'
<1> SUFFICES ASSUME NEW b \in Addr PROVE LineAsserted(b)'
  BY DEF AssertedLines
<1>1. LineAsserted(b) /\ SameLine(b) /\ DirHome[b] \in Core
  BY DEF AssertedLines
<1>2. dir'[b] = dir[b] /\ SameRequests(Pend(b)', Pend(b))
  BY <1>1 DEF SameLine
<1>3. SharersFit(b)'
  BY <1>1, <1>2 DEF LineAsserted, SharersFit
<1>4. WaitFits(b)'
  BY <1>1, <1>2 DEF LineAsserted, WaitFits, HeadWaits, SameRequests
<1>5. HeadFits(b)'
  <2> SUFFICES ASSUME HeadAt(b)'
               PROVE  /\ net'[DirHome[b]].data # "none" =>
                           /\ dir'[b].state \notin Owned
                           /\ Head(queue'[b]).type = "EX_REQ" => dir'[b].state = "UNCACHED"
                      /\ Head(queue'[b]).type = "NULLIFY_REQ" => dir'[b].state = "UNCACHED"
    BY DEF HeadFits
  <2>1. HeadAt(b) /\ (net'[DirHome[b]].data # "none" => net[DirHome[b]].data # "none")
    BY <1>1 DEF HeadAt
  <2>2. Pend(b) = queue[b] /\ Pend(b)' = queue'[b] /\ queue[b] # <<>>
    BY <1>1, <2>1 DEF HeadAt, Pend, IInv, NetOK
  <2>3. Head(queue'[b]).type = Head(queue[b]).type
    BY <1>2, <2>2 DEF SameRequests
  <2>4. QED
    BY <1>1, <1>2, <2>1, <2>3 DEF LineAsserted, HeadFits
<1>6. QED
  BY <1>3, <1>4, <1>5 DEF LineAsserted

\* The same of a step that concerns one line and cache, ...
LEMMA AssertedStep ==
  ASSUME IInv, AssertedLines, NEW a \in Addr, NEW c \in Core,
         \A b \in Addr : SameLine(b),
         \A b \in Addr, k \in Core : b # a \/ k # c => SamePair(b, k) /\ SameService(b, k),
         \A k \in Core : net'[k].at = "head" =>
           /\ net[k].at = "head" /\ net'[k].addr = net[k].addr
           /\ net'[k].data # "none" => net[k].data # "none",
         PairAsserted(a, c)'
  PROVE  AssertedLines'
<1>1. \A b \in Addr, k \in Core : b # a \/ k # c => PairAsserted(b, k)'
  BY AssertedStays DEF AssertedLines, LineAsserted
<1>2. \A b \in Addr, k \in Core : PairAsserted(b, k)'
  BY <1>1
<1>3. QED
  BY <1>2, AssertedAgain

\* ... or none.
LEMMA NothingAsserted ==
  ASSUME IInv, AssertedLines,
         \A b \in Addr : SameLine(b),
         \A b \in Addr, k \in Core : SamePair(b, k) /\ SameService(b, k),
         UNCHANGED net
  PROVE  AssertedLines'
<1>1. \A b \in Addr, k \in Core : PairAsserted(b, k)'
  BY AssertedStays DEF AssertedLines, LineAsserted
<1>2. QED
  BY <1>1, AssertedAgain

\* A network thread that starts to serve the waiters of line a, or stops: no
\* other line is served.
LEMMA ServedElsewhere ==
  ASSUME NEW c \in Core, NEW a \in Addr, NEW b \in Addr, NEW k \in Core, b # a \/ k # c,
         waiters'[k][b] = waiters[k][b],
         k # c => net'[k].at = net[k].at /\ net'[k].addr = net[k].addr,
         net[c].at \in {"serve", "woken"} => net[c].addr = a,
         net'[c].at \in {"serve", "woken"} => net'[c].addr = a
  PROVE  SameService(b, k)
  BY DEF SameService, Serves

-----------------------------------------------------------------------------
(* The steps of the cache controllers *)

\* What the invariant says of a message of the kinds it adds.
LEMMA MoreKindsHeld ==
  ASSUME NEW box, NEW a, NEW c
  PROVE  /\ Sent(box, GivesUp, a, c) <=> Sent(box, InvRep, a, c) \/ Sent(box, FlushRep, a, c)
         /\ Got(box, Grant, a, c) <=> Got(box, ShGrantRep, a, c) \/ Got(box, ExGrantRep, a, c)
<1>1. \A m : m \in Mail(GivesUp \cap FromCache, a, {c}) <=>
             m \in Mail(InvRep \cap FromCache, a, {c}) \/ m \in Mail(FlushRep \cap FromCache, a, {c})
  BY Kinds, MoreKinds DEF Mail
<1>2. \A m : m \in Mail(Grant \cap ToCache, a, Core) <=>
             m \in Mail(ShGrantRep \cap ToCache, a, Core) \/ m \in Mail(ExGrantRep \cap ToCache, a, Core)
  BY Kinds, MoreKinds DEF Mail
<1>3. QED
  BY <1>1, <1>2 DEF Sent, Got, Has

\* ... and of a request.
LEMMA WritersQueued ==
  ASSUME NEW a, NEW c
  PROVE  /\ Outstanding(WriteReq, a, c) => Outstanding(DemandReq, a, c)
         /\ Outstanding(UpgradeReq, a, c) => Outstanding(WriteReq, a, c)
         /\ Outstanding(UpgradeReq, a, c) => Outstanding(DemandReq, a, c)
<1>1. \A m : /\ m \in Mail(WriteReq \cap FromCache, a, {c}) => m \in Mail(DemandReq \cap FromCache, a, {c})
             /\ m \in Mail(UpgradeReq \cap FromCache, a, {c}) => m \in Mail(WriteReq \cap FromCache, a, {c})
             /\ m \in Asked(WriteReq, c) => m \in Asked(DemandReq, c)
             /\ m \in Asked(UpgradeReq, c) => m \in Asked(WriteReq, c)
  BY Kinds, MoreKinds DEF Mail, Asked
<1>2. QED
  BY <1>1 DEF Outstanding, Sent, Queued, Has

\* A cache takes a reply: a line that is granted for writing is served at once.
LEMMA FillAsserted ==
  ASSUME IInv, SafeLines, AssertedLines, NEW c \in Core, Fill(c) PROVE AssertedLines'
<1>1. PICK m \in Message, a \in Addr, state \in {"EXCLUSIVE", "SHARED"} :
        /\ m = Head(inbox[c]) /\ a = m.addr
        /\ net[c].at = "recv" /\ inbox[c] # <<>>
        /\ m.type = IF state = "EXCLUSIVE" THEN "EX_REP" ELSE "SH_REP"
        /\ llc[c][a] = "INVALID"
        /\ llc' = [llc EXCEPT ![c][a] = state]
        /\ inbox' = Rest(c)
        /\ GoTo(c, "serve", a, "none")
        /\ UNCHANGED <<waiters, dir, present, replaced, queue>>
  BY HeadOK, Zenon DEF Fill, Received, dirVars, IInv
<1>2. Taken(inbox', inbox, c, m)
  BY <1>1, RestTakes DEF IInv
<1>3. \A k \in Core, b \in Addr : llc'[k][b] = IF k = c /\ b = a THEN state ELSE llc[k][b]
  <2>1. llc \in [Core -> [Addr -> CacheState]]
    BY DEF IInv, TypeOK
  <2>2. llc' = [llc EXCEPT ![c][a] = state]
    BY <1>1
  <2>3. QED
    BY <2>1, <2>2, OneChanged
<1>4. net'[c].at = "serve" /\ net'[c].addr = a /\ \A k \in Core \ {c} : net'[k] = net[k]
  BY <1>1 DEF GoTo, IInv, TypeOK
<1>5. \A b \in Addr : SameLine(b)
  BY <1>1, <1>4, LinesStay
<1>6. \A b \in Addr, k \in Core : b # a \/ k # c => SameService(b, k) /\ (Awaited(k, b)' <=> Awaited(k, b))
  BY <1>1, <1>4, ServiceMoves, ServedElsewhere
<1>7. /\ m.type \in ToCache /\ m.type \notin FromCache
      /\ m.type \in DirReply /\ m.type \in Grant /\ m.type \notin InvCmd
      /\ (m.type \in ExGrantRep <=> state = "EXCLUSIVE")
      /\ (m.type \in ShGrantRep <=> state = "SHARED")
  BY <1>1, Kinds, MoreKinds
<1>8. \A b \in Addr, k \in Core : b # a \/ k # c => SamePair(b, k)
  BY <1>1, <1>2, <1>3, <1>6, <1>7, TakenElsewhere DEF SamePair
<1>9. /\ SameView(a, c) /\ llc'[c][a] = state
      /\ InvLive(a, c)' <=> InvLive(a, c)
  BY <1>3, <1>5, ViewStays, AssertedView
<1>10. CacheTakes(inbox', inbox, c, a, m) /\ PairInv(a, c) /\ PairAsserted(a, c)
  BY <1>1, <1>2, <1>7, CacheTook DEF SafeLines, LineInv, AssertedLines, LineAsserted
<1>11. /\ \A T : Outstanding(T, a, c)' <=> Outstanding(T, a, c)
       /\ Got(inbox, Grant, a, c) /\ Got(inbox, DirReply, a, c)
       /\ state = "EXCLUSIVE" => Got(inbox, ExGrantRep, a, c)
       /\ state = "SHARED" => Got(inbox, ShGrantRep, a, c)
  BY <1>7, <1>9, <1>10 DEF Outstanding, SameView, CacheTakes
<1>12. /\ ~Outstanding(DemandReq, a, c) /\ ~Outstanding(WriteReq, a, c) /\ ~Outstanding(UpgradeReq, a, c)
       /\ ~Got(inbox', DirReply, a, c)
  BY <1>7, <1>10, <1>11, WritersQueued DEF PairInv, OneRequest, CacheTakes
<1>13. /\ ~Got(inbox', Grant, a, c) /\ ~Got(inbox', UpgradeRep, a, c)
       /\ ~Got(inbox', ExGrantRep, a, c) /\ ~Got(inbox', ShGrantRep, a, c)
       /\ ~Sent(inbox', GivesUp, a, c) /\ ~Sent(inbox', InvRep, a, c)
  BY <1>10, <1>11, <1>12, KindsHeld, MoreKindsHeld DEF PairInv, GivenUp, CacheTakes
<1>14. InvCommand(a, c)'
  <2> SUFFICES ASSUME ~InvLive(a, c)
               PROVE  (Got(inbox', InvCmd, a, c) => llc'[c][a] = "INVALID")
                      /\ GotNotThen(inbox', Grant, InvCmd, a, c)
    BY <1>9 DEF InvCommand
  <2>1. GotNotThen(inbox, Grant, InvCmd, a, c)
    BY <1>10 DEF PairAsserted, InvCommand
  <2>2. QED
    BY <1>7, <1>10, <1>13, <2>1, NoneThen DEF CacheTakes
<1>15. UpgradeKept(a, c)' /\ Justified(a, c)'
  BY <1>9, <1>11, <1>12, <1>13 DEF UpgradeKept, Justified
<1>16. OwnerState(a, c)'
  <2>1. state = "SHARED" => ~IsOwner(a, c)
    BY <1>10, <1>11 DEF PairAsserted, OwnerState, IsOwner, Owned
  <2>2. QED
    BY <1>9, <1>13, <2>1 DEF OwnerState, SameView
<1>17. ServiceFits(a, c)'
  <2>1. dir[a].state = "MODIFIED" /\ state = "EXCLUSIVE" =>
          waiters[c][a] # <<>> /\ Head(waiters[c][a]).exclusive
    BY <1>10, <1>11 DEF PairAsserted, ServiceFits
  <2>2. QED
    BY <1>1, <1>4, <1>9, <1>11, <1>12, <1>13, <2>1 DEF ServiceFits, SameView, Serves, Readable
<1>18. PairAsserted(a, c)'
  BY <1>14, <1>15, <1>16, <1>17 DEF PairAsserted
<1>19. QED
  BY <1>4, <1>5, <1>6, <1>8, <1>18, AssertedStep

\* A cache takes an UPGRADE_REP: it writes the line at once.
LEMMA FinishUpgradeAsserted ==
  ASSUME IInv, SafeLines, AssertedLines, NEW c \in Core, FinishUpgrade(c) PROVE AssertedLines'
<1>1. PICK m \in Message, a \in Addr :
        /\ m = Head(inbox[c]) /\ a = m.addr
        /\ net[c].at = "recv" /\ inbox[c] # <<>>
        /\ m.type = "UPGRADE_REP"
        /\ llc[c][a] = "SHARED_UPGRADING"
        /\ llc' = [llc EXCEPT ![c][a] = "MODIFIED"]
        /\ inbox' = Rest(c)
        /\ GoTo(c, "serve", a, "none")
        /\ UNCHANGED <<waiters, dir, present, replaced, queue>>
  BY HeadOK DEF FinishUpgrade, Received, dirVars, IInv
<1>2. Taken(inbox', inbox, c, m)
  BY <1>1, RestTakes DEF IInv
<1>3. \A k \in Core, b \in Addr : llc'[k][b] = IF k = c /\ b = a THEN "MODIFIED" ELSE llc[k][b]
  <2>1. llc \in [Core -> [Addr -> CacheState]]
    BY DEF IInv, TypeOK
  <2>2. llc' = [llc EXCEPT ![c][a] = "MODIFIED"]
    BY <1>1
  <2>3. QED
    BY <2>1, <2>2, OneChanged
<1>4. net'[c].at = "serve" /\ net'[c].addr = a /\ \A k \in Core \ {c} : net'[k] = net[k]
  BY <1>1 DEF GoTo, IInv, TypeOK
<1>5. \A b \in Addr : SameLine(b)
  BY <1>1, <1>4, LinesStay
<1>6. \A b \in Addr, k \in Core : b # a \/ k # c => SameService(b, k) /\ (Awaited(k, b)' <=> Awaited(k, b))
  BY <1>1, <1>4, ServiceMoves, ServedElsewhere
<1>7. /\ m.type \in ToCache /\ m.type \notin FromCache
      /\ m.type \in DirReply /\ m.type \in UpgradeRep /\ m.type \notin InvCmd
  BY <1>1, Kinds, MoreKinds
<1>8. \A b \in Addr, k \in Core : b # a \/ k # c => SamePair(b, k)
  BY <1>1, <1>2, <1>3, <1>6, <1>7, TakenElsewhere DEF SamePair
<1>9. /\ SameView(a, c) /\ llc'[c][a] = "MODIFIED"
      /\ InvLive(a, c)' <=> InvLive(a, c)
  BY <1>3, <1>5, ViewStays, AssertedView
<1>10. CacheTakes(inbox', inbox, c, a, m) /\ PairInv(a, c) /\ PairAsserted(a, c)
  BY <1>1, <1>2, <1>7, CacheTook DEF SafeLines, LineInv, AssertedLines, LineAsserted
<1>11. /\ \A T : Outstanding(T, a, c)' <=> Outstanding(T, a, c)
       /\ Got(inbox, DirReply, a, c)
  BY <1>7, <1>9, <1>10 DEF Outstanding, SameView, CacheTakes
<1>12. /\ ~Outstanding(WriteReq, a, c) /\ ~Outstanding(UpgradeReq, a, c)
       /\ ~Got(inbox', DirReply, a, c)
  BY <1>7, <1>10, <1>11, WritersQueued DEF PairInv, OneRequest, CacheTakes
<1>13. ~Sent(inbox', GivesUp, a, c)
  BY <1>1, <1>10, Zenon DEF PairInv, GivenUp, CacheTakes
<1>14. /\ ~Got(inbox', UpgradeRep, a, c) /\ ~Sent(inbox', InvRep, a, c)
       /\ ~Got(inbox', ExGrantRep, a, c) /\ ~Got(inbox', ShGrantRep, a, c)
  BY <1>12, <1>13, KindsHeld, MoreKindsHeld
<1>15. InvCommand(a, c)'
  BY <1>1, <1>9, <1>10, Zenon DEF PairAsserted, InvCommand, CacheTakes
<1>16. UpgradeKept(a, c)' /\ Justified(a, c)' /\ OwnerState(a, c)'
  BY <1>9, <1>11, <1>12, <1>14 DEF UpgradeKept, Justified, OwnerState
<1>17. ServiceFits(a, c)'
  BY <1>9, <1>11, <1>12, <1>14 DEF ServiceFits, Readable
<1>18. PairAsserted(a, c)'
  BY <1>15, <1>16, <1>17 DEF PairAsserted
<1>19. QED
  BY <1>4, <1>5, <1>6, <1>8, <1>18, AssertedStep

\* A command for a line that is gone changes nothing.
LEMMA IgnoreCommandAsserted ==
  ASSUME IInv, SafeLines, AssertedLines, NEW c \in Core, IgnoreCommand(c) PROVE AssertedLines'
<1>1. PICK m \in Message, a \in Addr :
        /\ m = Head(inbox[c]) /\ a = m.addr
        /\ net[c].at = "recv" /\ inbox[c] # <<>>
        /\ m.type \in DirCommand
        /\ llc[c][a] = "INVALID"
        /\ inbox' = Rest(c)
        /\ UNCHANGED <<llc, net, waiters, dir, present, replaced, queue>>
  BY HeadOK DEF IgnoreCommand, Received, cacheVars, dirVars, IInv
<1>2. Taken(inbox', inbox, c, m)
  BY <1>1, RestTakes DEF IInv
<1>3. \A b \in Addr : SameLine(b)
  BY <1>1, LinesStay
<1>4. \A b \in Addr, k \in Core : SameService(b, k) /\ (Awaited(k, b)' <=> Awaited(k, b))
  BY <1>1 DEF Awaited, SameService
<1>5. m.type \in ToCache /\ m.type \notin FromCache /\ m.type \notin DirReply
  BY <1>1, Kinds DEF DirCommand
<1>6. \A b \in Addr, k \in Core : b # a \/ k # c => SamePair(b, k)
  BY <1>1, <1>2, <1>4, <1>5, TakenElsewhere DEF SamePair
<1>7. /\ SameView(a, c)
      /\ (InvLive(a, c)' <=> InvLive(a, c)) /\ (Coming(a, c)' <=> Coming(a, c))
  BY <1>3, ViewStays, AssertedView
<1>8. CacheTakes(inbox', inbox, c, a, m) /\ PairAsserted(a, c)
  BY <1>1, <1>2, <1>5, CacheTook DEF AssertedLines, LineAsserted
<1>9. \A T : Outstanding(T, a, c)' <=> Outstanding(T, a, c)
  BY <1>7, <1>8 DEF Outstanding, SameView, CacheTakes
<1>10. InvCommand(a, c)' /\ UpgradeKept(a, c)'
  BY <1>1, <1>7, <1>8, <1>9, Zenon DEF PairAsserted, InvCommand, UpgradeKept, CacheTakes
<1>11. Justified(a, c)' /\ OwnerState(a, c)'
  BY <1>1, <1>5, <1>7, <1>8, Zenon DEF PairAsserted, Justified, OwnerState, SameView, CacheTakes
<1>12. ServiceFits(a, c)'
  BY <1>1, <1>7, <1>8, <1>9, Zenon DEF PairAsserted, ServiceFits, Serves, SameView, CacheTakes
<1>13. PairAsserted(a, c)'
  BY <1>10, <1>11, <1>12 DEF PairAsserted
<1>14. QED
  BY <1>1, <1>3, <1>4, <1>6, <1>13, AssertedStep

\* Cache c loses line a, whose home it tells so (GivesUpStep).  An upgrade it
\* asked for must not need the copy, and a line that was granted for writing is
\* not lost with the data of a reader only.
LEMMA GivesUpAsserted ==
  ASSUME IInv, SafeLines, AssertedLines, NEW c \in Core, NEW a \in Addr,
         llc[c][a] # "INVALID", llc' = [llc EXCEPT ![c][a] = "INVALID"],
         NEW mid, InboxOK(mid),
         \/ mid = inbox
         \/ \E m \in Message : /\ m.type \in DirCommand /\ m.addr = a
                               /\ Taken(mid, inbox, c, m),
         NEW type \in GivesUp, NEW data \in Data,
         inbox' = Deliver(mid, Msg(type, a, c, data), {DirHome[a]}),
         UNCHANGED <<net, waiters, dir, present, replaced, queue>>,
         net[c].at = "recv",
         ~Got(mid, UpgradeRep, a, c),
         type \in InvRep => /\ Outstanding(UpgradeReq, a, c) => InvLive(a, c)
                            /\ dir[a].state = "MODIFIED" => Sent(inbox, WbRep, a, c)
  PROVE  AssertedLines'
<1>1. \A k \in Core, b \in Addr : llc'[k][b] = IF k = c /\ b = a THEN "INVALID" ELSE llc[k][b]
  <2>1. llc \in [Core -> [Addr -> CacheState]]
    BY DEF IInv, TypeOK
  <2>2. QED
    BY <2>1, OneChanged
<1>2. \A b \in Addr : SameLine(b)
  BY LinesStay
<1>3. \A b \in Addr, k \in Core : SameService(b, k) /\ (Awaited(k, b)' <=> Awaited(k, b))
  BY DEF Awaited, SameService
<1>4. type \in MsgType /\ type \in FromCache /\ type \notin ToCache /\ type \in GivesUp
      /\ type \notin DemandReq /\ type \notin UpgradeReq /\ type \notin WriteReq
  BY Kinds, MoreKinds DEF MsgType, CacheReply
<1>5. Posted(inbox', mid, type, a, c, {DirHome[a]})
  BY <1>4, DeliverPosts
<1>6. /\ \A b \in Addr, k \in Core : b # a \/ k # c => SameMail(mid, inbox, b, k)
      /\ \A T : /\ Sent(mid, T, a, c) <=> Sent(inbox, T, a, c)
                /\ Got(mid, T, a, c) => Got(inbox, T, a, c)
  <2>1. CASE mid = inbox
    BY <2>1 DEF SameMail, SameMailAbout
  <2>2. CASE mid # inbox
    <3>1. PICK m \in Message : m.type \in DirCommand /\ m.addr = a /\ Taken(mid, inbox, c, m)
      BY <2>2
    <3>2. m.type \in ToCache /\ m.type \notin FromCache
      BY <3>1, Kinds DEF DirCommand
    <3>3. CacheTakes(mid, inbox, c, a, m)
      BY <3>1, <3>2, CacheTook
    <3>4. \A b \in Addr, k \in Core : b # a \/ k # c => SameMail(mid, inbox, b, k)
      BY <3>1, <3>2, TakenElsewhere
    <3>5. QED
      BY <3>3, <3>4 DEF CacheTakes
  <2>3. QED
    BY <2>1, <2>2
<1>7. \A b \in Addr, k \in Core : b # a \/ k # c => SamePair(b, k)
  <2>1. ASSUME NEW b \in Addr, NEW k \in Core, b # a \/ k # c
        PROVE  SamePair(b, k)
    <3>1. SameMail(mid, inbox, b, k) /\ SameMail(inbox', mid, b, k)
      BY <1>4, <1>5, <1>6, <2>1, PostedElsewhere
    <3>2. SameMail(inbox', inbox, b, k)
      BY <3>1, SameMailTrans
    <3>3. llc'[k][b] = llc[k][b] /\ (Awaited(k, b)' <=> Awaited(k, b))
      BY <1>1, <1>3, <2>1
    <3>4. QED
      BY <3>2, <3>3 DEF SamePair
  <2>2. QED
    BY <2>1
<1>8. /\ SameView(a, c) /\ PairInv(a, c) /\ PairAsserted(a, c) /\ llc'[c][a] = "INVALID"
      /\ InvLive(a, c)' <=> InvLive(a, c)
  BY <1>1, <1>2, ViewStays, AssertedView DEF SafeLines, LineInv, AssertedLines, LineAsserted
<1>9. CachePosts(inbox', mid, type, a, c)
  BY <1>4, <1>5, CachePosted
<1>10. /\ Outstanding(UpgradeReq, a, c)' <=> Outstanding(UpgradeReq, a, c)
       /\ Outstanding(WriteReq, a, c)' <=> Outstanding(WriteReq, a, c)
  BY <1>4, <1>6, <1>8, <1>9 DEF Outstanding, SameView, CachePosts
<1>11. ~Sent(inbox, InvRep, a, c) /\ ~Got(inbox, Grant, a, c)
  BY <1>8, MoreKindsHeld DEF PairInv, GivenUp, StateFits
<1>12. /\ ~Got(inbox', Grant, a, c) /\ ~Got(inbox', ExGrantRep, a, c)
       /\ ~Got(inbox', ShGrantRep, a, c) /\ ~Got(inbox', UpgradeRep, a, c)
       /\ Sent(inbox', InvRep, a, c) => type \in InvRep
       /\ Sent(inbox', GivesUp, a, c)
       /\ Sent(inbox, WbRep, a, c) => Sent(inbox', WbRep, a, c)
  BY <1>4, <1>6, <1>9, <1>11, MoreKindsHeld DEF CachePosts
<1>13. InvCommand(a, c)' /\ UpgradeKept(a, c)' /\ Justified(a, c)'
  BY <1>8, <1>10, <1>12, NoneThen DEF InvCommand, UpgradeKept, Justified
<1>14. OwnerState(a, c)'
  BY <1>8, <1>12 DEF OwnerState, SameView
<1>15. ServiceFits(a, c)'
  BY <1>8, <1>10, <1>12 DEF PairAsserted, ServiceFits, Serves, SameView
<1>16. PairAsserted(a, c)'
  BY <1>13, <1>14, <1>15 DEF PairAsserted
<1>17. QED
  BY <1>2, <1>3, <1>7, <1>16, AssertedStep

\* To INV_REQ: it is waited for by a request for a shared line.
LEMMA InvalidateAsserted ==
  ASSUME IInv, SafeLines, AssertedLines, NEW c \in Core, Invalidate(c) PROVE AssertedLines'
<1>1. PICK m \in Message, a \in Addr :
        /\ m = Head(inbox[c]) /\ a = m.addr
        /\ inbox[c] # <<>> /\ m \in MessagesTo(c) /\ net[c].at = "recv"
        /\ m.type = "INV_REQ"
        /\ llc[c][a] # "INVALID"
        /\ llc' = [llc EXCEPT ![c][a] = "INVALID"]
        /\ inbox' = Deliver(Rest(c), Msg("INV_REP", a, c, "none"), {m.from})
        /\ UNCHANGED <<net, waiters, dir, present, replaced, queue>>
  BY HeadOK DEF Invalidate, Received, Drop, dirVars, IInv
<1>2. m.type \in DirCommand /\ m.from = DirHome[a]
  BY <1>1 DEF MessagesTo, DirCommand
<1>3. InboxOK(Rest(c)) /\ Taken(Rest(c), inbox, c, m)
  BY <1>1, RestOK, RestTakes DEF IInv
<1>4. "INV_REP" \in GivesUp /\ "none" \in Data
  BY Kinds DEF Data
<1>5. CacheTakes(Rest(c), inbox, c, a, m)
  BY <1>1, <1>2, <1>3, Kinds, CacheTook
<1>6. PairAsserted(a, c) /\ PairInv(a, c) /\ m.type \in InvCmd
  BY <1>1, MoreKinds DEF AssertedLines, LineAsserted, SafeLines, LineInv
<1>7. InvLive(a, c)
  BY <1>1, <1>5, <1>6, Zenon DEF PairAsserted, InvCommand, CacheTakes
<1>8. dir[a].state # "MODIFIED"
  BY <1>7 DEF InvLive
<1>9. ~Got(Rest(c), UpgradeRep, a, c)
  BY <1>5, <1>6, <1>8 DEF PairInv, Ownership, CacheTakes
<1>10. QED
  BY <1>1, <1>2, <1>3, <1>4, <1>7, <1>8, <1>9, GivesUpAsserted, Zenon

\* To FLUSH_REQ, which comes with no upgrade.
LEMMA FlushAsserted ==
  ASSUME IInv, SafeLines, AssertedLines, NEW c \in Core, Flush(c) PROVE AssertedLines'
<1>1. PICK m \in Message, a \in Addr :
        /\ m = Head(inbox[c]) /\ a = m.addr
        /\ inbox[c] # <<>> /\ m \in MessagesTo(c) /\ net[c].at = "recv"
        /\ m.type = "FLUSH_REQ"
        /\ llc[c][a] # "INVALID"
        /\ llc' = [llc EXCEPT ![c][a] = "INVALID"]
        /\ inbox' = Deliver(Rest(c), Msg("FLUSH_REP", a, c, copy[c][a]), {m.from})
        /\ UNCHANGED <<net, waiters, dir, present, replaced, queue>>
  BY HeadOK, Zenon DEF Flush, Received, Drop, dirVars, IInv
<1>2. m.type \in DirCommand /\ m.from = DirHome[a]
  BY <1>1 DEF MessagesTo, DirCommand
<1>3. InboxOK(Rest(c)) /\ Taken(Rest(c), inbox, c, m)
  BY <1>1, RestOK, RestTakes DEF IInv
<1>4. "FLUSH_REP" \in GivesUp /\ "FLUSH_REP" \notin InvRep /\ copy[c][a] \in Data
  BY Kinds, MoreKinds DEF IInv, TypeOK
<1>5. CacheTakes(Rest(c), inbox, c, a, m)
  BY <1>1, <1>2, <1>3, Kinds, CacheTook
<1>6. PairInv(a, c) /\ m.type \in FlushCmd
  BY <1>1, Kinds DEF SafeLines, LineInv
<1>7. ~Got(Rest(c), UpgradeRep, a, c)
  BY <1>1, <1>5, <1>6, Zenon DEF PairInv, FlushCommand, CacheTakes
<1>8. QED
  BY <1>1, <1>2, <1>3, <1>4, <1>7, GivesUpAsserted, Zenon

\* To another line: the network thread, which would serve a line that was just
\* granted, is not serving.
LEMMA EvictAsserted ==
  ASSUME IInv, SafeLines, AssertedLines, NEW c \in Core, NEW a \in Addr, Evict(c, a)
  PROVE  AssertedLines'
<1> DEFINE type == IF llc[c][a] = "MODIFIED" THEN "FLUSH_REP" ELSE "INV_REP"
           data == IF llc[c][a] = "MODIFIED" THEN copy[c][a] ELSE "none"
<1>1. /\ llc[c][a] \in Readable /\ net[c].at = "recv"
      /\ llc[c][a] # "INVALID" /\ llc[c][a] # "SHARED_UPGRADING"
      /\ llc' = [llc EXCEPT ![c][a] = "INVALID"]
      /\ inbox' = Deliver(inbox, Msg(type, a, c, data), {DirHome[a]})
      /\ UNCHANGED <<net, waiters, dir, present, replaced, queue>>
  BY DEF Evict, Readable, dirVars
<1>2. /\ type \in GivesUp /\ data \in Data /\ InboxOK(inbox)
      /\ type \in InvRep => llc[c][a] # "MODIFIED"
  BY Kinds, MoreKinds DEF Data, IInv, TypeOK
<1>3. PairInv(a, c) /\ PairAsserted(a, c) /\ Entry(a)
  BY DEF SafeLines, LineInv, AssertedLines, LineAsserted
<1>4. ~Got(inbox, UpgradeRep, a, c) /\ ~Outstanding(UpgradeReq, a, c)
  BY <1>1, <1>3 DEF PairInv, StateFits
<1>5. ASSUME type \in InvRep, dir[a].state = "MODIFIED" PROVE Sent(inbox, WbRep, a, c)
  <2>1. c \in dir[a].sharers
    BY <1>1, <1>3 DEF PairInv, Known
  <2>2. IsOwner(a, c)
    BY <1>3, <1>5, <2>1 DEF Entry, IsOwner, Owned
  <2>3. llc[c][a] # "EXCLUSIVE"
    BY <1>1, <1>3, <1>5 DEF PairAsserted, ServiceFits
  <2>4. llc[c][a] = "SHARED"
    BY <1>1, <1>2, <1>5, <2>3 DEF Readable
  <2>5. QED
    BY <1>3, <1>4, <2>2, <2>4 DEF PairAsserted, OwnerState
<1> HIDE DEF type, data
<1>6. QED
  BY <1>1, <1>2, <1>4, <1>5, GivesUpAsserted

\* A cache writes a line back, and the owner says so when it keeps the line shared.
LEMMA WriteBackAsserted ==
  ASSUME IInv, SafeLines, AssertedLines, NEW c \in Core, WriteBack(c) PROVE AssertedLines'
<1>1. PICK m \in Message, a \in Addr, data \in Data :
        /\ m = Head(inbox[c]) /\ a = m.addr
        /\ inbox[c] # <<>> /\ m \in MessagesTo(c) /\ net[c].at = "recv"
        /\ m.type = "WB_REQ"
        /\ llc[c][a] # "INVALID"
        /\ llc' = IF llc[c][a] = "SHARED_UPGRADING" THEN llc ELSE [llc EXCEPT ![c][a] = "SHARED"]
        /\ inbox' = Deliver(Rest(c), Msg("WB_REP", a, c, data), {m.from})
        /\ UNCHANGED <<net, waiters, dir, present, replaced, queue>>
  <2> DEFINE m == Head(inbox[c])
             a == m.addr
  <2>1. m \in Message /\ a \in Addr /\ inbox[c] # <<>> /\ m \in MessagesTo(c)
    BY HeadOK DEF WriteBack, Received, IInv
  <2>2. PICK data \in IF llc[c][a] = "SHARED_UPGRADING" THEN Arbitrary ELSE {copy[c][a]} :
          inbox' = Deliver(Rest(c), Msg("WB_REP", a, c, data), {m.from})
    BY DEF WriteBack
  <2>3. data \in Data
    <3>1. copy[c][a] \in Data /\ Arbitrary \subseteq Data
      BY <2>1 DEF IInv, TypeOK, Arbitrary, Data
    <3>2. QED
      BY <2>2, <3>1
  <2>4. /\ m.type = "WB_REQ" /\ llc[c][a] # "INVALID" /\ net[c].at = "recv"
        /\ m = Head(inbox[c]) /\ a = m.addr
        /\ llc' = IF llc[c][a] = "SHARED_UPGRADING" THEN llc ELSE [llc EXCEPT ![c][a] = "SHARED"]
        /\ UNCHANGED <<net, waiters, dir, present, replaced, queue>>
    BY DEF WriteBack, Received, dirVars
  <2> HIDE DEF m, a
  <2>5. QED
    BY <2>1, <2>2, <2>3, <2>4, Zenon
<1> DEFINE mid == Rest(c)
<1>2. inbox' = Deliver(mid, Msg("WB_REP", a, c, data), {m.from})
  BY <1>1
<1>3. /\ llc \in [Core -> [Addr -> CacheState]]
      /\ \A k \in Core, b \in Addr : k # c \/ b # a => llc'[k][b] = llc[k][b]
      /\ llc'[c][a] = IF llc[c][a] = "SHARED_UPGRADING" THEN "SHARED_UPGRADING" ELSE "SHARED"
  <2>1. llc \in [Core -> [Addr -> CacheState]]
    BY DEF IInv, TypeOK
  <2>2. CASE llc[c][a] = "SHARED_UPGRADING"
    BY <1>1, <2>1, <2>2
  <2>3. CASE llc[c][a] # "SHARED_UPGRADING"
    BY <1>1, <2>1, <2>3, OneChanged
  <2>4. QED
    BY <2>1, <2>2, <2>3
<1>4. m.type \in DirCommand /\ m.from = DirHome[a] /\ InboxOK(mid) /\ Taken(mid, inbox, c, m)
  BY <1>1, RestOK, RestTakes DEF MessagesTo, DirCommand, IInv
<1>5. \A b \in Addr : SameLine(b)
  BY <1>1, LinesStay
<1>6. \A b \in Addr, k \in Core : SameService(b, k) /\ (Awaited(k, b)' <=> Awaited(k, b))
  BY <1>1 DEF Awaited, SameService
<1>7. /\ m.type \in ToCache /\ m.type \notin FromCache
      /\ m.type \notin UpgradeRep /\ m.type \notin InvCmd /\ m.type \notin ExGrantRep
      /\ m.type \notin ShGrantRep
  BY <1>1, Kinds, MoreKinds
<1>8. /\ "WB_REP" \in MsgType /\ "WB_REP" \in FromCache /\ "WB_REP" \notin ToCache
      /\ "WB_REP" \notin UpgradeReq /\ "WB_REP" \notin WriteReq
      /\ "WB_REP" \notin InvRep /\ "WB_REP" \in WbRep
  BY Kinds, MoreKinds DEF MsgType, CacheReply
<1> HIDE DEF mid
<1>9. Posted(inbox', mid, "WB_REP", a, c, {DirHome[a]})
  <2>1. inbox' = Deliver(mid, Msg("WB_REP", a, c, data), {DirHome[a]})
    BY <1>2, <1>4
  <2>2. QED
    BY <1>4, <1>8, <2>1, DeliverPosts
<1>10. \A b \in Addr, k \in Core : b # a \/ k # c => SamePair(b, k)
  <2>1. ASSUME NEW b \in Addr, NEW k \in Core, b # a \/ k # c
        PROVE  SameMail(inbox', inbox, b, k)
    <3>1. SameMail(mid, inbox, b, k)
      BY <1>1, <1>4, <1>7, <2>1, TakenElsewhere
    <3>2. SameMail(inbox', mid, b, k)
      BY <1>8, <1>9, <2>1, PostedElsewhere
    <3>3. QED
      BY <3>1, <3>2, SameMailTrans
  <2>2. QED
    BY <1>3, <1>6, <2>1 DEF SamePair
<1>11. /\ SameView(a, c) /\ PairInv(a, c) /\ PairAsserted(a, c)
       /\ InvLive(a, c)' <=> InvLive(a, c)
  BY <1>1, <1>5, ViewStays, AssertedView DEF SafeLines, LineInv, AssertedLines, LineAsserted
<1>12. CacheTakes(mid, inbox, c, a, m) /\ CachePosts(inbox', mid, "WB_REP", a, c)
  BY <1>1, <1>4, <1>7, <1>8, <1>9, CacheTook, CachePosted
<1>13. /\ Outstanding(UpgradeReq, a, c)' <=> Outstanding(UpgradeReq, a, c)
       /\ Outstanding(WriteReq, a, c)' <=> Outstanding(WriteReq, a, c)
  BY <1>8, <1>11, <1>12 DEF Outstanding, SameView, CacheTakes, CachePosts
<1>14. /\ Got(inbox', InvCmd, a, c) <=> Got(inbox, InvCmd, a, c)
       /\ Got(inbox', UpgradeRep, a, c) <=> Got(inbox, UpgradeRep, a, c)
       /\ Got(inbox', ExGrantRep, a, c) <=> Got(inbox, ExGrantRep, a, c)
       /\ Got(inbox', ShGrantRep, a, c) <=> Got(inbox, ShGrantRep, a, c)
       /\ GotNotThen(inbox, Grant, InvCmd, a, c) => GotNotThen(inbox', Grant, InvCmd, a, c)
       /\ Sent(inbox', InvRep, a, c) <=> Sent(inbox, InvRep, a, c)
       /\ Sent(inbox', WbRep, a, c)
  BY <1>7, <1>8, <1>12 DEF CacheTakes, CachePosts
<1>15. InvCommand(a, c)' /\ UpgradeKept(a, c)' /\ Justified(a, c)'
  BY <1>1, <1>3, <1>11, <1>13, <1>14 DEF PairAsserted, InvCommand, UpgradeKept, Justified
<1>16. OwnerState(a, c)'
  BY <1>11, <1>14 DEF PairAsserted, OwnerState, SameView
<1>17. ServiceFits(a, c)'
  BY <1>1, <1>3, <1>11, <1>13, <1>14 DEF PairAsserted, ServiceFits, SameView, Serves
<1>18. PairAsserted(a, c)'
  BY <1>15, <1>16, <1>17 DEF PairAsserted
<1>19. QED
  BY <1>1, <1>5, <1>6, <1>10, <1>18, AssertedStep

\* A cache asks for a line (AskStep): the first waiter is what it asks for.
LEMMA AskAsserted ==
  ASSUME IInv, SafeLines, AssertedLines, NEW c \in Core, NEW a \in Addr,
         ~Awaited(c, a), ~Serves(a, c)',
         \A b \in Addr, k \in Core : b # a \/ k # c =>
           SameService(b, k) /\ (Awaited(k, b)' <=> Awaited(k, b)),
         \A b \in Addr : SameLine(b),
         \A k \in Core : net'[k].at = "head" => net'[k] = net[k],
         NEW type \in DemandReq,
         type # "SH_REQ" => waiters'[c][a] # <<>> /\ Head(waiters'[c][a]).exclusive,
         inbox' = Deliver(inbox, Msg(type, a, c, "none"), {DirHome[a]}),
         \/ type # "UPGRADE_REQ" /\ llc[c][a] = "INVALID" /\ llc' = llc
         \/ /\ type = "UPGRADE_REQ" /\ llc[c][a] = "SHARED"
            /\ llc' = [llc EXCEPT ![c][a] = "SHARED_UPGRADING"]
  PROVE  AssertedLines'
<1>1. /\ \A k \in Core, b \in Addr : k # c \/ b # a => llc'[k][b] = llc[k][b]
      /\ \/ type # "UPGRADE_REQ" /\ llc[c][a] = "INVALID" /\ llc'[c][a] = "INVALID"
         \/ type = "UPGRADE_REQ" /\ llc[c][a] = "SHARED" /\ llc'[c][a] = "SHARED_UPGRADING"
  <2>1. llc \in [Core -> [Addr -> CacheState]]
    BY DEF IInv, TypeOK
  <2>2. CASE type # "UPGRADE_REQ"
    BY <2>2
  <2>3. CASE type = "UPGRADE_REQ"
    BY <2>1, <2>3, OneChanged
  <2>4. QED
    BY <2>2, <2>3
<1>2. /\ type \in MsgType /\ type \in FromCache /\ type \notin ToCache
      /\ type \notin InvRep /\ type \notin GivesUp /\ type \notin WbRep
      /\ type \in WriteReq <=> type # "SH_REQ"
      /\ type \in UpgradeReq <=> type = "UPGRADE_REQ"
  BY Kinds, MoreKinds DEF MsgType
<1>3. Posted(inbox', inbox, type, a, c, {DirHome[a]})
  <2>1. InboxOK(inbox) /\ "none" \in Data
    BY DEF IInv, Data
  <2>2. QED
    BY <1>2, <2>1, DeliverPosts
<1>4. \A b \in Addr, k \in Core : b # a \/ k # c => SamePair(b, k)
  <2>1. ASSUME NEW b \in Addr, NEW k \in Core, b # a \/ k # c
        PROVE  SameMail(inbox', inbox, b, k)
    BY <1>2, <1>3, <2>1, PostedElsewhere
  <2>2. QED
    BY <1>1, <2>1 DEF SamePair
<1>5. /\ SameView(a, c) /\ PairInv(a, c) /\ PairAsserted(a, c)
      /\ (InvLive(a, c)' <=> InvLive(a, c)) /\ (Coming(a, c)' <=> Coming(a, c))
  BY ViewStays, AssertedView DEF SafeLines, LineInv, AssertedLines, LineAsserted
<1>6. CachePosts(inbox', inbox, type, a, c)
  BY <1>2, <1>3, CachePosted
<1>7. /\ ~Outstanding(UpgradeReq, a, c) /\ ~Outstanding(WriteReq, a, c)
      /\ ~Got(inbox, DirReply, a, c)
  BY <1>5, WritersQueued DEF PairInv, OneRequest
<1>8. ~Got(inbox, UpgradeRep, a, c) /\ ~Got(inbox, ExGrantRep, a, c)
  BY <1>7, KindsHeld
<1>9. /\ Outstanding(WriteReq, a, c)' => type # "SH_REQ"
      /\ Outstanding(UpgradeReq, a, c)' => type = "UPGRADE_REQ"
  BY <1>2, <1>5, <1>6, <1>7 DEF Outstanding, SameView, CachePosts
<1>10. InvCommand(a, c)' /\ Justified(a, c)'
  BY <1>1, <1>2, <1>5, <1>6 DEF PairAsserted, InvCommand, Justified, SameView, CachePosts
<1>11. UpgradeKept(a, c)'
  <2>1. type = "UPGRADE_REQ" => ~Sent(inbox, InvRep, a, c)
    BY <1>1, <1>5, MoreKindsHeld DEF PairInv, GivenUp
  <2>2. QED
    BY <1>2, <1>6, <1>8, <1>9, <2>1 DEF UpgradeKept, CachePosts
<1>12. OwnerState(a, c)'
  BY <1>1, <1>2, <1>5, <1>6 DEF PairAsserted, OwnerState, SameView, CachePosts
<1>13. ServiceFits(a, c)'
  BY <1>1, <1>6, <1>8, <1>9 DEF ServiceFits, CachePosts
<1>14. PairAsserted(a, c)'
  BY <1>10, <1>11, <1>12, <1>13 DEF PairAsserted
<1>15. QED
  BY <1>4, <1>14, AssertedStep

\* For the first waiter, which wants to write a line that came in SHARED.
LEMMA ServeByUpgradeAsserted ==
  ASSUME IInv, SafeLines, AssertedLines, NEW c \in Core, ServeByUpgrade(c) PROVE AssertedLines'
<1>1. PICK a \in Addr :
        /\ net[c].at = "serve" /\ a = net[c].addr
        /\ waiters[c][a] # <<>> /\ Head(waiters[c][a]).exclusive
        /\ llc[c][a] = "SHARED"
        /\ llc' = [llc EXCEPT ![c][a] = "SHARED_UPGRADING"]
        /\ inbox' = Deliver(inbox, Msg("UPGRADE_REQ", a, c, "none"), {DirHome[a]})
        /\ Done(c)
        /\ UNCHANGED <<waiters, dir, present, replaced, queue>>
  BY DEF ServeByUpgrade, Serving, dirVars, IInv, TypeOK
<1>2. net'[c].at = "recv" /\ \A k \in Core \ {c} : net'[k] = net[k]
  BY <1>1 DEF Done, GoTo, IInv, TypeOK
<1>3. \A b \in Addr : SameLine(b)
  BY <1>1, <1>2, LinesStay
<1>4. ~Awaited(c, a) /\ ~Serves(a, c)'
  BY <1>1, <1>2 DEF Awaited, Serves
<1>5. \A b \in Addr, k \in Core : b # a \/ k # c => SameService(b, k) /\ (Awaited(k, b)' <=> Awaited(k, b))
  <2>1. \A b \in Addr, k \in Core : b # a \/ k # c => SameService(b, k)
    BY <1>1, <1>2, ServedElsewhere
  <2>2. QED
    BY <1>1, <1>2, <2>1, ServiceMoves
<1>6. "UPGRADE_REQ" \in DemandReq /\ \A k \in Core : net'[k].at = "head" => net'[k] = net[k]
  BY <1>2 DEF DemandReq
<1>7. QED
  BY <1>1, <1>3, <1>4, <1>5, <1>6, AskAsserted

\* A thread misses: the first waiter asks for what it needs, the others wait.
LEMMA MissAsserted ==
  ASSUME IInv, SafeLines, AssertedLines, NEW t \in Thread, NEW a \in Addr,
         NEW exclusive \in BOOLEAN, Miss(t, a, exclusive)
  PROVE  AssertedLines'
<1> DEFINE c == LLCOf[t]
           type == RequestFor(c, a, exclusive)
           w == [thread |-> t, exclusive |-> exclusive]
<1>1. /\ net[c].at # "serve" /\ ~Permitted(c, a, exclusive)
      /\ MissIsExpected(c, a, exclusive)
      /\ waiters' = [waiters EXCEPT ![c][a] = Append(@, w)]
      /\ llc' = IF waiters[c][a] = <<>> /\ type = "UPGRADE_REQ"
                THEN [llc EXCEPT ![c][a] = "SHARED_UPGRADING"] ELSE llc
      /\ inbox' = IF waiters[c][a] = <<>>
                  THEN Deliver(inbox, Msg(type, a, c, "none"), {DirHome[a]}) ELSE inbox
      /\ UNCHANGED <<net, dir, present, replaced, queue>>
  BY DEF Miss, Misses, MayAccess, StackFree, dirVars
<1>2. c \in Core
  OBVIOUS
<1>3. type \in DemandReq /\ (type # "SH_REQ" => exclusive)
  BY DEF RequestFor, DemandReq
<1>4. waiters[c][a] = <<>> =>
        \/ type # "UPGRADE_REQ" /\ llc[c][a] \in {"INVALID", "SHARED_UPGRADING"}
        \/ type = "UPGRADE_REQ" /\ llc[c][a] = "SHARED"
  <2>1. llc[c][a] \in CacheState
    BY <1>2 DEF IInv, TypeOK
  <2>2. QED
    BY <1>1, <2>1 DEF CacheState, Permitted, Readable, MissIsExpected, RequestFor
<1>5. w \in Waiter /\ w.exclusive = exclusive
  BY DEF Waiter
<1> HIDE DEF c, type, w
<1>6. \A k \in Core, b \in Addr : k # c \/ b # a => waiters'[k][b] = waiters[k][b]
  <2>1. waiters \in [Core -> [Addr -> Seq(Waiter)]]
    BY DEF IInv, TypeOK
  <2>2. QED
    BY <1>1, <1>2, <2>1, OneChanged
<1>7. /\ waiters'[c][a] # <<>>
      /\ waiters[c][a] = <<>> => Head(waiters'[c][a]) = w
      /\ waiters[c][a] # <<>> => Head(waiters'[c][a]) = Head(waiters[c][a])
  <2>1. waiters \in [Core -> [Addr -> Seq(Waiter)]]
    BY DEF IInv, TypeOK
  <2>2. waiters'[c][a] = Append(waiters[c][a], w) /\ waiters[c][a] \in Seq(Waiter)
    BY <1>1, <1>2, <2>1, OneChanged
  <2>3. QED
    BY <1>5, <2>2, AppendHead
<1>8. \A b \in Addr, k \in Core : b # a \/ k # c => SameService(b, k) /\ (Awaited(k, b)' <=> Awaited(k, b))
  BY <1>1, <1>6 DEF Awaited, SameService
<1>9. \A b \in Addr : SameLine(b)
  BY <1>1, LinesStay
<1>10. CASE waiters[c][a] = <<>>
  <2>1. ~Awaited(c, a)
    BY <1>10 DEF Awaited
  <2>2. llc[c][a] # "SHARED_UPGRADING"
    BY <1>2, <2>1 DEF SafeLines, LineInv, PairInv, OneRequest
  <2>3. ~Serves(a, c)'
    BY <1>1, <1>2, <1>10 DEF Serves, IInv, NetOK
  <2>4. QED
    BY <1>1, <1>2, <1>3, <1>4, <1>5, <1>7, <1>8, <1>9, <1>10, <2>1, <2>2, <2>3, AskAsserted
<1>11. CASE waiters[c][a] # <<>>
  <2>1. SameService(a, c) /\ (Awaited(c, a)' <=> Awaited(c, a))
    BY <1>1, <1>7, <1>11 DEF Awaited, SameService
  <2>2. \A b \in Addr, k \in Core : SamePair(b, k) /\ SameService(b, k)
    BY <1>1, <1>8, <1>11, <2>1 DEF SamePair, SameMail, SameMailAbout
  <2>3. QED
    BY <1>1, <1>9, <2>2, NothingAsserted
<1>12. QED
  BY <1>10, <1>11

\* A write to a line the cache may write: what was granted for writing is written.
LEMMA WriteAsserted ==
  ASSUME IInv, SafeLines, AssertedLines, NEW c \in Core, NEW a \in Addr,
         llc[c][a] \in {"EXCLUSIVE", "MODIFIED"},
         llc' = [llc EXCEPT ![c][a] = "MODIFIED"],
         WrittenAt(c, a), UNCHANGED <<waiters, dir, present, replaced>>,
         \A k \in Core : net[k].at \in {"head", "next"} \/ net'[k].at \in {"head", "next"} =>
           /\ net'[k].at = net[k].at /\ net'[k].addr = net[k].addr
           /\ net'[k].data # "none" => net[k].data # "none",
         \A b \in Addr, k \in Core : Awaited(k, b)' <=> Awaited(k, b),
         \A b \in Addr, k \in Core : b # a \/ k # c => SameService(b, k)
  PROVE  AssertedLines'
<1>1. \A k \in Core, b \in Addr : llc'[k][b] = IF k = c /\ b = a THEN "MODIFIED" ELSE llc[k][b]
  <2>1. llc \in [Core -> [Addr -> CacheState]]
    BY DEF IInv, TypeOK
  <2>2. QED
    BY <2>1, OneChanged
<1>2. \A b \in Addr : SameLine(b)
  BY AgedLines
<1>3. \A b \in Addr, k \in Core : SameMail(inbox', inbox, b, k)
  BY AgedMail
<1>4. \A b \in Addr, k \in Core : b # a \/ k # c => SamePair(b, k)
  BY <1>1, <1>3 DEF SamePair
<1>5. /\ SameView(a, c) /\ PairInv(a, c) /\ PairAsserted(a, c) /\ llc'[c][a] = "MODIFIED"
      /\ InvLive(a, c)' <=> InvLive(a, c)
      /\ \A T, U : SameMailAbout(inbox', inbox, a, c, T, U)
  BY <1>1, <1>2, <1>3, ViewStays, AssertedView
     DEF SafeLines, LineInv, AssertedLines, LineAsserted, SameMail
<1>6. \A T : Outstanding(T, a, c)' <=> Outstanding(T, a, c)
  BY <1>5 DEF Outstanding, SameView, SameMailAbout
<1>7. InvCommand(a, c)' /\ Justified(a, c)' /\ OwnerState(a, c)'
  BY <1>5 DEF PairAsserted, InvCommand, Justified, OwnerState, SameView, SameMailAbout
<1>8. UpgradeKept(a, c)'
  BY <1>5, <1>6 DEF PairAsserted, UpgradeKept, SameMailAbout
<1>9. ServiceFits(a, c)'
  BY <1>5, <1>6 DEF PairAsserted, ServiceFits, SameView, SameMailAbout, Readable
<1>10. PairAsserted(a, c)'
  BY <1>7, <1>8, <1>9 DEF PairAsserted
<1>11. QED
  BY <1>2, <1>4, <1>10, AssertedStep

\* A write leaves a network thread that has no data without any.
LEMMA AgedNetData ==
  ASSUME IInv, NEW a \in Addr, NEW k \in Core
  PROVE  NetWrittenAt(a)[k].data # "none" => net[k].data # "none"
<1>1. net[k] \in NetState
  BY DEF IInv, TypeOK
<1>2. Aged(net[k]).data = Outdated(net[k].data)
  BY <1>1 DEF Aged, NetState
<1>3. QED
  BY <1>2 DEF NetWrittenAt, Outdated

\* By a thread that hits ...
LEMMA WriteHitAsserted ==
  ASSUME IInv, SafeLines, AssertedLines, NEW t \in Thread, NEW a \in Addr, WriteHit(t, a)
  PROVE  AssertedLines'
<1> DEFINE c == LLCOf[t]
<1>1. /\ llc[c][a] \in {"EXCLUSIVE", "MODIFIED"}
      /\ llc' = [llc EXCEPT ![c][a] = "MODIFIED"]
      /\ WrittenAt(c, a)
      /\ net' = NetWrittenAt(a)
      /\ UNCHANGED <<waiters, dir, present, replaced>>
  BY DEF WriteHit
<1>2. c \in Core
  OBVIOUS
<1>3. \A k \in Core : /\ net'[k].at = net[k].at /\ net'[k].addr = net[k].addr
                      /\ net'[k].data # "none" => net[k].data # "none"
  BY <1>1, AgedNet, AgedNetData
<1>4. \A b \in Addr, k \in Core : SameService(b, k) /\ (Awaited(k, b)' <=> Awaited(k, b))
  BY <1>1, <1>3 DEF Awaited, SameService
<1> HIDE DEF c
<1>5. QED
  BY <1>1, <1>2, <1>3, <1>4, WriteAsserted

\* ... or by the first waiter, which is woken.  A reader is woken only when the
\* line was not granted for writing.
LEMMA WakeAsserted ==
  ASSUME IInv, SafeLines, AssertedLines, NEW c \in Core, Wake(c) PROVE AssertedLines'
<1>1. PICK a \in Addr :
        /\ net[c].at = "serve" /\ a = net[c].addr
        /\ UNCHANGED <<waiters, dir, present, replaced>>
        /\ \/ /\ llc[c][a] \in {"EXCLUSIVE", "MODIFIED"}
              /\ llc' = [llc EXCEPT ![c][a] = "MODIFIED"]
              /\ WrittenAt(c, a)
              /\ net' = [NetWrittenAt(a) EXCEPT ![c].at = "woken"]
           \/ /\ llc[c][a] \in Readable /\ ~Head(waiters[c][a]).exclusive
              /\ GoTo(c, "woken", a, "none")
              /\ UNCHANGED <<llc, queue, inbox>>
  BY Zenon DEF Wake, Serving, Permitted, IInv, TypeOK
<1>2. /\ net'[c].at = "woken" /\ net'[c].addr = a
      /\ \A k \in Core \ {c} : /\ net'[k].at = net[k].at /\ net'[k].addr = net[k].addr
                               /\ net'[k].data # "none" => net[k].data # "none"
  <2>1. CASE net' = [NetWrittenAt(a) EXCEPT ![c].at = "woken"]
    <3>1. \A k \in Core : /\ NetWrittenAt(a)[k] \in NetState
                          /\ NetWrittenAt(a)[k].at = net[k].at
                          /\ NetWrittenAt(a)[k].addr = net[k].addr
                          /\ NetWrittenAt(a)[k].data # "none" => net[k].data # "none"
      BY AgedNet, AgedNetData
    <3>2. NetWrittenAt(a) = [k \in Core |-> NetWrittenAt(a)[k]]
      BY DEF NetWrittenAt
    <3>3. QED
      BY <1>1, <2>1, <3>1, <3>2 DEF NetState
  <2>2. CASE GoTo(c, "woken", a, "none")
    BY <2>2 DEF GoTo, IInv, TypeOK
  <2>3. QED
    BY <1>1, <2>1, <2>2
<1>3. \A b \in Addr, k \in Core : Awaited(k, b)' <=> Awaited(k, b)
  <2>1. ASSUME NEW b \in Addr, NEW k \in Core PROVE Awaited(k, b)' <=> Awaited(k, b)
    <3>1. CASE k = c
      BY <1>1, <1>2, <3>1 DEF Awaited
    <3>2. CASE k # c
      BY <1>1, <1>2, <3>2 DEF Awaited
    <3>3. QED
      BY <3>1, <3>2
  <2>2. QED
    BY <2>1
<1>4. \A k \in Core : net[k].at \in {"head", "next"} \/ net'[k].at \in {"head", "next"} =>
        /\ net'[k].at = net[k].at /\ net'[k].addr = net[k].addr
        /\ net'[k].data # "none" => net[k].data # "none"
  BY <1>1, <1>2
<1>5. \A b \in Addr, k \in Core : b # a \/ k # c => SameService(b, k)
  BY <1>1, <1>2, ServedElsewhere
<1>6. CASE WrittenAt(c, a) /\ llc[c][a] \in {"EXCLUSIVE", "MODIFIED"}
           /\ llc' = [llc EXCEPT ![c][a] = "MODIFIED"]
  BY <1>1, <1>3, <1>4, <1>5, <1>6, WriteAsserted
<1>7. CASE /\ llc[c][a] \in Readable /\ ~Head(waiters[c][a]).exclusive
           /\ UNCHANGED <<llc, queue, inbox>>
  <2>1. \A b \in Addr : SameLine(b)
    BY <1>1, <1>4, <1>7, LinesStay
  <2>2. \A b \in Addr, k \in Core : SamePair(b, k)
    BY <1>3, <1>7 DEF SamePair, SameMail, SameMailAbout
  <2>3. PairAsserted(a, c)
    BY DEF AssertedLines, LineAsserted
  <2>4. ServiceFits(a, c)'
    <3>1. /\ dir'[a] = dir[a] /\ llc'[c][a] = llc[c][a]
          /\ \A T : /\ Got(inbox', T, a, c) <=> Got(inbox, T, a, c)
                    /\ Outstanding(T, a, c)' <=> Outstanding(T, a, c)
      BY <2>1, <2>2, <2>3, OnlyServed
    <3>2. QED
      BY <1>1, <1>7, <2>3, <3>1 DEF PairAsserted, ServiceFits
  <2>5. PairAsserted(a, c)'
    BY <2>1, <2>2, <2>3, <2>4, OnlyServed
  <2>6. QED
    BY <1>4, <1>5, <2>1, <2>2, <2>5, AssertedStep
<1>8. QED
  BY <1>1, <1>6, <1>7

\* A waiter that was served leaves the list: no request or reply is under way.
LEMMA RemoveWaiterAsserted ==
  ASSUME IInv, SafeLines, AssertedLines, NEW c \in Core, RemoveWaiter(c) PROVE AssertedLines'
<1>1. PICK a \in Addr :
        /\ net[c].at = "woken" /\ a = net[c].addr
        /\ waiters' = [waiters EXCEPT ![c][a] = Tail(@)]
        /\ GoTo(c, "serve", a, "none")
        /\ UNCHANGED <<llc, inbox, dir, present, replaced, queue>>
  BY DEF RemoveWaiter, Serving, dirVars, IInv, TypeOK
<1>2. /\ net'[c].at = "serve" /\ net'[c].addr = a
      /\ \A k \in Core \ {c} : net'[k] = net[k]
  BY <1>1 DEF GoTo, IInv, TypeOK
<1>3. \A k \in Core, b \in Addr : k # c \/ b # a => waiters'[k][b] = waiters[k][b]
  <2>1. waiters \in [Core -> [Addr -> Seq(Waiter)]]
    BY DEF IInv, TypeOK
  <2>2. QED
    BY <1>1, <2>1, OneChanged
<1>4. \A b \in Addr, k \in Core : Awaited(k, b)' <=> Awaited(k, b)
  <2>1. ASSUME NEW b \in Addr, NEW k \in Core PROVE Awaited(k, b)' <=> Awaited(k, b)
    <3>1. CASE k = c /\ b = a
      BY <1>1, <1>2, <3>1 DEF Awaited
    <3>2. CASE k = c /\ b # a
      BY <1>1, <1>2, <1>3, <3>2 DEF Awaited
    <3>3. CASE k # c
      BY <1>2, <1>3, <3>3 DEF Awaited
    <3>4. QED
      BY <3>1, <3>2, <3>3
  <2>2. QED
    BY <2>1
<1>5. \A b \in Addr : SameLine(b)
  BY <1>1, <1>2, LinesStay
<1>6. \A b \in Addr, k \in Core : SamePair(b, k)
  BY <1>1, <1>4 DEF SamePair, SameMail, SameMailAbout
<1>7. \A b \in Addr, k \in Core : b # a \/ k # c => SameService(b, k)
  BY <1>1, <1>2, <1>3, ServedElsewhere
<1>8. PairAsserted(a, c) /\ PairInv(a, c)
  BY DEF AssertedLines, LineAsserted, SafeLines, LineInv
<1>9. ~Outstanding(WriteReq, a, c) /\ ~Got(inbox, ExGrantRep, a, c)
  <2>1. ~Awaited(c, a)
    BY <1>1 DEF Awaited
  <2>2. QED
    BY <1>8, <2>1, WritersQueued, KindsHeld DEF PairInv, OneRequest
<1>10. ServiceFits(a, c)'
  <2>1. /\ dir'[a] = dir[a] /\ llc'[c][a] = llc[c][a]
        /\ \A T : /\ Got(inbox', T, a, c) <=> Got(inbox, T, a, c)
                  /\ Outstanding(T, a, c)' <=> Outstanding(T, a, c)
    BY <1>5, <1>6, <1>8, OnlyServed
  <2>2. llc[c][a] \in Readable /\ ~(dir[a].state = "MODIFIED" /\ llc[c][a] = "EXCLUSIVE")
    BY <1>1, <1>8 DEF PairAsserted, ServiceFits, Serves
  <2>3. QED
    BY <1>9, <2>1, <2>2 DEF ServiceFits
<1>11. PairAsserted(a, c)'
  BY <1>5, <1>6, <1>8, <1>10, OnlyServed
<1>12. QED
  BY <1>2, <1>5, <1>6, <1>7, <1>11, AssertedStep

\* No waiter is left: nothing was granted for writing.
LEMMA AllServedAsserted ==
  ASSUME IInv, SafeLines, AssertedLines, NEW c \in Core, AllServed(c) PROVE AssertedLines'
<1>1. PICK a \in Addr :
        /\ net[c].at = "serve" /\ a = net[c].addr
        /\ waiters[c][a] = <<>>
        /\ Done(c)
        /\ UNCHANGED <<llc, waiters, inbox, dir, present, replaced, queue>>
  BY DEF AllServed, Serving, cacheVars, dirVars, IInv, TypeOK
<1>2. net'[c].at = "recv" /\ \A k \in Core \ {c} : net'[k] = net[k]
  BY <1>1 DEF Done, GoTo, IInv, TypeOK
<1>3. \A b \in Addr, k \in Core : Awaited(k, b)' <=> Awaited(k, b)
  <2>1. ASSUME NEW b \in Addr, NEW k \in Core PROVE Awaited(k, b)' <=> Awaited(k, b)
    <3>1. CASE k = c
      BY <1>1, <1>2, <3>1 DEF Awaited
    <3>2. CASE k # c
      BY <1>1, <1>2, <3>2 DEF Awaited
    <3>3. QED
      BY <3>1, <3>2
  <2>2. QED
    BY <2>1
<1>4. \A b \in Addr : SameLine(b)
  BY <1>1, <1>2, LinesStay
<1>5. \A b \in Addr, k \in Core : SamePair(b, k)
  BY <1>1, <1>3 DEF SamePair, SameMail, SameMailAbout
<1>6. \A b \in Addr, k \in Core : b # a \/ k # c => SameService(b, k)
  BY <1>1, <1>2, ServedElsewhere
<1>7. PairAsserted(a, c)
  BY DEF AssertedLines, LineAsserted
<1>8. ServiceFits(a, c)'
  <2>1. /\ dir'[a] = dir[a] /\ llc'[c][a] = llc[c][a]
        /\ \A T : /\ Got(inbox', T, a, c) <=> Got(inbox, T, a, c)
                  /\ Outstanding(T, a, c)' <=> Outstanding(T, a, c)
    BY <1>4, <1>5, <1>7, OnlyServed
  <2>2. QED
    BY <1>1, <1>2, <1>7, <2>1 DEF PairAsserted, ServiceFits, Serves
<1>9. PairAsserted(a, c)'
  BY <1>4, <1>5, <1>7, <1>8, OnlyServed
<1>10. QED
  BY <1>2, <1>4, <1>5, <1>6, <1>9, AssertedStep

\* DRAM is no part of it.
LEMMA DramAsserted ==
  ASSUME IInv, SafeLines, AssertedLines, NEW c \in Core, DramRead(c) \/ DramWrite(c)
  PROVE  AssertedLines'
<1> PICK m, a : m = Head(inbox[c]) /\ a = m.addr
  OBVIOUS
<1>1. /\ net[c].at = "recv" /\ inbox[c] # <<>> /\ m.type \in {"DRAM_READ_REQ", "DRAM_WRITE_REQ"}
      /\ UNCHANGED <<llc, waiters, net>> /\ UNCHANGED <<dir, present, replaced, queue>>
  BY DEF DramRead, DramWrite, Received, cacheVars, dirVars
<1>2. /\ m.type = "DRAM_READ_REQ" => m.from = DirHome[a]
      /\ a \in Addr /\ dram[a] \in Data /\ InboxOK(Rest(c))
  BY <1>1, HeadOK, RestOK DEF IInv, TypeOK, MessagesTo
<1>3. \A T \in {FromCache, ToCache} : /\ "DRAM_READ_REP" \notin T
                                      /\ "DRAM_READ_REQ" \notin T /\ "DRAM_WRITE_REQ" \notin T
  BY Kinds
<1>4. Taken(Rest(c), inbox, c, m)
  BY <1>1, RestTakes DEF IInv
<1>5. \A b \in Addr, k \in Core : SameMail(Rest(c), inbox, b, k)
  BY <1>1, <1>3, <1>4, TakenElsewhere
<1>6. \A b \in Addr, k \in Core : SameMail(inbox', Rest(c), b, k)
  <2>1. CASE DramRead(c)
    <3>1. inbox' = Deliver(Rest(c), Msg("DRAM_READ_REP", a, c, dram[a]), {m.from})
      BY <2>1 DEF DramRead
    <3>2. "DRAM_READ_REP" \in MsgType
      BY DEF MsgType, DramMsg
    <3>3. Posted(inbox', Rest(c), "DRAM_READ_REP", a, c, {m.from})
      BY <1>2, <3>1, <3>2, DeliverPosts
    <3>4. QED
      BY <1>3, <3>3, PostedElsewhere
  <2>2. CASE DramWrite(c)
    <3>1. inbox' = Rest(c)
      BY <2>2 DEF DramWrite
    <3>2. QED
      BY <3>1 DEF SameMail, SameMailAbout
  <2>3. QED
    BY <2>1, <2>2
<1>7. \A b \in Addr, k \in Core : SamePair(b, k) /\ SameService(b, k)
  <2>1. \A b \in Addr, k \in Core : SameMail(inbox', inbox, b, k)
    BY <1>5, <1>6, SameMailTrans
  <2>2. QED
    BY <1>1, <2>1 DEF SamePair, Awaited, SameService
<1>8. \A b \in Addr : SameLine(b)
  BY <1>1, LinesStay
<1>9. QED
  BY <1>1, <1>7, <1>8, NothingAsserted

-----------------------------------------------------------------------------
(* The steps of the directories *)

\* The directory of line a takes a message of type s of cache c and sends it one
\* of type g ("none": no such message); the cache does nothing.
Directed(a, c, s, g) ==
  /\ llc'[c][a] = llc[c][a] /\ SameService(a, c)
  /\ \A T : /\ Sent(inbox', T, a, c) => Sent(inbox, T, a, c)
            /\ Sent(inbox, T, a, c) => Sent(inbox', T, a, c) \/ s \in T
            /\ Got(inbox', T, a, c) <=> Got(inbox, T, a, c) \/ g \in T \cap ToCache
  /\ \A T, U : GotNotThen(inbox, T, U, a, c) /\ (g \in U \cap ToCache => ~Got(inbox, T, a, c)) =>
                 GotNotThen(inbox', T, U, a, c)
  /\ \A T \in {UpgradeReq, WriteReq} : Outstanding(T, a, c)' => Outstanding(T, a, c)

\* What the directory does to cache c then: it stops to wait for an INV_REP only
\* when c has given the line up, c becomes a sharer only of a line that is on its
\* way, and the line is granted for writing only to a writer.
Treated(a, c, s, g) ==
  /\ InvLive(a, c) => InvLive(a, c)' \/ c \notin dir'[a].sharers
  /\ g \in InvCmd => InvLive(a, c)'
  /\ g \in UpgradeRep => llc[c][a] = "SHARED_UPGRADING"
  /\ c \in dir'[a].sharers /\ llc[c][a] = "INVALID" =>
       \/ Got(inbox', DirReply, a, c) \/ Coming(a, c)'
       \/ c \in dir[a].sharers /\ s \notin GivesUp /\ ~Coming(a, c)
  /\ IsOwner(a, c)' /\ llc[c][a] \in {"SHARED", "SHARED_UPGRADING"} =>
       (IsOwner(a, c) /\ s \notin WbRep) \/ Got(inbox', UpgradeRep, a, c)
  /\ dir'[a].state = "MODIFIED" =>
       \/ dir[a].state = "MODIFIED" /\ s \notin WbRep
       \/ /\ ~Sent(inbox', InvRep, a, c) /\ llc[c][a] # "EXCLUSIVE"
          /\ Got(inbox', ExGrantRep, a, c) => Outstanding(WriteReq, a, c)
  /\ g \in ExGrantRep /\ dir'[a].state = "MODIFIED" => Outstanding(WriteReq, a, c)
  /\ Got(inbox', ShGrantRep, a, c) => dir'[a].state = "SHARED"

\* Then what is asserted of line a and cache c holds again.
LEMMA PairDirected ==
  ASSUME NEW a \in Addr, NEW c \in Core, PairAsserted(a, c), PairInv(a, c)',
         NEW s, NEW g, Directed(a, c, s, g), Treated(a, c, s, g)
  PROVE  PairAsserted(a, c)'
<1>1. /\ llc'[c][a] = llc[c][a]
      /\ \A T : /\ Sent(inbox', T, a, c) => Sent(inbox, T, a, c)
                /\ Sent(inbox, T, a, c) => Sent(inbox', T, a, c) \/ s \in T
                /\ Got(inbox', T, a, c) <=> Got(inbox, T, a, c) \/ g \in T \cap ToCache
      /\ Outstanding(UpgradeReq, a, c)' => Outstanding(UpgradeReq, a, c)
      /\ Outstanding(WriteReq, a, c)' => Outstanding(WriteReq, a, c)
  BY DEF Directed
<1>2. c \notin dir'[a].sharers => /\ llc[c][a] = "INVALID" /\ ~Got(inbox', Grant, a, c)
                                  /\ ~Sent(inbox', InvRep, a, c)
  <2>1. Known(a, c)'
    BY DEF PairInv
  <2>2. c \notin dir'[a].sharers => /\ llc'[c][a] = "INVALID" /\ ~Got(inbox', DirReply, a, c)
                                    /\ ~Sent(inbox', GivesUp, a, c)
    BY <2>1 DEF Known
  <2>3. QED
    BY <1>1, <2>2, KindsHeld, MoreKindsHeld
<1>3. InvCommand(a, c)'
  <2>1. SUFFICES ASSUME ~InvLive(a, c)'
                 PROVE  /\ Got(inbox', InvCmd, a, c) => llc'[c][a] = "INVALID"
                        /\ GotNotThen(inbox', Grant, InvCmd, a, c)
    BY DEF InvCommand
  <2>2. CASE InvLive(a, c)
    <3>1. c \notin dir'[a].sharers
      BY <2>1, <2>2 DEF Treated
    <3>2. QED
      BY <1>1, <1>2, <3>1, NoneThen
  <2>3. CASE ~InvLive(a, c)
    <3>1. /\ Got(inbox, InvCmd, a, c) => llc[c][a] = "INVALID"
          /\ GotNotThen(inbox, Grant, InvCmd, a, c)
      BY <2>3 DEF PairAsserted, InvCommand
    <3>2. g \notin InvCmd
      BY <2>1 DEF Treated
    <3>3. GotNotThen(inbox', Grant, InvCmd, a, c)
      BY <3>1, <3>2 DEF Directed
    <3>4. QED
      BY <1>1, <3>1, <3>2, <3>3
  <2>4. QED
    BY <2>2, <2>3
<1>4. UpgradeKept(a, c)'
  <2>1. ASSUME Outstanding(UpgradeReq, a, c)', Sent(inbox', InvRep, a, c) PROVE InvLive(a, c)'
    <3>1. InvLive(a, c)
      BY <1>1, <2>1 DEF PairAsserted, UpgradeKept
    <3>2. QED
      BY <1>2, <2>1, <3>1 DEF Treated
  <2>2. Got(inbox', UpgradeRep, a, c) => llc'[c][a] = "SHARED_UPGRADING"
    BY <1>1 DEF PairAsserted, UpgradeKept, Treated
  <2>3. QED
    BY <2>1, <2>2 DEF UpgradeKept
<1>5. Justified(a, c)'
  <2>1. SUFFICES ASSUME c \in dir'[a].sharers, llc[c][a] = "INVALID"
                 PROVE  Sent(inbox', GivesUp, a, c) \/ Got(inbox', DirReply, a, c) \/ Coming(a, c)'
    BY <1>1 DEF Justified
  <2>2. CASE c \in dir[a].sharers /\ s \notin GivesUp /\ ~Coming(a, c)
    BY <1>1, <2>1, <2>2 DEF PairAsserted, Justified
  <2>3. QED
    BY <2>1, <2>2 DEF Treated
<1>6. OwnerState(a, c)'
  <2>1. IsOwner(a, c)' /\ llc'[c][a] \in {"SHARED", "SHARED_UPGRADING"} =>
          Sent(inbox', WbRep, a, c) \/ Got(inbox', UpgradeRep, a, c)
    BY <1>1 DEF PairAsserted, OwnerState, Treated
  <2>2. dir'[a].state = "MODIFIED" /\ Sent(inbox', InvRep, a, c) => Sent(inbox', WbRep, a, c)
    BY <1>1 DEF PairAsserted, OwnerState, Treated
  <2>3. Got(inbox', ShGrantRep, a, c) => dir'[a].state = "SHARED"
    BY DEF Treated
  <2>4. QED
    BY <2>1, <2>2, <2>3 DEF OwnerState
<1>7. ServiceFits(a, c)'
  <2>1. /\ Serves(a, c)' => Serves(a, c)
        /\ net[c].at = "serve" /\ net[c].addr = a => net'[c].at = "serve" /\ net'[c].addr = a
        /\ waiters[c][a] # <<>> /\ Head(waiters[c][a]).exclusive =>
             waiters'[c][a] # <<>> /\ Head(waiters'[c][a]).exclusive
    BY DEF Directed, SameService, Serves
  <2>2. Serves(a, c)' => llc'[c][a] \in Readable
    BY <1>1, <2>1 DEF PairAsserted, ServiceFits
  <2>3. dir'[a].state = "MODIFIED" /\ llc[c][a] = "EXCLUSIVE" => dir[a].state = "MODIFIED"
    BY DEF Treated
  <2>4. dir'[a].state = "MODIFIED" /\ Got(inbox', ExGrantRep, a, c) =>
          (dir[a].state = "MODIFIED" /\ Got(inbox, ExGrantRep, a, c)) \/ Outstanding(WriteReq, a, c)
    BY <1>1 DEF Treated
  <2>5. QED
    BY <1>1, <2>1, <2>2, <2>3, <2>4 DEF PairAsserted, ServiceFits
<1>8. QED
  BY <1>3, <1>4, <1>5, <1>6, <1>7 DEF PairAsserted

\* A message to cache c, or none, ...
LEMMA DirectedTo ==
  ASSUME NEW a \in Addr, NEW c \in Core, llc'[c][a] = llc[c][a], SameService(a, c),
         NEW g, GetsMail(inbox', inbox, g, a, c),
         \A T \in {UpgradeReq, WriteReq} : Queued(Pend(a)', T, c) => Queued(Pend(a), T, c)
  PROVE  Directed(a, c, "none", g)
<1>1. \A T, U : /\ Sent(inbox', T, a, c) <=> Sent(inbox, T, a, c)
                /\ Got(inbox', T, a, c) <=> Got(inbox, T, a, c) \/ g \in T \cap ToCache
                /\ GotNotThen(inbox', T, U, a, c) <=>
                     GotNotThen(inbox, T, U, a, c) /\ (g \in U \cap ToCache => ~Got(inbox, T, a, c))
  BY DEF GetsMail
<1>2. \A T \in {UpgradeReq, WriteReq} : Outstanding(T, a, c)' => Outstanding(T, a, c)
  BY <1>1 DEF Outstanding
<1>3. QED
  BY <1>1, <1>2 DEF Directed

\* ... one of cache c, ...
LEMMA DirectedBy ==
  ASSUME NEW a \in Addr, NEW c \in Core, llc'[c][a] = llc[c][a], SameService(a, c),
         NEW s, HomeTakes(inbox', inbox, s, a, c),
         \A T \in {UpgradeReq, WriteReq} :
           Queued(Pend(a)', T, c) => Queued(Pend(a), T, c) \/ s \in T
  PROVE  Directed(a, c, s, "none")
<1>1. "none" \notin ToCache
  BY Kinds
<1>2. \A T, U : /\ Sent(inbox, T, a, c) <=> Sent(inbox', T, a, c) \/ s \in T
                /\ Got(inbox', T, a, c) <=> Got(inbox, T, a, c)
                /\ GotNotThen(inbox', T, U, a, c) <=> GotNotThen(inbox, T, U, a, c)
  BY DEF HomeTakes
<1>3. \A T \in {UpgradeReq, WriteReq} : Outstanding(T, a, c)' => Outstanding(T, a, c)
  BY <1>2 DEF Outstanding
<1>4. QED
  BY <1>1, <1>2, <1>3 DEF Directed

\* ... or neither.
LEMMA NotDirected ==
  ASSUME NEW a \in Addr, NEW c \in Core, llc'[c][a] = llc[c][a], SameService(a, c),
         SameMail(inbox', inbox, a, c),
         \A T \in {UpgradeReq, WriteReq} : Queued(Pend(a)', T, c) => Queued(Pend(a), T, c)
  PROVE  Directed(a, c, "none", "none")
<1>1. "none" \notin ToCache
  BY Kinds
<1>2. \A T, U : /\ Sent(inbox', T, a, c) <=> Sent(inbox, T, a, c)
                /\ Got(inbox', T, a, c) <=> Got(inbox, T, a, c)
                /\ GotNotThen(inbox', T, U, a, c) <=> GotNotThen(inbox, T, U, a, c)
  BY DEF SameMail, SameMailAbout
<1>3. \A T \in {UpgradeReq, WriteReq} : Outstanding(T, a, c)' => Outstanding(T, a, c)
  BY <1>2 DEF Outstanding
<1>4. QED
  BY <1>1, <1>2, <1>3 DEF Directed

\* A directory has no part in the loops over waiters.
LEMMA ServiceStays ==
  ASSUME NEW a \in Addr, WorksOn(a), UNCHANGED waiters
  PROVE  \A b \in Addr, k \in Core : SameService(b, k)
<1> SUFFICES ASSUME NEW b \in Addr, NEW k \in Core PROVE SameService(b, k)
  OBVIOUS
<1>1. CASE k = DirHome[a]
  <2>1. net[k].at \notin {"serve", "woken"} /\ net'[k].at \notin {"serve", "woken"}
    BY <1>1 DEF WorksOn
  <2>2. QED
    BY <2>1 DEF SameService, Serves
<1>2. CASE k # DirHome[a]
  <2>1. net'[k] = net[k]
    BY <1>2 DEF WorksOn
  <2>2. QED
    BY <2>1 DEF SameService
<1>3. QED
  BY <1>1, <1>2

\* A line that nothing happens to, while its directory works on another one.
LEMMA OtherLineAsserted ==
  ASSUME IInv, AssertedLines, NEW b \in Addr, NEW a \in Addr, b # a, OthersStay(a),
         \A k \in Core : SamePair(b, k) /\ SameService(b, k),
         Pend(b)' = Pend(b), Parked(b)' <=> Parked(b),
         HeadAt(b)' => HeadAt(b) /\ net'[DirHome[b]] = net[DirHome[b]]
  PROVE  LineAsserted(b)'
<1>1. /\ LineAsserted(b)
      /\ dir'[b] = dir[b] /\ queue'[b] = queue[b]
      /\ b \in present \cup replaced => b \in present' \cup replaced'
  BY DEF AssertedLines, OthersStay
<1>2. SameLine(b)
  BY <1>1, SameQueue DEF SameLine
<1>3. ASSUME NEW k \in Core PROVE PairAsserted(b, k)'
  BY <1>1, <1>2, AssertedStays DEF LineAsserted
<1>4. WaitFits(b)' /\ SharersFit(b)'
  BY <1>1 DEF LineAsserted, WaitFits, SharersFit, HeadWaits
<1>5. HeadFits(b)'
  BY <1>1 DEF LineAsserted, HeadFits
<1>6. QED
  BY <1>3, <1>4, <1>5 DEF LineAsserted

\* A step of the directory that concerns one line: it holds of all of them.
LEMMA OneLineAsserted ==
  ASSUME IInv, AssertedLines, NEW a \in Addr, WorksOn(a), OthersStay(a), LineAsserted(a)'
  PROVE  AssertedLines'
<1>1. DirHome[a] \in Core
  OBVIOUS
<1>2. \A b \in Addr, k \in Core : Awaited(k, b)' <=> Awaited(k, b)
  BY <1>1, NoWaiterServed DEF WorksOn, OthersStay
<1>3. \A b \in Addr, k \in Core : SameService(b, k)
  BY ServiceStays DEF OthersStay
<1>4. ASSUME NEW b \in Addr, b # a PROVE LineAsserted(b)'
  <2>1. DirHome[b] \in Core
    OBVIOUS
  <2>2. /\ Parked(b)' <=> Parked(b)
        /\ Pend(b)' = Pend(b)
    BY <1>4, <2>1 DEF Parked, Pend, WorksOn, OthersStay
  <2>3. \A k \in Core : SamePair(b, k) /\ SameService(b, k)
    BY <1>2, <1>3, <1>4 DEF SamePair, OthersStay
  <2>4. HeadAt(b)' => HeadAt(b) /\ net'[DirHome[b]] = net[DirHome[b]]
    BY <1>4, <2>1 DEF HeadAt, WorksOn
  <2>5. QED
    BY <1>4, <2>2, <2>3, <2>4, OtherLineAsserted
<1>5. QED
  BY <1>4 DEF AssertedLines

\* The same of a step that changes another line than the one a thread works on.
LEMMA AnotherLineAsserted ==
  ASSUME IInv, AssertedLines, NEW v \in Addr, net' = net, OthersStay(v), LineAsserted(v)'
  PROVE  AssertedLines'
<1>1. ASSUME NEW b \in Addr, b # v PROVE LineAsserted(b)'
  <2>1. (Parked(b)' <=> Parked(b)) /\ Pend(b)' = Pend(b)
    BY <1>1 DEF Parked, Pend, OthersStay
  <2>2. \A k \in Core : SamePair(b, k) /\ SameService(b, k)
    BY <1>1 DEF SamePair, Awaited, OthersStay, SameService
  <2>3. HeadAt(b)' => HeadAt(b) /\ net'[DirHome[b]] = net[DirHome[b]]
    BY DEF HeadAt
  <2>4. QED
    BY <1>1, <2>1, <2>2, <2>3, OtherLineAsserted
<1>2. QED
  BY <1>1 DEF AssertedLines

\* What is asserted of the line whose request is processed: no INV_REP is waited for.
LEMMA AtWorkAsserted ==
  ASSUME IInv, SafeLines, AssertedLines, NEW h \in Core, net[h].at = "head", NEW a, a = net[h].addr
  PROVE  /\ a \in Addr /\ DirHome[a] = h /\ Pend(a) = queue[a] /\ LineAsserted(a)
         /\ net[h].data # "none" =>
              /\ dir[a].state \notin Owned
              /\ Head(queue[a]).type = "EX_REQ" => dir[a].state = "UNCACHED"
         /\ Head(queue[a]).type = "NULLIFY_REQ" => dir[a].state = "UNCACHED"
         /\ \A c \in Core : ~InvLive(a, c) /\ PairAsserted(a, c) /\ PairInv(a, c)
         /\ "none" \notin WbRep /\ "none" \notin GivesUp /\ "none" \notin ToCache
<1>1. a \in Addr /\ DirHome[a] = h /\ Pend(a) = queue[a] /\ ~Parked(a) /\ LineInv(a)
  BY AtWork
<1>2. LineAsserted(a)
  BY <1>1 DEF AssertedLines
<1>3. HeadAt(a)
  BY <1>1 DEF HeadAt
<1>4. \A c \in Core : ~InvLive(a, c) /\ PairAsserted(a, c) /\ PairInv(a, c)
  BY <1>1, <1>2 DEF InvLive, Blocked, LineAsserted, LineInv
<1>5. "none" \notin WbRep /\ "none" \notin GivesUp /\ "none" \notin ToCache
  BY Kinds
<1>6. QED
  BY <1>1, <1>2, <1>3, <1>4, <1>5 DEF LineAsserted, HeadFits

\* What the directory sends when it processes a request, and what that is about.
LEMMA CommandsAsserted ==
  ASSUME IInv, SafeLines, AssertedLines, SafeLines',
         NEW h \in Core, net[h].at = "head", NEW a, a = net[h].addr,
         Done(h), UNCHANGED <<llc, waiters, dir, present, replaced, queue>>,
         NEW got \in [Core -> DirCommand \cup {"none"}],
         \A c \in Core : GetsMail(inbox', inbox, got[c], a, c),
         \A b \in Addr \ {a}, c \in Core : SameMail(inbox', inbox, b, c),
         \A b \in Addr, c \in Core : SameReads(inbox', inbox, b, c),
         \A c \in Core : got[c] = "INV_REQ" =>
           /\ Head(queue[a]).type \in DemandReq /\ dir[a].state = "SHARED" /\ c \in dir[a].sharers
           /\ Head(queue[a]).type = "UPGRADE_REQ" => Head(queue[a]).from # c
           /\ Head(queue[a]).type = "SH_REQ" =>
                MaxHwSharers = 1 /\ Head(queue[a]).from \notin dir[a].sharers
  PROVE  AssertedLines'
<1>1. /\ a \in Addr /\ DirHome[a] = h
      /\ Pend(a) = queue[a] /\ queue[a] # <<>> /\ ~Head(queue[a]).waitForData
      /\ ~HeadWaits(a)
  BY AtWork
<1>2. /\ LineAsserted(a) /\ "none" \notin WbRep /\ "none" \notin GivesUp
      /\ \A c \in Core : ~InvLive(a, c) /\ PairAsserted(a, c)
  BY AtWorkAsserted
<1>3. net'[h].at = "recv" /\ \A k \in Core \ {h} : net'[k] = net[k]
  BY DEF Done, GoTo, IInv, TypeOK
<1>4. Parked(a)' /\ Pend(a)' = queue[a]
  BY <1>1, <1>3 DEF Parked, Pend
<1>5. WorksOn(a) /\ OthersStay(a)
  BY <1>1, <1>3 DEF WorksOn, OthersStay
<1>6. ASSUME NEW c \in Core PROVE PairAsserted(a, c)'
  <2>1. PairInv(a, c)'
    BY <1>1 DEF SafeLines, LineInv
  <2>2. SameService(a, c)
    BY <1>1, <1>5, ServiceStays DEF OthersStay
  <2>3. Directed(a, c, "none", got[c])
    BY <1>1, <1>4, <2>2, DirectedTo
  <2>4. /\ got[c] \in InvCmd => got[c] = "INV_REQ"
        /\ got[c] \notin UpgradeRep /\ got[c] \notin ExGrantRep /\ got[c] \notin ShGrantRep
    BY Kinds, MoreKinds DEF DirCommand
  <2>5. got[c] \in InvCmd => InvLive(a, c)'
    BY <1>1, <1>4, <2>4 DEF InvLive, Blocked, DemandReq
  <2>6. Coming(a, c) => Coming(a, c)'
    BY <1>1, <1>4 DEF Coming
  <2>7. Got(inbox', ShGrantRep, a, c) => dir'[a].state = "SHARED"
    BY <1>2, <2>3, <2>4 DEF Directed, PairAsserted, OwnerState
  <2>8. Treated(a, c, "none", got[c])
    BY <1>2, <2>4, <2>5, <2>6, <2>7 DEF Treated, IsOwner
  <2>9. QED
    BY <1>1, <1>2, <2>1, <2>3, <2>8, PairDirected
<1>7. WaitFits(a)' /\ HeadFits(a)' /\ SharersFit(a)'
  <2>1. ~HeadWaits(a)' /\ ~HeadAt(a)'
    BY <1>1, <1>3, <1>4 DEF HeadWaits, HeadAt
  <2>2. QED
    BY <1>2, <2>1 DEF WaitFits, HeadFits, LineAsserted, SharersFit
<1>8. QED
  BY <1>1, <1>5, <1>6, <1>7, OneLineAsserted DEF LineAsserted

\* Commands for which SafeLines is known to hold again.
LEMMA CommandAsserted ==
  ASSUME IInv, SafeLines, AssertedLines, SafeLines',
         NEW h \in Core, net[h].at = "head", NEW a, a = net[h].addr,
         NEW type \in DirCommand, NEW to, Command(h, type, to),
         type = "INV_REQ" =>
           /\ Head(queue[a]).type \in {"EX_REQ", "SH_REQ"} /\ dir[a].state = "SHARED"
           /\ to \subseteq dir[a].sharers
           /\ Head(queue[a]).type = "SH_REQ" =>
                MaxHwSharers = 1 /\ Head(queue[a]).from \notin dir[a].sharers
  PROVE  AssertedLines'
<1>1. PICK got : /\ CommandsPosted(h, a, got)
                 /\ \A c \in Core : got[c] \in DirCommand => c \in to /\ got[c] = type
  BY CommandPosts
<1>2. \A c \in Core : got[c] = "INV_REQ" =>
        /\ Head(queue[a]).type \in DemandReq /\ dir[a].state = "SHARED" /\ c \in dir[a].sharers
        /\ Head(queue[a]).type = "UPGRADE_REQ" => Head(queue[a]).from # c
        /\ Head(queue[a]).type = "SH_REQ" =>
             MaxHwSharers = 1 /\ Head(queue[a]).from \notin dir[a].sharers
  BY <1>1 DEF DirCommand, DemandReq
<1>3. QED
  BY <1>1, <1>2, CommandsAsserted DEF CommandsPosted

\* Where an entry has no room for one more sharer, it has one.
LEMMA NoRoom ==
  ASSUME RoomForSharers, NEW s \in SUBSET Core, NEW f \in Core, f \notin s, Cardinality(s) >= MaxHwSharers
  PROVE  MaxHwSharers = 1
<1>1. SUFFICES ASSUME Cardinality(Core) <= MaxHwSharers PROVE FALSE
  BY DEF RoomForSharers
<1>2. IsFiniteSet(Core) /\ IsFiniteSet(s)
  BY CoreAssumption, FS_Subset
<1>3. Cardinality(Core) \in Nat /\ Cardinality(s) \in Nat /\ MaxHwSharers \in Nat
  BY <1>2, FS_CardinalityType
<1>4. Cardinality(s) <= Cardinality(Core) /\ Cardinality(s) # Cardinality(Core)
  BY <1>2, FS_Subset
<1>5. QED
  BY <1>1, <1>3, <1>4

\* Requests that have caches flush, write back or give up the line.
LEMMA AllCommandsAsserted ==
  ASSUME RoomForSharers, IInv, SafeLines, AssertedLines, NEW h \in Core,
         \/ ExFlush(h) \/ ExInvalidate(h) \/ ShWriteBack(h) \/ ShMakeRoom(h) \/ UpgradeFlush(h)
  PROVE  AssertedLines'
<1>1. SafeLines'
  BY CommandsSafe
<1> PICK a : a = net[h].addr
  OBVIOUS
<1>2. CASE ExFlush(h) \/ ShWriteBack(h) \/ UpgradeFlush(h)
  <2>1. PICK type \in {"FLUSH_REQ", "WB_REQ"} :
          net[h].at = "head" /\ Command(h, type, {dir[a].owner})
    BY <1>2 DEF ExFlush, ShWriteBack, UpgradeFlush, Processing
  <2>2. QED
    BY <1>1, <2>1, CommandAsserted DEF DirCommand
<1>3. CASE ExInvalidate(h)
  <2>1. /\ net[h].at = "head" /\ Head(queue[a]).type = "EX_REQ" /\ dir[a].state = "SHARED"
        /\ Command(h, "INV_REQ", dir[a].sharers)
    BY <1>3 DEF ExInvalidate, Processing
  <2>2. QED
    BY <1>1, <2>1, CommandAsserted DEF DirCommand
<1>4. CASE ShMakeRoom(h)
  <2>1. PICK s \in dir[a].sharers :
          /\ net[h].at = "head" /\ Head(queue[a]).type = "SH_REQ" /\ dir[a].state = "SHARED"
          /\ Head(queue[a]).from \notin dir[a].sharers
          /\ Cardinality(dir[a].sharers) >= MaxHwSharers
          /\ Command(h, "INV_REQ", {s})
    BY <1>4 DEF ShMakeRoom, Processing
  <2>2. a \in Addr /\ Head(queue[a]).from \in Core /\ dir[a].sharers \in SUBSET Core
    BY <2>1, AtWork DEF IInv, TypeOK, DirEntry
  <2>3. MaxHwSharers = 1
    BY <2>1, <2>2, NoRoom
  <2>4. QED
    BY <1>1, <2>1, <2>3, CommandAsserted DEF DirCommand
<1>5. QED
  BY <1>2, <1>3, <1>4

\* An upgrade: the other sharers give the line up.
LEMMA UpgradeInvalidateAsserted ==
  ASSUME IInv, SafeLines, AssertedLines, NEW h \in Core, UpgradeInvalidate(h) PROVE AssertedLines'
<1>1. SafeLines'
  BY UpgradeInvalidateSafe
<1> PICK a : a = net[h].addr
  OBVIOUS
<1>2. PICK got :
        /\ CommandsPosted(h, a, got)
        /\ \A k \in Core : got[k] = "INV_REQ" => k \in dir[a].sharers /\ k # Head(queue[a]).from
  BY UpgradeInvalidatePosts
<1>3. net[h].at = "head" /\ Head(queue[a]).type = "UPGRADE_REQ" /\ dir[a].state = "SHARED"
  BY UpgradeInvalidatePosts
<1>4. QED
  BY <1>1, <1>2, <1>3, CommandsAsserted DEF CommandsPosted, DemandReq

\* Entry e and reply "rep" are what the request at the head of the queue asks for.
EntryFits(a, rep, e) ==
  /\ e.state = "MODIFIED" => Head(queue[a]).type \in WriteReq
  /\ Head(queue[a]).type = "EX_REQ" => e.state = "MODIFIED"
  /\ Head(queue[a]).type = "SH_REQ" => e.state \in {"SHARED", "EXCLUSIVE"}
  /\ rep = "SH_REP" \/ dir[a].state = "SHARED" => e.state = "SHARED"
  /\ e.sharers \subseteq dir[a].sharers \cup {Head(queue[a]).from}
  /\ MaxHwSharers = 1 => \A c, k \in e.sharers : c = k

\* The directory of line a works on it and goes on to no other request.
WorksOff(a) == WorksOn(a) /\ OthersStay(a) /\ ~HeadAt(a)'

\* Cache c gets got[c] when f's request for data is answered or forwarded.
RetrieverSends(a, rep, f, got) ==
  \A c \in Core : /\ GetsMail(inbox', inbox, got[c], a, c)
                  /\ got[c] \in {"none", "WB_REQ", "DRAM_READ_REQ"} \/ (c = f /\ got[c] = rep)

\* f becomes a sharer, and its data comes; message got[c] is sent to cache c.
LEMMA RetrievedAsserted ==
  ASSUME IInv, SafeLines, AssertedLines, SafeLines',
         NEW h \in Core, net[h].at = "head", NEW a, a = net[h].addr,
         NEW rep \in Grant, NEW f, NEW e, Answers(a, rep, f, e), Entered(a, e), EntryFits(a, rep, e),
         WorksOff(a),
         NEW got, RetrieverSends(a, rep, f, got),
         \A T \in {UpgradeReq, WriteReq}, c \in Core : Queued(Pend(a)', T, c) => Queued(Pend(a), T, c),
         Got(inbox', DirReply, a, f) \/ Coming(a, f)',
         WaitFits(a)'
  PROVE  AssertedLines'
<1>1. /\ a \in Addr /\ Pend(a) = queue[a] /\ queue[a] \in Seq(Request) /\ queue[a] # <<>>
      /\ Head(queue[a]) \in Request /\ LineInv(a)
  BY AtWork
<1>2. /\ LineAsserted(a) /\ "none" \notin WbRep /\ "none" \notin GivesUp
      /\ \A c \in Core : ~InvLive(a, c) /\ PairAsserted(a, c) /\ PairInv(a, c)
  BY AtWorkAsserted
<1>3. /\ dir'[a].state = e.state /\ dir'[a].sharers = e.sharers /\ dir'[a].owner = e.owner /\ llc' = llc
      /\ f \in e.sharers
      /\ e.state # "SHARED" => e.state \in Owned /\ e.sharers = {f} /\ e.owner = f
      /\ e.state = "SHARED" => e.state \notin Owned
      /\ dir[a].sharers \subseteq e.sharers /\ e.sharers \subseteq dir[a].sharers \cup {f}
      /\ llc[f][a] = "INVALID" /\ ~Sent(inbox, GivesUp, a, f)
      /\ Head(queue[a]).from = f
  BY DEF Answers, Entered, EntryFits, Owned
<1>4. ASSUME NEW c \in Core PROVE PairAsserted(a, c)'
  <2>1. PairInv(a, c)'
    BY <1>1 DEF SafeLines, LineInv
  <2>2. SameService(a, c)
    BY <1>1, ServiceStays DEF OthersStay, WorksOff
  <2>3. /\ GetsMail(inbox', inbox, got[c], a, c)
        /\ got[c] \in {"none", "WB_REQ", "DRAM_READ_REQ"} \/ (c = f /\ got[c] = rep)
    BY DEF RetrieverSends
  <2>4. Directed(a, c, "none", got[c])
    BY <1>1, <1>3, <2>2, <2>3, DirectedTo
  <2>5. /\ got[c] \notin InvCmd /\ got[c] \notin UpgradeRep
        /\ got[c] \in ExGrantRep \/ got[c] \in ShGrantRep => c = f
        /\ got[c] \in ShGrantRep => rep = "SH_REP"
    BY <2>3, Kinds, MoreKinds
  <2>6. c \in dir'[a].sharers =>
          \/ Got(inbox', DirReply, a, c) \/ Coming(a, c)'
          \/ c \in dir[a].sharers /\ ~Coming(a, c)
    <3>1. c # f => ~Coming(a, c)
      BY <1>1, <1>3 DEF Coming
    <3>2. QED
      BY <1>3, <3>1
  <2>7. IsOwner(a, c)' => llc[c][a] = "INVALID"
    BY <1>3 DEF IsOwner
  <2>8. dir'[a].state = "MODIFIED" /\ c = f => Outstanding(WriteReq, a, c)
    <3>1. SUFFICES ASSUME dir'[a].state = "MODIFIED", c = f PROVE Queued(Pend(a), WriteReq, c)
      BY DEF Outstanding
    <3>2. Head(queue[a]) \in Asked(WriteReq, c)
      BY <1>1, <1>3, <3>1 DEF EntryFits, Asked
    <3>3. QED
      BY <1>1, <3>2, TailHas DEF Queued
  <2>9. e.state # "SHARED" /\ c # f =>
          llc[c][a] = "INVALID" /\ ~Got(inbox, DirReply, a, c) /\ ~Sent(inbox, GivesUp, a, c)
    BY <1>2, <1>3 DEF PairInv, Known
  <2>10. dir'[a].state = "MODIFIED" =>
           /\ ~Sent(inbox', InvRep, a, c) /\ llc[c][a] = "INVALID"
           /\ Got(inbox', ExGrantRep, a, c) => Outstanding(WriteReq, a, c)
    <3>1. SUFFICES ASSUME dir'[a].state = "MODIFIED"
                   PROVE  /\ ~Sent(inbox', InvRep, a, c) /\ llc[c][a] = "INVALID"
                          /\ Got(inbox', ExGrantRep, a, c) => Outstanding(WriteReq, a, c)
      OBVIOUS
    <3>2. e.state # "SHARED"
      BY <1>3, <3>1
    <3>3. ~Sent(inbox, GivesUp, a, c) /\ llc[c][a] = "INVALID"
      BY <1>3, <2>9, <3>2
    <3>4. ~Sent(inbox', InvRep, a, c)
      BY <2>4, <3>3, MoreKindsHeld DEF Directed
    <3>5. Got(inbox', ExGrantRep, a, c) => c = f
      BY <2>4, <2>5, <2>9, <3>2, KindsHeld, MoreKindsHeld DEF Directed
    <3>6. QED
      BY <2>8, <3>1, <3>3, <3>4, <3>5
  <2>11. Got(inbox', ShGrantRep, a, c) => dir'[a].state = "SHARED"
    BY <1>2, <1>3, <2>4, <2>5 DEF Directed, PairAsserted, OwnerState, EntryFits
  <2>12. Treated(a, c, "none", got[c])
    BY <1>2, <1>3, <2>5, <2>6, <2>7, <2>8, <2>10, <2>11 DEF Treated
  <2>13. QED
    BY <1>1, <1>2, <2>1, <2>4, <2>12, PairDirected
<1>5. HeadFits(a)' /\ SharersFit(a)'
  BY <1>3 DEF HeadFits, SharersFit, WorksOff, EntryFits
<1>6. QED
  BY <1>1, <1>4, <1>5, OneLineAsserted DEF LineAsserted, WorksOff

\* The data is sent, or asked of the forwarder or of DRAM.
LEMMA RetrieveAsserted ==
  ASSUME IInv, SafeLines, AssertedLines, NEW h \in Core, net[h].at = "head", NEW a, a = net[h].addr,
         NEW rep \in Grant, NEW f, NEW e \in DirEntry, Answers(a, rep, f, e), EntryFits(a, rep, e),
         NEW data \in Data, Retrieve(h, rep, f, data, e)
  PROVE  AssertedLines'
<1>1. /\ a \in Addr /\ DirHome[a] = h /\ LineInv(a)
      /\ Pend(a) = queue[a] /\ queue[a] \in Seq(Request) /\ queue[a] # <<>>
      /\ net[h].addr = a
  BY AtWork
<1>2. SafeLines'
  BY RetrieveSafe
<1>3. /\ rep \in MsgType \ FromCache /\ rep \in DirReply /\ rep \in ToCache
      /\ \A type \in {"WB_REQ", "DRAM_READ_REQ"} : type \in MsgType \ FromCache
  BY Kinds DEF MsgType, DirReply, DirCommand, DramMsg
<1>4. ASSUME NEW type \in {rep, "WB_REQ", "DRAM_READ_REQ"}, NEW to, NEW d,
             Retrieving(h, a, rep, f, e, type, d, to), ~HeadAt(a)', type = rep => to = {f}
      PROVE  /\ f \in Core /\ Entered(a, e) /\ WorksOff(a)
             /\ \E got : /\ RetrieverSends(a, rep, f, got)
                        /\ \A c \in Core : c \in to => got[c] = type
  <2>1. /\ f \in Core
        /\ Posted(inbox', inbox, type, a, h, to)
        /\ \A c \in Core : /\ c \in to => GetsMail(inbox', inbox, type, a, c)
                           /\ c \notin to => GetsMail(inbox', inbox, "none", a, c)
    BY <1>4, Retrieved
  <2>2. Entered(a, e) /\ Leaves(h, a)
    BY <1>4 DEF Retrieving
  <2>3. WorksOn(a)
    BY <1>1, <2>2 DEF WorksOn, Leaves
  <2>4. OthersStay(a)
    <3>1. \A b \in Addr \ {a}, k \in Core : SameMail(inbox', inbox, b, k) /\ SameReads(inbox', inbox, b, k)
      BY <2>1, PostedElsewhere, PostedNoRead
    <3>2. QED
      BY <2>2, <3>1 DEF Entered, OthersStay
  <2> DEFINE got == [c \in Core |-> IF c \in to THEN type ELSE "none"]
  <2>5. \A c \in Core : /\ c \in to => got[c] = type
                        /\ c \notin to => got[c] = "none"
    OBVIOUS
  <2> HIDE DEF got
  <2>6. RetrieverSends(a, rep, f, got)
    BY <1>4, <2>1, <2>5 DEF RetrieverSends
  <2>7. QED
    BY <1>4, <2>1, <2>2, <2>3, <2>4, <2>5, <2>6, Zenon DEF WorksOff
<1>5. CASE /\ Entered(a, e) /\ queue' = queue
           /\ inbox' = Deliver(inbox, Msg(rep, a, h, data), {f})
           /\ GoTo(h, "next", a, "none")
  <2>1. net'[h].at = "next" /\ net'[h].addr = a /\ Leaves(h, a)
    BY <1>5 DEF GoTo, IInv, TypeOK, Leaves
  <2>2. Pend(a)' = Tail(queue[a]) /\ ~HeadAt(a)'
    BY <1>1, <1>5, <2>1 DEF Pend, HeadAt
  <2>3. Retrieving(h, a, rep, f, e, rep, data, {f})
    BY <1>3, <1>5, <2>1 DEF Retrieving
  <2>4. PICK got : RetrieverSends(a, rep, f, got) /\ \A c \in Core : c \in {f} => got[c] = rep
    BY <1>4, <2>2, <2>3
  <2>5. f \in Core /\ WorksOff(a)
    BY <1>4, <2>2, <2>3
  <2>6. Got(inbox', DirReply, a, f)
    BY <1>3, <2>4, <2>5 DEF GetsMail, RetrieverSends
  <2>7. \A T \in {UpgradeReq, WriteReq}, c \in Core : Queued(Pend(a)', T, c) => Queued(Pend(a), T, c)
    BY <1>1, <2>2, FirstAnswered
  <2>8. WaitFits(a)'
    <3>1. ~HeadWaits(a)'
      BY <1>1, <2>2, FirstAnswered DEF HeadWaits, LineInv, DataWait
    <3>2. QED
      BY <3>1 DEF WaitFits
  <2>9. QED
    BY <1>2, <1>5, <2>4, <2>5, <2>6, <2>7, <2>8, RetrievedAsserted
<1>6. ASSUME NEW r, NEW type \in {"WB_REQ", "DRAM_READ_REQ"}, NEW to, Done(h),
             Retrieving(h, a, rep, f, e, type, "none", to), Noting(a, e, r, type, to),
             Pend(a)' # <<>>, Head(Pend(a)') = r,
             r.type = Head(queue[a]).type, r.from = f,
             r.waitForData \/ (type = "WB_REQ" /\ r.forwardingFrom # NoCore)
      PROVE  AssertedLines'
  <2>1. net'[h].at = "recv"
    BY <1>6 DEF Done, GoTo, IInv, TypeOK
  <2>2. Pend(a)' # <<>> /\ Head(Pend(a)') = r
    BY <1>6
  <2>3. Pend(a)' = queue'[a] /\ ~HeadAt(a)'
    BY <1>1, <2>1 DEF Pend, HeadAt
  <2>4. PICK got : RetrieverSends(a, rep, f, got)
    <3>1. rep # type
      BY <1>3, <1>6, Kinds
    <3>2. QED
      BY <1>4, <1>6, <2>3, <3>1
  <2>5. f \in Core /\ Entered(a, e) /\ WorksOff(a)
    <3>1. rep # type
      BY <1>3, <1>6, Kinds
    <3>2. QED
      BY <1>4, <1>6, <2>3, <3>1
  <2>6. \A T, c : Queued(Pend(a)', T, c) <=> Queued(Pend(a), T, c)
    BY <1>1, <1>6, <2>3 DEF Noting, Noted
  <2>7. dir'[a].state = e.state
    BY <2>5 DEF Entered
  <2>8. Coming(a, f)'
    BY <1>6, <2>2, <2>7 DEF Coming, Noting
  <2>9. WaitFits(a)'
    BY <1>6, <2>2, <2>7 DEF WaitFits, EntryFits
  <2>10. QED
    BY <1>2, <2>4, <2>5, <2>6, <2>8, <2>9, RetrievedAsserted
<1>7. ASSUME NEW r, Forwarded(h, a, rep, f, e, r) PROVE AssertedLines'
  <2>1. Pend(a)' # <<>> /\ Head(Pend(a)') = r
    BY <1>7, RequestNoted DEF Forwarded
  <2>2. QED
    BY <1>6, <1>7, <2>1 DEF Forwarded
<1>8. ASSUME NEW r, ReadFromDram(h, a, rep, f, e, r) PROVE AssertedLines'
  <2>1. Pend(a)' # <<>> /\ Head(Pend(a)') = r
    BY <1>8, RequestNoted DEF ReadFromDram
  <2>2. QED
    BY <1>6, <1>8, <2>1 DEF ReadFromDram
<1>9. QED
  BY <1>5, <1>7, <1>8, RetrieveWays

\* A line nobody has is given to a reader or a writer.
LEMMA GrantsAsserted ==
  ASSUME IInv, SafeLines, AssertedLines, NEW h \in Core,
         ExGrant(h) \/ ShFirst(h) \/ UpgradeAsExclusive(h)
  PROVE  AssertedLines'
<1> SUFFICES ASSUME NEW a, NEW f, a = net[h].addr, f = Head(queue[a]).from PROVE AssertedLines'
  OBVIOUS
<1>1. PICK types, rep, state : Grants(h, a, f, types, rep, state)
  BY GrantKinds
<1>2. /\ Processing(h, types, {"UNCACHED"})
      /\ types \in SUBSET DemandReq /\ rep \in Grant /\ state \in {"SHARED", "EXCLUSIVE", "MODIFIED"}
      /\ state = "SHARED" => types = {"SH_REQ"} /\ rep = "SH_REP"
      /\ rep = "SH_REP" => state = "SHARED"
      /\ state = "MODIFIED" <=> "SH_REQ" \notin types
      /\ state # "MODIFIED" => types = {"SH_REQ"}
  BY <1>1 DEF Grants
<1>3. PICK data \in Data : Retrieve(h, rep, f, data, SoleOwner(a, f, state))
  BY <1>1 DEF Grants
<1> SUFFICES ASSUME NEW e, e = SoleOwner(a, f, state) PROVE AssertedLines'
  OBVIOUS
<1>4. /\ net[h].at = "head" /\ Head(queue[a]).type \in types /\ dir[a].state = "UNCACHED"
      /\ a \in Addr /\ f \in Core
      /\ e \in DirEntry /\ e.state = state /\ e.sharers = {f} /\ Answers(a, rep, f, e)
  <2>1. /\ Processing(h, types, {"UNCACHED"}) /\ e = SoleOwner(a, f, state)
        /\ types \in SUBSET DemandReq /\ rep \in Grant /\ state \in {"SHARED", "EXCLUSIVE", "MODIFIED"}
        /\ state = "SHARED" => types = {"SH_REQ"} /\ rep = "SH_REP"
    BY <1>2
  <2>2. AnswersFirst(h, a, f, types, rep, state, e)
    BY <2>1, UncachedAnswered
  <2>3. QED
    BY <2>2 DEF AnswersFirst
<1>5. EntryFits(a, rep, e)
  BY <1>2, <1>4 DEF EntryFits, DemandReq, WriteReq
<1>6. QED
  BY <1>2, <1>3, <1>4, <1>5, RetrieveAsserted, Zenon

\* A line that is shared is given to one more reader.
LEMMA ShShareAsserted ==
  ASSUME IInv, SafeLines, AssertedLines, NEW h \in Core, ShShare(h) PROVE AssertedLines'
<1> SUFFICES ASSUME NEW a, NEW f, a = net[h].addr, f = Head(queue[a]).from PROVE AssertedLines'
  OBVIOUS
<1>1. PICK e \in DirEntry :
        /\ net[h].at = "head" /\ a \in Addr /\ f \in Core /\ net[h].data \in Data
        /\ Head(queue[a]).type = "SH_REQ" /\ dir[a].state = "SHARED"
        /\ f \in dir[a].sharers \/ Cardinality(dir[a].sharers) < MaxHwSharers
        /\ e.state = "SHARED" /\ e.sharers = dir[a].sharers \cup {f}
        /\ Answers(a, "SH_REP", f, e)
        /\ Retrieve(h, "SH_REP", f, net[h].data, e)
  BY ShShareAnswers, Zenon
<1>2. "SH_REP" \in Grant
  BY Kinds
<1>3. SharersFit(a)
  BY <1>1, AtWorkAsserted DEF LineAsserted
<1>4. ASSUME MaxHwSharers = 1 PROVE \A c, k \in e.sharers : c = k
  <2>1. CASE f \in dir[a].sharers
    BY <1>1, <1>3, <1>4, <2>1 DEF SharersFit
  <2>2. CASE f \notin dir[a].sharers
    <3>1. dir[a].sharers \in SUBSET Core /\ IsFiniteSet(Core)
      BY <1>1, CoreAssumption DEF IInv, TypeOK, DirEntry
    <3>2. IsFiniteSet(dir[a].sharers)
      BY <3>1, FS_Subset
    <3>3. Cardinality(dir[a].sharers) \in Nat /\ Cardinality(dir[a].sharers) < 1
      BY <1>1, <1>4, <2>2, <3>2, FS_CardinalityType
    <3>4. dir[a].sharers = {}
      BY <3>2, <3>3, FS_EmptySet
    <3>5. QED
      BY <1>1, <3>4
  <2>3. QED
    BY <2>1, <2>2
<1>5. EntryFits(a, "SH_REP", e)
  BY <1>1, <1>4 DEF EntryFits
<1>6. QED
  BY <1>1, <1>2, <1>5, RetrieveAsserted, Zenon

\* The only cache that has the line may write it: it has not given the line up.
LEMMA UpgradeGrantAsserted ==
  ASSUME IInv, SafeLines, AssertedLines, NEW h \in Core, UpgradeGrant(h) PROVE AssertedLines'
<1> SUFFICES ASSUME NEW a, NEW f, a = net[h].addr, f = Head(queue[a]).from PROVE AssertedLines'
  OBVIOUS
<1>14. UpgradeGives(h, a, f)
  BY UpgradeGranted
<1>1. /\ net[h].at = "head" /\ Head(queue[a]).type = "UPGRADE_REQ"
      /\ a \in Addr /\ f \in Core /\ dir[a].sharers = {f} /\ Queued(Pend(a), UpgradeReq, f)
      /\ dir'[a].sharers = {f} /\ dir'[a].owner = f /\ dir'[a].state = "MODIFIED"
      /\ ~Parked(a)' /\ ~HeadAt(a)' /\ Pend(a)' = Tail(queue[a])
      /\ \A c \in Core : GetsMail(inbox', inbox, IF c = f THEN "UPGRADE_REP" ELSE "none", a, c)
      /\ WorksOn(a) /\ OthersStay(a) /\ SafeLines'
  BY <1>14 DEF UpgradeGives
<1>2. /\ Pend(a) = queue[a] /\ queue[a] \in Seq(Request) /\ queue[a] # <<>> /\ LineInv(a)
      /\ ~Head(queue[a]).waitForData
      /\ \A c \in Core : ~FlushLive(a, c)
  BY <1>1, AtWork
<1>3. /\ LineAsserted(a) /\ "none" \notin WbRep /\ "none" \notin GivesUp
      /\ \A c \in Core : ~InvLive(a, c) /\ PairAsserted(a, c) /\ PairInv(a, c)
  BY <1>1, AtWorkAsserted
<1>4. Outstanding(UpgradeReq, a, f) /\ Outstanding(DemandReq, a, f)
  BY <1>1, WritersQueued DEF Outstanding
<1>12. Pend(a)' = Tail(queue[a]) /\ queue[a] \in Seq(Request) /\ queue[a] # <<>>
  BY <1>1, <1>2
<1>13. \A T, c : Queued(Pend(a)', T, c) => Queued(Pend(a), T, c)
  <2>1. \A T, c : Queued(Tail(queue[a]), T, c) => Queued(queue[a], T, c)
    BY <1>12, FirstAnswered
  <2>2. QED
    BY <1>2, <1>12, <2>1
<1>5. ~Got(inbox, DirReply, a, f) /\ ~Coming(a, f) /\ ~Sent(inbox, InvRep, a, f) /\ ~Sent(inbox, FlushRep, a, f)
  BY <1>1, <1>2, <1>3, <1>4 DEF PairInv, OneRequest, Coming, PairAsserted, UpgradeKept, FlushAnswer
<1>6. llc[f][a] = "SHARED_UPGRADING"
  <2>1. ~Sent(inbox, GivesUp, a, f)
    BY <1>5, MoreKindsHeld
  <2>2. llc[f][a] # "INVALID"
    BY <1>1, <1>3, <1>5, <2>1 DEF PairAsserted, Justified
  <2>3. QED
    BY <1>1, <1>3, <1>4, <2>2 DEF PairInv, StateFits
<1>7. ASSUME NEW c \in Core, c # f
      PROVE  llc[c][a] = "INVALID" /\ ~Got(inbox, DirReply, a, c) /\ ~Sent(inbox, GivesUp, a, c)
  BY <1>1, <1>3, <1>7 DEF PairInv, Known
<1>8. ASSUME NEW c \in Core PROVE PairAsserted(a, c)'
  <2>1. PairInv(a, c)'
    BY <1>1 DEF SafeLines, LineInv
  <2>2. SameService(a, c) /\ llc' = llc
    BY <1>1, ServiceStays DEF OthersStay
  <2>3. \A T : Queued(Pend(a)', T, c) => Queued(Pend(a), T, c)
    BY <1>13
  <2>4. PICK g \in {"UPGRADE_REP", "none"} : /\ GetsMail(inbox', inbox, g, a, c)
                                             /\ g = "UPGRADE_REP" <=> c = f
    BY <1>1
  <2>5. Directed(a, c, "none", g)
    BY <1>1, <2>2, <2>3, <2>4, DirectedTo
  <2>6. /\ g \notin InvCmd /\ g \notin ExGrantRep /\ g \notin ShGrantRep
        /\ g \in UpgradeRep <=> c = f
        /\ g = "UPGRADE_REP" => g \in UpgradeRep \cap ToCache
    BY <2>4, Kinds, MoreKinds
  <2>7. /\ ~Got(inbox', ExGrantRep, a, c) /\ ~Got(inbox', ShGrantRep, a, c)
        /\ ~Sent(inbox', InvRep, a, c) /\ llc[c][a] # "EXCLUSIVE"
    BY <1>5, <1>6, <1>7, <2>5, <2>6, KindsHeld, MoreKindsHeld DEF Directed
  <2>8. Got(inbox', UpgradeRep, a, f) \/ c # f
    BY <2>4, <2>5, <2>6 DEF Directed
  <2>9. Treated(a, c, "none", g)
    BY <1>1, <1>3, <1>6, <2>6, <2>7, <2>8 DEF Treated, IsOwner
  <2>10. QED
    BY <1>1, <1>3, <2>1, <2>5, <2>9, PairDirected
<1>9. WaitFits(a)' /\ HeadFits(a)' /\ SharersFit(a)'
  <2>1. ~HeadWaits(a)'
    <3>1. OnlyHeadStarved(queue[a])
      BY <1>2 DEF LineInv, DataWait
    <3>2. Tail(queue[a]) # <<>> => ~Head(Tail(queue[a])).waitForData
      BY <1>12, <3>1, FirstAnswered
    <3>3. QED
      BY <1>12, <3>2 DEF HeadWaits
  <2>2. QED
    BY <1>1, <2>1 DEF WaitFits, HeadFits, SharersFit
<1>10. QED
  BY <1>1, <1>8, <1>9, OneLineAsserted DEF LineAsserted

\* The next request of a line is processed: it was made by a cache.
LEMMA NextRequestAsserted ==
  ASSUME IInv, SafeLines, AssertedLines, NEW h \in Core, NextRequest(h) PROVE AssertedLines'
<1> SUFFICES ASSUME NEW a, a = net[h].addr PROVE AssertedLines'
  OBVIOUS
<1>1. GoesOn(h, a)
  BY NextRequestGoesOn
<1>2. SafeLines'
  BY NextRequestSafe
<1> SUFFICES ASSUME NEW b \in Addr PROVE LineAsserted(b)'
  BY DEF AssertedLines
<1>3. /\ LineAsserted(b) /\ SameLine(b) /\ DirHome[b] \in Core
      /\ dir'[b] = dir[b] /\ SameRequests(Pend(b)', Pend(b))
  BY <1>1 DEF AssertedLines, GoesOn, SameLine
<1>4. ASSUME NEW c \in Core PROVE PairAsserted(b, c)'
  <2>1. SameMail(inbox', inbox, b, c)
    BY <1>1 DEF GoesOn, SameMail, SameMailAbout
  <2>2. SamePair(b, c)
    BY <1>1, <2>1 DEF GoesOn, SamePair
  <2>3. SameService(b, c)
    <3>1. waiters'[c][b] = waiters[c][b]
      BY <1>1 DEF GoesOn
    <3>2. \/ net'[c].at = net[c].at /\ net'[c].addr = net[c].addr
          \/ ~Serves(b, c) /\ ~Serves(b, c)'
      BY <1>1 DEF GoesOn, Serves
    <3>3. QED
      BY <3>1, <3>2 DEF SameService
  <2>4. QED
    BY <1>3, <2>2, <2>3, AssertedStays DEF LineAsserted
<1>5. SharersFit(b)'
  BY <1>3 DEF LineAsserted, SharersFit
<1>6. WaitFits(b)'
  BY <1>3 DEF LineAsserted, WaitFits, HeadWaits, SameRequests
<1>7. HeadFits(b)'
  <2>1. CASE b = a
    BY <1>1, <1>3, <2>1 DEF GoesOn, HeadFits, HeadAt, DemandReq
  <2>2. CASE b # a
    BY <1>1, <1>3, <2>2 DEF GoesOn, HeadFits, HeadAt, LineAsserted
  <2>3. QED
    BY <2>1, <2>2
<1>8. QED
  BY <1>4, <1>5, <1>6, <1>7 DEF LineAsserted

\* A line nobody has any more loses its entry.
LEMMA NullifiedAsserted ==
  ASSUME IInv, SafeLines, AssertedLines, NEW h \in Core, Nullified(h) PROVE AssertedLines'
<1> SUFFICES ASSUME NEW a, a = net[h].addr PROVE AssertedLines'
  OBVIOUS
<1>1. LosesEntry(h, a)
  BY NullifiedLoses
<1>2. /\ net[h].at = "head" /\ a \in Addr /\ dir[a].state = "UNCACHED"
      /\ dir'[a].state = "UNCACHED" /\ dir'[a].sharers = {} /\ llc' = llc
      /\ Pend(a)' = Tail(queue[a]) /\ ~HeadAt(a)'
      /\ WorksOn(a) /\ OthersStay(a) /\ SafeLines'
  BY <1>1 DEF LosesEntry
<1>3. /\ Pend(a) = queue[a] /\ queue[a] \in Seq(Request) /\ queue[a] # <<>> /\ LineInv(a)
  BY <1>2, AtWork
<1>4. /\ LineAsserted(a) /\ "none" \notin ToCache
      /\ \A c \in Core : ~InvLive(a, c) /\ PairAsserted(a, c)
  BY <1>2, AtWorkAsserted
<1>5. \A T, c : Queued(Pend(a)', T, c) => Queued(Pend(a), T, c)
  <2>1. \A T, c : Queued(Tail(queue[a]), T, c) => Queued(queue[a], T, c)
    BY <1>3, FirstAnswered
  <2>2. QED
    BY <1>2, <1>3, <2>1
<1>6. ASSUME NEW c \in Core PROVE PairAsserted(a, c)'
  <2>1. PairInv(a, c)'
    BY <1>2 DEF SafeLines, LineInv
  <2>2. SameService(a, c) /\ SameMail(inbox', inbox, a, c)
    BY <1>1, <1>2, ServiceStays DEF LosesEntry, OthersStay, SameMail, SameMailAbout
  <2>3. Directed(a, c, "none", "none")
    BY <1>2, <1>5, <2>2, NotDirected
  <2>4. "none" \notin InvCmd /\ "none" \notin UpgradeRep /\ "none" \notin ExGrantRep
    BY Kinds, MoreKinds
  <2>5. ~Got(inbox', ShGrantRep, a, c)
    BY <1>2, <1>4, <2>3 DEF Directed, PairAsserted, OwnerState
  <2>6. Treated(a, c, "none", "none")
    BY <1>2, <1>4, <2>4, <2>5 DEF Treated, IsOwner, Owned
  <2>7. QED
    BY <1>2, <1>4, <2>1, <2>3, <2>6, PairDirected
<1>7. WaitFits(a)' /\ HeadFits(a)' /\ SharersFit(a)'
  <2>1. ~HeadWaits(a)'
    <3>1. OnlyHeadStarved(queue[a])
      BY <1>3 DEF LineInv, DataWait
    <3>2. Tail(queue[a]) # <<>> => ~Head(Tail(queue[a])).waitForData
      BY <1>3, <3>1, FirstAnswered
    <3>3. QED
      BY <1>2, <3>2 DEF HeadWaits
  <2>2. QED
    BY <1>2, <2>1 DEF WaitFits, HeadFits, SharersFit
<1>8. QED
  BY <1>2, <1>6, <1>7, OneLineAsserted DEF LineAsserted

\* DRAM's answer is sent on: the requester gets what its entry says.
LEMMA TakeDramRepAsserted ==
  ASSUME IInv, SafeLines, AssertedLines, NEW h \in Core, TakeDramRep(h) PROVE AssertedLines'
<1> SUFFICES ASSUME NEW a, NEW f, a = Head(inbox[h]).addr, f = Head(queue[a]).from
             PROVE  AssertedLines'
  OBVIOUS
<1>1. PICK rep \in Grant : SendsOn(h, a, f, rep)
  BY TakeDramRepSends
<1>2. /\ a \in Addr /\ f \in Core /\ f = Head(queue[a]).from
      /\ rep = "SH_REP" => dir[a].state = "SHARED"
      /\ HeadWaits(a) /\ Head(queue[a]) \in Request /\ Head(queue[a]).type \in DemandReq
      /\ dir' = dir /\ llc' = llc
      /\ Pend(a) = queue[a] /\ queue[a] \in Seq(Request)
      /\ Pend(a)' = Tail(queue[a]) /\ ~HeadAt(a)'
      /\ WorksOn(a) /\ OthersStay(a) /\ SafeLines'
  BY <1>1 DEF SendsOn
<1>3. /\ LineInv(a) /\ LineAsserted(a) /\ queue[a] # <<>> /\ Head(queue[a]).waitForData
      /\ \A c \in Core : PairAsserted(a, c) /\ ~InvLive(a, c)
  BY <1>2 DEF SafeLines, AssertedLines, LineAsserted, HeadWaits, InvLive, Blocked
<1>4. \A T, c : Queued(Pend(a)', T, c) => Queued(Pend(a), T, c)
  <2>1. \A T, c : Queued(Tail(queue[a]), T, c) => Queued(queue[a], T, c)
    BY <1>2, <1>3, FirstAnswered
  <2>2. QED
    BY <1>2, <2>1
<1>5. dir[a].state = "MODIFIED" => Outstanding(WriteReq, a, f)
  <2>1. SUFFICES ASSUME dir[a].state = "MODIFIED" PROVE Queued(Pend(a), WriteReq, f)
    BY DEF Outstanding
  <2>2. Head(queue[a]).type # "SH_REQ"
    BY <1>2, <1>3, <2>1 DEF LineAsserted, WaitFits
  <2>3. Head(queue[a]) \in Asked(WriteReq, f)
    BY <1>2, <2>2 DEF Asked, DemandReq, WriteReq
  <2>4. QED
    BY <1>2, <1>3, <2>3, TailHas DEF Queued
<1>6. "none" \notin WbRep /\ "none" \notin GivesUp /\ "none" \notin ToCache
  BY Kinds
<1>7. ASSUME NEW c \in Core PROVE PairAsserted(a, c)'
  <2>1. PairInv(a, c)'
    BY <1>2 DEF SafeLines, LineInv
  <2>2. SameService(a, c)
    BY <1>2, ServiceStays DEF OthersStay
  <2>3. PICK g \in {rep, "none"} : /\ GetsMail(inbox', inbox, g, a, c)
                                   /\ c = f => g = rep
                                   /\ c # f => g = "none"
    BY <1>1 DEF SendsOn
  <2>4. Directed(a, c, "none", g)
    BY <1>2, <1>4, <2>2, <2>3, DirectedTo
  <2>5. /\ g \notin InvCmd /\ g \notin UpgradeRep
        /\ g \in ExGrantRep \/ g \in ShGrantRep => c = f
        /\ g \in ShGrantRep => rep = "SH_REP"
        /\ c = f => g \in DirReply \cap ToCache
    BY <2>3, Kinds, MoreKinds
  <2>6. c \in dir'[a].sharers => \/ Got(inbox', DirReply, a, c)
                                 \/ c \in dir[a].sharers /\ ~Coming(a, c)
    BY <1>2, <2>4, <2>5 DEF Directed, Coming
  <2>7. Got(inbox', ShGrantRep, a, c) => dir'[a].state = "SHARED"
    BY <1>2, <1>3, <2>4, <2>5 DEF Directed, PairAsserted, OwnerState
  <2>8. Treated(a, c, "none", g)
    BY <1>2, <1>3, <1>5, <1>6, <2>5, <2>6, <2>7 DEF Treated, IsOwner
  <2>9. QED
    BY <1>2, <1>3, <2>1, <2>4, <2>8, PairDirected
<1>8. WaitFits(a)' /\ HeadFits(a)' /\ SharersFit(a)'
  <2>1. ~HeadWaits(a)'
    <3>1. OnlyHeadStarved(queue[a])
      BY <1>2, <1>3 DEF LineInv, DataWait
    <3>2. Tail(queue[a]) # <<>> => ~Head(Tail(queue[a])).waitForData
      BY <1>2, <1>3, <3>1, FirstAnswered
    <3>3. QED
      BY <1>2, <3>2 DEF HeadWaits
  <2>2. QED
    BY <1>2, <1>3, <2>1 DEF WaitFits, HeadFits, SharersFit, LineAsserted
<1>9. QED
  BY <1>2, <1>7, <1>8, OneLineAsserted DEF LineAsserted

\* The caches that have a line are told to give it up before its entry goes.
LEMMA AllocateAsserted ==
  ASSUME IInv, SafeLines, AssertedLines, NEW h \in Core, Allocate(h) PROVE AssertedLines'
<1>1. PICK v \in Addr : Replaces(v)
  BY AllocateReplaces
<1>2. /\ net' = net /\ llc' = llc
      /\ Parked(v)' /\ Pend(v) = <<>>
      /\ OthersStay(v) /\ SafeLines'
  BY <1>1 DEF Replaces
<1>3. \/ /\ dir[v].state = "UNCACHED" /\ dir'[v].state = "UNCACHED" /\ dir'[v].sharers = {}
         /\ inbox' = inbox /\ Pend(v)' = <<>>
      \/ /\ dir' = dir
         /\ Pend(v)' # <<>> /\ Head(Pend(v)').type = "NULLIFY_REQ" /\ ~Head(Pend(v)').waitForData
         /\ \A c : ~Queued(Pend(v)', DemandReq, c)
         /\ \A c \in Core : \E got \in {"INV_REQ", "FLUSH_REQ", "none"} :
              /\ GetsMail(inbox', inbox, got, v, c)
              /\ got = "INV_REQ" => dir[v].state = "SHARED" /\ c \in dir[v].sharers
  BY <1>1 DEF Replaces
<1>4. /\ LineAsserted(v)
      /\ \A c \in Core : PairAsserted(v, c) /\ ~InvLive(v, c) /\ ~Coming(v, c)
  BY <1>2 DEF AssertedLines, LineAsserted, InvLive, Blocked, Coming
<1>5. \A T \in {UpgradeReq, WriteReq}, c \in Core : ~Queued(Pend(v)', T, c)
  <2>1. CASE Pend(v)' = <<>>
    BY <2>1, EmptyHas DEF Queued
  <2>2. CASE \A c : ~Queued(Pend(v)', DemandReq, c)
    <3>1. \A c, m : /\ m \in Asked(WriteReq, c) => m \in Asked(DemandReq, c)
                    /\ m \in Asked(UpgradeReq, c) => m \in Asked(DemandReq, c)
      BY Kinds, MoreKinds DEF Asked
    <3>2. QED
      BY <2>2, <3>1 DEF Queued, Has
  <2>3. QED
    BY <1>3, <2>1, <2>2
<1>6. "none" \notin WbRep /\ "none" \notin GivesUp /\ "none" \notin ToCache
  BY Kinds
<1>7. ASSUME NEW c \in Core PROVE PairAsserted(v, c)'
  <2>1. PairInv(v, c)'
    BY <1>2 DEF SafeLines, LineInv
  <2>2. SameService(v, c)
    BY <1>2 DEF OthersStay, SameService
  <2>3. CASE /\ dir[v].state = "UNCACHED" /\ dir'[v].state = "UNCACHED" /\ dir'[v].sharers = {}
             /\ inbox' = inbox
    <3>1. SameMail(inbox', inbox, v, c)
      BY <2>3 DEF SameMail, SameMailAbout
    <3>2. Directed(v, c, "none", "none")
      BY <1>2, <1>5, <2>2, <3>1, NotDirected
    <3>3. "none" \notin InvCmd /\ "none" \notin UpgradeRep /\ "none" \notin ExGrantRep
      BY Kinds, MoreKinds
    <3>4. ~Got(inbox', ShGrantRep, v, c)
      BY <1>4, <2>3, <3>2 DEF Directed, PairAsserted, OwnerState
    <3>5. Treated(v, c, "none", "none")
      BY <1>4, <2>3, <3>3, <3>4 DEF Treated, IsOwner, Owned
    <3>6. QED
      BY <1>4, <2>1, <3>2, <3>5, PairDirected
  <2>4. ASSUME NEW got \in {"INV_REQ", "FLUSH_REQ", "none"}, dir' = dir,
               Pend(v)' # <<>>, Head(Pend(v)').type = "NULLIFY_REQ", ~Head(Pend(v)').waitForData,
               GetsMail(inbox', inbox, got, v, c),
               got = "INV_REQ" => dir[v].state = "SHARED" /\ c \in dir[v].sharers
        PROVE  PairAsserted(v, c)'
    <3>1. Directed(v, c, "none", got)
      BY <1>2, <1>5, <2>2, <2>4, DirectedTo
    <3>2. /\ got \in InvCmd => got = "INV_REQ"
          /\ got \notin UpgradeRep /\ got \notin ExGrantRep /\ got \notin ShGrantRep
      BY <2>4, Kinds, MoreKinds
    <3>3. got \in InvCmd => InvLive(v, c)'
      BY <1>2, <2>4, <3>2 DEF InvLive, Blocked
    <3>4. Got(inbox', ShGrantRep, v, c) => dir'[v].state = "SHARED"
      BY <1>4, <2>4, <3>1, <3>2 DEF Directed, PairAsserted, OwnerState
    <3>5. Treated(v, c, "none", got)
      BY <1>4, <1>6, <2>4, <3>2, <3>3, <3>4 DEF Treated, IsOwner
    <3>6. QED
      BY <1>4, <2>1, <3>1, <3>5, PairDirected
  <2>5. QED
    BY <1>3, <2>3, <2>4
<1>8. WaitFits(v)' /\ HeadFits(v)' /\ SharersFit(v)'
  <2>1. ~HeadWaits(v)' /\ ~HeadAt(v)'
    BY <1>2, <1>3 DEF HeadWaits, HeadAt, Parked
  <2>2. SharersFit(v)'
    BY <1>3, <1>4 DEF LineAsserted, SharersFit
  <2>3. QED
    BY <2>1, <2>2 DEF WaitFits, HeadFits
<1>9. QED
  BY <1>2, <1>7, <1>8, AnotherLineAsserted DEF LineAsserted

\* A request joins the queue; what the caches hold is not yet touched.
LEMMA TakeRequestAsserted ==
  ASSUME IInv, SafeLines, AssertedLines, NEW h \in Core, TakeRequest(h) PROVE AssertedLines'
<1> SUFFICES ASSUME NEW a, NEW f, a = Head(inbox[h]).addr, f = Head(inbox[h]).from
             PROVE  AssertedLines'
  OBVIOUS
<1>1. PICK type \in DemandReq : Joins(h, a, f, type)
  BY TakeRequestJoins
<1>2. /\ a \in Addr /\ f \in Core /\ DirHome[a] = h
      /\ Parked(a) /\ Pend(a) = queue[a] /\ dir' = dir /\ llc' = llc
      /\ HomeTakes(inbox', inbox, type, a, f)
      /\ \A c \in Core \ {f} : SameMail(inbox', inbox, a, c)
      /\ \A T, c : Queued(Pend(a)', T, c) <=> Queued(Pend(a), T, c) \/ (type \in T /\ f = c)
      /\ Pend(a)' = queue'[a] /\ queue'[a] # <<>>
      /\ WorksOn(a) /\ OthersStay(a) /\ SafeLines'
  BY <1>1 DEF Joins
<1>3. /\ queue[a] = <<>> => /\ ~Parked(a)' /\ net'[h].data = "none"
                            /\ Head(queue'[a]).type = type /\ ~Head(queue'[a]).waitForData
                            /\ Head(queue'[a]).forwardingFrom = NoCore
      /\ queue[a] # <<>> => Parked(a)' /\ Head(queue'[a]) = Head(queue[a])
  BY <1>1 DEF Joins, NewRequest
<1>4. /\ LineAsserted(a) /\ "none" \notin ToCache
      /\ \A c \in Core : PairAsserted(a, c)
  BY <1>2, Kinds DEF AssertedLines, LineAsserted
<1>5. ASSUME NEW c PROVE (InvLive(a, c)' <=> InvLive(a, c)) /\ (Coming(a, c)' <=> Coming(a, c))
  <2>1. CASE queue[a] = <<>>
    BY <1>2, <1>3, <2>1 DEF InvLive, Blocked, Coming
  <2>2. CASE queue[a] # <<>>
    <3>1. Head(Pend(a)') = Head(Pend(a)) /\ Pend(a) # <<>> /\ Pend(a)' # <<>> /\ Parked(a)'
      BY <1>2, <1>3, <2>2
    <3>2. \A types : Blocked(a, types)' <=> Blocked(a, types)
      BY <1>2, <3>1 DEF Blocked
    <3>3. QED
      BY <1>2, <3>1, <3>2 DEF InvLive, Coming
  <2>3. QED
    BY <2>1, <2>2
<1>6. ASSUME NEW c \in Core PROVE PairAsserted(a, c)'
  <2>1. PairInv(a, c)'
    BY <1>2 DEF SafeLines, LineInv
  <2>2. SameService(a, c)
    BY <1>2, ServiceStays DEF OthersStay
  <2>3. PICK s \in {type, "none"} : Directed(a, c, s, "none")
    <3>1. CASE c = f
      <4>1. Directed(a, c, type, "none")
        BY <1>2, <2>2, <3>1, DirectedBy
      <4>2. QED
        BY <4>1
    <3>2. CASE c # f
      <4>1. Directed(a, c, "none", "none")
        BY <1>2, <2>2, <3>2, NotDirected
      <4>2. QED
        BY <4>1
    <3>3. QED
      BY <3>1, <3>2
  <2>4. /\ s \notin WbRep /\ s \notin GivesUp
        /\ "none" \notin InvCmd /\ "none" \notin UpgradeRep /\ "none" \notin ExGrantRep
    BY Kinds, MoreKinds
  <2>5. \A T : Got(inbox', T, a, c) <=> Got(inbox, T, a, c)
    BY <1>4, <2>3 DEF Directed
  <2>6. Treated(a, c, s, "none")
    <3>1. /\ c \in dir'[a].sharers /\ llc[c][a] = "INVALID" =>
               \/ Got(inbox', DirReply, a, c) \/ Coming(a, c)'
               \/ c \in dir[a].sharers /\ s \notin GivesUp /\ ~Coming(a, c)
          /\ Got(inbox', ShGrantRep, a, c) => dir'[a].state = "SHARED"
      BY <1>2, <1>4, <1>5, <2>4, <2>5 DEF PairAsserted, OwnerState
    <3>2. QED
      BY <1>2, <1>5, <2>4, <3>1 DEF Treated, IsOwner
  <2>7. QED
    BY <1>2, <1>4, <2>1, <2>3, <2>6, PairDirected
<1>7. WaitFits(a)' /\ HeadFits(a)' /\ SharersFit(a)'
  <2>1. SharersFit(a)'
    BY <1>2, <1>4 DEF LineAsserted, SharersFit
  <2>2. CASE queue[a] = <<>>
    <3>1. ~HeadWaits(a)'
      BY <1>2, <1>3, <2>2 DEF HeadWaits
    <3>2. HeadFits(a)'
      BY <1>2, <1>3, <2>2 DEF HeadFits, DemandReq
    <3>3. QED
      BY <2>1, <3>1, <3>2 DEF WaitFits
  <2>3. CASE queue[a] # <<>>
    <3>1. Head(Pend(a)') = Head(Pend(a)) /\ Pend(a) # <<>> /\ Parked(a)'
      BY <1>2, <1>3, <2>3
    <3>2. WaitFits(a)'
      BY <1>2, <1>4, <3>1 DEF LineAsserted, WaitFits, HeadWaits
    <3>3. ~HeadAt(a)'
      BY <3>1 DEF HeadAt, Parked
    <3>4. QED
      BY <2>1, <3>2, <3>3 DEF HeadFits
  <2>4. QED
    BY <2>2, <2>3
<1>8. QED
  BY <1>2, <1>6, <1>7, OneLineAsserted DEF LineAsserted

\* The answer of a cache: what the directory forgets is gone, and it goes on only
\* when it waits for no one else.
LEMMA AnswerAsserted ==
  ASSUME IInv, SafeLines, AssertedLines, NEW h \in Core, NEW a, NEW s,
         NEW type \in CacheReply, Answered(h, a, s, type),
         dir'[a].sharers \subseteq dir[a].sharers,
         type \in GivesUp => s \notin dir'[a].sharers,
         dir'[a].state = "MODIFIED" => dir[a].state = "MODIFIED" /\ type \notin WbRep,
         \A c \in Core : IsOwner(a, c)' => IsOwner(a, c) /\ type \notin WbRep,
         dir[a].state = "SHARED" /\ dir'[a].sharers # {} => dir'[a].state = "SHARED",
         \A c \in Core : InvLive(a, c) => InvLive(a, c)' \/ c \notin dir'[a].sharers,
         WaitFits(a)', HeadFits(a)', SharersFit(a)'
  PROVE  AssertedLines'
<1>1. /\ a \in Addr /\ s \in Core /\ DirHome[a] = h /\ llc' = llc
      /\ Pend(a) = queue[a] /\ Pend(a)' = queue'[a] /\ SameRequests(queue'[a], queue[a])
      /\ HomeTakes(inbox', inbox, type, a, s)
      /\ \A c \in Core \ {s} : SameMail(inbox', inbox, a, c)
      /\ WorksOn(a) /\ OthersStay(a) /\ SafeLines'
  BY DEF Answered
<1>2. /\ LineAsserted(a) /\ "none" \notin ToCache /\ "none" \notin WbRep /\ "none" \notin GivesUp
      /\ \A c \in Core : PairAsserted(a, c)
  BY <1>1, Kinds DEF AssertedLines, LineAsserted
<1>3. \A T, c : Queued(Pend(a)', T, c) <=> Queued(Pend(a), T, c)
  BY <1>1 DEF SameRequests
<1>4. \A c : Coming(a, c) /\ dir'[a].sharers # {} => Coming(a, c)'
  BY <1>1 DEF SameRequests, Coming
<1>5. ASSUME NEW c \in Core PROVE PairAsserted(a, c)'
  <2>1. PairInv(a, c)'
    BY <1>1 DEF SafeLines, LineInv
  <2>2. SameService(a, c)
    BY <1>1, ServiceStays DEF OthersStay
  <2>3. PICK t \in {type, "none"} : Directed(a, c, t, "none") /\ (c = s => t = type) /\ (c # s => t = "none")
    <3>1. CASE c = s
      <4>1. Directed(a, c, type, "none")
        BY <1>1, <1>3, <2>2, <3>1, DirectedBy
      <4>2. QED
        BY <3>1, <4>1
    <3>2. CASE c # s
      <4>1. Directed(a, c, "none", "none")
        BY <1>1, <1>3, <2>2, <3>2, NotDirected
      <4>2. QED
        BY <3>2, <4>1
    <3>3. QED
      BY <3>1, <3>2
  <2>4. /\ "none" \notin InvCmd /\ "none" \notin UpgradeRep /\ "none" \notin ExGrantRep
    BY Kinds, MoreKinds
  <2>5. \A T : Got(inbox', T, a, c) <=> Got(inbox, T, a, c)
    BY <1>2, <2>3 DEF Directed
  <2>6. Got(inbox', ShGrantRep, a, c) => dir'[a].state = "SHARED"
    <3>1. Got(inbox', ShGrantRep, a, c) => dir[a].state = "SHARED" /\ Got(inbox', Grant, a, c)
      BY <1>2, <2>5, MoreKindsHeld DEF PairAsserted, OwnerState
    <3>2. Got(inbox', Grant, a, c) => c \in dir'[a].sharers
      BY <2>1, KindsHeld DEF PairInv, Known
    <3>3. QED
      BY <3>1, <3>2
  <2>7. c \in dir'[a].sharers =>
          \/ Coming(a, c)'
          \/ c \in dir[a].sharers /\ t \notin GivesUp /\ ~Coming(a, c)
    BY <1>2, <1>4, <2>3
  <2>8. Treated(a, c, t, "none")
    BY <1>2, <2>3, <2>4, <2>6, <2>7 DEF Treated
  <2>9. QED
    BY <1>1, <1>2, <2>1, <2>3, <2>8, PairDirected
<1>6. QED
  BY <1>1, <1>5, OneLineAsserted DEF LineAsserted

\* A cache has given a shared line up: the others are still waited for.
LEMMA TakeInvRepAsserted ==
  ASSUME IInv, SafeLines, AssertedLines, NEW h \in Core, TakeInvRep(h) PROVE AssertedLines'
<1> SUFFICES ASSUME NEW a, NEW s, a = Head(inbox[h]).addr, s = Head(inbox[h]).from
             PROVE  AssertedLines'
  OBVIOUS
<1>1. PICK now \in BOOLEAN : SharerGone(h, a, s, now)
  BY TakeInvRepTakes
<1>2. /\ Answered(h, a, s, "INV_REP") /\ queue'[a] = queue[a]
      /\ Parked(a)' <=> ~now
      /\ now => net'[h].data = "none"
      /\ dir'[a].sharers = dir[a].sharers \ {s} /\ dir'[a].owner = dir[a].owner
      /\ dir'[a].state = IF dir'[a].sharers = {} THEN "UNCACHED" ELSE dir[a].state
  BY <1>1 DEF SharerGone
<1>3. /\ a \in Addr /\ DirHome[a] = h
      /\ Parked(a) /\ Pend(a) = queue[a] /\ Pend(a)' = queue[a]
  BY <1>2 DEF Answered
<1>4. LineAsserted(a) /\ "INV_REP" \in CacheReply /\ "INV_REP" \notin WbRep
  BY <1>3, Kinds DEF AssertedLines, CacheReply
<1>5. ASSUME NEW c \in Core, InvLive(a, c), c \in dir'[a].sharers PROVE InvLive(a, c)'
  <2>1. /\ queue[a] # <<>> /\ ~Head(queue[a]).waitForData
        /\ Head(queue[a]).type \in {"EX_REQ", "SH_REQ", "UPGRADE_REQ", "NULLIFY_REQ"}
        /\ dir[a].state = "SHARED" /\ c \in dir[a].sharers
        /\ Head(queue[a]).type = "UPGRADE_REQ" => Head(queue[a]).from # c
        /\ Head(queue[a]).type = "SH_REQ" => MaxHwSharers = 1 /\ Head(queue[a]).from \notin dir[a].sharers
    BY <1>3, <1>5 DEF InvLive, Blocked
  <2>2. c # s /\ dir'[a].state = "SHARED"
    BY <1>2, <1>5, <2>1
  <2>3. CASE Head(queue[a]).type = "SH_REQ"
    <3>1. s \in dir[a].sharers
      BY <1>1 DEF SharerGone
    <3>2. QED
      BY <1>4, <2>1, <2>2, <2>3, <3>1 DEF LineAsserted, SharersFit
  <2>4. CASE Head(queue[a]).type = "UPGRADE_REQ"
    <3>1. now <=> dir'[a].sharers \subseteq {Head(queue[a]).from}
      BY <1>1, <2>1, <2>4 DEF SharerGone
    <3>2. ~now
      BY <1>5, <2>1, <2>4, <3>1
    <3>3. QED
      BY <1>2, <1>3, <1>5, <2>1, <2>2, <2>4, <3>2 DEF InvLive, Blocked
  <2>5. CASE Head(queue[a]).type \in {"EX_REQ", "NULLIFY_REQ"}
    <3>1. now => dir'[a].state = "UNCACHED"
      BY <1>1, <2>1, <2>5 DEF SharerGone
    <3>2. ~now
      BY <2>2, <3>1
    <3>3. QED
      BY <1>2, <1>3, <1>5, <2>1, <2>2, <2>5, <3>2 DEF InvLive, Blocked
  <2>6. QED
    BY <2>1, <2>3, <2>4, <2>5
<1>6. WaitFits(a)'
  <2>1. HeadWaits(a) => Head(Pend(a)).type = "SH_REQ" /\ dir'[a].state = "SHARED"
    BY <1>1 DEF SharerGone
  <2>2. QED
    BY <1>3, <2>1 DEF WaitFits, HeadWaits
<1>7. HeadFits(a)'
  <2>1. SUFFICES ASSUME HeadAt(a)'
                 PROVE  /\ net'[h].data = "none"
                        /\ Head(queue'[a]).type = "NULLIFY_REQ" => dir'[a].state = "UNCACHED"
    BY <1>3 DEF HeadFits
  <2>2. now
    BY <1>2, <2>1 DEF HeadAt, Parked
  <2>3. Head(queue[a]).type = "NULLIFY_REQ" => dir'[a].state = "UNCACHED"
    <3>1. queue[a] # <<>>
      BY <1>1, <2>2 DEF SharerGone
    <3>2. QED
      BY <1>1, <2>2, <3>1 DEF SharerGone
  <2>4. QED
    BY <1>2, <2>2, <2>3
<1>8. SharersFit(a)'
  BY <1>2, <1>4 DEF LineAsserted, SharersFit
<1>9. /\ dir'[a].state = "MODIFIED" => dir[a].state = "MODIFIED"
      /\ \A c \in Core : IsOwner(a, c)' => IsOwner(a, c)
      /\ dir[a].state = "SHARED" /\ dir'[a].sharers # {} => dir'[a].state = "SHARED"
      /\ dir'[a].sharers \subseteq dir[a].sharers /\ s \notin dir'[a].sharers
  BY <1>2 DEF IsOwner, Owned
<1>10. QED
  BY <1>2, <1>4, <1>5, <1>6, <1>7, <1>8, <1>9, AnswerAsserted

\* The owner, or the sharer an upgrade waits for, has flushed the line.
LEMMA TakeFlushRepAsserted ==
  ASSUME IInv, SafeLines, AssertedLines, NEW h \in Core, TakeFlushRep(h) PROVE AssertedLines'
<1> SUFFICES ASSUME NEW a, NEW s, a = Head(inbox[h]).addr, s = Head(inbox[h]).from
             PROVE  AssertedLines'
  OBVIOUS
<1>1. PICK now \in BOOLEAN : FlushTaken(h, a, s, now)
  BY TakeFlushRepTakes
<1>2. /\ Answered(h, a, s, "FLUSH_REP")
      /\ Parked(a)' <=> ~now
      /\ dir'[a].sharers = dir[a].sharers \ {s} /\ dir'[a].owner = NoCore
      /\ dir'[a].state = IF dir'[a].sharers = {} THEN "UNCACHED" ELSE dir[a].state
      /\ dir'[a].sharers # {} => /\ dir[a].state = "SHARED" /\ ~now
                                 /\ queue[a] # <<>> /\ Head(queue[a]).type = "UPGRADE_REQ"
      /\ ~HeadWaits(a)
  BY <1>1 DEF FlushTaken
<1>3. /\ a \in Addr /\ DirHome[a] = h
      /\ Pend(a) = queue[a] /\ Pend(a)' = queue'[a] /\ SameRequests(queue'[a], queue[a])
  BY <1>2 DEF Answered
<1>4. LineAsserted(a) /\ "FLUSH_REP" \in CacheReply /\ "FLUSH_REP" \notin WbRep
  BY <1>3, Kinds DEF AssertedLines, CacheReply
<1>5. /\ queue'[a] = <<>> <=> queue[a] = <<>>
      /\ queue[a] # <<>> => /\ Head(queue'[a]).type = Head(queue[a]).type
                            /\ Head(queue'[a]).from = Head(queue[a]).from
                            /\ Head(queue'[a]).waitForData = Head(queue[a]).waitForData
  BY <1>3 DEF SameRequests
<1>6. ASSUME NEW c \in Core, InvLive(a, c), c \in dir'[a].sharers PROVE InvLive(a, c)'
  <2>1. /\ dir'[a].state = "SHARED" /\ Parked(a)'
        /\ queue[a] # <<>> /\ Head(queue[a]).type = "UPGRADE_REQ"
    BY <1>2, <1>6
  <2>2. ~Head(queue[a]).waitForData /\ Head(queue[a]).from # c
    BY <1>3, <1>6, <2>1 DEF InvLive, Blocked
  <2>3. QED
    BY <1>3, <1>5, <1>6, <2>1, <2>2 DEF InvLive, Blocked
<1>7. WaitFits(a)'
  BY <1>2, <1>3, <1>5 DEF WaitFits, HeadWaits
<1>8. HeadFits(a)'
  <2>1. SUFFICES ASSUME HeadAt(a)' PROVE dir'[a].state = "UNCACHED"
    BY DEF HeadFits, Owned
  <2>2. now
    BY <1>2, <2>1 DEF HeadAt, Parked
  <2>3. QED
    BY <1>2, <2>2
<1>9. SharersFit(a)'
  BY <1>2, <1>4 DEF LineAsserted, SharersFit
<1>10. /\ dir'[a].state = "MODIFIED" => dir[a].state = "MODIFIED"
       /\ \A c \in Core : IsOwner(a, c)' => IsOwner(a, c)
       /\ dir[a].state = "SHARED" /\ dir'[a].sharers # {} => dir'[a].state = "SHARED"
       /\ dir'[a].sharers \subseteq dir[a].sharers /\ s \notin dir'[a].sharers
  <2>1. \A c \in Core : c # NoCore
    BY CoreAssumption DEF NoCore
  <2>2. QED
    BY <1>2, <2>1 DEF IsOwner
<1>11. QED
  BY <1>2, <1>4, <1>6, <1>7, <1>8, <1>9, <1>10, AnswerAsserted

\* The line has been written back: the reader goes on with the data.
LEMMA TakeWbRepAsserted ==
  ASSUME IInv, SafeLines, AssertedLines, NoForwarding, NEW h \in Core, TakeWbRep(h)
  PROVE  AssertedLines'
<1> SUFFICES ASSUME NEW a, NEW s, a = Head(inbox[h]).addr, s = Head(inbox[h]).from
             PROVE  AssertedLines'
  OBVIOUS
<1>1. WroteBack(h, a, s)
  BY TakeWbRepTakes
<1>2. /\ Answered(h, a, s, "WB_REP") /\ queue'[a] = queue[a] /\ WbLive(a, s)
      /\ dir'[a].sharers = dir[a].sharers /\ dir'[a].owner = NoCore /\ dir'[a].state = "SHARED"
      /\ s \in dir[a].sharers /\ ~HeadWaits(a)
  BY <1>1 DEF WroteBack
<1>3. /\ a \in Addr /\ DirHome[a] = h /\ s \in Core
      /\ Pend(a) = queue[a] /\ Pend(a)' = queue[a]
  BY <1>2 DEF Answered
<1>4. LineAsserted(a) /\ "WB_REP" \in CacheReply /\ "WB_REP" \notin GivesUp
  BY <1>3, Kinds DEF AssertedLines, CacheReply
<1>5. /\ queue[a] # <<>> /\ Head(queue[a]).type = "SH_REQ"
      /\ dir[a].state = "SHARED" => Head(queue[a]).forwardingFrom = s
  BY <1>2, <1>3 DEF WbLive, Blocked, IsOwner, Owned
<1>6. ASSUME NEW c \in Core, InvLive(a, c) PROVE FALSE
  <2>1. dir[a].state = "SHARED" /\ MaxHwSharers = 1
    BY <1>3, <1>5, <1>6 DEF InvLive
  <2>2. queue[a] \in Seq(Request)
    BY <1>3 DEF IInv, TypeOK
  <2>3. Head(queue[a]) = queue[a][1] /\ 1 \in DOMAIN queue[a]
    BY <1>5, <2>2
  <2>4. Head(queue[a]).forwardingFrom = NoCore
    BY <1>3, <2>1, <2>3 DEF NoForwarding
  <2>5. s # NoCore
    BY <1>3, CoreAssumption DEF NoCore
  <2>6. QED
    BY <1>5, <2>1, <2>4, <2>5
<1>7. WaitFits(a)' /\ HeadFits(a)' /\ SharersFit(a)'
  <2>1. WaitFits(a)'
    BY <1>2, <1>3 DEF WaitFits, HeadWaits
  <2>2. HeadFits(a)'
    BY <1>2, <1>5 DEF HeadFits, Owned
  <2>3. SharersFit(a)'
    BY <1>2, <1>4 DEF LineAsserted, SharersFit
  <2>4. QED
    BY <2>1, <2>2, <2>3
<1>8. \A c \in Core : ~IsOwner(a, c)'
  <2>1. \A c \in Core : c # NoCore
    BY CoreAssumption DEF NoCore
  <2>2. QED
    BY <1>2, <2>1 DEF IsOwner
<1>9. QED
  BY <1>2, <1>4, <1>6, <1>7, <1>8, AnswerAsserted

-----------------------------------------------------------------------------
(* Where an entry has room for one sharer, no request is forwarded *)

\* Data is taken from DRAM, or is there.
LEMMA RetrieveForwardsNothing ==
  ASSUME IInv, NoForwarding, NEW h \in Core, NEW a \in Addr, a = net[h].addr,
         NEW rep, NEW to, NEW data, NEW e, Retrieve(h, rep, to, data, e),
         MaxHwSharers = 1 => ~MayForward(a, e)
  PROVE  NoForwarding'
<1> SUFFICES ASSUME MaxHwSharers = 1, NEW b \in Addr, NEW i \in DOMAIN queue'[b]
             PROVE  queue'[b][i].forwardingFrom = NoCore
  BY DEF NoForwarding
<1>1. queue' = queue \/ queue' = [queue EXCEPT ![a][1].waitForData = TRUE]
  BY Zenon DEF Retrieve
<1>2. queue \in [Addr -> Seq(Request)]
  BY DEF IInv, TypeOK
<1>3. CASE queue' = queue
  BY <1>3 DEF NoForwarding
<1>4. CASE queue' = [queue EXCEPT ![a][1].waitForData = TRUE]
  <2>1. CASE b = a
    <3>1. /\ i \in DOMAIN queue[a]
          /\ i # 1 => queue'[b][i] = queue[a][i]
          /\ i = 1 => queue'[b][i] = [queue[a][i] EXCEPT !.waitForData = TRUE]
      BY <1>2, <1>4, <2>1
    <3>2. queue[a][i] \in Request /\ queue[a][i].forwardingFrom = NoCore
      BY <1>2, <3>1 DEF NoForwarding
    <3>3. [queue[a][i] EXCEPT !.waitForData = TRUE].forwardingFrom = NoCore
      BY <3>2 DEF Request
    <3>4. QED
      BY <3>1, <3>2, <3>3
  <2>2. CASE b # a
    BY <1>2, <1>4, <2>2 DEF NoForwarding
  <2>3. QED
    BY <2>1, <2>2
<1>5. QED
  BY <1>1, <1>3, <1>4

\* The first cache that gets a line shared is not told to forward it.
LEMMA GrantForwardsNothing ==
  ASSUME IInv, SafeLines, NoForwarding, NEW h \in Core,
         ExGrant(h) \/ ShFirst(h) \/ UpgradeAsExclusive(h)
  PROVE  NoForwarding'
<1> SUFFICES ASSUME NEW a, a = net[h].addr PROVE NoForwarding'
  OBVIOUS
<1> PICK f : f = Head(queue[a]).from
  OBVIOUS
<1>0. PICK types, rep, state : Grants(h, a, f, types, rep, state)
  BY GrantKinds
<1>1. PICK data : /\ net[h].at = "head" /\ Retrieve(h, rep, f, data, SoleOwner(a, f, state))
                  /\ state = "SHARED" => Protocol = "MSI"
  BY <1>0 DEF Grants, Processing
<1>2. a \in Addr /\ dir[a] \in DirEntry
  <2>1. a \in Addr
    BY <1>1, AtWork
  <2>2. QED
    BY <2>1 DEF IInv, TypeOK
<1>3. SoleOwner(a, f, state).state = state
  BY <1>2 DEF SoleOwner, DirEntry
<1>4. ~MayForward(a, SoleOwner(a, f, state))
  BY <1>1, <1>3 DEF MayForward
<1>5. QED
  BY <1>1, <1>2, <1>4, RetrieveForwardsNothing

\* A cache that asks for a line it does not have is no sharer of it, unless the
\* line is on its way from another sharer.
LEMMA ReaderIsNew ==
  ASSUME IInv, SafeLines, AssertedLines,
         NEW h \in Core, net[h].at = "head", NEW a, a = net[h].addr,
         NEW f, f = Head(queue[a]).from, Head(queue[a]).type = "SH_REQ",
         dir[a].state # "SHARED" \/ Head(queue[a]).forwardingFrom = NoCore
  PROVE  f \notin dir[a].sharers
<1>1. /\ a \in Addr /\ Pend(a) = queue[a] /\ queue[a] \in Seq(Request) /\ queue[a] # <<>>
      /\ ~Head(queue[a]).waitForData /\ f \in Core /\ LineInv(a)
  BY AtWork
<1>2. PairInv(a, f) /\ PairAsserted(a, f)
  BY <1>1, AtWorkAsserted
<1>3. Queued(Pend(a), LineReq, f)
  <2>1. Head(queue[a]) \in Asked(LineReq, f)
    <3>1. Head(queue[a]).type \in LineReq
      BY Kinds
    <3>2. QED
      BY <1>1, <3>1 DEF Asked
  <2>2. QED
    BY <1>1, <2>1, TailHas DEF Queued
<1>4. Outstanding(LineReq, a, f) /\ Outstanding(DemandReq, a, f)
  <2>1. Queued(Pend(a), DemandReq, f)
    BY <1>1, AtWork, Kinds
  <2>2. QED
    BY <1>3, <2>1 DEF Outstanding
<1>5. /\ llc[f][a] = "INVALID" /\ ~Got(inbox, DirReply, a, f)
      /\ ~Sent(inbox, GivesUp, a, f)
  BY <1>2, <1>3, <1>4 DEF PairInv, StateFits, OneRequest, GivenUp
<1>6. ~Coming(a, f)
  BY <1>1 DEF Coming
<1>7. QED
  BY <1>2, <1>5, <1>6 DEF PairAsserted, Justified

\* So a reader of a shared line finds no room, and is not given the line.
LEMMA NoSecondReader ==
  ASSUME IInv, SafeLines, AssertedLines, NoForwarding, NEW h \in Core, ShShare(h)
  PROVE  MaxHwSharers # 1
<1> SUFFICES ASSUME MaxHwSharers = 1, NEW a, NEW f, a = net[h].addr, f = Head(queue[a]).from
             PROVE  FALSE
  OBVIOUS
<1>1. PICK e \in DirEntry :
        /\ net[h].at = "head" /\ a \in Addr /\ f \in Core
        /\ Head(queue[a]).type = "SH_REQ" /\ dir[a].state = "SHARED"
        /\ f \in dir[a].sharers \/ Cardinality(dir[a].sharers) < MaxHwSharers
  BY ShShareAnswers, Zenon
<1>2. f \notin dir[a].sharers
  <2>1. queue[a] \in Seq(Request) /\ queue[a] # <<>>
    BY <1>1, AtWork
  <2>2. Head(queue[a]) = queue[a][1] /\ 1 \in DOMAIN queue[a]
    BY <2>1
  <2>3. Head(queue[a]).forwardingFrom = NoCore
    BY <1>1, <2>2 DEF NoForwarding
  <2>4. QED
    BY <1>1, <2>3, ReaderIsNew
<1>3. dir[a].sharers \in SUBSET Core /\ IsFiniteSet(Core)
  BY <1>1, CoreAssumption DEF IInv, TypeOK, DirEntry
<1>4. IsFiniteSet(dir[a].sharers)
  BY <1>3, FS_Subset
<1>5. Cardinality(dir[a].sharers) \in Nat /\ Cardinality(dir[a].sharers) < 1
  BY <1>1, <1>2, <1>4, FS_CardinalityType
<1>6. dir[a].sharers = {}
  BY <1>4, <1>5, FS_EmptySet
<1>7. SharersFit(a)
  BY <1>1, AtWorkAsserted DEF LineAsserted
<1>8. QED
  BY <1>1, <1>6, <1>7 DEF SharersFit

\* A request that joins the queue has not been forwarded.
LEMMA RequestForwardsNothing ==
  ASSUME IInv, NoForwarding, NEW h \in Core, TakeRequest(h) PROVE NoForwarding'
<1> SUFFICES ASSUME MaxHwSharers = 1, NEW b \in Addr, NEW i \in DOMAIN queue'[b]
             PROVE  queue'[b][i].forwardingFrom = NoCore
  BY DEF NoForwarding
<1>1. PICK a, r : /\ queue' = [queue EXCEPT ![a] = Append(queue[a], r)]
                  /\ r.forwardingFrom = NoCore
  <2>1. \A type, f : NewRequest(type, f).forwardingFrom = NoCore
    BY DEF NewRequest
  <2>2. QED
    BY <2>1, Zenon DEF TakeRequest
<1>2. queue \in [Addr -> Seq(Request)]
  BY DEF IInv, TypeOK
<1>3. CASE b = a
  <2>1. queue'[b] = Append(queue[b], r) /\ queue[b] \in Seq(Request)
    BY <1>1, <1>2, <1>3
  <2>2. \/ i \in DOMAIN queue[b] /\ queue'[b][i] = queue[b][i]
        \/ queue'[b][i] = r
    BY <2>1
  <2>3. QED
    BY <1>1, <2>2 DEF NoForwarding
<1>4. CASE b # a
  BY <1>1, <1>2, <1>4 DEF NoForwarding
<1>5. QED
  BY <1>3, <1>4

\* Data that is noted in a request does not forward it.
LEMMA FlushForwardsNothing ==
  ASSUME IInv, NoForwarding, NEW h \in Core, TakeFlushRep(h) PROVE NoForwarding'
<1> SUFFICES ASSUME MaxHwSharers = 1, NEW b \in Addr, NEW i \in DOMAIN queue'[b]
             PROVE  queue'[b][i].forwardingFrom = NoCore
  BY DEF NoForwarding
<1>1. PICK a, d : queue' = queue \/ queue' = [queue EXCEPT ![a][1].data = d]
  BY DEF TakeFlushRep
<1>2. queue \in [Addr -> Seq(Request)]
  BY DEF IInv, TypeOK
<1>3. CASE queue' = [queue EXCEPT ![a][1].data = d]
  <2>1. /\ i \in DOMAIN queue[b]
        /\ queue'[b][i] = queue[b][i] \/ queue'[b][i] = [queue[b][i] EXCEPT !.data = d]
    BY <1>2, <1>3
  <2>2. queue[b][i] \in Request /\ queue[b][i].forwardingFrom = NoCore
    BY <1>2, <2>1 DEF NoForwarding
  <2>3. [queue[b][i] EXCEPT !.data = d].forwardingFrom = NoCore
    BY <2>2 DEF Request
  <2>4. QED
    BY <2>1, <2>2, <2>3
<1>4. QED
  BY <1>1, <1>3 DEF NoForwarding

\* Neither do a write, which makes the data of requests stale, ...
LEMMA WriteForwardsNothing ==
  ASSUME IInv, NoForwarding, NEW c, NEW a, WrittenAt(c, a) PROVE NoForwarding'
<1> SUFFICES ASSUME MaxHwSharers = 1, NEW b \in Addr, NEW i \in DOMAIN queue'[b]
             PROVE  queue'[b][i].forwardingFrom = NoCore
  BY DEF NoForwarding
<1>1. queue \in [Addr -> Seq(Request)]
  BY DEF IInv, TypeOK
<1>2. /\ i \in DOMAIN queue[b]
      /\ queue'[b][i] = queue[b][i] \/ queue'[b][i] = Aged(queue[b][i])
  BY <1>1, Zenon DEF WrittenAt
<1>3. queue[b][i] \in Request /\ queue[b][i].forwardingFrom = NoCore
  BY <1>1, <1>2 DEF NoForwarding
<1>4. Aged(queue[b][i]).forwardingFrom = NoCore
  BY <1>3 DEF Aged, Request
<1>5. QED
  BY <1>2, <1>3, <1>4

\* ... the replacement of an entry ...
LEMMA AllocateForwardsNothing ==
  ASSUME IInv, NoForwarding, NEW h \in Core, Allocate(h) PROVE NoForwarding'
<1> SUFFICES ASSUME MaxHwSharers = 1, NEW b \in Addr, NEW i \in DOMAIN queue'[b]
             PROVE  queue'[b][i].forwardingFrom = NoCore
  BY DEF NoForwarding
<1> PICK r : r = NewRequest("NULLIFY_REQ", Head(queue[net[h].addr]).from)
  OBVIOUS
<1>1. PICK v : queue' = queue \/ queue' = [queue EXCEPT ![v] = <<r>>]
  BY Zenon DEF Allocate
<1>0. r.forwardingFrom = NoCore
  BY DEF NewRequest
<1>2. queue \in [Addr -> Seq(Request)]
  BY DEF IInv, TypeOK
<1>3. CASE queue' = queue
  BY <1>3 DEF NoForwarding
<1>4. CASE queue' = [queue EXCEPT ![v] = <<r>>]
  <2>1. CASE b = v
    <3>1. queue'[b] = <<r>>
      BY <1>2, <1>4, <2>1
    <3>2. DOMAIN <<r>> = {1} /\ <<r>>[1] = r
      OBVIOUS
    <3>3. QED
      BY <1>0, <3>1, <3>2
  <2>2. CASE b # v
    BY <1>2, <1>4, <2>2 DEF NoForwarding
  <2>3. QED
    BY <2>1, <2>2
<1>5. QED
  BY <1>1, <1>3, <1>4

\* ... or the end of a request.
LEMMA NextForwardsNothing ==
  ASSUME IInv, NoForwarding, NEW h \in Core, NextRequest(h) PROVE NoForwarding'
<1> SUFFICES ASSUME MaxHwSharers = 1, NEW b \in Addr, NEW i \in DOMAIN queue'[b]
             PROVE  queue'[b][i].forwardingFrom = NoCore
  BY DEF NoForwarding
<1>1. PICK a : queue' = [queue EXCEPT ![a] = Tail(queue[a])] /\ net[h].at = "next" /\ a = net[h].addr
  BY DEF NextRequest
<1>2. queue \in [Addr -> Seq(Request)] /\ queue[a] # <<>>
  BY <1>1 DEF IInv, TypeOK, NetOK
<1>3. CASE b = a
  <2>1. queue'[b] = Tail(queue[b]) /\ queue[b] \in Seq(Request) /\ queue[b] # <<>>
    BY <1>1, <1>2, <1>3
  <2>2. i + 1 \in DOMAIN queue[b] /\ queue'[b][i] = queue[b][i + 1]
    BY <2>1
  <2>3. QED
    BY <2>2 DEF NoForwarding
<1>4. CASE b # a
  BY <1>1, <1>2, <1>4 DEF NoForwarding
<1>5. QED
  BY <1>3, <1>4

\* Every step keeps it.
LEMMA NextForwardsNone ==
  IInv /\ SafeLines /\ AssertedLines /\ NoForwarding /\ [Next]_vars => NoForwarding'
<1> SUFFICES ASSUME IInv, SafeLines, AssertedLines, NoForwarding, [Next]_vars PROVE NoForwarding'
  OBVIOUS
<1>1. ASSUME queue' = queue PROVE NoForwarding'
  BY <1>1 DEF NoForwarding
<1>2. ASSUME NEW c \in Core, CacheMessage(c) PROVE NoForwarding'
  BY <1>1, <1>2 DEF CacheMessage, Fill, FinishUpgrade, IgnoreCommand, Invalidate, Flush, WriteBack, dirVars
<1>3. ASSUME NEW c \in Core, ServeWaiters(c) PROVE NoForwarding'
  <2>1. ASSUME Wake(c) PROVE NoForwarding'
    BY <1>1, <2>1, WriteForwardsNothing DEF Wake
  <2>2. ASSUME ServeByUpgrade(c) \/ RemoveWaiter(c) \/ AllServed(c) PROVE NoForwarding'
    BY <1>1, <2>2 DEF ServeByUpgrade, RemoveWaiter, AllServed, dirVars
  <2>3. QED
    BY <1>3, <2>1, <2>2 DEF ServeWaiters
<1>4. ASSUME NEW c \in Core, DirectoryMessage(c) PROVE NoForwarding'
  <2>1. ASSUME TakeInvRep(c) \/ TakeWbRep(c) \/ TakeDramRep(c) PROVE NoForwarding'
    BY <1>1, <2>1 DEF TakeInvRep, TakeWbRep, TakeDramRep, dirVars
  <2>2. QED
    BY <1>4, <2>1, RequestForwardsNothing, FlushForwardsNothing DEF DirectoryMessage
<1>5. ASSUME NEW c \in Core, ProcessRequest(c) PROVE NoForwarding'
  <2>1. ASSUME \/ ExFlush(c) \/ ExInvalidate(c) \/ ShWriteBack(c) \/ ShMakeRoom(c)
               \/ UpgradeGrant(c) \/ UpgradeFlush(c) \/ UpgradeInvalidate(c) \/ Nullified(c)
        PROVE  NoForwarding'
    BY <1>1, <2>1 DEF ExFlush, ExInvalidate, ShWriteBack, ShMakeRoom, UpgradeGrant, UpgradeFlush,
       UpgradeInvalidate, Nullified, Command, dirVars
  <2>2. ASSUME ShShare(c) PROVE NoForwarding'
    BY <2>2, NoSecondReader DEF NoForwarding
  <2>3. QED
    BY <1>5, <2>1, <2>2, GrantForwardsNothing, AllocateForwardsNothing, NextForwardsNothing
       DEF ProcessRequest
<1>6. ASSUME NEW c \in Core, DramMessage(c) PROVE NoForwarding'
  BY <1>1, <1>6 DEF DramMessage, DramRead, DramWrite, dirVars
<1>7. ASSUME NEW t \in Thread, NEW a \in Addr, Access(t, a) PROVE NoForwarding'
  <2>1. ASSUME WriteHit(t, a) PROVE NoForwarding'
    BY <2>1, WriteForwardsNothing DEF WriteHit
  <2>2. ASSUME NEW exclusive, Miss(t, a, exclusive) PROVE NoForwarding'
    BY <1>1, <2>2 DEF Miss, dirVars
  <2>3. QED
    BY <1>7, <2>1, <2>2 DEF Access
<1>8. ASSUME NEW c \in Core, NEW a \in Addr, Evict(c, a) PROVE NoForwarding'
  BY <1>1, <1>8 DEF Evict, dirVars
<1>9. CASE UNCHANGED vars
  BY <1>1, <1>9 DEF vars
<1>10. QED
  BY <1>2, <1>3, <1>4, <1>5, <1>6, <1>7, <1>8, <1>9 DEF Next, NetStep

-----------------------------------------------------------------------------
(* The invariant of the assertions *)

LEMMA InitAsserted == Init => AssertedLines /\ NoForwarding
<1> SUFFICES ASSUME Init PROVE AssertedLines /\ NoForwarding
  OBVIOUS
<1>1. NoForwarding
  BY DEF Init, NoForwarding
<1>2. ASSUME NEW a \in Addr PROVE LineAsserted(a)
  <2>1. /\ \A c \in Core : inbox[c] = <<>> /\ llc[c][a] = "INVALID" /\ waiters[c][a] = <<>>
        /\ \A c \in Core : net[c].at = "recv"
        /\ queue[a] = <<>> /\ Pend(a) = <<>>
        /\ dir[a].state = "UNCACHED" /\ dir[a].sharers = {}
    BY <1>2 DEF Init, Pend, NewEntries
  <2>2. /\ \A M, N : ~Has(<<>>, M) /\ NotThen(<<>>, M, N)
    BY EmptyHas
  <2>3. ASSUME NEW c \in Core PROVE PairAsserted(a, c)
    <3>1. /\ \A T : ~Sent(inbox, T, a, c) /\ ~Got(inbox, T, a, c) /\ ~Queued(Pend(a), T, c)
          /\ \A T : ~Outstanding(T, a, c)
      BY <2>1, <2>2 DEF Sent, Got, Queued, Outstanding
    <3>2. \A T, U : GotNotThen(inbox, T, U, a, c)
      BY <2>1, <2>2 DEF GotNotThen
    <3>3. InvCommand(a, c) /\ UpgradeKept(a, c) /\ Justified(a, c)
      BY <2>1, <3>1, <3>2 DEF InvCommand, UpgradeKept, Justified
    <3>4. OwnerState(a, c) /\ ServiceFits(a, c)
      BY <2>1, <3>1 DEF OwnerState, ServiceFits, Serves
    <3>5. QED
      BY <3>3, <3>4 DEF PairAsserted
  <2>4. WaitFits(a) /\ HeadFits(a) /\ SharersFit(a)
    BY <2>1 DEF WaitFits, HeadWaits, HeadFits, HeadAt, SharersFit
  <2>5. QED
    BY <2>3, <2>4 DEF LineAsserted
<1>3. QED
  BY <1>1, <1>2 DEF AssertedLines

\* Every step of the system keeps it.
LEMMA NextAsserted ==
  ASSUME RoomForSharers
  PROVE  IInv /\ SafeLines /\ AssertedLines /\ NoForwarding /\ [Next]_vars => AssertedLines'
<1> SUFFICES ASSUME IInv, SafeLines, AssertedLines, NoForwarding, [Next]_vars PROVE AssertedLines'
  OBVIOUS
<1>1. ASSUME NEW c \in Core, CacheMessage(c) PROVE AssertedLines'
  BY <1>1, FillAsserted, FinishUpgradeAsserted, IgnoreCommandAsserted, InvalidateAsserted,
     FlushAsserted, WriteBackAsserted DEF CacheMessage
<1>2. ASSUME NEW c \in Core, ServeWaiters(c) PROVE AssertedLines'
  BY <1>2, ServeByUpgradeAsserted, WakeAsserted, RemoveWaiterAsserted, AllServedAsserted
     DEF ServeWaiters
<1>3. ASSUME NEW c \in Core, DirectoryMessage(c) PROVE AssertedLines'
  BY <1>3, TakeRequestAsserted, TakeInvRepAsserted, TakeFlushRepAsserted, TakeWbRepAsserted,
     TakeDramRepAsserted DEF DirectoryMessage
<1>4. ASSUME NEW c \in Core, ProcessRequest(c) PROVE AssertedLines'
  BY <1>4, AllCommandsAsserted, GrantsAsserted, ShShareAsserted, UpgradeGrantAsserted,
     UpgradeInvalidateAsserted, AllocateAsserted, NullifiedAsserted, NextRequestAsserted
     DEF ProcessRequest
<1>5. ASSUME NEW c \in Core, DramMessage(c) PROVE AssertedLines'
  BY <1>5, DramAsserted DEF DramMessage
<1>6. ASSUME NEW t \in Thread, NEW a \in Addr, Access(t, a) PROVE AssertedLines'
  BY <1>6, WriteHitAsserted, MissAsserted DEF Access
<1>7. ASSUME NEW c \in Core, NEW a \in Addr, Evict(c, a) PROVE AssertedLines'
  BY <1>7, EvictAsserted
<1>8. CASE UNCHANGED vars
  <2>1. /\ llc' = llc /\ waiters' = waiters /\ dir' = dir /\ present' = present
        /\ replaced' = replaced /\ queue' = queue /\ inbox' = inbox /\ net' = net
    BY <1>8 DEF vars
  <2>2. \A b \in Addr : SameLine(b)
    <3>1. \A b \in Addr : Pend(b)' = Pend(b) /\ (Parked(b)' <=> Parked(b))
      BY <2>1 DEF Pend, Parked
    <3>2. QED
      BY <2>1, <3>1, SameQueue DEF SameLine
  <2>3. \A b \in Addr, k \in Core : SamePair(b, k) /\ SameService(b, k)
    BY <2>1 DEF SamePair, SameMail, SameMailAbout, Awaited, SameService
  <2>4. QED
    BY <2>1, <2>2, <2>3, NothingAsserted
<1>9. QED
  BY <1>1, <1>2, <1>3, <1>4, <1>5, <1>6, <1>7, <1>8 DEF Next, NetStep

-----------------------------------------------------------------------------
(* What follows: no assertion fails *)

\* A line that some cache may have has a directory entry.
LEMMA SharedIsFound ==
  ASSUME SafeLines, NEW a \in Addr, dir[a].sharers # {}
  PROVE  Found(a) /\ dir[a].state # "UNCACHED"
  BY DEF SafeLines, LineInv, Entry, Found

\* What the message at the head of an inbox says.
LEMMA HeadSays ==
  ASSUME IInv, NEW c \in Core, inbox[c] # <<>>, NEW m, NEW a, m = Head(inbox[c]), a = m.addr
  PROVE  /\ a \in Addr /\ m.from \in Core /\ m.type \in MsgType
         /\ \A T : m.type \in T /\ m.type \in ToCache => Got(inbox, T, a, c)
         /\ m.type = "DRAM_READ_REP" => DirHome[a] = c /\ Read(inbox, "DRAM_READ_REP", a, DirHome[a])
<1>1. /\ a \in Addr /\ m.from \in Core /\ m.type \in MsgType
      /\ m.type = "DRAM_READ_REP" => DirHome[a] = c
  BY HeadOK DEF IInv, MessagesTo
<1>2. Taken(Rest(c), inbox, c, m)
  BY RestTakes DEF IInv
<1>3. \A T : TakenAbout(Rest(c), inbox, c, m, a, c, T, T)
  BY <1>1, <1>2 DEF Taken
<1>4. \A T : m.type \in T /\ m.type \in ToCache => Got(inbox, T, a, c)
  BY <1>3 DEF TakenAbout
<1>5. TakenRead(Rest(c), inbox, c, m, a, c, "DRAM_READ_REP")
  BY <1>1, <1>2 DEF Taken
<1>6. QED
  BY <1>1, <1>4, <1>5 DEF TakenRead

\* The cache controllers: a reply finds a waiter and the line as it was when it
\* was asked for; an INV_REQ does not find it modified.
LEMMA CacheExpects ==
  ASSUME IInv, SafeLines, AssertedLines, NEW c \in Core, inbox[c] # <<>>,
         NEW m, m = Head(inbox[c]), net[c].at = "recv", m.type \in DirReply \cup {"INV_REQ"}
  PROVE  MessageIsExpected(c, m)
<1> SUFFICES ASSUME NEW a, a = m.addr PROVE MessageIsExpected(c, m)
  OBVIOUS
<1>1. a \in Addr /\ \A T : m.type \in T => Got(inbox, T, a, c)
  BY HeadSays, Kinds
<1>2. PairInv(a, c) /\ PairAsserted(a, c)
  BY <1>1 DEF SafeLines, LineInv, AssertedLines, LineAsserted
<1>3. CASE m.type \in DirReply
  <2>1. waiters[c][a] # <<>>
    BY <1>1, <1>2, <1>3 DEF PairInv, OneRequest, Awaited
  <2>2. CASE m.type \in Grant
    <3>1. llc[c][a] = "INVALID"
      BY <1>1, <1>2, <2>2 DEF PairInv, StateFits
    <3>2. m.type \in {"EX_REP", "SH_REP"}
      BY <2>2, Kinds
    <3>3. QED
      BY <2>1, <3>1, <3>2 DEF MessageIsExpected
  <2>3. CASE m.type \in UpgradeRep
    <3>1. llc[c][a] = "SHARED_UPGRADING"
      BY <1>1, <1>2, <2>3 DEF PairAsserted, UpgradeKept
    <3>2. m.type = "UPGRADE_REP"
      BY <2>3, Kinds
    <3>3. QED
      BY <2>1, <3>1, <3>2 DEF MessageIsExpected
  <2>4. QED
    BY <1>3, <2>2, <2>3, Kinds
<1>4. CASE m.type = "INV_REQ"
  <2>1. Got(inbox, InvCmd, a, c)
    BY <1>1, <1>4, MoreKinds
  <2>2. llc[c][a] # "MODIFIED"
    <3>1. CASE InvLive(a, c)
      BY <1>2, <3>1 DEF InvLive, PairInv, Ownership, IsOwner, Owned
    <3>2. CASE ~InvLive(a, c)
      BY <1>2, <2>1, <3>2 DEF PairAsserted, InvCommand
    <3>3. QED
      BY <3>1, <3>2
  <2>3. QED
    BY <1>4, <2>2 DEF MessageIsExpected
<1>5. QED
  BY <1>3, <1>4

\* The directories: an answer comes from a sharer and finds the entry in the state
\* it was asked for, or that it was evicted from.
LEMMA DirectoryExpects ==
  ASSUME IInv, SafeLines, AssertedLines, NEW h \in Core, inbox[h] # <<>>,
         NEW m, m = Head(inbox[h]), net[h].at = "recv", m.type \in CacheReply
  PROVE  MessageIsExpected(h, m)
<1> SUFFICES ASSUME NEW a, a = m.addr, NEW s, s = m.from PROVE MessageIsExpected(h, m)
  OBVIOUS
<1>1. AnswersOf(h, m, a, s)
  BY Kinds DEF AnswersOf, CacheReply
<1>2. /\ a \in Addr /\ s \in Core /\ LineInv(a) /\ Pend(a) = queue[a]
      /\ HomeTakes(Rest(h), inbox, m.type, a, s)
  BY <1>1, AnswerOf
<1>3. /\ PairInv(a, s) /\ PairAsserted(a, s) /\ Entry(a)
      /\ \A T : m.type \in T => Sent(inbox, T, a, s)
  BY <1>2 DEF LineInv, AssertedLines, LineAsserted, HomeTakes
<1>4. dir[a].state \in DirState
  BY <1>2 DEF IInv, TypeOK, DirEntry
<1>5. CASE m.type = "WB_REP"
  <2>1. WbLive(a, s)
    BY <1>3, <1>5, Kinds DEF PairInv, WbAnswer
  <2>2. s \in dir[a].sharers /\ queue[a] # <<>> /\ Head(queue[a]).type = "SH_REQ"
    BY <1>2, <1>3, <2>1 DEF WbLive, Blocked, IsOwner, Entry
  <2>3. QED
    BY <1>2, <1>5, <2>2, SharedIsFound DEF MessageIsExpected, WbRepIsExpected
<1>6. ASSUME m.type \in GivesUp PROVE Found(a) /\ s \in dir[a].sharers /\ dir[a].state # "UNCACHED"
  <2>1. s \in dir[a].sharers
    BY <1>3, <1>6 DEF PairInv, Known
  <2>2. QED
    BY <1>2, <2>1, SharedIsFound
<1>7. CASE m.type = "FLUSH_REP"
  <2>1. Found(a) /\ s \in dir[a].sharers /\ dir[a].state # "UNCACHED"
    BY <1>6, <1>7, Kinds
  <2>2. dir[a].sharers = {s} \/ dir[a].state = "SHARED"
    BY <1>3, <1>4, <2>1 DEF Entry, Owned, DirState
  <2>3. QED
    BY <1>7, <2>1, <2>2 DEF MessageIsExpected, FlushRepIsExpected
<1>8. CASE m.type = "INV_REP"
  <2>1. Found(a) /\ s \in dir[a].sharers /\ dir[a].state # "UNCACHED"
    BY <1>6, <1>8, Kinds
  <2>2. dir[a].state # "MODIFIED"
    <3>1. SUFFICES ASSUME dir[a].state = "MODIFIED" PROVE FALSE
      OBVIOUS
    <3>2. Sent(inbox, WbRep, a, s)
      BY <1>3, <1>8, <3>1, MoreKinds DEF PairAsserted, OwnerState
    <3>3. Sent(Rest(h), WbRep, a, s)
      BY <1>2, <1>8, <3>2, Kinds DEF HomeTakes
    <3>4. SentNotThen(inbox, GivesUp, WbRep, a, s)
      BY <1>3 DEF PairInv, WbAnswer
    <3>5. m.type \in GivesUp
      BY <1>8, Kinds
    <3>6. QED
      BY <1>2, <3>3, <3>4, <3>5 DEF HomeTakes
  <2>3. QED
    BY <1>4, <1>8, <2>1, <2>2 DEF MessageIsExpected, InvRepIsExpected, DirState
<1>9. QED
  BY <1>5, <1>7, <1>8 DEF CacheReply

\* DRAM answers the request at the head of the queue.
LEMMA DramExpected ==
  ASSUME IInv, SafeLines, AssertedLines, NEW h \in Core, inbox[h] # <<>>,
         NEW m, m = Head(inbox[h]), net[h].at = "recv", m.type = "DRAM_READ_REP"
  PROVE  MessageIsExpected(h, m)
<1> SUFFICES ASSUME NEW a, a = m.addr PROVE MessageIsExpected(h, m)
  OBVIOUS
<1>1. a \in Addr /\ DirHome[a] = h /\ Read(inbox, "DRAM_READ_REP", a, DirHome[a])
  BY HeadSays
<1>2. LineInv(a) /\ LineAsserted(a) /\ Pend(a) = queue[a]
  BY <1>1 DEF SafeLines, AssertedLines, Pend
<1>3. HeadWaits(a)
  BY <1>1, <1>2 DEF LineInv, DramRequest
<1>4. /\ queue[a] # <<>> /\ Head(queue[a]).type \in DemandReq
      /\ Head(queue[a]).from \in dir[a].sharers
  BY <1>2, <1>3 DEF LineInv, DataWait, HeadWaits
<1>5. Found(a)
  BY <1>1, <1>4, SharedIsFound
<1>6. /\ Head(queue[a]).type = "SH_REQ" => dir[a].state \in {"SHARED", "EXCLUSIVE"}
      /\ Head(queue[a]).type = "EX_REQ" => dir[a].state = "MODIFIED"
  BY <1>2, <1>3 DEF LineAsserted, WaitFits
<1>7. DramRepIsExpected(m)
  BY <1>4, <1>5, <1>6 DEF DramRepIsExpected, DemandReq
<1>8. QED
  BY <1>7 DEF MessageIsExpected

\* So every message is expected.
LEMMA MessagesExpected ==
  ASSUME IInv, SafeLines, AssertedLines, NEW c \in Core, inbox[c] # <<>>, net[c].at = "recv"
  PROVE  MessageIsExpected(c, Head(inbox[c]))
<1> SUFFICES ASSUME NEW m, m = Head(inbox[c]) PROVE MessageIsExpected(c, m)
  OBVIOUS
<1>1. CASE m.type \in DirReply \cup {"INV_REQ"}
  BY <1>1, CacheExpects
<1>2. CASE m.type \in CacheReply
  BY <1>2, DirectoryExpects
<1>3. CASE m.type = "DRAM_READ_REP"
  BY <1>3, DramExpected
<1>4. CASE m.type \notin DirReply \cup {"INV_REQ"} \cup CacheReply \cup {"DRAM_READ_REP"}
  BY <1>4 DEF MessageIsExpected, DirReply, CacheReply
<1>5. QED
  BY <1>1, <1>2, <1>3, <1>4

\* Where a line has no entry, one of its set can be replaced.
VictimsExist ==
  \A c \in Core : net[c].at = "head" /\ net[c].addr \notin present \cup replaced =>
                    Victims(net[c].addr) # {}

\* A request finds the line as it has to be to go on.
LEMMA RequestExpected ==
  ASSUME IInv, SafeLines, AssertedLines, VictimsExist, NEW h \in Core, net[h].at = "head"
  PROVE  RequestIsExpected(h)
<1> SUFFICES ASSUME NEW a, a = net[h].addr, NEW f, f = Head(queue[a]).from PROVE RequestIsExpected(h)
  OBVIOUS
<1>1. /\ a \in Addr /\ queue[a] # <<>> /\ LineInv(a) /\ f \in Core
  BY AtWork
<1>2. /\ net[h].data # "none" =>
           /\ dir[a].state \notin Owned
           /\ Head(queue[a]).type = "EX_REQ" => dir[a].state = "UNCACHED"
      /\ Head(queue[a]).type = "NULLIFY_REQ" => dir[a].state = "UNCACHED"
  BY AtWorkAsserted
<1>3. dir[a] \in DirEntry /\ (dir[a].state \in Owned => dir[a].sharers = {dir[a].owner})
  BY <1>1 DEF IInv, TypeOK, LineInv, Entry
<1>4. dir[a].state \in Owned => dir[a].owner \in Core
  BY <1>3 DEF DirEntry
<1>5. Head(queue[a]).type = "SH_REQ" /\ dir[a].state \in Owned => ShIsExpected(h)
  <2>1. SUFFICES ASSUME Head(queue[a]).type = "SH_REQ", dir[a].state = "EXCLUSIVE", f = dir[a].owner
                 PROVE  FALSE
    BY <1>2 DEF ShIsExpected
  <2>2. f \in dir[a].sharers
    BY <1>3, <2>1 DEF Owned
  <2>3. QED
    BY <2>1, <2>2, ReaderIsNew
<1>6. Head(queue[a]).type = "UPGRADE_REQ" => UpgradeIsExpected(h)
  <2>1. SUFFICES ASSUME dir[a].state \in Owned, Upgradable(a, f) PROVE dir[a].owner = f
    BY DEF UpgradeIsExpected
  <2>2. LowestSharer(dir[a]) = f /\ dir[a].sharers = {dir[a].owner} /\ dir[a].owner \in Nat
    BY <1>3, <1>4, <2>1, CoreAssumption DEF Upgradable, Owned
  <2>3. LowestSharer(dir[a]) \in dir[a].sharers
    BY <2>2 DEF LowestSharer
  <2>4. QED
    BY <2>2, <2>3
<1>7. a \notin present \cup replaced => Victims(a) # {}
  BY DEF VictimsExist
<1>8. QED
  BY <1>1, <1>2, <1>4, <1>5, <1>6, <1>7 DEF RequestIsExpected

\* No assertion fails.
LEMMA AssertedIsExpected ==
  ASSUME IInv, SafeLines, AssertedLines, VictimsExist PROVE AssertionsHold
<1>1. ASSUME NEW c \in Core, net[c].at = "serve" PROVE WaiterIsServable(c)
  <2>1. PICK a \in Addr : a = net[c].addr
    BY <1>1 DEF IInv, TypeOK
  <2>2. llc[c][a] \in Readable
    BY <1>1, <2>1 DEF AssertedLines, LineAsserted, PairAsserted, ServiceFits, Serves
  <2>3. QED
    BY <2>1, <2>2 DEF WaiterIsServable, Permitted, Readable
<1>2. ASSUME NEW t \in Thread, NEW a \in Addr, NEW exclusive \in BOOLEAN, Misses(t, a, exclusive)
      PROVE  MissIsExpected(LLCOf[t], a, exclusive)
  <2>1. PICK c \in Core : c = LLCOf[t]
    OBVIOUS
  <2>2. llc[c][a] \in CacheState /\ ~Permitted(c, a, exclusive)
    BY <1>2, <2>1 DEF IInv, TypeOK, Misses
  <2>3. llc[c][a] = "SHARED_UPGRADING" => waiters[c][a] # <<>>
    BY <2>1 DEF SafeLines, LineInv, PairInv, OneRequest, Awaited
  <2>4. RequestFor(c, a, exclusive) = "EX_REQ" => exclusive /\ llc[c][a] # "SHARED"
    BY DEF RequestFor
  <2>5. QED
    BY <2>1, <2>2, <2>3, <2>4 DEF MissIsExpected, Permitted, CacheState
<1>3. QED
  BY <1>1, <1>2, MessagesExpected, RequestExpected DEF AssertionsHold

-----------------------------------------------------------------------------
(* The theorems *)

\* No assertion of the cache controllers and directories ever fails: whatever
\* the order in which requests, evictions, invalidations and write-backs of any
\* number of caches and lines cross, a network thread takes only messages its
\* handlers expect and processes only requests the directory entry is ready for.
\* The one exception is the directory set that is full of lines in use when
\* another one is needed.
THEOREM AssertionsNeverFail ==
  ASSUME RoomForSharers
  PROVE  Spec => [](VictimsExist => AssertionsHold)
<1>1. Init => IInv /\ SafeLines /\ AssertedLines /\ NoForwarding
  BY InitIInv, InitSafe, InitAsserted
<1>2. IInv /\ SafeLines /\ AssertedLines /\ NoForwarding /\ [Next]_vars =>
        (IInv /\ SafeLines /\ AssertedLines /\ NoForwarding)'
  BY NextIInv, NextSafe, NextAsserted, NextForwardsNone
<1>3. IInv /\ SafeLines /\ AssertedLines /\ NoForwarding => (VictimsExist => AssertionsHold)
  BY AssertedIsExpected
<1>4. QED
  BY <1>1, <1>2, <1>3, PTL DEF Spec

-----------------------------------------------------------------------------
(* Directory sets that have an entry for each of their lines *)

SetsHaveRoom == \A a \in Addr : IsFiniteSet(SetOf(a)) /\ Cardinality(SetOf(a)) <= DirWays

\* The line of every request has an entry.
EntryThere == \A a \in Addr : queue[a] # <<>> => a \in present

\* A line without an entry finds a free one.
LEMMA RoomIsFree ==
  ASSUME SetsHaveRoom, NEW a \in Addr PROVE a \in Claimed(a)
<1>1. CASE a \in present
  BY <1>1 DEF Claimed
<1>2. CASE a \notin present
  <2>1. a \in SetOf(a) /\ IsFiniteSet(SetOf(a)) /\ Cardinality(SetOf(a)) <= DirWays
    BY DEF SetsHaveRoom, SetOf
  <2>2. /\ IsFiniteSet(present \cap SetOf(a))
        /\ Cardinality(present \cap SetOf(a)) <= Cardinality(SetOf(a))
        /\ Cardinality(present \cap SetOf(a)) # Cardinality(SetOf(a))
    BY <1>2, <2>1, FS_Subset
  <2>3. Cardinality(present \cap SetOf(a)) \in Nat /\ Cardinality(SetOf(a)) \in Nat
    BY <2>1, <2>2, FS_CardinalityType
  <2>4. FreeWay(a)
    BY <2>1, <2>2, <2>3 DEF FreeWay
  <2>5. QED
    BY <1>2, <2>4 DEF Claimed
<1>3. QED
  BY <1>1, <1>2

\* A step that adds no request and replaces no entry keeps the entries there.
EntriesStay ==
  /\ present \subseteq present'
  /\ \A a \in Addr : queue'[a] # <<>> => queue[a] # <<>>

LEMMA StaysThere == ASSUME EntryThere, EntriesStay PROVE EntryThere'
  BY DEF EntryThere, EntriesStay

LEMMA RequestFindsEntry ==
  ASSUME IInv, SetsHaveRoom, EntryThere, NEW h \in Core, TakeRequest(h) PROVE EntryThere'
<1>1. PICK a, r : /\ a \in Addr /\ present' = Claimed(a)
               /\ queue' = [queue EXCEPT ![a] = Append(queue[a], r)]
  <2>1. Received(h, Head(inbox[h]).type)
    BY DEF TakeRequest, Received
  <2>2. Head(inbox[h]).addr \in Addr
    BY <2>1, HeadOK DEF IInv, Received
  <2>3. QED
    BY <2>2, Zenon DEF TakeRequest
<1>2. queue \in [Addr -> Seq(Request)]
  BY DEF IInv, TypeOK
<1>3. SUFFICES ASSUME NEW b \in Addr, queue'[b] # <<>> PROVE b \in present'
  BY DEF EntryThere
<1>4. a \in present' /\ present \subseteq present'
  BY <1>1, RoomIsFree DEF Claimed
<1>5. b # a => queue'[b] = queue[b]
  BY <1>1, <1>2
<1>6. QED
  BY <1>3, <1>4, <1>5 DEF EntryThere

\* A write makes the data of requests stale, and leaves the requests.
LEMMA WriteKeepsQueues ==
  ASSUME IInv, NEW c, NEW a, WrittenAt(c, a), NEW b \in Addr, queue'[b] # <<>>
  PROVE  queue[b] # <<>>
<1>1. queue \in [Addr -> Seq(Request)]
  BY DEF IInv, TypeOK
<1>2. queue' = [queue EXCEPT ![a] = [i \in DOMAIN queue[a] |-> Aged(queue[a][i])]]
  BY Zenon DEF WrittenAt
<1>3. CASE b = a
  <2>1. SUFFICES ASSUME queue[b] = <<>> PROVE FALSE
    OBVIOUS
  <2>2. queue'[b] = [i \in {} |-> Aged(queue[a][i])]
    BY <1>1, <1>2, <1>3, <2>1
  <2>3. [i \in {} |-> Aged(queue[a][i])] = <<>>
    OBVIOUS
  <2>4. QED
    BY <2>2, <2>3
<1>4. CASE b # a
  BY <1>1, <1>2, <1>4
<1>5. QED
  BY <1>3, <1>4

\* Data that is noted in a request, or where it waits for data, leaves it there.
LEMMA NoteKeepsQueues ==
  ASSUME IInv, NEW a \in Addr, NEW r, queue' = [queue EXCEPT ![a][1] = r],
         NEW b \in Addr, queue'[b] # <<>>
  PROVE  queue[b] # <<>>
<1>1. queue \in [Addr -> Seq(Request)]
  BY DEF IInv, TypeOK
<1>2. b = a => queue'[b] = [queue[b] EXCEPT ![1] = r]
  BY <1>1
<1>3. b # a => queue'[b] = queue[b]
  BY <1>1
<1>4. queue[b] = <<>> => [queue[b] EXCEPT ![1] = r] = <<>>
  OBVIOUS
<1>5. QED
  BY <1>2, <1>3, <1>4

LEMMA RetrieveKeepsEntries ==
  ASSUME IInv, NEW h \in Core, net[h].addr \in Addr,
         NEW rep, NEW to, NEW data, NEW e, Retrieve(h, rep, to, data, e)
  PROVE  EntriesStay
<1>1. PICK a \in Addr : a = net[h].addr
  OBVIOUS
<1>2. PICK r : queue' = queue \/ queue' = [queue EXCEPT ![a][1] = r]
  BY <1>1, Zenon DEF Retrieve
<1>3. present' = present
  BY DEF Retrieve
<1>4. QED
  BY <1>2, <1>3, NoteKeepsQueues DEF EntriesStay

LEMMA FlushKeepsEntries ==
  ASSUME IInv, NEW h \in Core, TakeFlushRep(h) PROVE EntriesStay
<1>1. Head(inbox[h]).addr \in Addr
  BY HeadOK DEF IInv, TakeFlushRep, Received
<1>2. PICK a, r : /\ queue' = queue \/ queue' = [queue EXCEPT ![a][1] = r]
               /\ a \in Addr /\ present' = Claimed(a)
  BY <1>1, Zenon DEF TakeFlushRep
<1>3. present \subseteq present'
  BY <1>2 DEF Claimed
<1>4. QED
  BY <1>2, <1>3, NoteKeepsQueues DEF EntriesStay

LEMMA NextKeepsEntries ==
  ASSUME IInv, NEW h \in Core, NextRequest(h) PROVE EntriesStay
<1>1. PICK a \in Addr : queue' = [queue EXCEPT ![a] = Tail(queue[a])] /\ queue[a] # <<>>
  BY DEF IInv, TypeOK, NetOK, NextRequest
<1>2. queue \in [Addr -> Seq(Request)] /\ present' = present
  BY DEF IInv, TypeOK, NextRequest
<1>3. \A b \in Addr : b # a => queue'[b] = queue[b]
  BY <1>1, <1>2
<1>4. QED
  BY <1>1, <1>2, <1>3 DEF EntriesStay

\* No entry is replaced.
LEMMA NothingReplaced ==
  ASSUME IInv, EntryThere, NEW h \in Core, net[h].at = "head" PROVE net[h].addr \in present
<1>1. net[h].addr \in Addr /\ queue[net[h].addr] # <<>>
  BY DEF IInv, TypeOK, NetOK
<1>2. QED
  BY <1>1 DEF EntryThere

LEMMA NextEntryThere ==
  ASSUME SetsHaveRoom PROVE IInv /\ EntryThere /\ [Next]_vars => EntryThere'
<1> SUFFICES ASSUME IInv, EntryThere, [Next]_vars PROVE EntryThere'
  OBVIOUS
<1>1. ASSUME queue' = queue, present' = present PROVE EntryThere'
  BY <1>1 DEF EntryThere
<1>2. ASSUME NEW c \in Core, CacheMessage(c) PROVE EntryThere'
  BY <1>1, <1>2 DEF CacheMessage, Fill, FinishUpgrade, IgnoreCommand, Invalidate, Flush, WriteBack, dirVars
<1>3. ASSUME NEW c \in Core, ServeWaiters(c) PROVE EntryThere'
  <2>1. ASSUME Wake(c) PROVE EntryThere'
    <3>1. present' = present
      BY <2>1 DEF Wake
    <3>2. queue' = queue \/ WrittenAt(c, net[c].addr)
      BY <2>1 DEF Wake
    <3>3. EntriesStay
      BY <3>1, <3>2, WriteKeepsQueues DEF EntriesStay
    <3>4. QED
      BY <3>3, StaysThere
  <2>2. ASSUME ServeByUpgrade(c) \/ RemoveWaiter(c) \/ AllServed(c) PROVE EntryThere'
    BY <1>1, <2>2 DEF ServeByUpgrade, RemoveWaiter, AllServed, dirVars
  <2>3. QED
    BY <1>3, <2>1, <2>2 DEF ServeWaiters
<1>4. ASSUME NEW c \in Core, DirectoryMessage(c) PROVE EntryThere'
  <2>1. ASSUME TakeInvRep(c) \/ TakeWbRep(c) \/ TakeDramRep(c) PROVE EntryThere'
    <3>1. queue' = queue
      BY <2>1 DEF TakeInvRep, TakeWbRep, TakeDramRep, dirVars
    <3>2. present \subseteq present'
      BY <2>1, Zenon DEF TakeInvRep, TakeWbRep, TakeDramRep, Claimed, dirVars
    <3>3. QED
      BY <3>1, <3>2 DEF EntryThere
  <2>2. QED
    BY <1>4, <2>1, RequestFindsEntry, FlushKeepsEntries, StaysThere DEF DirectoryMessage
<1>5. ASSUME NEW c \in Core, ProcessRequest(c) PROVE EntryThere'
  <2>1. ASSUME \/ ExFlush(c) \/ ExInvalidate(c) \/ ShWriteBack(c) \/ ShMakeRoom(c)
               \/ UpgradeGrant(c) \/ UpgradeFlush(c) \/ UpgradeInvalidate(c) \/ Nullified(c)
        PROVE  EntryThere'
    BY <1>1, <2>1 DEF ExFlush, ExInvalidate, ShWriteBack, ShMakeRoom, UpgradeGrant, UpgradeFlush,
       UpgradeInvalidate, Nullified, Command, dirVars
  <2>2. ASSUME ExGrant(c) \/ ShShare(c) \/ ShFirst(c) \/ UpgradeAsExclusive(c) PROVE EntryThere'
    <3>1. /\ net[c].at = "head"
          /\ \E rep, to, data, e : Retrieve(c, rep, to, data, e)
      BY <2>2, Zenon DEF ExGrant, ShShare, ShFirst, UpgradeAsExclusive, Processing
    <3>2. net[c].addr \in Addr
      BY <3>1 DEF IInv, TypeOK
    <3>3. QED
      BY <3>1, <3>2, RetrieveKeepsEntries, StaysThere
  <2>3. ~Allocate(c)
    BY NothingReplaced DEF Allocate
  <2>4. QED
    BY <1>5, <2>1, <2>2, <2>3, NextKeepsEntries, StaysThere DEF ProcessRequest
<1>6. ASSUME NEW c \in Core, DramMessage(c) PROVE EntryThere'
  BY <1>1, <1>6 DEF DramMessage, DramRead, DramWrite, dirVars
<1>7. ASSUME NEW t \in Thread, NEW a \in Addr, Access(t, a) PROVE EntryThere'
  <2>1. ASSUME WriteHit(t, a) PROVE EntryThere'
    <3>1. present' = present /\ WrittenAt(LLCOf[t], a)
      BY <2>1 DEF WriteHit
    <3>2. EntriesStay
      BY <3>1, WriteKeepsQueues DEF EntriesStay
    <3>3. QED
      BY <3>2, StaysThere
  <2>2. ASSUME NEW exclusive, Miss(t, a, exclusive) PROVE EntryThere'
    BY <1>1, <2>2 DEF Miss, dirVars
  <2>3. QED
    BY <1>7, <2>1, <2>2 DEF Access
<1>8. ASSUME NEW c \in Core, NEW a \in Addr, Evict(c, a) PROVE EntryThere'
  BY <1>1, <1>8 DEF Evict, dirVars
<1>9. CASE UNCHANGED vars
  BY <1>1, <1>9 DEF vars
<1>10. QED
  BY <1>2, <1>3, <1>4, <1>5, <1>6, <1>7, <1>8, <1>9 DEF Next, NetStep

\* In a directory whose sets have an entry for each line no assertion fails at
\* all: a request that joins the queue of its line claims an entry, and nothing
\* is ever replaced.
THEOREM AssertionsHoldWithRoom ==
  ASSUME RoomForSharers, SetsHaveRoom
  PROVE  Spec => []AssertionsHold
<1>1. Init => IInv /\ EntryThere
  BY InitIInv DEF Init, EntryThere
<1>2. IInv /\ EntryThere /\ [Next]_vars => (IInv /\ EntryThere)'
  BY NextIInv, NextEntryThere
<1>3. IInv /\ EntryThere => VictimsExist
  BY NothingReplaced DEF VictimsExist
<1>4. QED
  BY <1>1, <1>2, <1>3, AssertionsNeverFail, PTL DEF Spec

=============================================================================
