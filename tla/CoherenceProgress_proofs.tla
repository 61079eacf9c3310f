---------------------- MODULE CoherenceProgress_proofs ----------------------
EXTENDS CoherenceAssertions_proofs

USE MapsAssumption

(* The invariant *)

\* The request at the head of the queue waits for an answer of cache c.
Called(a, c) == InvLive(a, c) \/ FlushLive(a, c) \/ WbLive(a, c)

\* A command that is waited for reaches the cache while it has the line, behind
\* the reply that brings it, or has been answered.
CommandStands(a, c) ==
  Called(a, c) =>
    /\ Got(inbox, Grant, a, c) => ~GotNotThen(inbox, Grant, DirCommand, a, c)
    /\ llc[c][a] # "INVALID" => Got(inbox, DirCommand, a, c) \/ Sent(inbox, WbRep, a, c)

\* What the request at the head of the queue waits for, has not happened yet.
StillWaits(a) ==
  LET r == Head(Pend(a))
      e == dir[a]
  IN
  /\ r.type = "UPGRADE_REQ" => ~(e.sharers \subseteq {r.from})
  /\ r.type = "SH_REQ" =>
       \/ e.state \in Owned /\ r.forwardingFrom = NoCore
       \/ /\ e.state = "SHARED"
          /\ \/ r.forwardingFrom \in e.sharers \ {r.from}
             \/ r.forwardingFrom = NoCore /\ MaxHwSharers = 1 /\ r.from \notin e.sharers
  /\ r.type \in {"EX_REQ", "NULLIFY_REQ"} => e.state # "UNCACHED"

AnyReq == {"EX_REQ", "SH_REQ", "UPGRADE_REQ", "NULLIFY_REQ"}

HeadLives(a) ==
  /\ Blocked(a, AnyReq) => StillWaits(a)
  /\ HeadAt(a) /\ Head(queue[a]).type = "SH_REQ" /\ Head(queue[a]).forwardingFrom # NoCore
       => dir[a].state \notin Owned

DramLives(a) ==
  HeadWaits(a) => \/ Read(inbox, "DRAM_READ_REQ", a, DramHome[a])
                  \/ Read(inbox, "DRAM_READ_REP", a, DirHome[a])

ForwarderFits(a) ==
  Protocol = "MESIF" /\ MaxHwSharers # 1 /\ dir[a].state = "SHARED" =>
    \/ dir[a].forwarder \in dir[a].sharers \cup {NoCore}
    \/ HeadAt(a) /\ net[DirHome[a]].data # "none" /\ Head(queue[a]).type = "SH_REQ"

LineLives(a) == /\ \A c \in Core : CommandStands(a, c)
                /\ HeadLives(a) /\ DramLives(a) /\ ForwarderFits(a)

LivingLines == \A a \in Addr : LineLives(a)

TailForwards == \A a \in Addr : \A i \in DOMAIN queue[a] : i # 1 => queue[a][i].forwardingFrom = NoCore

Carrying == Grant \cup {"FLUSH_REP", "WB_REP", "DRAM_WRITE_REQ", "DRAM_READ_REP"}
Blank == {m \in Message : m.type \in Carrying /\ m.data = "none"}

DataThere ==
  /\ \A a \in Addr : dram[a] # "none"
  /\ \A c \in Core, a \in Addr : llc[c][a] # "INVALID" => copy[c][a] # "none"
  /\ \A c \in Core : ~Has(inbox[c], Blank)

ThreadsWait == waiting \subseteq {r.thread : r \in Accesses}

Lives == LivingLines /\ TailForwards /\ DataThere /\ ThreadsWait
-----------------------------------------------------------------------------
(* Steps that leave a line, or a cache's share in it, as it is *)

\* A command that is waited for is not lost between line a and cache c.
StandsStill(a, c) ==
  /\ llc'[c][a] # "INVALID" => llc[c][a] # "INVALID"
  /\ Got(inbox', Grant, a, c) =>
       /\ Got(inbox, Grant, a, c)
       /\ GotNotThen(inbox', Grant, DirCommand, a, c) => GotNotThen(inbox, Grant, DirCommand, a, c)
  /\ Got(inbox, DirCommand, a, c) => Got(inbox', DirCommand, a, c)
  /\ Sent(inbox, WbRep, a, c) => Sent(inbox', WbRep, a, c)

\* The network threads that process a request are where they were, with data or
\* without.
SameWork ==
  \A k \in Core : net[k].at \in {"head", "next"} \/ net'[k].at \in {"head", "next"} =>
    /\ net'[k].at = net[k].at /\ net'[k].addr = net[k].addr
    /\ net'[k].data = "none" <=> net[k].data = "none"

\* It stands as long as it is waited for.
LEMMA CommandStandsStill ==
  ASSUME NEW a, NEW c, CommandStands(a, c), StandsStill(a, c), Called(a, c)' => Called(a, c)
  PROVE  CommandStands(a, c)'
  BY DEF CommandStands, StandsStill

\* No mail between them, and the line where it was.
LEMMA NoMailStands ==
  ASSUME NEW a, NEW c, SameMail(inbox', inbox, a, c), llc'[c][a] = llc[c][a]
  PROVE  StandsStill(a, c)
<1>1. \A T, U : SameMailAbout(inbox', inbox, a, c, T, U)
  BY DEF SameMail
<1>2. QED
  BY <1>1 DEF SameMailAbout, StandsStill

\* What is waited for is a matter of the directory.
LEMMA LivesView ==
  ASSUME NEW a, SameLine(a)
  PROVE  /\ \A c : Called(a, c)' <=> Called(a, c)
         /\ Blocked(a, AnyReq)' <=> Blocked(a, AnyReq)
         /\ Pend(a) # <<>> => (StillWaits(a)' <=> StillWaits(a))
         /\ HeadWaits(a)' <=> HeadWaits(a)
         /\ dir'[a] = dir[a]
<1> DEFINE old == Pend(a)
           new == Pend(a)'
<1>1. /\ new = <<>> <=> old = <<>>
      /\ old # <<>> => /\ Head(new).type = Head(old).type
                       /\ Head(new).from = Head(old).from
                       /\ Head(new).waitForData = Head(old).waitForData
                       /\ Head(new).forwardingFrom = Head(old).forwardingFrom
  BY DEF SameLine, SameRequests
<1>2. dir'[a] = dir[a] /\ (old # <<>> => (Parked(a)' <=> Parked(a)))
  BY DEF SameLine
<1>3. \A c : Called(a, c)' <=> Called(a, c)
  BY AssertedView, ViewStays DEF Called, SameView
<1> HIDE DEF old, new
<1>4. Blocked(a, AnyReq)' <=> Blocked(a, AnyReq)
  BY <1>1, <1>2 DEF Blocked, old, new
<1>5. Pend(a) # <<>> => (StillWaits(a)' <=> StillWaits(a))
  BY <1>1, <1>2 DEF StillWaits, old, new
<1>6. HeadWaits(a)' <=> HeadWaits(a)
  BY <1>1 DEF HeadWaits, old, new
<1>7. QED
  BY <1>2, <1>3, <1>4, <1>5, <1>6

\* A line nothing happens to but that commands are taken and answered.
LEMMA LineStillLives ==
  ASSUME IInv, NEW a \in Addr, LineLives(a), SameLine(a),
         HeadAt(a) \/ HeadAt(a)' =>
           /\ HeadAt(a) /\ HeadAt(a)'
           /\ net'[DirHome[a]].data = "none" <=> net[DirHome[a]].data = "none",
         \A k \in Core : StandsStill(a, k) \/ CommandStands(a, k)',
         (\A k \in Core : SameReads(inbox', inbox, a, k)) \/ DramLives(a)'
  PROVE  LineLives(a)'
<1>1. /\ \A c : Called(a, c)' <=> Called(a, c)
      /\ Blocked(a, AnyReq)' <=> Blocked(a, AnyReq)
      /\ Pend(a) # <<>> => (StillWaits(a)' <=> StillWaits(a))
      /\ HeadWaits(a)' <=> HeadWaits(a)
      /\ dir'[a] = dir[a]
  BY LivesView
<1>2. ASSUME NEW k \in Core PROVE CommandStands(a, k)'
  BY <1>1, CommandStandsStill DEF LineLives
<1>3. HeadAt(a) => /\ Head(queue'[a]).type = Head(queue[a]).type
                   /\ Head(queue'[a]).forwardingFrom = Head(queue[a]).forwardingFrom
  <2> SUFFICES ASSUME HeadAt(a)
               PROVE  /\ Head(queue'[a]).type = Head(queue[a]).type
                      /\ Head(queue'[a]).forwardingFrom = Head(queue[a]).forwardingFrom
    OBVIOUS
  <2>1. DirHome[a] \in Core
    OBVIOUS
  <2>2. Pend(a) = queue[a] /\ Pend(a)' = queue'[a] /\ queue[a] # <<>>
    BY <2>1 DEF HeadAt, Pend, IInv, NetOK
  <2>3. QED
    BY <2>2 DEF SameLine, SameRequests
<1>4. HeadLives(a)'
  <2>1. Blocked(a, AnyReq)' => StillWaits(a)'
    BY <1>1 DEF LineLives, HeadLives, Blocked
  <2>2. /\ HeadAt(a)' /\ Head(queue'[a]).type = "SH_REQ"
        /\ Head(queue'[a]).forwardingFrom # NoCore
        => dir'[a].state \notin Owned
    BY <1>1, <1>3 DEF LineLives, HeadLives
  <2>3. QED
    BY <2>1, <2>2 DEF HeadLives
<1>5. DramLives(a)'
  <2> SUFFICES ASSUME \A k \in Core : SameReads(inbox', inbox, a, k) PROVE DramLives(a)'
    OBVIOUS
  <2>1. DirHome[a] \in Core /\ DramHome[a] \in Core
    OBVIOUS
  <2>2. /\ Read(inbox', "DRAM_READ_REQ", a, DramHome[a]) <=> Read(inbox, "DRAM_READ_REQ", a, DramHome[a])
        /\ Read(inbox', "DRAM_READ_REP", a, DirHome[a]) <=> Read(inbox, "DRAM_READ_REP", a, DirHome[a])
    BY <2>1 DEF SameReads
  <2>3. QED
    BY <1>1, <2>2 DEF LineLives, DramLives
<1>6. ForwarderFits(a)'
  BY <1>1, <1>3 DEF LineLives, ForwarderFits
<1>7. QED
  BY <1>2, <1>4, <1>5, <1>6 DEF LineLives

\* Steps of the caches: the directories have nothing new about any line.
LEMMA LivesAgain ==
  ASSUME IInv, LivingLines, \A b \in Addr : SameLine(b), SameWork,
         \A b \in Addr, k \in Core : StandsStill(b, k) \/ CommandStands(b, k)',
         \A b \in Addr : (\A k \in Core : SameReads(inbox', inbox, b, k)) \/ DramLives(b)'
  PROVE  LivingLines'
<1> SUFFICES ASSUME NEW b \in Addr PROVE LineLives(b)'
  BY DEF LivingLines
<1>1. LineLives(b) /\ DirHome[b] \in Core
  BY DEF LivingLines
<1>2. HeadAt(b) \/ HeadAt(b)' =>
        /\ HeadAt(b) /\ HeadAt(b)'
        /\ net'[DirHome[b]].data = "none" <=> net[DirHome[b]].data = "none"
  BY <1>1 DEF HeadAt, SameWork
<1>3. QED
  BY <1>1, <1>2, LineStillLives

-----------------------------------------------------------------------------
(* The steps of the cache controllers *)

\* Cache c takes at most one message of the home of line a, and sends at most one.
Exchanged(c, a, mid) ==
  /\ \/ mid = inbox
     \/ \E m \in Message : m.type \in ToCache /\ m.addr = a /\ Taken(mid, inbox, c, m)
  /\ \/ inbox' = mid
     \/ \E type \in FromCache : Posted(inbox', mid, type, a, c, {DirHome[a]})

\* Which concerns no other line or cache, and no read from DRAM.
LEMMA ExchangedElsewhere ==
  ASSUME NEW c \in Core, NEW a \in Addr, NEW mid, Exchanged(c, a, mid)
  PROVE  /\ \A b \in Addr, k \in Core : b # a \/ k # c => SameMail(inbox', inbox, b, k)
         /\ \A b \in Addr, k \in Core : SameReads(inbox', inbox, b, k)
<1>1. \A b \in Addr, k \in Core : /\ b # a \/ k # c => SameMail(mid, inbox, b, k)
                                 /\ SameReads(mid, inbox, b, k)
  <2>1. CASE mid = inbox
    BY <2>1 DEF SameMail, SameMailAbout, SameReads
  <2>2. CASE mid # inbox
    <3>1. PICK m \in Message : m.type \in ToCache /\ m.addr = a /\ Taken(mid, inbox, c, m)
      BY <2>2 DEF Exchanged
    <3>2. m.type \notin FromCache /\ m.type \notin {"DRAM_READ_REQ", "DRAM_READ_REP"}
      BY <3>1 DEF FromCache, ToCache, DemandReq, CacheReply, DirReply, DirCommand
    <3>3. ASSUME NEW b \in Addr, NEW k \in Core
          PROVE  /\ b # a \/ k # c => SameMail(mid, inbox, b, k)
                 /\ SameReads(mid, inbox, b, k)
      BY <3>1, <3>2, TakenElsewhere, TakenNoRead
    <3>4. QED
      BY <3>3
  <2>3. QED
    BY <2>1, <2>2
<1>2. \A b \in Addr, k \in Core : /\ b # a \/ k # c => SameMail(inbox', mid, b, k)
                                 /\ SameReads(inbox', mid, b, k)
  <2>1. CASE inbox' = mid
    BY <2>1 DEF SameMail, SameMailAbout, SameReads
  <2>2. CASE inbox' # mid
    <3>1. PICK type \in FromCache : Posted(inbox', mid, type, a, c, {DirHome[a]})
      BY <2>2 DEF Exchanged
    <3>2. type \notin ToCache /\ type \notin {"DRAM_READ_REQ", "DRAM_READ_REP"}
      BY <3>1 DEF FromCache, ToCache, DemandReq, CacheReply, DirReply, DirCommand
    <3>3. ASSUME NEW b \in Addr, NEW k \in Core
          PROVE  /\ b # a \/ k # c => SameMail(inbox', mid, b, k)
                 /\ SameReads(inbox', mid, b, k)
      BY <3>1, <3>2, PostedElsewhere, PostedNoRead
    <3>4. QED
      BY <3>3
  <2>3. QED
    BY <2>1, <2>2
<1>3. ASSUME NEW b \in Addr, NEW k \in Core
      PROVE  /\ b # a \/ k # c => SameMail(inbox', inbox, b, k)
             /\ SameReads(inbox', inbox, b, k)
  <2>1. b # a \/ k # c => SameMail(inbox', inbox, b, k)
    BY <1>1, <1>2, SameMailTrans
  <2>2. SameReads(mid, inbox, b, k) /\ SameReads(inbox', mid, b, k)
    BY <1>1, <1>2
  <2>3. SameReads(inbox', inbox, b, k)
    BY <2>2 DEF SameReads
  <2>4. QED
    BY <2>1, <2>3
<1>4. QED
  BY <1>3

\* So the invariant is a matter of this line and cache.
LEMMA CacheLives ==
  ASSUME IInv, LivingLines, NEW c \in Core, NEW a \in Addr, NEW mid, Exchanged(c, a, mid),
         UNCHANGED <<dir, present, replaced, queue>>, SameWork,
         \A k \in Core, b \in Addr : k # c \/ b # a => llc'[k][b] = llc[k][b],
         StandsStill(a, c) \/ CommandStands(a, c)'
  PROVE  LivingLines'
<1>1. \A b \in Addr : SameLine(b)
  BY LinesStay DEF SameWork
<1>2. \A b \in Addr, k \in Core : SameReads(inbox', inbox, b, k)
  BY ExchangedElsewhere
<1>3. ASSUME NEW b \in Addr, NEW k \in Core PROVE StandsStill(b, k) \/ CommandStands(b, k)'
  <2>1. CASE b = a /\ k = c
    BY <2>1
  <2>2. CASE b # a \/ k # c
    <3>1. SameMail(inbox', inbox, b, k) /\ llc'[k][b] = llc[k][b]
      BY <2>2, ExchangedElsewhere
    <3>2. QED
      BY <3>1, NoMailStands
  <2>3. QED
    BY <2>1, <2>2
<1>4. QED
  BY <1>1, <1>2, <1>3, LivesAgain

\* What caches do is seen by SameWork.
LEMMA SameNetWork ==
  ASSUME IInv, NEW c \in Core, net[c].at \notin {"head", "next"},
         \/ net' = net
         \/ \E at, a, data : at \notin {"head", "next"} /\ GoTo(c, at, a, data)
  PROVE  SameWork
<1>1. CASE net' = net
  BY <1>1 DEF SameWork
<1>2. CASE \E at, a, data : at \notin {"head", "next"} /\ GoTo(c, at, a, data)
  <2>1. PICK at, a, data : at \notin {"head", "next"} /\ GoTo(c, at, a, data)
    BY <1>2
  <2>2. net'[c].at = at /\ \A k \in Core \ {c} : net'[k] = net[k]
    BY <2>1 DEF GoTo, IInv, TypeOK
  <2>3. QED
    BY <2>1, <2>2 DEF SameWork
<1>3. QED
  BY <1>1, <1>2

\* A reply brings the line: the commands behind it are still to come.
LEMMA FillLives ==
  ASSUME IInv, SafeLines, LivingLines, NEW c \in Core, Fill(c) PROVE LivingLines'
<1>1. PICK m \in Message, a \in Addr, state \in {"EXCLUSIVE", "SHARED"} :
        /\ m = Head(inbox[c]) /\ a = m.addr
        /\ net[c].at = "recv" /\ inbox[c] # <<>>
        /\ m.type = IF state = "EXCLUSIVE" THEN "EX_REP" ELSE "SH_REP"
        /\ llc[c][a] = "INVALID"
        /\ llc' = [llc EXCEPT ![c][a] = state]
        /\ inbox' = Rest(c)
        /\ GoTo(c, "serve", a, "none")
        /\ UNCHANGED <<dir, present, replaced, queue>>
  BY HeadOK, Zenon DEF Fill, Received, dirVars, IInv
<1>2. Taken(inbox', inbox, c, m)
  BY <1>1, RestTakes DEF IInv
<1>3. /\ m.type \in ToCache /\ m.type \notin FromCache
      /\ m.type \in DirReply /\ m.type \in Grant /\ m.type \notin DirCommand
  BY <1>1, Kinds DEF DirCommand
<1>4. \A k \in Core, b \in Addr : k # c \/ b # a => llc'[k][b] = llc[k][b]
  <2>1. llc \in [Core -> [Addr -> CacheState]]
    BY DEF IInv, TypeOK
  <2>2. QED
    BY <1>1, <2>1, OneChanged
<1>5. SameWork
  BY <1>1, SameNetWork
<1>6. \A b \in Addr : SameLine(b)
  BY <1>1, <1>5, LinesStay DEF SameWork
<1>7. CacheTakes(inbox', inbox, c, a, m) /\ PairInv(a, c) /\ CommandStands(a, c)
  BY <1>1, <1>2, <1>3, CacheTook DEF SafeLines, LineInv, LivingLines, LineLives
<1>8. ~Got(inbox', DirReply, a, c) /\ ~Got(inbox', Grant, a, c)
  BY <1>3, <1>7, KindsHeld DEF PairInv, OneRequest, CacheTakes
<1>9. ASSUME Called(a, c) PROVE Got(inbox', DirCommand, a, c)
  <2>1. Got(inbox, Grant, a, c) /\ ~GotNotThen(inbox, Grant, DirCommand, a, c)
    BY <1>3, <1>7, <1>9 DEF CommandStands, CacheTakes
  <2>2. GotNotThen(inbox', Grant, DirCommand, a, c)
    BY <1>8, NoneThen
  <2>3. TakenAbout(inbox', inbox, c, m, a, c, Grant, DirCommand)
    BY <1>2 DEF Taken
  <2>4. QED
    BY <2>1, <2>2, <2>3 DEF TakenAbout
<1>10. Called(a, c)' => Called(a, c)
  BY <1>6, LivesView
<1>11. CommandStands(a, c)'
  BY <1>8, <1>9, <1>10 DEF CommandStands
<1>12. Exchanged(c, a, inbox')
  BY <1>1, <1>2, <1>3 DEF Exchanged
<1>13. QED
  BY <1>1, <1>4, <1>5, <1>11, <1>12, CacheLives

\* Cache c takes a message about line a that is neither a line nor a command it
\* heeds.
LEMMA TakenLives ==
  ASSUME IInv, LivingLines, NEW c \in Core, inbox[c] # <<>>, NEW m, m = Head(inbox[c]),
         NEW a, a = m.addr, inbox' = Rest(c),
         UNCHANGED <<dir, present, replaced, queue>>, SameWork,
         \A k \in Core, b \in Addr : k # c \/ b # a => llc'[k][b] = llc[k][b],
         \/ m.type \in UpgradeRep /\ (llc'[c][a] # "INVALID" => llc[c][a] # "INVALID")
         \/ m.type \in DirCommand /\ llc'[c][a] = "INVALID"
  PROVE  LivingLines'
<1>1. m \in Message /\ a \in Addr /\ m.addr = a /\ Taken(inbox', inbox, c, m)
  BY HeadOK, RestTakes DEF IInv
<1>2. m.type \in ToCache /\ m.type \notin FromCache /\ m.type \notin Grant
  BY Kinds DEF DirCommand
<1>3. CacheTakes(inbox', inbox, c, a, m) /\ CommandStands(a, c)
  BY <1>1, <1>2, CacheTook DEF LivingLines, LineLives
<1>4. TakenAbout(inbox', inbox, c, m, a, c, Grant, DirCommand)
  BY <1>1 DEF Taken
<1>5. /\ Got(inbox', Grant, a, c) <=> Got(inbox, Grant, a, c)
      /\ GotNotThen(inbox', Grant, DirCommand, a, c) <=> GotNotThen(inbox, Grant, DirCommand, a, c)
  BY <1>2, <1>4 DEF TakenAbout
<1>6. Exchanged(c, a, inbox')
  BY <1>1, <1>2 DEF Exchanged
<1>7. CASE m.type \in UpgradeRep /\ (llc'[c][a] # "INVALID" => llc[c][a] # "INVALID")
  <2>1. m.type \notin DirCommand
    BY <1>7, Kinds DEF DirCommand
  <2>2. StandsStill(a, c)
    BY <1>3, <1>5, <1>7, <2>1 DEF StandsStill, CacheTakes
  <2>3. QED
    BY <1>1, <1>6, <2>2, CacheLives
<1>8. CASE m.type \in DirCommand /\ llc'[c][a] = "INVALID"
  <2>1. \A b \in Addr : SameLine(b)
    BY LinesStay DEF SameWork
  <2>2. Called(a, c)' => Called(a, c)
    BY <1>1, <2>1, LivesView
  <2>3. CommandStands(a, c)'
    BY <1>3, <1>5, <1>8, <2>2 DEF CommandStands
  <2>4. QED
    BY <1>1, <1>6, <2>3, CacheLives
<1>9. QED
  BY <1>7, <1>8

\* Cache c answers a command, or evicts the line.
LEMMA AnswerLives ==
  ASSUME IInv, SafeLines, LivingLines, NEW c \in Core, NEW a \in Addr, llc[c][a] # "INVALID",
         NEW mid, InboxOK(mid),
         \/ mid = inbox
         \/ \E m \in Message : m.type \in DirCommand /\ m.addr = a /\ Taken(mid, inbox, c, m),
         NEW type \in CacheReply, NEW data \in Data,
         inbox' = Deliver(mid, Msg(type, a, c, data), {DirHome[a]}),
         llc'[c][a] = "INVALID" \/ type = "WB_REP",
         \A k \in Core, b \in Addr : k # c \/ b # a => llc'[k][b] = llc[k][b],
         UNCHANGED <<net, dir, present, replaced, queue>>
  PROVE  LivingLines'
<1>1. type \in MsgType /\ type \in FromCache /\ type \notin ToCache
  BY DEF MsgType, FromCache, ToCache, CacheReply, DirReply, DirCommand
<1>2. Posted(inbox', mid, type, a, c, {DirHome[a]})
  BY <1>1, DeliverPosts
<1>3. CachePosts(inbox', mid, type, a, c)
  BY <1>1, <1>2, CachePosted
<1>4. \A T : Got(mid, T, a, c) => Got(inbox, T, a, c)
  <2>1. CASE mid = inbox
    BY <2>1
  <2>2. CASE mid # inbox
    <3>1. PICK m \in Message : m.type \in DirCommand /\ m.addr = a /\ Taken(mid, inbox, c, m)
      BY <2>2
    <3>2. \A T, U : TakenAbout(mid, inbox, c, m, a, c, T, U)
      BY <3>1 DEF Taken
    <3>3. QED
      BY <3>2 DEF TakenAbout
  <2>3. QED
    BY <2>1, <2>2
<1>5. ~Got(inbox, Grant, a, c)
  BY DEF SafeLines, LineInv, PairInv, StateFits
<1>6. ~Got(inbox', Grant, a, c)
  BY <1>3, <1>4, <1>5 DEF CachePosts
<1>7. llc'[c][a] # "INVALID" => Sent(inbox', WbRep, a, c)
  BY <1>3, Kinds DEF CachePosts
<1>8. CommandStands(a, c)'
  BY <1>6, <1>7 DEF CommandStands
<1>9. Exchanged(c, a, mid)
  <2>1. \A m \in Message : m.type \in DirCommand => m.type \in ToCache
    BY DEF ToCache
  <2>2. QED
    BY <1>1, <1>2, <2>1 DEF Exchanged
<1>10. SameWork
  BY DEF SameWork
<1>11. QED
  BY <1>8, <1>9, <1>10, CacheLives

\* The messages of the directory.
LEMMA CacheMessageLives ==
  ASSUME IInv, SafeLines, LivingLines, NEW c \in Core, CacheMessage(c) PROVE LivingLines'
<1> DEFINE m == Head(inbox[c])
           a == m.addr
<1>1. CASE Fill(c)
  BY <1>1, FillLives
<1>2. /\ inbox[c] # <<>> /\ net[c].at = "recv" /\ c \in Core
      /\ UNCHANGED <<dir, present, replaced, queue>>
  BY DEF CacheMessage, Fill, FinishUpgrade, IgnoreCommand, Invalidate, Flush, WriteBack, Received,
         dirVars
<1>3. m \in Message /\ m \in MessagesTo(c) /\ a \in Addr /\ InboxOK(Rest(c)) /\ Taken(Rest(c), inbox, c, m)
  BY <1>2, HeadOK, RestOK, RestTakes DEF IInv
<1>4. llc \in [Core -> [Addr -> CacheState]] /\ copy[c][a] \in Data /\ Arbitrary \subseteq Data
  BY <1>3 DEF IInv, TypeOK, Arbitrary, Data
<1> HIDE DEF m, a
<1>5. CASE FinishUpgrade(c)
  <2>1. /\ m.type \in UpgradeRep /\ llc[c][a] = "SHARED_UPGRADING"
        /\ llc' = [llc EXCEPT ![c][a] = "MODIFIED"]
        /\ inbox' = Rest(c) /\ GoTo(c, "serve", a, "none")
    BY <1>5, Kinds DEF FinishUpgrade, Received, m, a
  <2>2. \A k \in Core, b \in Addr : k # c \/ b # a => llc'[k][b] = llc[k][b]
    BY <1>3, <1>4, <2>1, OneChanged
  <2>3. SameWork
    BY <1>2, <2>1, SameNetWork
  <2>4. QED
    BY <1>2, <1>3, <2>1, <2>2, <2>3, TakenLives DEF m, a
<1>6. CASE IgnoreCommand(c)
  <2>1. /\ m.type \in DirCommand /\ llc[c][a] = "INVALID" /\ llc' = llc
        /\ inbox' = Rest(c) /\ net' = net
    BY <1>6 DEF IgnoreCommand, Received, cacheVars, m, a
  <2>2. SameWork
    BY <2>1 DEF SameWork
  <2>3. QED
    BY <1>2, <1>3, <2>1, <2>2, TakenLives DEF m, a
<1>7. CASE Invalidate(c) \/ Flush(c) \/ WriteBack(c)
  <2>1. PICK type \in CacheReply, data \in Data :
          /\ m.type \in DirCommand
          /\ llc[c][a] # "INVALID"
          /\ inbox' = Deliver(Rest(c), Msg(type, a, c, data), {m.from})
          /\ \/ llc' = [llc EXCEPT ![c][a] = "INVALID"]
             \/ type = "WB_REP" /\ (llc' = llc \/ llc' = [llc EXCEPT ![c][a] = "SHARED"])
          /\ net' = net
    <3>1. CASE Invalidate(c)
      <4>1. /\ m.type = "INV_REQ" /\ llc[c][a] # "INVALID" /\ net' = net
            /\ inbox' = Deliver(Rest(c), Msg("INV_REP", a, c, "none"), {m.from})
            /\ llc' = [llc EXCEPT ![c][a] = "INVALID"]
        BY <3>1 DEF Invalidate, Drop, Received, m, a
      <4>2. "INV_REP" \in CacheReply /\ "none" \in Data /\ "INV_REQ" \in DirCommand
        BY DEF CacheReply, Data, DirCommand
      <4>3. QED
        BY <4>1, <4>2
    <3>2. CASE Flush(c)
      <4>1. /\ m.type = "FLUSH_REQ" /\ llc[c][a] # "INVALID" /\ net' = net
            /\ inbox' = Deliver(Rest(c), Msg("FLUSH_REP", a, c, copy[c][a]), {m.from})
            /\ llc' = [llc EXCEPT ![c][a] = "INVALID"]
        BY <3>2 DEF Flush, Drop, Received, m, a
      <4>2. "FLUSH_REP" \in CacheReply /\ "FLUSH_REQ" \in DirCommand
        BY DEF CacheReply, DirCommand
      <4>3. QED
        BY <1>4, <4>1, <4>2
    <3>3. CASE WriteBack(c)
      <4>1. PICK d \in Arbitrary \cup {copy[c][a]} :
              /\ m.type = "WB_REQ" /\ llc[c][a] # "INVALID" /\ net' = net
              /\ inbox' = Deliver(Rest(c), Msg("WB_REP", a, c, d), {m.from})
              /\ llc' = llc \/ llc' = [llc EXCEPT ![c][a] = "SHARED"]
        BY <3>3, Zenon DEF WriteBack, Received, m, a
      <4>2. "WB_REP" \in CacheReply /\ "WB_REQ" \in DirCommand /\ d \in Data
        BY <1>4 DEF CacheReply, DirCommand
      <4>3. QED
        BY <4>1, <4>2
    <3>4. QED
      BY <1>7, <3>1, <3>2, <3>3
  <2>2. m.from = DirHome[a]
    BY <1>3, <2>1 DEF MessagesTo, DirCommand, a
  <2>3. /\ \A k \in Core, b \in Addr : k # c \/ b # a => llc'[k][b] = llc[k][b]
        /\ llc'[c][a] = "INVALID" \/ type = "WB_REP"
    BY <1>3, <1>4, <2>1, OneChanged
  <2>4. \E q \in Message : q.type \in DirCommand /\ q.addr = a /\ Taken(Rest(c), inbox, c, q)
    BY <1>3, <2>1 DEF a
  <2>5. QED
    BY <1>2, <1>3, <2>1, <2>2, <2>3, <2>4, AnswerLives
<1>8. QED
  BY <1>1, <1>5, <1>6, <1>7 DEF CacheMessage

\* Evictions.
LEMMA EvictLives ==
  ASSUME IInv, SafeLines, LivingLines, NEW c \in Core, NEW a \in Addr, Evict(c, a)
  PROVE  LivingLines'
<1> DEFINE type == IF llc[c][a] = "MODIFIED" THEN "FLUSH_REP" ELSE "INV_REP"
           data == IF llc[c][a] = "MODIFIED" THEN copy[c][a] ELSE "none"
<1>1. /\ llc[c][a] # "INVALID"
      /\ llc' = [llc EXCEPT ![c][a] = "INVALID"]
      /\ inbox' = Deliver(inbox, Msg(type, a, c, data), {DirHome[a]})
      /\ UNCHANGED <<net, dir, present, replaced, queue>>
  BY DEF Evict, Readable, dirVars
<1>2. /\ type \in CacheReply /\ data \in Data /\ InboxOK(inbox)
      /\ llc \in [Core -> [Addr -> CacheState]]
  BY DEF Data, IInv, TypeOK, CacheReply
<1> HIDE DEF type, data
<1>3. /\ \A k \in Core, b \in Addr : k # c \/ b # a => llc'[k][b] = llc[k][b]
      /\ llc'[c][a] = "INVALID"
  BY <1>1, <1>2, OneChanged
<1>4. llc[c][a] # "INVALID" /\ UNCHANGED <<net, dir, present, replaced, queue>>
  BY <1>1
<1>5. inbox' = Deliver(inbox, Msg(type, a, c, data), {DirHome[a]})
  BY <1>1
<1>6. type \in CacheReply /\ data \in Data /\ InboxOK(inbox)
  BY <1>2
<1>7. QED
  BY <1>3, <1>4, <1>5, <1>6, AnswerLives

\* A cache asks for a line.
LEMMA AskLives ==
  ASSUME IInv, LivingLines, NEW c \in Core, NEW a \in Addr, NEW type \in DemandReq,
         inbox' = Deliver(inbox, Msg(type, a, c, "none"), {DirHome[a]}),
         llc' = llc \/ (llc[c][a] = "SHARED" /\ llc' = [llc EXCEPT ![c][a] = "SHARED_UPGRADING"]),
         UNCHANGED <<dir, present, replaced, queue>>, SameWork
  PROVE  LivingLines'
<1>1. type \in MsgType /\ type \in FromCache /\ type \notin ToCache /\ "none" \in Data /\ InboxOK(inbox)
  BY DEF MsgType, FromCache, ToCache, DemandReq, CacheReply, DirReply, DirCommand, Data, IInv
<1>2. Posted(inbox', inbox, type, a, c, {DirHome[a]})
  BY <1>1, DeliverPosts
<1>3. CachePosts(inbox', inbox, type, a, c)
  BY <1>1, <1>2, CachePosted
<1>4. /\ \A k \in Core, b \in Addr : k # c \/ b # a => llc'[k][b] = llc[k][b]
      /\ llc'[c][a] # "INVALID" => llc[c][a] # "INVALID"
  <2>1. llc \in [Core -> [Addr -> CacheState]]
    BY DEF IInv, TypeOK
  <2>2. CASE llc' = llc
    BY <2>2
  <2>3. CASE llc[c][a] = "SHARED" /\ llc' = [llc EXCEPT ![c][a] = "SHARED_UPGRADING"]
    BY <2>1, <2>3, OneChanged
  <2>4. QED
    BY <2>2, <2>3
<1>5. StandsStill(a, c)
  BY <1>3, <1>4 DEF StandsStill, CachePosts
<1>6. Exchanged(c, a, inbox)
  BY <1>1, <1>2 DEF Exchanged
<1>7. QED
  BY <1>4, <1>5, <1>6, CacheLives

\* Nothing is sent, and no line is lost.
LEMMA NothingLives ==
  ASSUME IInv, LivingLines, SameWork, \A b \in Addr : SameLine(b),
         \A b \in Addr, k \in Core : SameMail(inbox', inbox, b, k) /\ SameReads(inbox', inbox, b, k),
         \A b \in Addr, k \in Core : llc'[k][b] # "INVALID" => llc[k][b] # "INVALID"
  PROVE  LivingLines'
<1>1. ASSUME NEW b \in Addr, NEW k \in Core PROVE StandsStill(b, k)
  <2>1. \A T, U : SameMailAbout(inbox', inbox, b, k, T, U)
    BY DEF SameMail
  <2>2. QED
    BY <2>1 DEF StandsStill, SameMailAbout
<1>2. QED
  BY <1>1, LivesAgain

\* The loop over the waiters, unless it writes.
LEMMA ServingLives ==
  ASSUME IInv, LivingLines, NEW c \in Core, ServeByUpgrade(c) \/ RemoveWaiter(c) \/ AllServed(c)
  PROVE  LivingLines'
<1>1. UNCHANGED <<dir, present, replaced, queue>> /\ net[c].at \notin {"head", "next"}
  BY DEF ServeByUpgrade, RemoveWaiter, AllServed, Serving, dirVars
<1>2. \E at, a, data : at \notin {"head", "next"} /\ GoTo(c, at, a, data)
  BY DEF ServeByUpgrade, RemoveWaiter, AllServed, Done
<1>3. SameWork
  BY <1>1, <1>2, SameNetWork
<1>4. CASE ServeByUpgrade(c)
  <2>1. PICK a \in Addr :
          /\ llc[c][a] = "SHARED"
          /\ llc' = [llc EXCEPT ![c][a] = "SHARED_UPGRADING"]
          /\ inbox' = Deliver(inbox, Msg("UPGRADE_REQ", a, c, "none"), {DirHome[a]})
    BY <1>4 DEF ServeByUpgrade, Serving, IInv, TypeOK
  <2>2. "UPGRADE_REQ" \in DemandReq
    BY DEF DemandReq
  <2>3. QED
    BY <1>1, <1>3, <2>1, <2>2, AskLives
<1>5. CASE RemoveWaiter(c) \/ AllServed(c)
  <2>1. llc' = llc /\ inbox' = inbox
    BY <1>5 DEF RemoveWaiter, AllServed, cacheVars
  <2>2. \A b \in Addr : SameLine(b)
    BY <1>1, <1>3, LinesStay DEF SameWork
  <2>3. \A b \in Addr, k \in Core : SameMail(inbox', inbox, b, k) /\ SameReads(inbox', inbox, b, k)
    BY <2>1 DEF SameMail, SameMailAbout, SameReads
  <2>4. QED
    BY <1>3, <2>1, <2>2, <2>3, NothingLives
<1>6. QED
  BY <1>4, <1>5

\* A thread misses.
LEMMA MissLives ==
  ASSUME IInv, LivingLines, NEW t \in Thread, NEW a \in Addr, NEW exclusive \in BOOLEAN,
         Miss(t, a, exclusive)
  PROVE  LivingLines'
<1> DEFINE c == LLCOf[t]
           type == RequestFor(c, a, exclusive)
<1>1. /\ llc' = IF waiters[c][a] = <<>> /\ type = "UPGRADE_REQ"
                THEN [llc EXCEPT ![c][a] = "SHARED_UPGRADING"] ELSE llc
      /\ inbox' = IF waiters[c][a] = <<>>
                  THEN Deliver(inbox, Msg(type, a, c, "none"), {DirHome[a]}) ELSE inbox
      /\ UNCHANGED <<net, dir, present, replaced, queue>>
  BY DEF Miss, dirVars
<1>2. c \in Core /\ type \in DemandReq /\ (type = "UPGRADE_REQ" => llc[c][a] = "SHARED")
  BY DEF RequestFor, DemandReq
<1>3. SameWork
  BY <1>1 DEF SameWork
<1> HIDE DEF c, type
<1>4. CASE waiters[c][a] = <<>>
  BY <1>1, <1>2, <1>3, <1>4, AskLives
<1>5. CASE waiters[c][a] # <<>>
  <2>1. llc' = llc /\ inbox' = inbox
    BY <1>1, <1>5
  <2>2. \A b \in Addr : SameLine(b)
    BY <1>1, <1>3, LinesStay DEF SameWork
  <2>3. \A b \in Addr, k \in Core : SameMail(inbox', inbox, b, k) /\ SameReads(inbox', inbox, b, k)
    BY <2>1 DEF SameMail, SameMailAbout, SameReads
  <2>4. QED
    BY <1>3, <2>1, <2>2, <2>3, NothingLives
<1>6. QED
  BY <1>4, <1>5

\* A write ages what there is of the line, and takes nothing away.
LEMMA AgedData ==
  ASSUME NEW d \in Data PROVE Outdated(d) \in Data /\ (Outdated(d) = "none" <=> d = "none")
  BY DEF Outdated, Data

LEMMA AgedNetBlank ==
  ASSUME IInv, NEW a \in Addr, NEW k \in Core
  PROVE  NetWrittenAt(a)[k].data = "none" <=> net[k].data = "none"
<1>1. net[k] \in NetState
  BY DEF IInv, TypeOK
<1>2. Aged(net[k]).data = Outdated(net[k].data) /\ net[k].data \in Data
  BY <1>1 DEF Aged, NetState
<1>3. QED
  BY <1>2, AgedData DEF NetWrittenAt

LEMMA WriteLives ==
  ASSUME IInv, LivingLines, NEW c \in Core, NEW a \in Addr,
         llc[c][a] # "INVALID", llc' = [llc EXCEPT ![c][a] = "MODIFIED"],
         WrittenAt(c, a), UNCHANGED <<dir, present, replaced>>, SameWork
  PROVE  LivingLines'
<1>1. \A b \in Addr, k \in Core : llc'[k][b] # "INVALID" => llc[k][b] # "INVALID"
  <2>1. llc \in [Core -> [Addr -> CacheState]]
    BY DEF IInv, TypeOK
  <2>2. QED
    BY <2>1, OneChanged
<1>2. \A b \in Addr : SameLine(b)
  BY AgedLines DEF SameWork
<1>3. \A b \in Addr, k \in Core : SameMail(inbox', inbox, b, k) /\ SameReads(inbox', inbox, b, k)
  BY AgedMail
<1>4. QED
  BY <1>1, <1>2, <1>3, NothingLives

LEMMA WriteHitLives ==
  ASSUME IInv, LivingLines, NEW t \in Thread, NEW a \in Addr, WriteHit(t, a) PROVE LivingLines'
<1> DEFINE c == LLCOf[t]
<1>1. /\ llc[c][a] \in {"EXCLUSIVE", "MODIFIED"}
      /\ llc' = [llc EXCEPT ![c][a] = "MODIFIED"]
      /\ WrittenAt(c, a)
      /\ net' = NetWrittenAt(a)
      /\ UNCHANGED <<dir, present, replaced>>
  BY DEF WriteHit
<1>2. c \in Core
  OBVIOUS
<1>3. SameWork
  BY <1>1, AgedNet, AgedNetBlank DEF SameWork
<1> HIDE DEF c
<1>4. QED
  BY <1>1, <1>2, <1>3, WriteLives

LEMMA WakeLives == ASSUME IInv, LivingLines, NEW c \in Core, Wake(c) PROVE LivingLines'
<1>1. PICK a \in Addr :
        /\ net[c].at = "serve" /\ a = net[c].addr
        /\ UNCHANGED <<dir, present, replaced>>
        /\ \/ /\ llc[c][a] \in {"EXCLUSIVE", "MODIFIED"}
              /\ llc' = [llc EXCEPT ![c][a] = "MODIFIED"]
              /\ WrittenAt(c, a)
              /\ net' = [NetWrittenAt(a) EXCEPT ![c].at = "woken"]
           \/ /\ GoTo(c, "woken", a, "none")
              /\ UNCHANGED <<llc, queue, inbox>>
  BY Zenon DEF Wake, Serving, Permitted, IInv, TypeOK
<1>2. CASE /\ llc[c][a] \in {"EXCLUSIVE", "MODIFIED"}
           /\ llc' = [llc EXCEPT ![c][a] = "MODIFIED"]
           /\ WrittenAt(c, a)
           /\ net' = [NetWrittenAt(a) EXCEPT ![c].at = "woken"]
  <2>1. \A k \in Core : /\ NetWrittenAt(a)[k] \in NetState
                        /\ NetWrittenAt(a)[k].at = net[k].at
                        /\ NetWrittenAt(a)[k].addr = net[k].addr
                        /\ NetWrittenAt(a)[k].data = "none" <=> net[k].data = "none"
    BY AgedNet, AgedNetBlank
  <2>2. NetWrittenAt(a) = [k \in Core |-> NetWrittenAt(a)[k]]
    BY DEF NetWrittenAt
  <2>3. net'[c].at = "woken" /\ \A k \in Core \ {c} : net'[k] = NetWrittenAt(a)[k]
    BY <1>2, <2>1, <2>2 DEF NetState
  <2>4. SameWork
    BY <1>1, <2>1, <2>3 DEF SameWork
  <2>5. QED
    BY <1>1, <1>2, <2>4, WriteLives
<1>3. CASE GoTo(c, "woken", a, "none") /\ UNCHANGED <<llc, queue, inbox>>
  <2>1. SameWork
    BY <1>1, <1>3, SameNetWork
  <2>2. \A b \in Addr : SameLine(b)
    BY <1>1, <1>3, <2>1, LinesStay DEF SameWork
  <2>3. \A b \in Addr, k \in Core : SameMail(inbox', inbox, b, k) /\ SameReads(inbox', inbox, b, k)
    BY <1>3 DEF SameMail, SameMailAbout, SameReads
  <2>4. QED
    BY <1>3, <2>1, <2>2, <2>3, NothingLives
<1>4. QED
  BY <1>1, <1>2, <1>3

-----------------------------------------------------------------------------
(* The steps of the DRAM controllers *)

\* A read is answered to the home of the line.
LEMMA DramLivesOn ==
  ASSUME IInv, SafeLines, LivingLines, NEW c \in Core, DramRead(c) \/ DramWrite(c)
  PROVE  LivingLines'
<1> PICK m, a : m = Head(inbox[c]) /\ a = m.addr
  OBVIOUS
<1>1. /\ net[c].at = "recv" /\ inbox[c] # <<>> /\ m.type \in {"DRAM_READ_REQ", "DRAM_WRITE_REQ"}
      /\ UNCHANGED <<llc, net>> /\ UNCHANGED <<dir, present, replaced, queue>>
  BY DEF DramRead, DramWrite, Received, cacheVars, dirVars
<1>2. /\ m.type = "DRAM_READ_REQ" => m.from = DirHome[a]
      /\ m \in Message /\ a \in Addr /\ dram[a] \in Data /\ InboxOK(Rest(c))
  BY <1>1, HeadOK, RestOK DEF IInv, TypeOK, MessagesTo
<1>3. \A T \in {FromCache, ToCache} : /\ "DRAM_READ_REP" \notin T
                                      /\ "DRAM_READ_REQ" \notin T /\ "DRAM_WRITE_REQ" \notin T
  BY Kinds
<1>4. Taken(Rest(c), inbox, c, m)
  BY <1>1, RestTakes DEF IInv
<1>5. \A b \in Addr, k \in Core : SameMail(Rest(c), inbox, b, k)
  BY <1>1, <1>3, <1>4, TakenElsewhere
<1>6. \A b \in Addr : SameLine(b)
  BY <1>1, LinesStay
<1>7. SameWork
  BY <1>1 DEF SameWork
<1>8. CASE DramRead(c)
  <2>1. /\ inbox' = Deliver(Rest(c), Msg("DRAM_READ_REP", a, c, dram[a]), {DirHome[a]})
        /\ m.type = "DRAM_READ_REQ"
    BY <1>2, <1>8 DEF DramRead, Received
  <2>2. "DRAM_READ_REP" \in MsgType
    BY DEF MsgType, DramMsg
  <2>3. Posted(inbox', Rest(c), "DRAM_READ_REP", a, c, {DirHome[a]})
    BY <1>2, <2>1, <2>2, DeliverPosts
  <2>4. \A b \in Addr, k \in Core : SameMail(inbox', inbox, b, k)
    BY <1>3, <1>5, <2>3, PostedElsewhere, SameMailTrans
  <2>5. Read(inbox', "DRAM_READ_REP", a, DirHome[a])
    BY <1>2, <2>3 DEF Posted, PostedRead
  <2>6. ASSUME NEW b \in Addr
        PROVE  (\A k \in Core : SameReads(inbox', inbox, b, k)) \/ DramLives(b)'
    <3>1. CASE b = a
      BY <2>5, <3>1 DEF DramLives
    <3>2. CASE b # a
      <4>1. \A k \in Core : SameReads(Rest(c), inbox, b, k) /\ SameReads(inbox', Rest(c), b, k)
        BY <1>2, <1>4, <2>3, <3>2, TakenNoRead, PostedNoRead
      <4>2. QED
        BY <4>1 DEF SameReads
    <3>3. QED
      BY <3>1, <3>2
  <2>7. \A b \in Addr, k \in Core : StandsStill(b, k)
    BY <1>1, <2>4, NoMailStands
  <2>8. QED
    BY <1>6, <1>7, <2>6, <2>7, LivesAgain
<1>9. CASE DramWrite(c)
  <2>1. inbox' = Rest(c) /\ m.type = "DRAM_WRITE_REQ"
    BY <1>9 DEF DramWrite, Received
  <2>2. \A b \in Addr, k \in Core : SameReads(inbox', inbox, b, k)
    BY <1>2, <1>4, <2>1, TakenNoRead
  <2>3. QED
    BY <1>1, <1>5, <1>6, <1>7, <2>1, <2>2, NothingLives
<1>10. QED
  BY <1>8, <1>9

-----------------------------------------------------------------------------
(* The steps of the directories: processing a request *)

\* A step that concerns one line: the others live on.
LEMMA OtherLinesLive ==
  ASSUME IInv, LivingLines, NEW a \in Addr, OthersStay(a), WorksOn(a) \/ net' = net, LineLives(a)'
  PROVE  LivingLines'
<1>1. ASSUME NEW b \in Addr, b # a PROVE LineLives(b)'
  <2>1. DirHome[a] \in Core /\ DirHome[b] \in Core /\ LineLives(b)
    BY DEF LivingLines
  <2>2. /\ dir'[b] = dir[b] /\ queue'[b] = queue[b] /\ llc' = llc
        /\ b \in present \cup replaced => b \in present' \cup replaced'
        /\ \A k \in Core : SameMail(inbox', inbox, b, k) /\ SameReads(inbox', inbox, b, k)
    BY <1>1 DEF OthersStay
  <2>3. /\ Parked(b)' <=> Parked(b)
        /\ Pend(b)' = Pend(b)
        /\ HeadAt(b) \/ HeadAt(b)' =>
             HeadAt(b) /\ HeadAt(b)' /\ net'[DirHome[b]] = net[DirHome[b]]
    <3>1. CASE net' = net
      BY <2>2, <3>1 DEF Parked, Pend, HeadAt
    <3>2. CASE WorksOn(a) /\ DirHome[b] = DirHome[a]
      BY <1>1, <2>2, <3>2 DEF Parked, Pend, HeadAt, WorksOn
    <3>3. CASE WorksOn(a) /\ DirHome[b] # DirHome[a]
      <4>1. net'[DirHome[b]] = net[DirHome[b]]
        BY <2>1, <3>3 DEF WorksOn
      <4>2. QED
        BY <2>2, <4>1 DEF Parked, Pend, HeadAt
    <3>4. QED
      BY <3>1, <3>2, <3>3
  <2>4. SameLine(b)
    BY <2>2, <2>3, SameQueue DEF SameLine
  <2>5. \A k \in Core : StandsStill(b, k)
    BY <2>2, NoMailStands
  <2>6. QED
    BY <2>1, <2>2, <2>3, <2>4, <2>5, LineStillLives
<1>2. QED
  BY <1>1 DEF LivingLines

\* A line whose request at the head does not wait.
NothingIsCalled(a) ==
  /\ ~Parked(a) \/ Pend(a) = <<>>
  /\ HeadAt(a) /\ Head(queue[a]).type = "SH_REQ" /\ Head(queue[a]).forwardingFrom # NoCore
       => dir[a].state \notin Owned
  /\ ForwarderFits(a)

LEMMA NothingCalled ==
  ASSUME SafeLines', NEW a \in Addr, NothingIsCalled(a)' PROVE LineLives(a)'
<1>1. ~HeadWaits(a)'
  BY DEF SafeLines, LineInv, DataWait, HeadWaits, NothingIsCalled
<1>2. \A types : ~Blocked(a, types)'
  BY DEF Blocked, NothingIsCalled
<1>3. \A c : ~Called(a, c)'
  BY <1>2 DEF Called, InvLive, FlushLive, WbLive
<1>4. QED
  BY <1>1, <1>2, <1>3 DEF LineLives, CommandStands, HeadLives, DramLives, NothingIsCalled

\* Cache c has a command about line a to come, behind the reply if there is one.
Commanded(box, a, c) ==
  /\ Got(box, DirCommand, a, c)
  /\ Got(box, Grant, a, c) => ~GotNotThen(box, Grant, DirCommand, a, c)

\* It has when one is sent to it, and still has when others are sent.
LEMMA CommandReaches ==
  ASSUME NEW new, NEW old, NEW type \in DirCommand, NEW a \in Addr, NEW from, NEW to,
         Posted(new, old, type, a, from, to), NEW c \in Core, c \in to \/ Commanded(old, a, c)
  PROVE  Commanded(new, a, c)
<1>1. PostedAbout(new, old, type, a, from, to, a, c, Grant, DirCommand)
  BY DEF Posted
<1>2. \A T, U : PostedAbout(new, old, type, a, from, to, a, c, T, U)
  BY DEF Posted
<1>3. type \in ToCache /\ type \notin Grant
  BY Kinds DEF DirCommand
<1>4. /\ Got(new, DirCommand, a, c) <=> Got(old, DirCommand, a, c) \/ c \in to
      /\ Got(new, Grant, a, c) <=> Got(old, Grant, a, c)
  BY <1>2, <1>3 DEF PostedAbout
<1>5. GotNotThen(new, Grant, DirCommand, a, c) <=>
        GotNotThen(old, Grant, DirCommand, a, c) /\ (c \in to => ~Got(old, Grant, a, c))
  BY <1>1, <1>3 DEF PostedAbout
<1>6. QED
  BY <1>4, <1>5 DEF Commanded

\* The request waits for answers, and every cache it waits for is sent a command.
LEMMA CommandsLive ==
  ASSUME IInv, SafeLines, LivingLines,
         NEW h \in Core, net[h].at = "head", NEW a, a = net[h].addr, NEW got, CommandsPosted(h, a, got),
         StillWaits(a),
         Head(queue[a]).type = "SH_REQ" => dir[a].state \in Owned \/ MaxHwSharers = 1,
         \A c \in Core : Called(a, c)' => Commanded(inbox', a, c)
  PROVE  LivingLines'
<1>1. /\ a \in Addr /\ DirHome[a] = h
      /\ Pend(a) = queue[a] /\ queue[a] # <<>> /\ ~Head(queue[a]).waitForData
      /\ ~HeadWaits(a)
  BY AtWork
<1>2. /\ Done(h) /\ UNCHANGED <<llc, waiters, dir, present, replaced, queue>>
      /\ \A c \in Core : GetsMail(inbox', inbox, got[c], a, c)
      /\ \A b \in Addr \ {a}, c \in Core : SameMail(inbox', inbox, b, c)
      /\ \A b \in Addr, c \in Core : SameReads(inbox', inbox, b, c)
  BY DEF CommandsPosted
<1>3. net'[h].at = "recv" /\ \A k \in Core \ {h} : net'[k] = net[k]
  BY <1>2 DEF Done, GoTo, IInv, TypeOK
<1>4. Pend(a)' = queue[a] /\ ~HeadAt(a)' /\ ~HeadWaits(a)'
  BY <1>1, <1>2, <1>3 DEF Pend, HeadAt, HeadWaits
<1>5. WorksOn(a) /\ OthersStay(a)
  BY <1>1, <1>2, <1>3 DEF WorksOn, OthersStay
<1>6. \A c \in Core : CommandStands(a, c)'
  BY DEF CommandStands, Commanded
<1>7. HeadLives(a)'
  <2>1. StillWaits(a)'
    BY <1>1, <1>2, <1>4 DEF StillWaits
  <2>2. QED
    BY <1>4, <2>1 DEF HeadLives
<1>8. ForwarderFits(a)'
  <2>1. ForwarderFits(a)
    BY <1>1 DEF LivingLines, LineLives
  <2>2. QED
    BY <1>2, <2>1 DEF ForwarderFits, Owned
<1>9. LineLives(a)'
  BY <1>4, <1>6, <1>7, <1>8 DEF LineLives, DramLives
<1>10. QED
  BY <1>1, <1>5, <1>9, OtherLinesLive

\* Whom the request at the head of the queue of line a calls as things stand.
Calls(a, c) ==
  LET r == Head(queue[a])
      e == dir[a]
  IN
  \/ /\ e.state = "SHARED" /\ c \in e.sharers
     /\ r.type = "UPGRADE_REQ" => r.from # c
     /\ r.type = "SH_REQ" => MaxHwSharers = 1 /\ r.from \notin e.sharers
  \/ /\ r.type \in {"EX_REQ", "UPGRADE_REQ", "NULLIFY_REQ"} /\ c \in e.sharers
     /\ \/ e.state \in Owned
        \/ e.state = "SHARED" /\ r.type = "UPGRADE_REQ" /\ r.from \notin e.sharers
  \/ /\ r.type = "SH_REQ" /\ r.from # c
     /\ \/ IsOwner(a, c)
        \/ e.state = "SHARED" /\ c \in e.sharers /\ r.forwardingFrom = c

LEMMA CommandCalls ==
  ASSUME IInv, SafeLines, NEW h \in Core, net[h].at = "head", NEW a, a = net[h].addr, NEW got,
         CommandsPosted(h, a, got), NEW c, Called(a, c)'
  PROVE  Calls(a, c)
<1>1. a \in Addr /\ DirHome[a] = h
  BY AtWork
<1>2. /\ Done(h) /\ UNCHANGED <<dir, queue>>
  BY DEF CommandsPosted
<1>3. net'[h].at = "recv"
  BY <1>2 DEF Done, GoTo, IInv, TypeOK
<1>4. Pend(a)' = queue[a]
  BY <1>1, <1>2, <1>3 DEF Pend
<1>5. QED
  BY <1>2, <1>4 DEF Called, InvLive, FlushLive, WbLive, Blocked, Calls, IsOwner

\* One command, to all that are called.
LEMMA CommandLives ==
  ASSUME IInv, SafeLines, LivingLines, NEW h \in Core, net[h].at = "head", NEW a, a = net[h].addr,
         NEW type \in DirCommand, NEW to, Command(h, type, to),
         StillWaits(a), Head(queue[a]).type = "SH_REQ" => dir[a].state \in Owned \/ MaxHwSharers = 1,
         \A c \in Core : Calls(a, c) => c \in to
  PROVE  LivingLines'
<1>1. a \in Addr /\ DirHome[a] = h
  BY AtWork
<1>2. PICK got : CommandsPosted(h, a, got)
  BY CommandPosts
<1>3. Posted(inbox', inbox, type, a, h, to)
  <2>1. inbox' = Deliver(inbox, Msg(type, a, h, "none"), to)
    BY DEF Command
  <2>2. type \in MsgType /\ "none" \in Data /\ InboxOK(inbox)
    BY DEF MsgType, Data, IInv
  <2>3. QED
    BY <1>1, <2>1, <2>2, DeliverPosts
<1>4. ASSUME NEW c \in Core, Called(a, c)' PROVE Commanded(inbox', a, c)
  BY <1>1, <1>2, <1>3, <1>4, CommandCalls, CommandReaches
<1>5. QED
  BY <1>2, <1>4, CommandsLive

\* Requests that have caches flush, write back or give up the line.
LEMMA AllCommandsLive ==
  ASSUME RoomForSharers, IInv, SafeLines, AssertedLines, NoForwarding, LivingLines, NEW h \in Core,
         \/ ExFlush(h) \/ ExInvalidate(h) \/ ShWriteBack(h) \/ ShMakeRoom(h) \/ UpgradeFlush(h)
  PROVE  LivingLines'
<1> PICK a, r, e : a = net[h].addr /\ r = Head(queue[a]) /\ e = dir[a]
  OBVIOUS
<1>1. /\ net[h].at = "head" /\ a \in present \cup replaced
  BY DEF ExFlush, ExInvalidate, ShWriteBack, ShMakeRoom, UpgradeFlush, Processing
<1>2. /\ a \in Addr /\ DirHome[a] = h /\ Pend(a) = queue[a] /\ queue[a] \in Seq(Request) /\ queue[a] # <<>>
      /\ r \in Request /\ r.from \in Core
      /\ LineInv(a) /\ LineAsserted(a) /\ LineLives(a) /\ e \in DirEntry
  <2>1. a \in Addr
    BY <1>1, AtWork
  <2>2. QED
    BY <1>1, <2>1, AtWork, AtWorkAsserted DEF LivingLines, IInv, TypeOK
<1>3. /\ e.state \in Owned => e.sharers = {e.owner} /\ \A c : Calls(a, c) => c = e.owner
      /\ ~(e.state \in Owned /\ e.state = "SHARED")
  BY <1>2 DEF LineInv, Entry, Calls, IsOwner, Owned
<1>4. CASE ExFlush(h)
  <2>1. /\ r.type = "EX_REQ" /\ e.state \in Owned /\ Command(h, "FLUSH_REQ", {e.owner})
    BY <1>4 DEF ExFlush, Processing
  <2>2. StillWaits(a)
    BY <1>2, <2>1 DEF StillWaits, Owned
  <2>3. QED
    BY <1>1, <1>3, <2>1, <2>2, CommandLives DEF DirCommand
<1>5. CASE UpgradeFlush(h)
  <2>1. /\ r.type = "UPGRADE_REQ" /\ e.state \in Owned /\ Command(h, "FLUSH_REQ", {e.owner})
        /\ ~Upgradable(a, r.from)
    BY <1>5 DEF UpgradeFlush, Processing
  <2>2. e.owner # r.from
    <3>1. SUFFICES ASSUME e.owner = r.from PROVE FALSE
      OBVIOUS
    <3>2. e.sharers = {r.from} /\ r.from \in Int
      <4>1. e.sharers = {r.from}
        BY <1>3, <2>1, <3>1
      <4>2. r.from \in Int
        BY <1>2, CoreAssumption
      <4>3. QED
        BY <4>1, <4>2
    <3>3. LowestSharer(e) = r.from
      BY <3>2 DEF LowestSharer
    <3>4. QED
      BY <1>3, <2>1, <3>3 DEF Upgradable
  <2>3. StillWaits(a)
    BY <1>2, <1>3, <2>1, <2>2 DEF StillWaits
  <2>4. QED
    BY <1>1, <1>3, <2>1, <2>3, CommandLives DEF DirCommand
<1>6. CASE ExInvalidate(h)
  <2>1. /\ r.type = "EX_REQ" /\ e.state = "SHARED" /\ Command(h, "INV_REQ", e.sharers)
    BY <1>6 DEF ExInvalidate, Processing
  <2>2. StillWaits(a)
    BY <1>2, <2>1 DEF StillWaits
  <2>3. \A c \in Core : Calls(a, c) => c \in e.sharers
    BY <2>1 DEF Calls
  <2>4. QED
    BY <1>1, <2>1, <2>2, <2>3, CommandLives DEF DirCommand
<1>7. CASE ShWriteBack(h)
  <2>1. /\ r.type = "SH_REQ" /\ e.state \in Owned /\ Command(h, "WB_REQ", {e.owner})
    BY <1>7 DEF ShWriteBack, Processing
  <2>2. r.forwardingFrom = NoCore
    BY <1>1, <1>2, <2>1 DEF LineLives, HeadLives, HeadAt
  <2>3. StillWaits(a)
    BY <1>2, <2>1, <2>2 DEF StillWaits
  <2>4. QED
    BY <1>1, <1>3, <2>1, <2>3, CommandLives DEF DirCommand
<1>8. CASE ShMakeRoom(h)
  <2>1. PICK s \in e.sharers :
          /\ r.type = "SH_REQ" /\ e.state = "SHARED" /\ r.from \notin e.sharers
          /\ Cardinality(e.sharers) >= MaxHwSharers
          /\ Command(h, "INV_REQ", {s})
    BY <1>8 DEF ShMakeRoom, Processing
  <2>2. MaxHwSharers = 1
    BY <1>2, <2>1, NoRoom DEF DirEntry
  <2>3. r.forwardingFrom = NoCore
    BY <1>2, <2>2 DEF NoForwarding
  <2>4. e.sharers = {s}
    BY <1>2, <2>1, <2>2 DEF LineAsserted, SharersFit
  <2>5. StillWaits(a)
    BY <1>2, <2>1, <2>2, <2>3 DEF StillWaits
  <2>6. \A c \in Core : Calls(a, c) => c \in {s}
    BY <2>1, <2>3, <2>4 DEF Calls, IsOwner, Owned
  <2>7. QED
    BY <1>1, <2>1, <2>2, <2>5, <2>6, CommandLives DEF DirCommand
<1>9. QED
  BY <1>4, <1>5, <1>6, <1>7, <1>8

\* An upgrade: the other sharers give the line up, one of them with its data.
LEMMA UpgradeInvalidateLives ==
  ASSUME IInv, SafeLines, AssertedLines, LivingLines, NEW h \in Core, UpgradeInvalidate(h)
  PROVE  LivingLines'
<1> PICK a, r, e : a = net[h].addr /\ r = Head(queue[a]) /\ e = dir[a]
  OBVIOUS
<1>1. /\ net[h].at = "head" /\ r.type = "UPGRADE_REQ" /\ e.state = "SHARED"
      /\ \E got : CommandsPosted(h, a, got)
  BY UpgradeInvalidatePosts, Zenon
<1>2. a \in Addr /\ DirHome[a] = h /\ Pend(a) = queue[a] /\ r.from \in Core /\ LineAsserted(a)
  BY <1>1, AtWork, AtWorkAsserted
<1> DEFINE flushed == IF r.from \in e.sharers THEN {} ELSE {LowestSharer(e)}
           others == e.sharers \ ({r.from} \cup flushed)
           mid == Deliver(inbox, Msg("FLUSH_REQ", a, h, "none"), flushed)
<1>3. /\ inbox' = Deliver(mid, Msg("INV_REQ", a, h, "none"), others)
      /\ ~Upgradable(a, r.from)
  BY DEF UpgradeInvalidate
<1>4. \A c : c \in e.sharers /\ c # r.from => c \in flushed \/ c \in others
  OBVIOUS
<1> HIDE DEF flushed, others, mid
<1>5. /\ \A type \in {"FLUSH_REQ", "INV_REQ"} : type \in MsgType /\ type \in DirCommand
      /\ "none" \in Data
  BY DEF MsgType, DirCommand, Data
<1>6. InboxOK(mid)
  <2>1. \A k \in Core : Msg("FLUSH_REQ", a, h, "none") \in MessagesTo(k)
    BY <1>2, <1>5, FromHomeOK DEF FromHome
  <2>2. QED
    BY <2>1, DeliverOK DEF IInv, mid
<1>7. Posted(mid, inbox, "FLUSH_REQ", a, h, flushed)
  BY <1>2, <1>5, DeliverPosts DEF IInv, mid
<1>8. Posted(inbox', mid, "INV_REQ", a, h, others)
  BY <1>2, <1>3, <1>5, <1>6, DeliverPosts
<1>9. StillWaits(a)
  <2>1. e.sharers # {} /\ e.sharers # {r.from}
    BY <1>1, <1>2, <1>3 DEF LineAsserted, SharersFit, Upgradable
  <2>2. QED
    BY <1>1, <1>2, <2>1 DEF StillWaits
<1>10. ASSUME NEW c \in Core, Called(a, c)' PROVE Commanded(inbox', a, c)
  <2>1. Calls(a, c)
    BY <1>1, <1>10, CommandCalls
  <2>2. c \in e.sharers /\ c # r.from
    BY <1>1, <2>1 DEF Calls, Owned
  <2>3. c \in others \/ Commanded(mid, a, c)
    BY <1>2, <1>4, <1>5, <1>7, <2>2, CommandReaches
  <2>4. QED
    BY <1>2, <1>5, <1>8, <2>3, CommandReaches
<1>11. QED
  BY <1>1, <1>9, <1>10, CommandsLive

\* Entry e is one that data can be asked for.
EntryAsks(a, f, data, e) ==
  /\ MayForward(a, e) /\ data = "none" => e.forwarder \in e.sharers \ {f}
  /\ Protocol = "MESIF" /\ MaxHwSharers # 1 /\ e.state = "SHARED" /\ data = "none" =>
       e.forwarder \in e.sharers \cup {NoCore}

\* Which of the three ways it goes on is seen in the queue and in the entry.
RetrieveSeen(h, a, f, data, e) ==
  \/ /\ net'[h].at = "next" /\ dir'[a].forwarder = f
  \/ /\ net'[h].at = "recv" /\ data = "none" /\ dir'[a] = e
     /\ MayForward(a, e) <=> ~Head(queue'[a]).waitForData

LEMMA RetrieveShows ==
  ASSUME IInv, SafeLines, NEW h \in Core, net[h].at = "head", NEW a, a = net[h].addr,
         NEW rep, NEW f, NEW data, NEW e \in DirEntry, Retrieve(h, rep, f, data, e)
  PROVE  RetrieveSeen(h, a, f, data, e)
<1>1. /\ a \in Addr /\ queue[a] \in Seq(Request) /\ queue[a] # <<>>
      /\ Head(queue[a]) \in Request /\ ~Head(queue[a]).waitForData
  BY AtWork
<1>2. Head(queue[a]) = queue[a][1]
  BY <1>1
<1>3. /\ net \in [Core -> NetState] /\ dir \in [Addr -> DirEntry]
  BY DEF IInv, TypeOK
<1>4. Done(h) => net'[h].at = "recv"
  BY <1>3 DEF Done, GoTo
<1>5. CASE /\ dir' = [dir EXCEPT ![a] = [e EXCEPT !.forwarder = f]]
           /\ GoTo(h, "next", a, "none")
  <2>1. net'[h].at = "next"
    BY <1>3, <1>5 DEF GoTo
  <2>2. dir'[a].forwarder = f
    BY <1>1, <1>3, <1>5 DEF DirEntry
  <2>3. QED
    BY <2>1, <2>2 DEF RetrieveSeen
<1>6. CASE /\ data = "none" /\ MayForward(a, e)
           /\ dir' = [dir EXCEPT ![a] = e]
           /\ queue' = [queue EXCEPT ![a][1].forwardingFrom = e.forwarder]
           /\ Done(h)
  <2>1. PICK r : r = [queue[a][1] EXCEPT !.forwardingFrom = e.forwarder]
    OBVIOUS
  <2>2. r \in Request /\ r.type = queue[a][1].type /\ r.from = queue[a][1].from /\ ~r.waitForData
    BY <1>1, <1>2, <2>1, Zenon DEF Request, DirEntry
  <2>3. HeadBecomes(a, r)
    BY <1>6, <2>1 DEF HeadBecomes
  <2>4. Head(queue'[a]) = r
    BY <1>1, <1>2, <2>2, <2>3, QueueNoted DEF Noted
  <2>5. dir'[a] = e
    BY <1>1, <1>3, <1>6
  <2>6. QED
    BY <1>4, <1>6, <2>2, <2>4, <2>5 DEF RetrieveSeen
<1>7. CASE /\ data = "none" /\ ~MayForward(a, e)
           /\ dir' = [dir EXCEPT ![a] = e]
           /\ queue' = [queue EXCEPT ![a][1].waitForData = TRUE]
           /\ Done(h)
  <2>1. PICK r : r = [queue[a][1] EXCEPT !.waitForData = TRUE]
    OBVIOUS
  <2>2. r \in Request /\ r.type = queue[a][1].type /\ r.from = queue[a][1].from /\ r.waitForData
    BY <1>1, <1>2, <2>1, Zenon DEF Request
  <2>3. HeadBecomes(a, r)
    BY <1>7, <2>1 DEF HeadBecomes
  <2>4. Head(queue'[a]) = r
    BY <1>1, <1>2, <2>2, <2>3, QueueNoted DEF Noted
  <2>5. dir'[a] = e
    BY <1>1, <1>3, <1>7
  <2>6. QED
    BY <1>4, <1>7, <2>2, <2>4, <2>5 DEF RetrieveSeen
<1>8. QED
  BY <1>5, <1>6, <1>7, Zenon DEF Retrieve

\* The data is sent, or asked of the forwarder or of DRAM.
LEMMA RetrieveLives ==
  ASSUME IInv, SafeLines, LivingLines, NEW h \in Core, net[h].at = "head", NEW a, a = net[h].addr,
         NEW rep \in Grant, NEW f, NEW e \in DirEntry, Answers(a, rep, f, e),
         NEW data \in Data, EntryAsks(a, f, data, e), Retrieve(h, rep, f, data, e)
  PROVE  LivingLines'
<1>1. /\ a \in Addr /\ DirHome[a] = h /\ net \in [Core -> NetState]
  BY AtWork DEF IInv, TypeOK
<1>2. SafeLines'
  BY RetrieveSafe
<1>3. RetrieveSeen(h, a, f, data, e)
  BY RetrieveShows
<1>4. f \in e.sharers
  BY DEF Answers
<1>5. ASSUME NEW type, NEW to, NEW d, Retrieving(h, a, rep, f, e, type, d, to)
      PROVE  WorksOn(a) /\ OthersStay(a) /\ Posted(inbox', inbox, type, a, h, to) /\ dir'[a].sharers = e.sharers
  <2>1. Entered(a, e) /\ Leaves(h, a) /\ Posted(inbox', inbox, type, a, h, to)
    BY <1>5, Retrieved DEF Retrieving
  <2>2. WorksOn(a)
    BY <1>1, <2>1 DEF WorksOn, Leaves
  <2>3. \A b \in Addr \ {a}, k \in Core : SameMail(inbox', inbox, b, k) /\ SameReads(inbox', inbox, b, k)
    BY <2>1, PostedElsewhere, PostedNoRead
  <2>4. OthersStay(a)
    BY <2>1, <2>3 DEF Entered, OthersStay
  <2>5. QED
    BY <2>1, <2>2, <2>4 DEF Entered
<1>6. CASE /\ Entered(a, e) /\ queue' = queue
           /\ inbox' = Deliver(inbox, Msg(rep, a, h, data), {f})
           /\ GoTo(h, "next", a, "none")
  <2>1. net'[h].at = "next" /\ net'[h].addr = a /\ Leaves(h, a)
    BY <1>1, <1>6 DEF GoTo, Leaves
  <2>2. rep \in MsgType \ FromCache
    BY Kinds DEF MsgType, DirReply
  <2>3. Retrieving(h, a, rep, f, e, rep, data, {f})
    BY <1>6, <2>1, <2>2 DEF Retrieving
  <2>4. WorksOn(a) /\ OthersStay(a) /\ dir'[a].sharers = e.sharers
    BY <1>5, <2>3
  <2>5. dir'[a].forwarder = f
    BY <1>3, <2>1 DEF RetrieveSeen
  <2>6. ~Parked(a)' /\ ~HeadAt(a)'
    BY <1>1, <2>1 DEF Parked, HeadAt
  <2>7. NothingIsCalled(a)'
    BY <1>4, <2>4, <2>5, <2>6 DEF NothingIsCalled, ForwarderFits
  <2>8. LineLives(a)'
    BY <1>1, <1>2, <2>7, NothingCalled
  <2>9. QED
    BY <1>1, <2>4, <2>8, OtherLinesLive
<1>7. ASSUME NEW r, Done(h), Parked(a)', Pend(a)' # <<>>, Head(Pend(a)') = r,
             r.type = Head(queue[a]).type, r.from = f
      PROVE  /\ ~HeadAt(a)' /\ Pend(a)' = queue'[a] /\ data = "none" /\ dir'[a] = e
             /\ MayForward(a, e) <=> ~r.waitForData
  <2>1. net'[h].at = "recv"
    BY <1>1, <1>7 DEF Done, GoTo
  <2>2. Pend(a)' = queue'[a] /\ ~HeadAt(a)'
    BY <1>1, <2>1 DEF Pend, HeadAt
  <2>3. QED
    BY <1>3, <1>7, <2>1, <2>2 DEF RetrieveSeen
<1>8. ASSUME NEW r, Forwarded(h, a, rep, f, e, r) PROVE LivingLines'
  <2>1. /\ Retrieving(h, a, rep, f, e, "WB_REQ", "none", {e.forwarder})
        /\ Parked(a)' /\ Pend(a)' # <<>> /\ Head(Pend(a)') = r
    BY <1>8, RequestNoted DEF Forwarded
  <2>2. /\ r.type = "SH_REQ" /\ e.state = "SHARED" /\ r.from = f
        /\ ~r.waitForData /\ r.forwardingFrom = e.forwarder
    BY <1>8 DEF Forwarded, Noting
  <2>3. ~HeadAt(a)' /\ dir'[a] = e /\ data = "none" /\ MayForward(a, e)
    BY <1>7, <1>8, <2>1, <2>2 DEF Forwarded
  <2>4. e.forwarder \in e.sharers \ {f}
    BY <2>3 DEF EntryAsks
  <2>5. WorksOn(a) /\ OthersStay(a) /\ Posted(inbox', inbox, "WB_REQ", a, h, {e.forwarder})
    BY <1>5, <2>1
  <2>6. ASSUME NEW c \in Core, Called(a, c)' PROVE CommandStands(a, c)'
    <3>1. WbLive(a, c)'
      BY <1>4, <2>1, <2>2, <2>3, <2>6 DEF Called, InvLive, FlushLive, Blocked
    <3>2. c = e.forwarder
      BY <2>1, <2>2, <2>3, <3>1 DEF WbLive, IsOwner, Owned
    <3>3. Commanded(inbox', a, c)
      BY <1>1, <2>5, <3>2, CommandReaches DEF DirCommand
    <3>4. QED
      BY <3>3 DEF CommandStands, Commanded
  <2>7. StillWaits(a)'
    BY <2>1, <2>2, <2>3, <2>4 DEF StillWaits
  <2>8. HeadLives(a)' /\ DramLives(a)'
    BY <2>1, <2>2, <2>3, <2>7 DEF HeadLives, DramLives, HeadWaits
  <2>9. ForwarderFits(a)'
    BY <2>3, <2>4 DEF ForwarderFits
  <2>10. LineLives(a)'
    BY <2>6, <2>8, <2>9 DEF LineLives, CommandStands
  <2>11. QED
    BY <1>1, <2>5, <2>10, OtherLinesLive
<1>9. ASSUME NEW r, ReadFromDram(h, a, rep, f, e, r) PROVE LivingLines'
  <2>1. /\ Retrieving(h, a, rep, f, e, "DRAM_READ_REQ", "none", {DramHome[a]})
        /\ Parked(a)' /\ Pend(a)' # <<>> /\ Head(Pend(a)') = r /\ r.waitForData
    BY <1>9, RequestNoted DEF ReadFromDram
  <2>2. ~HeadAt(a)' /\ dir'[a] = e /\ data = "none"
    BY <1>7, <1>9, <2>1 DEF ReadFromDram
  <2>3. /\ WorksOn(a) /\ OthersStay(a)
        /\ Posted(inbox', inbox, "DRAM_READ_REQ", a, h, {DramHome[a]})
    BY <1>5, <2>1
  <2>4. \A types : ~Blocked(a, types)'
    BY <2>1 DEF Blocked
  <2>5. \A c : ~Called(a, c)'
    BY <2>4 DEF Called, InvLive, FlushLive, WbLive
  <2>6. Read(inbox', "DRAM_READ_REQ", a, DramHome[a])
    BY <1>1, <2>3 DEF Posted, PostedRead
  <2>7. ForwarderFits(a)'
    BY <2>2 DEF ForwarderFits, EntryAsks
  <2>8. LineLives(a)'
    BY <2>2, <2>4, <2>5, <2>6, <2>7 DEF LineLives, CommandStands, HeadLives, DramLives
  <2>9. QED
    BY <1>1, <2>3, <2>8, OtherLinesLive
<1>10. QED
  BY <1>6, <1>8, <1>9, RetrieveWays

\* A line nobody has is given to a reader or a writer.
LEMMA GrantsLive ==
  ASSUME IInv, SafeLines, LivingLines, NEW h \in Core, ExGrant(h) \/ ShFirst(h) \/ UpgradeAsExclusive(h)
  PROVE  LivingLines'
<1> SUFFICES ASSUME NEW a, NEW f, a = net[h].addr, f = Head(queue[a]).from PROVE LivingLines'
  OBVIOUS
<1>1. PICK types, rep, state : Grants(h, a, f, types, rep, state)
  BY GrantKinds
<1>2. /\ Processing(h, types, {"UNCACHED"})
      /\ types \in SUBSET DemandReq /\ rep \in Grant /\ state \in {"SHARED", "EXCLUSIVE", "MODIFIED"}
      /\ state = "SHARED" => types = {"SH_REQ"} /\ rep = "SH_REP"
      /\ state = "SHARED" => Protocol = "MSI"
  BY <1>1 DEF Grants
<1>3. PICK data \in Data : Retrieve(h, rep, f, data, SoleOwner(a, f, state))
  BY <1>1 DEF Grants
<1> SUFFICES ASSUME NEW e, e = SoleOwner(a, f, state) PROVE LivingLines'
  OBVIOUS
<1>4. net[h].at = "head" /\ e \in DirEntry /\ e.state = state /\ Answers(a, rep, f, e)
  BY <1>2, UncachedAnswered DEF AnswersFirst
<1>5. EntryAsks(a, f, data, e)
  BY <1>2, <1>4 DEF EntryAsks, MayForward
<1>6. QED
  BY <1>2, <1>3, <1>4, <1>5, RetrieveLives, Zenon

\* A line that is shared is given to one more reader, by the forwarder if it has one.
LEMMA ShShareLives ==
  ASSUME IInv, SafeLines, AssertedLines, NoForwarding, LivingLines, NEW h \in Core, ShShare(h)
  PROVE  LivingLines'
<1> SUFFICES ASSUME NEW a, NEW f, a = net[h].addr, f = Head(queue[a]).from PROVE LivingLines'
  OBVIOUS
<1>1. PICK e \in DirEntry :
        /\ net[h].at = "head" /\ a \in Addr /\ f \in Core /\ net[h].data \in Data
        /\ Head(queue[a]).type = "SH_REQ" /\ dir[a].state = "SHARED"
        /\ e.state = "SHARED" /\ e.sharers = dir[a].sharers \cup {f}
        /\ e.forwarder = dir[a].forwarder
        /\ Answers(a, "SH_REP", f, e)
        /\ Retrieve(h, "SH_REP", f, net[h].data, e)
  BY ShShareAnswers, Zenon
<1>2. "SH_REP" \in Grant
  BY Kinds
<1>3. MaxHwSharers # 1
  BY NoSecondReader
<1>4. ASSUME Protocol = "MESIF", net[h].data = "none"
      PROVE  e.forwarder \in dir[a].sharers \cup {NoCore}
  <2>1. ForwarderFits(a) /\ DirHome[a] = h
    BY <1>1, AtWork DEF LivingLines, LineLives
  <2>2. QED
    BY <1>1, <1>3, <1>4, <2>1 DEF ForwarderFits
<1>5. MayForward(a, e) => f \notin dir[a].sharers /\ e.forwarder # NoCore /\ Protocol = "MESIF"
  BY <1>1, ReaderIsNew DEF MayForward
<1>6. EntryAsks(a, f, net[h].data, e)
  <2>1. MayForward(a, e) /\ net[h].data = "none" => e.forwarder \in e.sharers \ {f}
    BY <1>1, <1>4, <1>5
  <2>2. Protocol = "MESIF" /\ net[h].data = "none" => e.forwarder \in e.sharers \cup {NoCore}
    BY <1>1, <1>4
  <2>3. QED
    BY <2>1, <2>2 DEF EntryAsks
<1>7. QED
  BY <1>1, <1>2, <1>6, RetrieveLives, Zenon

\* A line whose request has been answered, or is about to be processed.
LEMMA NothingCalledLives ==
  ASSUME IInv, LivingLines, SafeLines', NEW a \in Addr, OthersStay(a), WorksOn(a) \/ net' = net,
         NothingIsCalled(a)'
  PROVE  LivingLines'
  BY NothingCalled, OtherLinesLive

\* A thread that has gone to work on line a.
LEMMA GoneTo ==
  ASSUME IInv, NEW h \in Core, NEW a, DirHome[a] = h, NEW at, NEW data, GoTo(h, at, a, data)
  PROVE  /\ net'[h].at = at /\ net'[h].addr = a /\ net'[h].data = data
         /\ at \in {"head", "next"} => ~Parked(a)'
         /\ at = "next" => ~HeadAt(a)'
<1>1. net'[h].at = at /\ net'[h].addr = a /\ net'[h].data = data
  BY DEF GoTo, IInv, TypeOK
<1>2. QED
  BY <1>1 DEF Parked, HeadAt

\* Steps that answer the request at the head.
LEMMA AnsweredLives ==
  ASSUME IInv, SafeLines, LivingLines, NEW h \in Core,
         UpgradeGrant(h) \/ Nullified(h) \/ TakeDramRep(h)
  PROVE  LivingLines'
<1>1. CASE UpgradeGrant(h)
  <2> SUFFICES ASSUME NEW a, NEW f, a = net[h].addr, f = Head(queue[a]).from PROVE LivingLines'
    OBVIOUS
  <2>1. UpgradeGives(h, a, f)
    BY <1>1, UpgradeGranted
  <2>2. NothingIsCalled(a)'
    BY <2>1 DEF UpgradeGives, NothingIsCalled, ForwarderFits
  <2>3. QED
    BY <2>1, <2>2, NothingCalledLives DEF UpgradeGives
<1>2. CASE Nullified(h)
  <2> SUFFICES ASSUME NEW a, a = net[h].addr PROVE LivingLines'
    OBVIOUS
  <2>1. LosesEntry(h, a)
    BY <1>2, NullifiedLoses
  <2>2. DirHome[a] = h
    BY <2>1, AtWork DEF LosesEntry
  <2>3. GoTo(h, "next", a, "none")
    BY <1>2 DEF Nullified
  <2>4. ~Parked(a)' /\ ~HeadAt(a)'
    BY <2>2, <2>3, GoneTo
  <2>5. NothingIsCalled(a)'
    BY <2>1, <2>4 DEF LosesEntry, NothingIsCalled, ForwarderFits
  <2>6. QED
    BY <2>1, <2>5, NothingCalledLives DEF LosesEntry
<1>3. CASE TakeDramRep(h)
  <2> SUFFICES ASSUME NEW a, NEW f, a = Head(inbox[h]).addr, f = Head(queue[a]).from PROVE LivingLines'
    OBVIOUS
  <2>1. PICK rep \in Grant : SendsOn(h, a, f, rep)
    BY <1>3, TakeDramRepSends
  <2>2. GoTo(h, "next", a, "none") /\ net[h].at = "recv"
    BY <1>3 DEF TakeDramRep, Received
  <2>3. DirHome[a] = h
    <3>1. SUFFICES ASSUME DirHome[a] # h PROVE FALSE
      OBVIOUS
    <3>2. a \in Addr /\ WorksOn(a)
      BY <2>1 DEF SendsOn
    <3>3. net'[h] = net[h]
      BY <3>1, <3>2 DEF WorksOn
    <3>4. net'[h].at = "next"
      BY <2>2 DEF GoTo, IInv, TypeOK
    <3>5. QED
      BY <2>2, <3>3, <3>4
  <2>4. ~Parked(a)' /\ ~HeadAt(a)'
    BY <2>2, <2>3, GoneTo
  <2>5. ForwarderFits(a)'
    <3>1. ForwarderFits(a) /\ ~HeadAt(a) /\ dir' = dir
      BY <2>1, <2>2, <2>3 DEF SendsOn, HeadAt, LivingLines, LineLives
    <3>2. QED
      BY <3>1 DEF ForwarderFits
  <2>6. NothingIsCalled(a)'
    BY <2>4, <2>5 DEF NothingIsCalled
  <2>7. QED
    BY <2>1, <2>6, NothingCalledLives DEF SendsOn
<1>4. QED
  BY <1>1, <1>2, <1>3

\* The next request has not been sent to a forwarder yet.
LEMMA NextRequestLives ==
  ASSUME IInv, SafeLines, LivingLines, TailForwards, NEW h \in Core, NextRequest(h)
  PROVE  LivingLines'
<1> SUFFICES ASSUME NEW a, a = net[h].addr PROVE LivingLines'
  OBVIOUS
<1>1. GoesOn(h, a) /\ SafeLines'
  BY NextRequestGoesOn, NextRequestSafe
<1>2. /\ a \in Addr /\ DirHome[a] = h /\ net[h].at = "next"
      /\ llc' = llc /\ inbox' = inbox /\ waiters' = waiters /\ dir' = dir
      /\ \A b \in Addr \ {a} : queue'[b] = queue[b]
      /\ \A k \in Core \ {h} : net'[k] = net[k]
  BY <1>1 DEF GoesOn
<1>3. /\ queue' = [queue EXCEPT ![a] = Tail(queue[a])]
      /\ Tail(queue[a]) = <<>> => Done(h)
      /\ Tail(queue[a]) # <<>> => GoTo(h, "head", a, "none")
      /\ present' = present /\ replaced' = replaced
  BY DEF NextRequest
<1>4. queue \in [Addr -> Seq(Request)] /\ queue[a] \in Seq(Request) /\ net \in [Core -> NetState]
  BY <1>2 DEF IInv, TypeOK
<1>5. queue'[a] = Tail(queue[a])
  BY <1>2, <1>3, <1>4
<1>6. OthersStay(a)
  BY <1>2, <1>3 DEF OthersStay, SameMail, SameMailAbout, SameReads
<1>7. WorksOn(a)
  BY <1>1, <1>2 DEF GoesOn, WorksOn, NetOK, IInv
<1>8. ForwarderFits(a)'
  <2>1. ForwarderFits(a) /\ ~HeadAt(a)
    BY <1>2 DEF HeadAt, LivingLines, LineLives
  <2>2. QED
    BY <1>2, <2>1 DEF ForwarderFits
<1>9. NothingIsCalled(a)'
  <2>1. CASE Tail(queue[a]) = <<>>
    <3>1. net'[h].at = "recv"
      BY <1>3, <1>4, <2>1 DEF Done, GoTo
    <3>2. Pend(a)' = <<>> /\ ~HeadAt(a)'
      BY <1>2, <1>5, <2>1, <3>1 DEF Pend, HeadAt
    <3>3. QED
      BY <1>8, <3>2 DEF NothingIsCalled
  <2>2. CASE Tail(queue[a]) # <<>>
    <3>1. ~Parked(a)'
      BY <1>2, <1>3, <2>2, GoneTo
    <3>2. Head(queue'[a]).forwardingFrom = NoCore
      <4>1. 2 \in DOMAIN queue[a] /\ Head(Tail(queue[a])) = queue[a][2]
        BY <1>4, <2>2
      <4>2. QED
        BY <1>2, <1>5, <4>1 DEF TailForwards
    <3>3. QED
      BY <1>8, <3>1, <3>2 DEF NothingIsCalled
  <2>3. QED
    BY <2>1, <2>2
<1>10. QED
  BY <1>1, <1>2, <1>6, <1>7, <1>9, NothingCalledLives

-----------------------------------------------------------------------------
(* The steps of the directories: messages of the caches *)

\* The request at the head of the queue of line a waits on.
HeadStays(a) == /\ Parked(a) /\ Parked(a)'
                /\ Pend(a) # <<>> /\ Pend(a)' # <<>>
                /\ SameRequest(Head(Pend(a)'), Head(Pend(a)))

\* It waits for fewer answers, but for one at least.
LEMMA HeadStaysLives ==
  ASSUME NEW a \in Addr, LineLives(a), HeadStays(a),
         \A c \in Core : Called(a, c)' => Called(a, c) /\ StandsStill(a, c),
         \A k \in Core : SameReads(inbox', inbox, a, k),
         Blocked(a, AnyReq)' => StillWaits(a)',
         ForwarderFits(a)'
  PROVE  LineLives(a)'
<1>1. ASSUME NEW c \in Core PROVE CommandStands(a, c)'
  <2>1. CASE Called(a, c)'
    BY <2>1, CommandStandsStill DEF LineLives
  <2>2. CASE ~Called(a, c)'
    BY <2>2 DEF CommandStands
  <2>3. QED
    BY <2>1, <2>2
<1>2. ~HeadAt(a)'
  BY DEF HeadStays, Parked, HeadAt
<1>3. HeadLives(a)'
  BY <1>2 DEF HeadLives
<1>4. DramLives(a)'
  <2>1. DirHome[a] \in Core /\ DramHome[a] \in Core /\ DramLives(a)
    BY DEF LineLives
  <2>2. HeadWaits(a)' => HeadWaits(a)
    BY DEF HeadStays, SameRequest, HeadWaits
  <2>3. QED
    BY <2>1, <2>2 DEF DramLives, SameReads
<1>5. QED
  BY <1>1, <1>3, <1>4 DEF LineLives

\* The home of a line takes a message of cache s: no other command, reply or
\* read of the line is touched.
LEMMA HomeTakesStill ==
  ASSUME NEW type, NEW a, NEW s, HomeTakes(inbox', inbox, type, a, s), llc' = llc,
         \A c \in Core \ {s} : SameMail(inbox', inbox, a, c), NEW c \in Core,
         c # s \/ type \notin WbRep
  PROVE  StandsStill(a, c)
<1>1. CASE c # s
  BY <1>1, NoMailStands
<1>2. CASE c = s
  <2>1. \A T, U : /\ Sent(inbox, T, a, s) <=> Sent(inbox', T, a, s) \/ type \in T
                  /\ Got(inbox', T, a, s) <=> Got(inbox, T, a, s)
                  /\ GotNotThen(inbox', T, U, a, s) <=> GotNotThen(inbox, T, U, a, s)
    BY DEF HomeTakes
  <2>2. QED
    BY <1>2, <2>1 DEF StandsStill
<1>3. QED
  BY <1>1, <1>2

\* A request joins the queue, or starts to be processed.
LEMMA TakeRequestLives ==
  ASSUME IInv, SafeLines, LivingLines, NEW h \in Core, TakeRequest(h) PROVE LivingLines'
<1> SUFFICES ASSUME NEW m, m = Head(inbox[h]), NEW a, a = m.addr, NEW f, f = m.from PROVE LivingLines'
  OBVIOUS
<1>1. PICK type \in DemandReq : Joins(h, a, f, type)
  BY TakeRequestJoins
<1>2. /\ a \in Addr /\ DirHome[a] = h /\ Parked(a) /\ Pend(a) = queue[a] /\ Pend(a)' = queue'[a]
      /\ dir' = dir /\ llc' = llc /\ WorksOn(a) /\ OthersStay(a) /\ SafeLines'
      /\ HomeTakes(inbox', inbox, type, a, f)
      /\ \A c \in Core \ {f} : SameMail(inbox', inbox, a, c)
  BY <1>1 DEF Joins
<1>3. LineLives(a) /\ ForwarderFits(a)'
  <2>1. LineLives(a) /\ ~HeadAt(a)
    BY <1>2 DEF LivingLines, Parked, HeadAt
  <2>2. QED
    BY <1>2, <2>1 DEF LineLives, ForwarderFits
<1>4. CASE queue[a] = <<>>
  <2>1. ~Parked(a)' /\ Head(queue'[a]).forwardingFrom = NoCore
    BY <1>1, <1>4 DEF Joins, NewRequest
  <2>2. NothingIsCalled(a)'
    BY <1>3, <2>1 DEF NothingIsCalled
  <2>3. QED
    BY <1>2, <2>2, NothingCalledLives
<1>5. CASE queue[a] # <<>>
  <2>1. Parked(a)' /\ queue'[a] # <<>> /\ Head(queue'[a]) = Head(queue[a])
    BY <1>1, <1>5 DEF Joins
  <2>2. HeadStays(a)
    BY <1>2, <1>5, <2>1 DEF HeadStays, SameRequest
  <2>3. \A types : Blocked(a, types)' <=> Blocked(a, types)
    BY <1>2, <1>5, <2>1 DEF Blocked
  <2>4. \A c \in Core : Called(a, c)' => Called(a, c)
    BY <1>2, <1>5, <2>1, <2>3 DEF Called, InvLive, FlushLive, WbLive, IsOwner
  <2>5. Blocked(a, AnyReq)' => StillWaits(a)'
    BY <1>2, <1>3, <1>5, <2>1, <2>3 DEF LineLives, HeadLives, StillWaits
  <2>6. type \notin WbRep
    BY Kinds
  <2>7. \A c \in Core : StandsStill(a, c)
    BY <1>2, <2>6, HomeTakesStill
  <2>8. \A k \in Core : SameReads(inbox', inbox, a, k)
    <3>1. inbox' = Rest(h) /\ \E t \in DemandReq : Received(h, t)
      BY DEF TakeRequest
    <3>2. AnswersOf(h, m, a, f)
      BY <3>1 DEF AnswersOf, Received, FromCache
    <3>3. QED
      BY <1>2, <3>1, <3>2, AnswerOf
  <2>9. LineLives(a)'
    BY <1>2, <1>3, <2>2, <2>4, <2>5, <2>7, <2>8, HeadStaysLives
  <2>10. QED
    BY <1>2, <2>9, OtherLinesLive
<1>6. QED
  BY <1>4, <1>5

\* What the directory's entry and its thread have of the INV_REP of cache s.
LEMMA InvRepSeen ==
  ASSUME IInv, SafeLines, LivingLines, NEW h \in Core, TakeInvRep(h),
         NEW a, a = Head(inbox[h]).addr, NEW s, s = Head(inbox[h]).from
  PROVE  /\ ForwarderFits(a)'
         /\ \A k \in Core : SameReads(inbox', inbox, a, k)
         /\ Parked(a)' /\ Pend(a) # <<>> /\ Head(Pend(a)).type \notin {"UPGRADE_REQ", "SH_REQ"}
              => dir'[a].state # "UNCACHED"
<1>1. PICK now \in BOOLEAN : SharerGone(h, a, s, now)
  BY TakeInvRepTakes
<1>2. /\ a \in Addr /\ DirHome[a] = h /\ s \in Core /\ Parked(a) /\ Pend(a) = queue[a]
      /\ dir'[a].sharers = dir[a].sharers \ {s}
      /\ dir'[a].state = IF dir'[a].sharers = {} THEN "UNCACHED" ELSE dir[a].state
  BY <1>1 DEF SharerGone, Answered
<1>3. LineLives(a) /\ dir \in [Addr -> DirEntry] /\ dir[a] \in DirEntry
  BY <1>2 DEF LivingLines, IInv, TypeOK
<1>4. Received(h, "INV_REP") /\ inbox' = Rest(h)
  BY DEF TakeInvRep
<1>5. PICK e :
        /\ e = [dir[a] EXCEPT !.sharers = dir[a].sharers \ {s},
                              !.forwarder = IF @ = s THEN NoCore ELSE @,
                              !.state = IF dir[a].sharers \ {s} = {} THEN "UNCACHED" ELSE @]
        /\ dir' = [dir EXCEPT ![a] = e]
        /\ queue[a] # <<>> /\ InvRepResumes(Head(queue[a]), e, s) => GoTo(h, "head", a, "none")
  BY DEF TakeInvRep
<1>6. dir'[a] = e
  BY <1>2, <1>3, <1>5
<1>7. e.forwarder = IF dir[a].forwarder = s THEN NoCore ELSE dir[a].forwarder
  BY <1>3, <1>5, Zenon DEF DirEntry
<1>8. ForwarderFits(a)'
  <2>1. ~HeadAt(a) /\ ForwarderFits(a)
    BY <1>2, <1>3 DEF Parked, HeadAt, LineLives
  <2>2. QED
    BY <1>2, <1>6, <1>7, <2>1 DEF ForwarderFits
<1>9. \A k \in Core : SameReads(inbox', inbox, a, k)
  <2>1. PICK m : m = Head(inbox[h])
    OBVIOUS
  <2>2. AnswersOf(h, m, a, s)
    BY <1>4, <2>1 DEF AnswersOf, Received, FromCache, CacheReply
  <2>3. QED
    BY <1>2, <1>4, <2>2, AnswerOf
<1>10. ASSUME Parked(a)', Pend(a) # <<>>, Head(Pend(a)).type \notin {"UPGRADE_REQ", "SH_REQ"}
       PROVE  dir'[a].state # "UNCACHED"
  <2>1. ~GoTo(h, "head", a, "none")
    BY <1>2, <1>10, GoneTo
  <2>2. ~InvRepResumes(Head(queue[a]), e, s)
    BY <1>2, <1>5, <1>10, <2>1
  <2>3. QED
    BY <1>2, <1>6, <1>10, <2>2 DEF InvRepResumes
<1>11. QED
  BY <1>8, <1>9, <1>10

\* A sharer is gone: whom the request waits for it waited for before.
LEMMA FewerCalled ==
  ASSUME NEW a \in Addr, SharersFit(a), Entry(a)', NEW s, NEW c \in Core,
         Parked(a), Pend(a)' # <<>>, Pend(a) # <<>>, SameRequest(Head(Pend(a)'), Head(Pend(a))),
         dir'[a].sharers = dir[a].sharers \ {s}, s \in dir[a].sharers,
         dir'[a].owner = dir[a].owner,
         dir'[a].state = IF dir'[a].sharers = {} THEN "UNCACHED" ELSE dir[a].state,
         Called(a, c)'
  PROVE  Called(a, c) /\ c # s
<1> PICK r, q : r = Head(Pend(a)) /\ q = Head(Pend(a)')
  OBVIOUS
<1>1. q.type = r.type /\ q.from = r.from /\ q.waitForData = r.waitForData
      /\ q.forwardingFrom = r.forwardingFrom
  BY DEF SameRequest
<1>2. \A types : Blocked(a, types)' => Blocked(a, types)
  BY <1>1 DEF Blocked
<1>3. CASE InvLive(a, c)'
  <2>1. dir[a].state = "SHARED" /\ c \in dir[a].sharers /\ c # s
    BY <1>3 DEF InvLive
  <2>2. r.type = "UPGRADE_REQ" => r.from # c
    BY <1>1, <1>3 DEF InvLive
  <2>3. r.type # "SH_REQ"
    <3>1. SUFFICES ASSUME r.type = "SH_REQ" PROVE FALSE
      OBVIOUS
    <3>2. MaxHwSharers = 1
      BY <1>1, <1>3, <3>1 DEF InvLive
    <3>3. QED
      BY <2>1, <3>2 DEF SharersFit
  <2>4. InvLive(a, c)
    BY <1>2, <1>3, <2>1, <2>2, <2>3 DEF InvLive
  <2>5. QED
    BY <2>1, <2>4 DEF Called
<1>4. CASE FlushLive(a, c)'
  <2>1. /\ c \in dir[a].sharers /\ c # s /\ dir'[a].state = dir[a].state
        /\ Blocked(a, {"EX_REQ", "UPGRADE_REQ", "NULLIFY_REQ"})
    BY <1>2, <1>4 DEF FlushLive
  <2>2. CASE dir[a].state \in Owned
    BY <2>1, <2>2 DEF FlushLive, Called
  <2>3. CASE dir[a].state = "SHARED" /\ r.type = "UPGRADE_REQ"
    <3>1. r.from # c
      BY <1>1, <1>4, <2>1, <2>3 DEF FlushLive, Owned
    <3>2. InvLive(a, c)
      BY <2>1, <2>3, <3>1 DEF InvLive, Blocked
    <3>3. QED
      BY <2>1, <3>2 DEF Called
  <2>4. QED
    BY <1>1, <1>4, <2>1, <2>2, <2>3 DEF FlushLive
<1>5. CASE WbLive(a, c)'
  <2>1. Blocked(a, {"SH_REQ"}) /\ r.from # c
    BY <1>1, <1>2, <1>5 DEF WbLive
  <2>2. CASE IsOwner(a, c)'
    <3>1. dir'[a].state \in Owned /\ dir'[a].sharers = {c} /\ dir[a].owner = c
      BY <2>2 DEF IsOwner, Entry
    <3>2. dir[a].state \in Owned /\ c # s
      BY <3>1
    <3>3. QED
      BY <2>1, <3>1, <3>2 DEF IsOwner, WbLive, Called
  <2>3. CASE ~IsOwner(a, c)'
    <3>1. dir'[a].state = "SHARED" /\ c \in dir'[a].sharers /\ r.forwardingFrom = c
      BY <1>1, <1>5, <2>3 DEF WbLive
    <3>2. dir[a].state = "SHARED" /\ c \in dir[a].sharers /\ c # s
      BY <3>1
    <3>3. QED
      BY <2>1, <3>1, <3>2 DEF WbLive, Called
  <2>4. QED
    BY <2>2, <2>3
<1>6. QED
  BY <1>3, <1>4, <1>5 DEF Called

LEMMA TakeInvRepLives ==
  ASSUME IInv, SafeLines, AssertedLines, LivingLines, NEW h \in Core, TakeInvRep(h) PROVE LivingLines'
<1> SUFFICES ASSUME NEW a, a = Head(inbox[h]).addr, NEW s, s = Head(inbox[h]).from PROVE LivingLines'
  OBVIOUS
<1>1. PICK now \in BOOLEAN : SharerGone(h, a, s, now)
  BY TakeInvRepTakes
<1>2. /\ a \in Addr /\ DirHome[a] = h /\ s \in Core /\ llc' = llc
      /\ Parked(a) /\ Pend(a) = queue[a] /\ Pend(a)' = queue'[a] /\ queue'[a] = queue[a]
      /\ HomeTakes(inbox', inbox, "INV_REP", a, s)
      /\ \A c \in Core \ {s} : SameMail(inbox', inbox, a, c)
      /\ WorksOn(a) /\ OthersStay(a) /\ SafeLines'
      /\ Parked(a)' <=> ~now
      /\ s \in dir[a].sharers
      /\ dir'[a].sharers = dir[a].sharers \ {s} /\ dir'[a].owner = dir[a].owner
      /\ dir'[a].state = IF dir'[a].sharers = {} THEN "UNCACHED" ELSE dir[a].state
  BY <1>1 DEF SharerGone, Answered
<1>3. /\ ForwarderFits(a)'
      /\ \A k \in Core : SameReads(inbox', inbox, a, k)
      /\ Parked(a)' /\ Pend(a) # <<>> /\ Head(Pend(a)).type \notin {"UPGRADE_REQ", "SH_REQ"}
           => dir'[a].state # "UNCACHED"
  BY InvRepSeen
<1>4. LineLives(a) /\ LineAsserted(a)
  BY <1>2 DEF LivingLines, AssertedLines
<1> SUFFICES ASSUME NEW r, r = Head(queue[a]) PROVE LivingLines'
  OBVIOUS
<1>5. CASE queue[a] = <<>> \/ now
  <2>1. HeadAt(a)' => queue[a] # <<>>
    BY <1>1, <1>2, <1>5 DEF SharerGone, HeadAt, Parked
  <2>2. HeadAt(a)' /\ r.type = "SH_REQ" /\ r.forwardingFrom # NoCore => dir'[a].state \notin Owned
    <3>1. SUFFICES ASSUME HeadAt(a)', r.type = "SH_REQ", r.forwardingFrom # NoCore
                   PROVE  dir'[a].state \notin Owned
      OBVIOUS
    <3>2. now /\ queue[a] # <<>>
      BY <1>5, <2>1, <3>1
    <3>3. ~r.waitForData
      BY <1>1, <3>1, <3>2 DEF SharerGone
    <3>4. StillWaits(a)
      BY <1>2, <1>4, <3>1, <3>2, <3>3 DEF LineLives, HeadLives, Blocked, AnyReq
    <3>5. dir[a].state = "SHARED"
      BY <1>2, <3>1, <3>4 DEF StillWaits
    <3>6. QED
      BY <1>2, <3>5 DEF Owned
  <2>3. NothingIsCalled(a)'
    BY <1>2, <1>3, <1>5, <2>2 DEF NothingIsCalled
  <2>4. QED
    BY <1>2, <2>3, NothingCalledLives
<1>6. CASE queue[a] # <<>> /\ ~now
  <2>1. HeadStays(a)
    BY <1>2, <1>6 DEF HeadStays, SameRequest
  <2>2. ASSUME NEW c \in Core, Called(a, c)' PROVE Called(a, c) /\ StandsStill(a, c)
    <3>1. Entry(a)' /\ SharersFit(a)
      BY <1>2, <1>4 DEF SafeLines, LineInv, LineAsserted
    <3>2. Called(a, c) /\ c # s
      BY <1>2, <2>1, <2>2, <3>1, FewerCalled DEF HeadStays
    <3>3. QED
      BY <1>2, <3>2, HomeTakesStill
  <2>3. ASSUME Blocked(a, AnyReq)' PROVE StillWaits(a)'
    <3>1. r.type \in AnyReq /\ ~r.waitForData
      BY <1>2, <2>3 DEF Blocked
    <3>2. StillWaits(a)
      BY <1>2, <1>4, <1>6, <3>1 DEF LineLives, HeadLives, Blocked
    <3>3. r.type = "UPGRADE_REQ" => ~(dir'[a].sharers \subseteq {r.from})
      BY <1>1, <1>6 DEF SharerGone
    <3>4. r.type = "SH_REQ" =>
            dir'[a].state = "SHARED" /\ r.forwardingFrom \in dir'[a].sharers \ {r.from}
      <4>1. SUFFICES ASSUME r.type = "SH_REQ"
                     PROVE  dir'[a].state = "SHARED" /\ r.forwardingFrom \in dir'[a].sharers \ {r.from}
        OBVIOUS
      <4>2. r.forwardingFrom \notin {NoCore, s}
        BY <1>1, <1>6, <3>1, <4>1 DEF SharerGone
      <4>3. dir[a].state = "SHARED" /\ r.forwardingFrom \in dir[a].sharers \ {r.from}
        BY <1>2, <3>2, <4>1, <4>2 DEF StillWaits
      <4>4. QED
        BY <1>2, <4>2, <4>3
    <3>5. r.type \in {"EX_REQ", "NULLIFY_REQ"} => dir'[a].state # "UNCACHED"
      BY <1>2, <1>3, <1>6
    <3>6. QED
      BY <1>2, <3>3, <3>4, <3>5 DEF StillWaits
  <2>4. LineLives(a)'
    BY <1>2, <1>3, <1>4, <2>1, <2>2, <2>3, HeadStaysLives
  <2>5. QED
    BY <1>2, <2>4, OtherLinesLive
<1>7. QED
  BY <1>5, <1>6

\* A sharer has flushed the line.  Only an upgrade of a cache without the line
\* may wait for others still.
LEMMA FlushRepSeen ==
  ASSUME IInv, SafeLines, NEW h \in Core, TakeFlushRep(h),
         NEW a, a = Head(inbox[h]).addr, NEW s, s = Head(inbox[h]).from
  PROVE  /\ dir'[a].forwarder = NoCore
         /\ \A k \in Core : SameReads(inbox', inbox, a, k)
         /\ Parked(a)' /\ dir'[a].sharers = {} => queue[a] = <<>>
<1>1. PICK now \in BOOLEAN : FlushTaken(h, a, s, now)
  BY TakeFlushRepTakes
<1>2. /\ a \in Addr /\ DirHome[a] = h /\ s \in Core
      /\ dir'[a].sharers = dir[a].sharers \ {s}
  BY <1>1 DEF FlushTaken, Answered
<1>3. dir \in [Addr -> DirEntry] /\ dir[a] \in DirEntry
  BY <1>2 DEF IInv, TypeOK
<1>4. PICK e, left, m :
        /\ left = dir[a].sharers \ {s} /\ m = Head(inbox[h])
        /\ e = [dir[a] EXCEPT !.sharers = left, !.owner = NoCore, !.forwarder = NoCore,
                              !.state = IF left = {} THEN "UNCACHED" ELSE @]
        /\ dir' = [dir EXCEPT ![a] = e]
        /\ Received(h, "FLUSH_REP")
        /\ inbox' = Rest(h) \/ inbox' = ToDram(Rest(h), m, h)
        /\ left = {} /\ Waits(a) # "none" => \E data : GoTo(h, "head", a, data)
  BY DEF TakeFlushRep
<1>5. dir'[a].forwarder = NoCore
  <2>1. e.forwarder = NoCore
    BY <1>3, <1>4, Zenon DEF DirEntry
  <2>2. QED
    BY <1>2, <1>3, <1>4, <2>1
<1>6. ASSUME Parked(a)', dir'[a].sharers = {} PROVE queue[a] = <<>>
  <2>1. \A data : ~GoTo(h, "head", a, data)
    BY <1>2, <1>6, GoneTo
  <2>2. Waits(a) = "none"
    BY <1>2, <1>4, <1>6, <2>1
  <2>3. CASE queue[a] # <<>>
    <3>1. Head(queue[a]) \in Request
      BY <1>2, <2>3 DEF IInv, TypeOK
    <3>2. QED
      BY <2>2, <2>3, <3>1 DEF Waits, Request, DemandReq
  <2>4. QED
    BY <2>3
<1>7. ASSUME NEW k \in Core PROVE SameReads(inbox', inbox, a, k)
  <2>1. AnswersOf(h, m, a, s)
    BY <1>4 DEF AnswersOf, Received, FromCache, CacheReply
  <2>2. SameReads(Rest(h), inbox, a, k)
    BY <1>2, <2>1, AnswerOf
  <2>3. CASE inbox' = Rest(h)
    BY <2>2, <2>3
  <2>4. CASE inbox' = ToDram(Rest(h), m, h)
    <3>1. InboxOK(Rest(h)) /\ m \in Message
      BY <1>4, RestOK, HeadOK DEF IInv, Received, MessagesTo
    <3>2. Posted(inbox', Rest(h), "DRAM_WRITE_REQ", a, h, {DramHome[m.addr]})
      BY <1>2, <1>4, <2>4, <3>1, DeliverPosts DEF ToDram, MsgType, DramMsg, Message
    <3>3. SameReads(inbox', Rest(h), a, k)
      BY <1>2, <3>2, PostedNoRead
    <3>4. QED
      BY <2>2, <3>3 DEF SameReads
  <2>5. QED
    BY <1>4, <2>3, <2>4
<1>8. QED
  BY <1>5, <1>6, <1>7

LEMMA TakeFlushRepLives ==
  ASSUME IInv, SafeLines, LivingLines, NEW h \in Core, TakeFlushRep(h) PROVE LivingLines'
<1> SUFFICES ASSUME NEW a, a = Head(inbox[h]).addr, NEW s, s = Head(inbox[h]).from PROVE LivingLines'
  OBVIOUS
<1>1. PICK now \in BOOLEAN : FlushTaken(h, a, s, now)
  BY TakeFlushRepTakes
<1>2. /\ a \in Addr /\ DirHome[a] = h /\ s \in Core /\ llc' = llc
      /\ Parked(a) /\ Pend(a) = queue[a] /\ Pend(a)' = queue'[a]
      /\ SameRequests(queue'[a], queue[a])
      /\ HomeTakes(inbox', inbox, "FLUSH_REP", a, s)
      /\ \A c \in Core \ {s} : SameMail(inbox', inbox, a, c)
      /\ WorksOn(a) /\ OthersStay(a) /\ SafeLines'
      /\ Parked(a)' <=> ~now
      /\ dir'[a].sharers = dir[a].sharers \ {s}
      /\ dir'[a].state = IF dir'[a].sharers = {} THEN "UNCACHED" ELSE dir[a].state
      /\ dir'[a].sharers # {} => /\ dir[a].state = "SHARED" /\ ~now
                                 /\ queue[a] # <<>> /\ Head(queue[a]).type = "UPGRADE_REQ"
                                 /\ Head(queue[a]).from \notin dir[a].sharers
  BY <1>1 DEF FlushTaken, Answered
<1>2a. \A c \in Core \ {s} : StandsStill(a, c)
  <2>1. HomeTakes(inbox', inbox, "FLUSH_REP", a, s) /\ llc' = llc
    BY <1>2
  <2>2. \A c \in Core \ {s} : SameMail(inbox', inbox, a, c)
    BY <1>2
  <2>3. QED
    BY <2>1, <2>2, HomeTakesStill
<1>3. /\ dir'[a].forwarder = NoCore
      /\ \A k \in Core : SameReads(inbox', inbox, a, k)
      /\ Parked(a)' /\ dir'[a].sharers = {} => queue[a] = <<>>
  BY FlushRepSeen
<1>4. ForwarderFits(a)'
  BY <1>3 DEF ForwarderFits
<1>5. CASE dir'[a].sharers = {}
  <2>1. dir'[a].state \notin Owned
    BY <1>2, <1>5 DEF Owned
  <2>2. ~Parked(a)' \/ Pend(a)' = <<>>
    BY <1>2, <1>3, <1>5 DEF SameRequests
  <2>3. NothingIsCalled(a)'
    BY <1>4, <2>1, <2>2 DEF NothingIsCalled
  <2>4. QED
    BY <1>2, <2>3, NothingCalledLives
<1>6. CASE dir'[a].sharers # {}
  <2>1. /\ dir[a].state = "SHARED" /\ dir'[a].state = "SHARED" /\ Parked(a)' /\ Pend(a) # <<>>
        /\ Head(Pend(a)).type = "UPGRADE_REQ" /\ Head(Pend(a)).from \notin dir[a].sharers
    BY <1>2, <1>6
  <2>2. HeadStays(a)
    BY <1>2, <2>1 DEF HeadStays, SameRequests, SameRequest
  <2>3. /\ Pend(a)' # <<>> /\ Head(Pend(a)').type = "UPGRADE_REQ"
        /\ Head(Pend(a)').from = Head(Pend(a)).from
        /\ Head(Pend(a)').waitForData = Head(Pend(a)).waitForData
    BY <2>1, <2>2 DEF HeadStays, SameRequest
  <2>4. ASSUME NEW c \in Core, Called(a, c)' PROVE Called(a, c) /\ StandsStill(a, c)
    <3>1. Blocked(a, {"UPGRADE_REQ"}) /\ c \in dir'[a].sharers
      BY <1>2, <2>1, <2>3, <2>4 DEF Called, InvLive, FlushLive, WbLive, Blocked
    <3>2. c \in dir[a].sharers /\ c # s
      BY <1>2, <3>1
    <3>3. Called(a, c)
      BY <2>1, <3>1, <3>2 DEF Called, InvLive, Blocked
    <3>4. StandsStill(a, c)
      BY <1>2a, <3>2
    <3>5. QED
      BY <3>3, <3>4
  <2>5. StillWaits(a)'
    <3>1. dir'[a].sharers \subseteq dir[a].sharers
      BY <1>2
    <3>2. Head(Pend(a)').from \notin dir'[a].sharers
      BY <2>1, <2>3, <3>1
    <3>3. ~(dir'[a].sharers \subseteq {Head(Pend(a)').from})
      BY <1>6, <3>2
    <3>4. QED
      BY <2>3, <3>3 DEF StillWaits
  <2>6. LineLives(a)'
    <3>1. LineLives(a)
      BY <1>2 DEF LivingLines
    <3>2. QED
      BY <1>2, <1>3, <1>4, <2>2, <2>4, <2>5, <3>1, HeadStaysLives
  <2>7. QED
    BY <1>2, <2>6, OtherLinesLive
<1>7. QED
  BY <1>5, <1>6

\* The owner, or the forwarder, has written the line back: the reader goes on
\* with its data.
LEMMA TakeWbRepLives ==
  ASSUME IInv, SafeLines, DataThere, LivingLines, NEW h \in Core, TakeWbRep(h) PROVE LivingLines'
<1> SUFFICES ASSUME NEW m, m = Head(inbox[h]), NEW a, a = m.addr, NEW s, s = m.from PROVE LivingLines'
  OBVIOUS
<1>1. WroteBack(h, a, s)
  BY TakeWbRepTakes
<1>2. /\ a \in Addr /\ DirHome[a] = h /\ WorksOn(a) /\ OthersStay(a) /\ SafeLines'
      /\ dir'[a].state = "SHARED" /\ queue'[a] = queue[a]
  BY <1>1 DEF WroteBack, Answered
<1>3. /\ Received(h, "WB_REP") /\ GoTo(h, "head", a, m.data) /\ Head(queue[a]).type = "SH_REQ"
  BY DEF TakeWbRep, WbRepIsExpected
<1>4. m.data # "none"
  <2>1. m \in Message /\ inbox[h] \in Seq(Message) /\ inbox[h] # <<>> /\ m.type = "WB_REP"
    BY <1>3, HeadOK DEF IInv, Received, MessagesTo, InboxOK
  <2>2. m = inbox[h][1] /\ 1 \in DOMAIN inbox[h]
    BY <2>1
  <2>3. QED
    BY <2>1, <2>2 DEF DataThere, Has, Blank, Carrying
<1>5. /\ net'[h].at = "head" /\ net'[h].addr = a /\ net'[h].data = m.data /\ ~Parked(a)'
  BY <1>2, <1>3, GoneTo
<1>6. ForwarderFits(a)'
  BY <1>2, <1>3, <1>4, <1>5 DEF ForwarderFits, HeadAt
<1>7. NothingIsCalled(a)'
  BY <1>2, <1>5, <1>6 DEF NothingIsCalled, Owned
<1>8. QED
  BY <1>2, <1>7, NothingCalledLives

\* The entry of line v is replaced for another line: whoever has v gives it up.
LEMMA AllocateLives ==
  ASSUME IInv, SafeLines, LivingLines, NEW h \in Core, Allocate(h) PROVE LivingLines'
<1> SUFFICES ASSUME NEW a, a = net[h].addr PROVE LivingLines'
  OBVIOUS
<1>1. /\ net[h].at = "head" /\ a \notin present \cup replaced
      /\ llc' = llc /\ waiters' = waiters /\ net' = net
  BY DEF Allocate, cacheVars
<1>2. a \in Addr /\ DirHome[a] = h /\ queue[a] # <<>> /\ Head(queue[a]).from \in Core
  BY <1>1, AtWork
<1>3. PICK v, r :
        /\ v \in Victims(a) /\ r = NewRequest("NULLIFY_REQ", Head(queue[a]).from)
        /\ present' = (present \ {v}) \cup {a}
        /\ dir[v].state = "UNCACHED" =>
             /\ \E e \in NewEntries : dir' = [dir EXCEPT ![v] = e]
             /\ replaced' = replaced /\ queue' = queue /\ inbox' = inbox
        /\ dir[v].state # "UNCACHED" =>
             /\ queue' = [queue EXCEPT ![v] = <<r>>]
             /\ inbox' = Deliver(inbox, Msg(NullifyType(v), v, h, "none"), NullifyTo(v))
             /\ dir' = dir
  BY DEF Allocate
<1>4. v \in Addr /\ DirHome[v] = h /\ v # a /\ queue[v] = <<>>
  BY <1>1, <1>2, <1>3 DEF Victims, SetOf
<1>5. /\ LineInv(v) /\ LineLives(v) /\ Parked(v) /\ Parked(v)' /\ ~HeadAt(v) /\ ~HeadAt(v)'
      /\ Pend(v)' = queue'[v]
      /\ dir \in [Addr -> DirEntry] /\ queue \in [Addr -> Seq(Request)]
  BY <1>1, <1>2, <1>4 DEF SafeLines, LivingLines, Parked, HeadAt, Pend, IInv, TypeOK
<1>6. PICK w \in Addr : Replaces(w)
  BY AllocateReplaces
<1>7. OthersStay(w) /\ SafeLines'
  BY <1>6 DEF Replaces
<1>8. CASE dir[v].state = "UNCACHED"
  <2>1. PICK e \in NewEntries : dir' = [dir EXCEPT ![v] = e]
    BY <1>3, <1>8
  <2>2. dir'[v].state = "UNCACHED" /\ \A b \in Addr \ {v} : dir'[b] = dir[b]
    BY <1>4, <1>5, <2>1 DEF NewEntries
  <2>3. queue' = queue /\ inbox' = inbox /\ replaced' = replaced
    BY <1>3, <1>8
  <2>4. OthersStay(v)
    BY <1>1, <1>3, <2>2, <2>3 DEF OthersStay, SameMail, SameMailAbout, SameReads
  <2>5. NothingIsCalled(v)'
    BY <1>4, <1>5, <2>2, <2>3 DEF NothingIsCalled, ForwarderFits
  <2>6. QED
    BY <1>1, <1>4, <1>7, <2>4, <2>5, NothingCalledLives
<1>9. CASE dir[v].state # "UNCACHED"
  <2>1. /\ queue' = [queue EXCEPT ![v] = <<r>>] /\ dir' = dir
        /\ inbox' = Deliver(inbox, Msg(NullifyType(v), v, h, "none"), NullifyTo(v))
    BY <1>3, <1>9
  <2>2. r.type = "NULLIFY_REQ" /\ ~r.waitForData
    BY <1>3 DEF NewRequest
  <2>3. queue'[v] = <<r>>
    BY <1>4, <1>5, <2>1
  <2>4. Pend(v)' # <<>> /\ Head(Pend(v)') = r
    BY <1>5, <2>3
  <2>5. OthersStay(v)
    <3>1. w = v
      <4>1. SUFFICES ASSUME w # v PROVE FALSE
        OBVIOUS
      <4>2. queue'[v] = queue[v]
        BY <1>4, <1>7, <4>1 DEF OthersStay
      <4>3. QED
        BY <1>4, <1>5, <2>4, <4>2
    <3>2. QED
      BY <1>7, <3>1
  <2>6. ~HeadWaits(v)'
    BY <2>2, <2>4 DEF HeadWaits
  <2>7. StillWaits(v)'
    BY <1>9, <2>1, <2>2, <2>4 DEF StillWaits
  <2>8. ForwarderFits(v)'
    BY <1>5, <2>1 DEF LineLives, ForwarderFits
  <2>9. NullifyType(v) \in MsgType /\ NullifyType(v) \in DirCommand /\ "none" \in Data
    BY DEF NullifyType, MsgType, DirCommand, Data
  <2>10. Posted(inbox', inbox, NullifyType(v), v, h, NullifyTo(v))
    BY <1>4, <2>1, <2>9, DeliverPosts DEF IInv
  <2>11. ASSUME NEW c \in Core, Called(v, c)' PROVE CommandStands(v, c)'
    <3>1. ~WbLive(v, c)'
      BY <2>2, <2>4 DEF WbLive, Blocked
    <3>2. c \in dir[v].sharers /\ dir[v].state \in Owned \cup {"SHARED"}
      BY <2>1, <2>2, <2>4, <2>11, <3>1 DEF Called, InvLive, FlushLive
    <3>3. c \in NullifyTo(v)
      BY <1>5, <3>2 DEF NullifyTo, LineInv, Entry, Owned
    <3>4. Commanded(inbox', v, c)
      BY <1>4, <2>9, <2>10, <3>3, CommandReaches
    <3>5. QED
      BY <3>4 DEF CommandStands, Commanded
  <2>12. LineLives(v)'
    BY <1>5, <2>6, <2>7, <2>8, <2>11 DEF LineLives, HeadLives, DramLives, CommandStands
  <2>13. QED
    BY <1>1, <1>4, <2>5, <2>12, OtherLinesLive
<1>10. QED
  BY <1>8, <1>9

\* Every step keeps requests alive.
LEMMA LinesLiveOn ==
  ASSUME RoomForSharers, IInv, SafeLines, AssertedLines, NoForwarding, LivingLines, TailForwards,
         DataThere, [Next]_vars
  PROVE  LivingLines'
<1>1. CASE UNCHANGED vars
  <2>1. \A a \in Addr : LineLives(a)' <=> LineLives(a)
    BY <1>1 DEF vars, LineLives, CommandStands, Called, InvLive, FlushLive, WbLive, Blocked, IsOwner,
                HeadLives, StillWaits, DramLives, HeadWaits, ForwarderFits, HeadAt, Pend, Parked
  <2>2. QED
    BY <2>1 DEF LivingLines
<1>2. ASSUME NEW c \in Core, NetStep(c) PROVE LivingLines'
  <2>1. CASE CacheMessage(c)
    BY <2>1, CacheMessageLives
  <2>2. CASE ServeWaiters(c)
    BY <2>2, ServingLives, WakeLives DEF ServeWaiters
  <2>3. CASE DirectoryMessage(c)
    BY <2>3, TakeRequestLives, TakeInvRepLives, TakeFlushRepLives, TakeWbRepLives, AnsweredLives
       DEF DirectoryMessage
  <2>4. CASE ProcessRequest(c)
    BY <2>4, AllCommandsLive, UpgradeInvalidateLives, GrantsLive, ShShareLives, AnsweredLives,
       AllocateLives, NextRequestLives
       DEF ProcessRequest
  <2>5. CASE DramMessage(c)
    BY <2>5, DramLivesOn DEF DramMessage
  <2>6. QED
    BY <1>2, <2>1, <2>2, <2>3, <2>4, <2>5 DEF NetStep
<1>3. ASSUME NEW t \in Thread, NEW a \in Addr, Access(t, a) PROVE LivingLines'
  BY <1>3, WriteHitLives, MissLives DEF Access
<1>4. ASSUME NEW c \in Core, NEW a \in Addr, Evict(c, a) PROVE LivingLines'
  BY <1>4, EvictLives
<1>5. QED
  BY <1>1, <1>2, <1>3, <1>4 DEF Next
=============================================================================
