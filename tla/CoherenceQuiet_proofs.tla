------------------------ MODULE CoherenceQuiet_proofs ------------------------
EXTENDS CoherenceProgress_proofs

USE MapsAssumption

(* Only the request at the head of a queue has been sent to a forwarder *)

\* What is noted in a request is noted at the head.
LEMMA NotedTail ==
  ASSUME IInv, TailForwards, NEW a, NEW x,
         \/ queue' = queue
         \/ queue' = [queue EXCEPT ![a][1].waitForData = x]
         \/ queue' = [queue EXCEPT ![a][1].forwardingFrom = x]
         \/ queue' = [queue EXCEPT ![a][1].data = x]
  PROVE  TailForwards'
<1> SUFFICES ASSUME NEW b \in Addr, NEW i \in DOMAIN queue'[b], i # 1
             PROVE  queue'[b][i].forwardingFrom = NoCore
  BY DEF TailForwards
<1>1. queue \in [Addr -> Seq(Request)]
  BY DEF IInv, TypeOK
<1>2. i \in DOMAIN queue[b] /\ queue'[b][i] = queue[b][i]
  <2>1. CASE queue' = queue
    BY <2>1
  <2>2. CASE queue' = [queue EXCEPT ![a][1].waitForData = x]
    BY <1>1, <2>2
  <2>3. CASE queue' = [queue EXCEPT ![a][1].forwardingFrom = x]
    BY <1>1, <2>3
  <2>4. CASE queue' = [queue EXCEPT ![a][1].data = x]
    BY <1>1, <2>4
  <2>5. QED
    BY <2>1, <2>2, <2>3, <2>4
<1>3. QED
  BY <1>2 DEF TailForwards

\* A request that joins the queue has not been.
LEMMA JoinedTail ==
  ASSUME IInv, TailForwards, NEW h \in Core, TakeRequest(h) PROVE TailForwards'
<1> SUFFICES ASSUME NEW b \in Addr, NEW i \in DOMAIN queue'[b], i # 1
             PROVE  queue'[b][i].forwardingFrom = NoCore
  BY DEF TailForwards
<1>1. PICK a, r : /\ queue' = [queue EXCEPT ![a] = Append(queue[a], r)]
                  /\ r.forwardingFrom = NoCore
  <2>1. \A type, f : NewRequest(type, f).forwardingFrom = NoCore
    BY DEF NewRequest
  <2>2. PICK type : queue' = [queue EXCEPT ![Head(inbox[h]).addr] = Append(@, NewRequest(type, Head(inbox[h]).from))]
    BY DEF TakeRequest
  <2>3. QED
    BY <2>1, <2>2, Zenon
<1>2. queue \in [Addr -> Seq(Request)]
  BY DEF IInv, TypeOK
<1>3. CASE b = a
  <2>1. queue'[b] = Append(queue[b], r) /\ queue[b] \in Seq(Request)
    BY <1>1, <1>2, <1>3
  <2>2. \/ i \in DOMAIN queue[b] /\ queue'[b][i] = queue[b][i]
        \/ queue'[b][i] = r
    BY <2>1
  <2>3. QED
    BY <1>1, <2>2 DEF TailForwards
<1>4. CASE b # a
  BY <1>1, <1>2, <1>4 DEF TailForwards
<1>5. QED
  BY <1>3, <1>4

LEMMA WrittenTail ==
  ASSUME IInv, TailForwards, NEW c, NEW a, WrittenAt(c, a) PROVE TailForwards'
<1> SUFFICES ASSUME NEW b \in Addr, NEW i \in DOMAIN queue'[b], i # 1
             PROVE  queue'[b][i].forwardingFrom = NoCore
  BY DEF TailForwards
<1>1. queue \in [Addr -> Seq(Request)]
  BY DEF IInv, TypeOK
<1>2. /\ i \in DOMAIN queue[b]
      /\ queue'[b][i] = queue[b][i] \/ queue'[b][i] = Aged(queue[b][i])
  BY <1>1, Zenon DEF WrittenAt
<1>3. queue[b][i] \in Request /\ queue[b][i].forwardingFrom = NoCore
  BY <1>1, <1>2 DEF TailForwards
<1>4. Aged(queue[b][i]).forwardingFrom = NoCore
  BY <1>3 DEF Aged, Request
<1>5. QED
  BY <1>2, <1>3, <1>4

\* A queue of one request has no tail.
LEMMA AllocatedTail ==
  ASSUME IInv, TailForwards, NEW h \in Core, Allocate(h) PROVE TailForwards'
<1> SUFFICES ASSUME NEW b \in Addr, NEW i \in DOMAIN queue'[b], i # 1
             PROVE  queue'[b][i].forwardingFrom = NoCore
  BY DEF TailForwards
<1>1. PICK v, r : queue' = queue \/ queue' = [queue EXCEPT ![v] = <<r>>]
  BY Zenon DEF Allocate
<1>2. queue \in [Addr -> Seq(Request)]
  BY DEF IInv, TypeOK
<1>3. b = v /\ queue' = [queue EXCEPT ![v] = <<r>>] => DOMAIN queue'[b] = {1}
  <2>1. DOMAIN <<r>> = {1}
    OBVIOUS
  <2>2. QED
    BY <1>2, <2>1
<1>4. queue'[b] = queue[b]
  BY <1>1, <1>2, <1>3
<1>5. QED
  BY <1>4 DEF TailForwards

LEMMA FinishedTail ==
  ASSUME IInv, TailForwards, NEW h \in Core, NextRequest(h) PROVE TailForwards'
<1> SUFFICES ASSUME NEW b \in Addr, NEW i \in DOMAIN queue'[b], i # 1
             PROVE  queue'[b][i].forwardingFrom = NoCore
  BY DEF TailForwards
<1>1. PICK a : queue' = [queue EXCEPT ![a] = Tail(queue[a])] /\ net[h].at = "next" /\ a = net[h].addr
  BY DEF NextRequest
<1>2. queue \in [Addr -> Seq(Request)] /\ queue[a] # <<>>
  BY <1>1 DEF IInv, TypeOK, NetOK
<1>3. CASE b = a
  <2>1. queue'[b] = Tail(queue[b]) /\ queue[b] \in Seq(Request) /\ queue[b] # <<>>
    BY <1>1, <1>2, <1>3
  <2>2. i + 1 \in DOMAIN queue[b] /\ i + 1 # 1 /\ queue'[b][i] = queue[b][i + 1]
    BY <2>1
  <2>3. QED
    BY <2>2 DEF TailForwards
<1>4. CASE b # a
  BY <1>1, <1>2, <1>4 DEF TailForwards
<1>5. QED
  BY <1>3, <1>4

\* Every step keeps it.
LEMMA TailStays == ASSUME IInv, TailForwards, [Next]_vars PROVE TailForwards'
<1>1. ASSUME queue' = queue PROVE TailForwards'
  BY <1>1 DEF TailForwards
<1>2. ASSUME NEW c \in Core, CacheMessage(c) PROVE TailForwards'
  BY <1>1, <1>2 DEF CacheMessage, Fill, FinishUpgrade, IgnoreCommand, Invalidate, Flush, WriteBack, dirVars
<1>3. ASSUME NEW c \in Core, ServeWaiters(c) PROVE TailForwards'
  <2>1. ASSUME Wake(c) PROVE TailForwards'
    BY <1>1, <2>1, WrittenTail DEF Wake
  <2>2. ASSUME ServeByUpgrade(c) \/ RemoveWaiter(c) \/ AllServed(c) PROVE TailForwards'
    BY <1>1, <2>2 DEF ServeByUpgrade, RemoveWaiter, AllServed, dirVars
  <2>3. QED
    BY <1>3, <2>1, <2>2 DEF ServeWaiters
<1>4. ASSUME NEW c \in Core, DirectoryMessage(c) PROVE TailForwards'
  <2>1. ASSUME TakeInvRep(c) \/ TakeWbRep(c) \/ TakeDramRep(c) PROVE TailForwards'
    BY <1>1, <2>1 DEF TakeInvRep, TakeWbRep, TakeDramRep, dirVars
  <2>2. ASSUME TakeFlushRep(c) PROVE TailForwards'
    BY <2>2, NotedTail DEF TakeFlushRep
  <2>3. QED
    BY <1>4, <2>1, <2>2, JoinedTail DEF DirectoryMessage
<1>5. ASSUME NEW c \in Core, ProcessRequest(c) PROVE TailForwards'
  <2>1. ASSUME \/ ExFlush(c) \/ ExInvalidate(c) \/ ShWriteBack(c) \/ ShMakeRoom(c)
               \/ UpgradeGrant(c) \/ UpgradeFlush(c) \/ UpgradeInvalidate(c) \/ Nullified(c)
        PROVE  TailForwards'
    BY <1>1, <2>1 DEF ExFlush, ExInvalidate, ShWriteBack, ShMakeRoom, UpgradeGrant, UpgradeFlush,
       UpgradeInvalidate, Nullified, Command, dirVars
  <2>2. ASSUME NEW rep, NEW to, NEW data, NEW e, Retrieve(c, rep, to, data, e) PROVE TailForwards'
    BY <2>2, NotedTail DEF Retrieve
  <2>3. ASSUME ExGrant(c) \/ ShShare(c) \/ ShFirst(c) \/ UpgradeAsExclusive(c) PROVE TailForwards'
    BY <2>2, <2>3 DEF ExGrant, ShShare, ShFirst, UpgradeAsExclusive
  <2>4. QED
    BY <1>5, <2>1, <2>3, AllocatedTail, FinishedTail DEF ProcessRequest
<1>6. ASSUME NEW c \in Core, DramMessage(c) PROVE TailForwards'
  BY <1>1, <1>6 DEF DramMessage, DramRead, DramWrite, dirVars
<1>7. ASSUME NEW t \in Thread, NEW a \in Addr, Access(t, a) PROVE TailForwards'
  <2>1. ASSUME WriteHit(t, a) PROVE TailForwards'
    BY <2>1, WrittenTail DEF WriteHit
  <2>2. ASSUME NEW exclusive, Miss(t, a, exclusive) PROVE TailForwards'
    BY <1>1, <2>2 DEF Miss, dirVars
  <2>3. QED
    BY <1>7, <2>1, <2>2 DEF Access
<1>8. ASSUME NEW c \in Core, NEW a \in Addr, Evict(c, a) PROVE TailForwards'
  BY <1>1, <1>8 DEF Evict, dirVars
<1>9. CASE UNCHANGED vars
  BY <1>1, <1>9 DEF vars
<1>10. QED
  BY <1>2, <1>3, <1>4, <1>5, <1>6, <1>7, <1>8, <1>9 DEF Next, NetStep

(* The data of a line is never missing where it is sent or kept *)

Filled(box) == box \in [Core -> Seq(Message)] /\ \A c \in Core : ~Has(box[c], Blank)

\* Nothing without data is in the inboxes, nor left there when a message is taken, ...
LEMMA RestFilled ==
  ASSUME IInv, DataThere, NEW c \in Core, inbox[c] # <<>>
  PROVE  /\ Filled(inbox) /\ Filled(Rest(c))
         /\ Head(inbox[c]).type \in Carrying => Head(inbox[c]).data # "none"
<1>1. inbox \in [Core -> Seq(Message)] /\ inbox[c] \in Seq(Message)
  BY DEF IInv, TypeOK
<1>2. \A k \in Core : ~Has(inbox[k], Blank)
  BY DEF DataThere
<1>3. Head(inbox[c]) \in Message /\ Tail(inbox[c]) \in Seq(Message)
  BY <1>1
<1>4. Head(inbox[c]) \notin Blank /\ ~Has(Tail(inbox[c]), Blank)
  BY <1>1, <1>2, TailHas
<1>5. Filled(Rest(c))
  BY <1>1, <1>2, <1>3, <1>4 DEF Filled, Rest
<1>6. QED
  BY <1>1, <1>2, <1>3, <1>4, <1>5 DEF Filled, Blank

\* ... nor when one with data, or one that needs none, is sent.
LEMMA PostFilled ==
  ASSUME NEW box, Filled(box), NEW type \in MsgType, NEW a \in Addr, NEW from \in Core, NEW data \in Data,
         type \notin Carrying \/ data # "none", NEW to
  PROVE  Filled(Deliver(box, Msg(type, a, from, data), to))
<1> DEFINE m == Msg(type, a, from, data)
<1>1. m \in Message /\ m \notin Blank
  BY MsgOK DEF Blank, Msg
<1> HIDE DEF m
<1>2. ASSUME NEW c \in Core
      PROVE  Deliver(box, m, to)[c] \in Seq(Message) /\ ~Has(Deliver(box, m, to)[c], Blank)
  <2>1. box[c] \in Seq(Message) /\ ~Has(box[c], Blank)
    BY DEF Filled
  <2>2. Deliver(box, m, to)[c] = IF c \in to THEN Append(box[c], m) ELSE box[c]
    BY DEF Deliver
  <2>3. Append(box[c], m) \in Seq(Message) /\ ~Has(Append(box[c], m), Blank)
    BY <1>1, <2>1, AppendHas
  <2>4. QED
    BY <2>1, <2>2, <2>3
<1>3. DOMAIN Deliver(box, m, to) = Core /\ Deliver(box, m, to) = [c \in Core |-> Deliver(box, m, to)[c]]
  BY DEF Deliver
<1>4. Filled(Deliver(box, m, to))
  BY <1>2, <1>3 DEF Filled
<1>5. QED
  BY <1>4 DEF m

\* Steps that write nothing to DRAM, and nothing missing to a cache.
LEMMA KeptThere ==
  ASSUME DataThere, dram' = dram, inbox' = inbox \/ Filled(inbox'),
         \A c \in Core, a \in Addr :
           llc'[c][a] # "INVALID" =>
             \/ llc[c][a] # "INVALID" /\ copy'[c][a] = copy[c][a]
             \/ copy'[c][a] # "none"
  PROVE  DataThere'
  BY DEF DataThere, Filled

LEMMA FillThere ==
  ASSUME IInv, DataThere, NEW c \in Core, Fill(c) PROVE DataThere'
<1> SUFFICES ASSUME NEW m, m = Head(inbox[c]), NEW a, a = m.addr PROVE DataThere'
  OBVIOUS
<1>1. PICK state : /\ inbox[c] # <<>> /\ m.type \in Grant
                   /\ llc' = [llc EXCEPT ![c][a] = state]
                   /\ copy' = [copy EXCEPT ![c][a] = m.data]
                   /\ inbox' = Rest(c) /\ dram' = dram
  BY DEF Fill, Received, Grant
<1>2. m.data # "none" /\ Filled(inbox')
  BY <1>1, RestFilled DEF Carrying
<1>3. llc \in [Core -> [Addr -> CacheState]] /\ copy \in [Core -> [Addr -> Data]]
  BY DEF IInv, TypeOK
<1>4. ASSUME NEW k \in Core, NEW b \in Addr
      PROVE  \/ llc'[k][b] = llc[k][b] /\ copy'[k][b] = copy[k][b]
             \/ copy'[k][b] = m.data
  BY <1>1, <1>3
<1>5. QED
  BY <1>1, <1>2, <1>4, KeptThere

\* Messages to a cache that keeps the line or gives it up.
LEMMA CommandThere ==
  ASSUME IInv, DataThere, NEW c \in Core,
         \/ FinishUpgrade(c) \/ IgnoreCommand(c) \/ Invalidate(c) \/ Flush(c) \/ WriteBack(c)
  PROVE  DataThere'
<1> SUFFICES ASSUME NEW m, m = Head(inbox[c]), NEW a, a = m.addr PROVE DataThere'
  OBVIOUS
<1>1. inbox[c] # <<>> /\ dram' = dram
  BY DEF FinishUpgrade, IgnoreCommand, Invalidate, Flush, WriteBack, Received
<1>2. a \in Addr /\ m.from \in Core /\ Filled(Rest(c))
  BY <1>1, HeadOK, RestFilled DEF IInv
<1>3. /\ llc \in [Core -> [Addr -> CacheState]] /\ copy \in [Core -> [Addr -> Data]]
      /\ copy[c][a] \in Data
  BY <1>2 DEF IInv, TypeOK
<1>4. llc[c][a] # "INVALID" => copy[c][a] # "none"
  BY <1>2 DEF DataThere
<1>5. ASSUME NEW type \in CacheReply, NEW data \in Data, type = "INV_REP" \/ data # "none",
             inbox' = Deliver(Rest(c), Msg(type, a, c, data), {m.from})
      PROVE  Filled(inbox')
  <2>1. type \in MsgType /\ (type = "INV_REP" => type \notin Carrying)
    BY <1>5 DEF CacheReply, MsgType, Carrying, Grant
  <2>2. QED
    BY <1>2, <1>5, <2>1, PostFilled
<1>6. CASE FinishUpgrade(c)
  <2>1. llc' = [llc EXCEPT ![c][a] = "MODIFIED"] /\ llc[c][a] = "SHARED_UPGRADING" /\ copy' = copy
        /\ inbox' = Rest(c)
    BY <1>6 DEF FinishUpgrade
  <2>2. \A k \in Core, b \in Addr : llc'[k][b] # "INVALID" => llc[k][b] # "INVALID"
    BY <1>2, <1>3, <2>1, OneChanged
  <2>3. QED
    BY <1>1, <1>2, <2>1, <2>2, KeptThere
<1>7. CASE IgnoreCommand(c)
  <2>1. llc' = llc /\ copy' = copy /\ inbox' = Rest(c)
    BY <1>7 DEF IgnoreCommand, cacheVars
  <2>2. QED
    BY <1>1, <1>2, <2>1, KeptThere
<1>8. ASSUME Drop(c, a)
      PROVE  \A k \in Core, b \in Addr :
               llc'[k][b] # "INVALID" => llc[k][b] # "INVALID" /\ copy'[k][b] = copy[k][b]
  BY <1>2, <1>3, <1>8 DEF Drop
<1>9. CASE Invalidate(c)
  <2>1. Drop(c, a) /\ inbox' = Deliver(Rest(c), Msg("INV_REP", a, c, "none"), {m.from})
    BY <1>9 DEF Invalidate
  <2>2. Filled(inbox')
    BY <1>5, <2>1 DEF CacheReply, Data
  <2>3. QED
    BY <1>1, <1>8, <2>1, <2>2, KeptThere
<1>10. CASE Flush(c)
  <2>1. /\ Drop(c, a) /\ inbox' = Deliver(Rest(c), Msg("FLUSH_REP", a, c, copy[c][a]), {m.from})
        /\ llc[c][a] # "INVALID"
    BY <1>10 DEF Flush
  <2>2. Filled(inbox')
    BY <1>3, <1>4, <1>5, <2>1 DEF CacheReply
  <2>3. QED
    BY <1>1, <1>8, <2>1, <2>2, KeptThere
<1>11. CASE WriteBack(c)
  <2>1. PICK d \in IF llc[c][a] = "SHARED_UPGRADING" THEN Arbitrary ELSE {copy[c][a]} :
           inbox' = Deliver(Rest(c), Msg("WB_REP", a, c, d), {m.from})
    BY <1>11 DEF WriteBack
  <2>2. /\ llc[c][a] # "INVALID" /\ copy' = copy
        /\ llc' = llc \/ llc' = [llc EXCEPT ![c][a] = "SHARED"]
    BY <1>11 DEF WriteBack
  <2>3. d \in Data /\ d # "none"
    <3>1. Arbitrary \subseteq Data \ {"none"}
      BY DEF Arbitrary, Data
    <3>2. copy[c][a] \in Data \ {"none"}
      BY <1>3, <1>4, <2>2
    <3>3. QED
      BY <2>1, <3>1, <3>2
  <2>4. Filled(inbox')
    <3>1. "WB_REP" \in CacheReply
      BY DEF CacheReply
    <3>2. inbox' = Deliver(Rest(c), Msg("WB_REP", a, c, d), {m.from})
      BY <2>1
    <3>3. QED
      BY <1>5, <2>3, <3>1, <3>2
  <2>5. \A k \in Core, b \in Addr : llc'[k][b] # "INVALID" => llc[k][b] # "INVALID"
    <3>1. CASE llc' = llc
      BY <3>1
    <3>2. CASE llc' = [llc EXCEPT ![c][a] = "SHARED"]
      BY <1>2, <1>3, <2>2, <3>2, OneChanged
    <3>3. QED
      BY <2>2, <3>1, <3>2
  <2>6. QED
    BY <1>1, <2>2, <2>4, <2>5, KeptThere
<1>12. QED
  BY <1>6, <1>7, <1>9, <1>10, <1>11

\* A line that leaves a cache takes its data with it, if the data is to be kept.
LEMMA EvictThere ==
  ASSUME IInv, DataThere, NEW c \in Core, NEW a \in Addr, Evict(c, a) PROVE DataThere'
<1>1. /\ llc \in [Core -> [Addr -> CacheState]] /\ copy \in [Core -> [Addr -> Data]]
      /\ copy[c][a] \in Data /\ Filled(inbox)
  BY DEF IInv, TypeOK, DataThere, Filled
<1>2. /\ llc[c][a] # "INVALID" /\ dram' = dram
      /\ llc' = [llc EXCEPT ![c][a] = "INVALID"] /\ copy' = [copy EXCEPT ![c][a] = "none"]
  BY DEF Evict, Readable
<1>3. copy[c][a] # "none"
  BY <1>2 DEF DataThere
<1>4. Filled(inbox')
  <2>1. \/ inbox' = Deliver(inbox, Msg("FLUSH_REP", a, c, copy[c][a]), {DirHome[a]})
        \/ inbox' = Deliver(inbox, Msg("INV_REP", a, c, "none"), {DirHome[a]})
    BY DEF Evict
  <2>2. /\ "FLUSH_REP" \in MsgType /\ "INV_REP" \in MsgType /\ "INV_REP" \notin Carrying
        /\ "none" \in Data
    BY DEF MsgType, CacheReply, Carrying, Grant, Data
  <2>3. QED
    BY <1>1, <1>3, <2>1, <2>2, PostFilled
<1>5. \A k \in Core, b \in Addr :
        llc'[k][b] # "INVALID" => llc[k][b] # "INVALID" /\ copy'[k][b] = copy[k][b]
  BY <1>1, <1>2
<1>6. QED
  BY <1>2, <1>4, <1>5, KeptThere

\* A write makes data old, but not missing.
LEMMA WrittenThere ==
  ASSUME IInv, DataThere, NEW c \in Core, NEW a \in Addr, WrittenAt(c, a),
         llc[c][a] # "INVALID", llc' = [llc EXCEPT ![c][a] = "MODIFIED"]
  PROVE  DataThere'
<1>1. /\ copy \in [Core -> [Addr -> Data]] /\ dram \in [Addr -> Data]
      /\ llc \in [Core -> [Addr -> CacheState]] /\ inbox \in [Core -> Seq(Message)]
  BY DEF IInv, TypeOK
<1>2. \A b \in Addr : dram'[b] # "none"
  <2>1. dram' = [dram EXCEPT ![a] = Outdated(dram[a])]
    BY DEF WrittenAt
  <2>2. Outdated(dram[a]) # "none"
    BY <1>1, AgedData DEF DataThere
  <2>3. QED
    BY <1>1, <2>1, <2>2 DEF DataThere
<1>3. ASSUME NEW k \in Core, NEW b \in Addr, llc'[k][b] # "INVALID" PROVE copy'[k][b] # "none"
  <2>1. llc[k][b] # "INVALID"
    BY <1>1, <1>3, OneChanged
  <2>2. copy[k][b] \in Data /\ copy[k][b] # "none"
    BY <1>1, <2>1 DEF DataThere
  <2>3. copy'[k] = [copy[k] EXCEPT ![a] = IF k = c THEN "current" ELSE Outdated(copy[k][a])]
    BY DEF WrittenAt
  <2>4. copy'[k][b] \in {copy[k][b], "current", Outdated(copy[k][b])}
    BY <1>1, <2>3
  <2>5. QED
    BY <2>2, <2>4, AgedData
<1>4. ASSUME NEW k \in Core PROVE ~Has(inbox'[k], Blank)
  <2>1. inbox'[k] = [i \in DOMAIN inbox[k] |->
                       IF inbox[k][i].addr = a THEN Aged(inbox[k][i]) ELSE inbox[k][i]]
    BY DEF WrittenAt
  <2>2. inbox[k] \in Seq(Message) /\ ~Has(inbox[k], Blank)
    BY <1>1 DEF DataThere
  <2>3. ASSUME NEW i \in DOMAIN inbox[k] PROVE inbox'[k][i] \notin Blank
    <3>1. inbox[k][i] \in Message /\ inbox[k][i] \notin Blank
      BY <2>2 DEF Has
    <3>2. /\ Aged(inbox[k][i]).type = inbox[k][i].type
          /\ Aged(inbox[k][i]).data = Outdated(inbox[k][i].data)
          /\ inbox[k][i].data \in Data
      BY <3>1 DEF Aged, Message
    <3>3. Aged(inbox[k][i]) \notin Blank
      BY <3>1, <3>2, AgedData DEF Blank
    <3>4. QED
      BY <2>1, <3>1, <3>3
  <2>4. DOMAIN inbox'[k] = DOMAIN inbox[k]
    BY <2>1
  <2>5. QED
    BY <2>3, <2>4 DEF Has
<1>5. QED
  BY <1>2, <1>3, <1>4 DEF DataThere

\* The other steps of the caches: accesses, and the waiters that are served.
LEMMA UserThere ==
  ASSUME IInv, DataThere,
         \/ \E c \in Core : ServeWaiters(c)
         \/ \E t \in Thread, a \in Addr : Access(t, a)
  PROVE  DataThere'
<1>1. /\ llc \in [Core -> [Addr -> CacheState]] /\ Filled(inbox)
  BY DEF IInv, TypeOK, DataThere, Filled
<1>2. ASSUME NEW c \in Core, NEW a \in Addr, NEW type \in DemandReq, dram' = dram, copy' = copy,
             inbox' = inbox \/ inbox' = Deliver(inbox, Msg(type, a, c, "none"), {DirHome[a]}),
             llc' = llc \/ (llc[c][a] = "SHARED" /\ llc' = [llc EXCEPT ![c][a] = "SHARED_UPGRADING"])
      PROVE  DataThere'
  <2>1. type \in MsgType /\ type \notin Carrying /\ "none" \in Data
    BY <1>2 DEF MsgType, DemandReq, Carrying, Grant, Data
  <2>2. Filled(inbox')
    BY <1>1, <1>2, <2>1, PostFilled
  <2>3. \A k \in Core, b \in Addr : llc'[k][b] # "INVALID" => llc[k][b] # "INVALID"
    <3>1. CASE llc' = llc
      BY <3>1
    <3>2. CASE llc[c][a] = "SHARED" /\ llc' = [llc EXCEPT ![c][a] = "SHARED_UPGRADING"]
      BY <1>1, <1>2, <3>2, OneChanged
    <3>3. QED
      BY <1>2, <3>1, <3>2
  <2>4. QED
    BY <1>2, <2>2, <2>3, KeptThere
<1>3. ASSUME NEW c \in Core, ServeWaiters(c) PROVE DataThere'
  <2>1. net[c].addr \in Addr
    BY <1>3 DEF ServeWaiters, ServeByUpgrade, Wake, RemoveWaiter, AllServed, Serving, IInv, TypeOK
  <2>2. CASE ServeByUpgrade(c)
    <3>1. "UPGRADE_REQ" \in DemandReq
      BY DEF DemandReq
    <3>2. QED
      BY <1>2, <2>1, <2>2, <3>1 DEF ServeByUpgrade
  <2>3. CASE RemoveWaiter(c) \/ AllServed(c)
    BY <2>3, KeptThere DEF RemoveWaiter, AllServed, cacheVars
  <2>4. CASE Wake(c)
    <3>1. CASE llc' = llc /\ copy' = copy /\ dram' = dram /\ inbox' = inbox
      BY <3>1, KeptThere
    <3>2. CASE /\ Head(waiters[c][net[c].addr]).exclusive
               /\ llc' = [llc EXCEPT ![c][net[c].addr] = "MODIFIED"] /\ WrittenAt(c, net[c].addr)
      <4>1. llc[c][net[c].addr] # "INVALID"
        BY <2>4, <3>2 DEF Wake, Permitted
      <4>2. QED
        BY <2>1, <3>2, <4>1, WrittenThere
    <3>3. QED
      BY <2>4, <3>1, <3>2 DEF Wake
  <2>5. QED
    BY <1>3, <2>2, <2>3, <2>4 DEF ServeWaiters
<1>4. ASSUME NEW t \in Thread, NEW a \in Addr, Access(t, a) PROVE DataThere'
  <2> DEFINE c == LLCOf[t]
  <2>1. c \in Core
    BY AccessOK
  <2>2. CASE WriteHit(t, a)
    BY <2>1, <2>2, WrittenThere DEF WriteHit
  <2>3. ASSUME NEW exclusive \in BOOLEAN, Miss(t, a, exclusive) PROVE DataThere'
    <3>1. PICK type \in DemandReq : type = RequestFor(c, a, exclusive)
      BY DEF RequestFor, DemandReq
    <3>2. type = "UPGRADE_REQ" => llc[c][a] = "SHARED"
      BY <3>1 DEF RequestFor
    <3>3. QED
      BY <1>2, <2>1, <2>3, <3>1, <3>2 DEF Miss
  <2>4. QED
    BY <1>4, <2>2, <2>3 DEF Access
<1>5. QED
  BY <1>3, <1>4

\* Directories only pass on the data that came.
LEMMA TakenThere ==
  ASSUME IInv, DataThere, NEW c \in Core, DirectoryMessage(c) \/ DramMessage(c) PROVE DataThere'
<1> SUFFICES ASSUME NEW m, m = Head(inbox[c]), NEW a, a = m.addr PROVE DataThere'
  OBVIOUS
<1>1. inbox[c] # <<>>
  BY DEF DirectoryMessage, TakeRequest, TakeInvRep, TakeFlushRep, TakeWbRep, TakeDramRep,
     DramMessage, DramRead, DramWrite, Received
<1>2. /\ a \in Addr /\ m.from \in Core /\ m.data \in Data /\ Filled(Rest(c))
      /\ m.type \in Carrying => m.data # "none"
  BY <1>1, HeadOK, RestFilled DEF IInv
<1>3. UNCHANGED <<llc, copy>>
  BY DEF DirectoryMessage, TakeRequest, TakeInvRep, TakeFlushRep, TakeWbRep, TakeDramRep,
     DramMessage, DramRead, DramWrite, cacheVars
<1>4. ASSUME dram' = dram, Filled(inbox') PROVE DataThere'
  BY <1>3, <1>4, KeptThere
<1>5. ASSUME NEW type \in MsgType, NEW data \in Data, type \notin Carrying \/ data # "none", NEW to
      PROVE  Filled(Deliver(Rest(c), Msg(type, a, c, data), to))
  BY <1>2, <1>5, PostFilled
<1>6. CASE TakeRequest(c) \/ TakeInvRep(c) \/ TakeWbRep(c)
  <2>1. inbox' = Rest(c) /\ dram' = dram
    BY <1>6 DEF TakeRequest, TakeInvRep, TakeWbRep
  <2>2. QED
    BY <1>2, <1>4, <2>1
<1>7. CASE TakeFlushRep(c)
  <2>1. /\ m.type = "FLUSH_REP" /\ dram' = dram
        /\ inbox' = Rest(c) \/ inbox' = Deliver(Rest(c), Msg("DRAM_WRITE_REQ", a, c, m.data), {DramHome[a]})
    BY <1>7 DEF TakeFlushRep, Received, ToDram
  <2>2. m.data # "none" /\ "DRAM_WRITE_REQ" \in MsgType
    BY <1>2, <2>1 DEF Carrying, MsgType, DramMsg
  <2>3. QED
    BY <1>2, <1>4, <1>5, <2>1, <2>2
<1>8. CASE TakeDramRep(c)
  <2>1. /\ m.type = "DRAM_READ_REP" /\ dram' = dram
        /\ \E rep \in {"SH_REP", "EX_REP"} : \E to :
             inbox' = Deliver(Rest(c), Msg(rep, a, c, m.data), to)
    BY <1>8 DEF TakeDramRep, Received
  <2>2. m.data # "none" /\ {"SH_REP", "EX_REP"} \subseteq MsgType
    BY <1>2, <2>1 DEF Carrying, MsgType, DirReply
  <2>3. QED
    BY <1>2, <1>4, <1>5, <2>1, <2>2
<1>9. CASE DramRead(c)
  <2>1. dram' = dram /\ inbox' = Deliver(Rest(c), Msg("DRAM_READ_REP", a, c, dram[a]), {m.from})
    BY <1>9 DEF DramRead
  <2>2. dram[a] \in Data /\ dram[a] # "none" /\ "DRAM_READ_REP" \in MsgType
    BY <1>2 DEF IInv, TypeOK, DataThere, MsgType, DramMsg
  <2>3. QED
    BY <1>4, <1>5, <2>1, <2>2
<1>10. CASE DramWrite(c)
  <2>1. m.type = "DRAM_WRITE_REQ" /\ dram' = [dram EXCEPT ![a] = m.data] /\ inbox' = Rest(c)
    BY <1>10 DEF DramWrite, Received
  <2>2. m.data # "none" /\ dram \in [Addr -> Data]
    BY <1>2, <2>1 DEF Carrying, IInv, TypeOK
  <2>3. QED
    BY <1>2, <1>3, <2>1, <2>2 DEF DataThere, Filled
<1>11. QED
  BY <1>6, <1>7, <1>8, <1>9, <1>10 DEF DirectoryMessage, DramMessage

LEMMA ProcessedThere ==
  ASSUME IInv, DataThere, NEW h \in Core, ProcessRequest(h) PROVE DataThere'
<1> SUFFICES ASSUME NEW a, a = net[h].addr PROVE DataThere'
  OBVIOUS
<1>1. net[h].at \in {"head", "next"}
  BY DEF ProcessRequest, ExFlush, ExInvalidate, ExGrant, ShWriteBack, ShShare, ShMakeRoom, ShFirst,
     UpgradeGrant, UpgradeFlush, UpgradeInvalidate, UpgradeAsExclusive, Allocate, Nullified,
     NextRequest, Processing
<1>2. a \in Addr /\ net[h].data \in Data /\ Head(queue[a]).data \in Data /\ Filled(inbox)
  BY <1>1, AtHead DEF IInv, TypeOK, DataThere, Filled
<1>3. ASSUME UNCHANGED <<llc, copy, dram>>, inbox' = inbox \/ Filled(inbox') PROVE DataThere'
  BY <1>3, KeptThere
<1>4. ASSUME NEW box, Filled(box), NEW type \in MsgType \ Carrying, NEW b \in Addr, NEW to
      PROVE  Filled(Deliver(box, Msg(type, b, h, "none"), to))
  BY <1>4, PostFilled DEF Data
<1>5. DirCommand \cup {"UPGRADE_REP", "DRAM_READ_REQ"} \subseteq MsgType \ Carrying
  BY DEF DirCommand, MsgType, DirReply, DramMsg, Carrying, Grant
<1>6. ASSUME NEW type \in DirCommand, NEW to, Command(h, type, to) PROVE DataThere'
  <2>1. UNCHANGED <<llc, copy, dram>> /\ inbox' = Deliver(inbox, Msg(type, a, h, "none"), to)
    BY <1>6 DEF Command, cacheVars
  <2>2. QED
    BY <1>2, <1>3, <1>4, <1>5, <2>1
<1>7. CASE ExFlush(h) \/ ExInvalidate(h) \/ ShWriteBack(h) \/ ShMakeRoom(h) \/ UpgradeFlush(h)
  <2>1. {"FLUSH_REQ", "INV_REQ", "WB_REQ"} \subseteq DirCommand
    BY DEF DirCommand
  <2>2. QED
    BY <1>6, <1>7, <2>1 DEF ExFlush, ExInvalidate, ShWriteBack, ShMakeRoom, UpgradeFlush
<1>8. ASSUME NEW rep \in Grant, NEW to, NEW data \in Data, NEW e, Retrieve(h, rep, to, data, e)
      PROVE  DataThere'
  <2>1. UNCHANGED <<llc, copy, dram>>
    BY <1>8 DEF Retrieve, cacheVars
  <2>2. \/ data # "none" /\ inbox' = Deliver(inbox, Msg(rep, a, h, data), {to})
        \/ inbox' = Deliver(inbox, Msg("WB_REQ", a, h, "none"), {e.forwarder})
        \/ inbox' = Deliver(inbox, Msg("DRAM_READ_REQ", a, h, "none"), {DramHome[a]})
    BY <1>8 DEF Retrieve
  <2>3. Filled(inbox')
    <3>1. rep \in MsgType
      BY <1>8 DEF Grant, MsgType, DirReply
    <3>2. data # "none" => Filled(Deliver(inbox, Msg(rep, a, h, data), {to}))
      BY <1>2, <1>8, <3>1, PostFilled
    <3>3. "WB_REQ" \in MsgType \ Carrying /\ "DRAM_READ_REQ" \in MsgType \ Carrying
      BY <1>5 DEF DirCommand
    <3>4. QED
      BY <1>2, <1>4, <2>2, <3>2, <3>3
  <2>4. QED
    BY <1>3, <2>1, <2>3
<1>9. CASE ExGrant(h) \/ ShShare(h) \/ ShFirst(h) \/ UpgradeAsExclusive(h)
  <2>1. "SH_REP" \in Grant /\ "EX_REP" \in Grant
    BY DEF Grant
  <2>2. CASE ExGrant(h) \/ ShShare(h) \/ ShFirst(h)
    BY <1>2, <1>8, <2>1, <2>2 DEF ExGrant, ShShare, ShFirst
  <2>3. CASE UpgradeAsExclusive(h)
    <3>1. PICK to, d, e : Retrieve(h, "EX_REP", to, d, e) /\ d \in {net[h].data, "none"} \cup Arbitrary
      BY <2>3 DEF UpgradeAsExclusive
    <3>2. d \in Data
      BY <1>2, <3>1 DEF Arbitrary, Data
    <3>3. QED
      BY <1>8, <2>1, <3>1, <3>2
  <2>4. QED
    BY <1>9, <2>2, <2>3
<1>10. CASE UpgradeGrant(h)
  <2>1. /\ UNCHANGED <<llc, copy, dram>>
        /\ \E to : inbox' = Deliver(inbox, Msg("UPGRADE_REP", a, h, "none"), to)
    BY <1>10 DEF UpgradeGrant, cacheVars
  <2>2. "UPGRADE_REP" \in MsgType \ Carrying /\ Filled(inbox)
    BY <1>2, <1>5
  <2>3. PICK to : inbox' = Deliver(inbox, Msg("UPGRADE_REP", a, h, "none"), to)
    BY <2>1
  <2>4. Filled(Deliver(inbox, Msg("UPGRADE_REP", a, h, "none"), to))
    BY <1>2, <1>4, <2>2
  <2>5. QED
    BY <1>3, <2>1, <2>3, <2>4
<1>11. CASE UpgradeInvalidate(h)
  <2>1. /\ UNCHANGED <<llc, copy, dram>>
        /\ \E to, flushed : inbox' = Deliver(Deliver(inbox, Msg("FLUSH_REQ", a, h, "none"), flushed),
                                             Msg("INV_REQ", a, h, "none"), to)
    BY <1>11, Zenon DEF UpgradeInvalidate, cacheVars
  <2>2. {"FLUSH_REQ", "INV_REQ"} \subseteq MsgType \ Carrying
    BY <1>5 DEF DirCommand
  <2>3. QED
    BY <1>2, <1>3, <1>4, <2>1, <2>2
<1>12. CASE Allocate(h)
  <2>1. /\ UNCHANGED <<llc, copy, dram>>
        /\ \/ inbox' = inbox
           \/ \E v \in Addr : \E to : inbox' = Deliver(inbox, Msg(NullifyType(v), v, h, "none"), to)
    BY <1>12 DEF Allocate, Victims, SetOf, cacheVars
  <2>2. \A v : NullifyType(v) \in MsgType \ Carrying
    BY <1>5 DEF NullifyType, DirCommand
  <2>3. QED
    BY <1>2, <1>3, <1>4, <2>1, <2>2
<1>13. CASE Nullified(h) \/ NextRequest(h)
  BY <1>3, <1>13 DEF Nullified, NextRequest, cacheVars
<1>14. QED
  BY <1>7, <1>9, <1>10, <1>11, <1>12, <1>13 DEF ProcessRequest

\* Every step keeps it.
LEMMA DataStays == ASSUME IInv, DataThere, [Next]_vars PROVE DataThere'
<1>1. ASSUME NEW c \in Core, CacheMessage(c) PROVE DataThere'
  BY <1>1, FillThere, CommandThere DEF CacheMessage
<1>2. ASSUME NEW c \in Core, NetStep(c) PROVE DataThere'
  BY <1>1, <1>2, UserThere, TakenThere, ProcessedThere DEF NetStep
<1>3. CASE UNCHANGED vars
  BY <1>3 DEF vars, DataThere
<1>4. QED
  BY <1>2, <1>3, UserThere, EvictThere DEF Next

(* Every thread that waits is a waiter somewhere *)

\* Thread t is one that sleeps.
Sleeps(t) == \E c \in Core, a \in Addr : \E i \in Asleep(c, a) : waiters[c][a][i].thread = t

LEMMA AllSleep == ThreadsWait <=> \A t \in waiting : Sleeps(t)
<1>1. ASSUME NEW t PROVE t \in {r.thread : r \in Accesses} <=> Sleeps(t)
  <2>1. \A c, a, i : WaitOf(c, a, i).thread = waiters[c][a][i].thread
    BY DEF WaitOf
  <2>2. QED
    BY <2>1, AccessesAre DEF Sleeps
<1>2. QED
  BY <1>1 DEF ThreadsWait

LEMMA AllWillSleep == ThreadsWait' <=> \A t \in waiting' : Sleeps(t)'
<1>1. ASSUME NEW t PROVE t \in {r.thread : r \in Accesses'} <=> Sleeps(t)'
  <2>1. \A c, a, i : WaitOf(c, a, i)'.thread = waiters'[c][a][i].thread
    BY DEF WaitOf
  <2>2. t \in {r.thread : r \in Accesses'} <=> \E r : r \in Accesses' /\ r.thread = t
    OBVIOUS
  <2>3. QED
    BY <2>1, <2>2, AccessesWillBe DEF Sleeps
<1>2. QED
  BY <1>1 DEF ThreadsWait

\* The thread that misses is the last waiter of its line.
LEMMA MissSleeps ==
  ASSUME IInv, ThreadsWait, NEW t \in Thread, NEW a \in Addr, NEW exclusive \in BOOLEAN,
         Miss(t, a, exclusive)
  PROVE  ThreadsWait'
<1> PICK c \in Core : c = LLCOf[t]
  BY AccessOK
<1> PICK w : w = [thread |-> t, exclusive |-> exclusive]
  OBVIOUS
<1> DEFINE s == waiters[c][a]
<1>1. /\ waiting' = waiting \cup {t} /\ net' = net
      /\ waiters' = [waiters EXCEPT ![c][a] = Append(s, w)]
  BY DEF Miss
<1>2. waiters \in [Core -> [Addr -> Seq(Waiter)]] /\ s \in Seq(Waiter)
  BY DEF IInv, TypeOK
<1>3. \A k \in Core, b \in Addr : waiters'[k][b] = IF k = c /\ b = a THEN Append(s, w) ELSE waiters[k][b]
  BY <1>1, <1>2
<1>4. /\ Len(s) + 1 \in DOMAIN Append(s, w) /\ Append(s, w)[Len(s) + 1] = w
      /\ \A i \in DOMAIN s : i \in DOMAIN Append(s, w) /\ Append(s, w)[i] = s[i]
      /\ s # <<>> => Len(s) + 1 # 1
  BY <1>2
<1> HIDE DEF s
<1>5. w.thread = t
  OBVIOUS
<1>6. Sleeps(t)'
  <2>1. net[c].at = "woken" /\ net[c].addr = a => s # <<>>
    BY DEF IInv, NetOK, s
  <2>2. Len(s) + 1 \in Asleep(c, a)'
    BY <1>1, <1>3, <1>4, <2>1 DEF Asleep
  <2>3. waiters'[c][a][Len(s) + 1].thread = t
    BY <1>3, <1>4, <1>5
  <2>4. QED
    BY <2>2, <2>3 DEF Sleeps
<1>7. ASSUME NEW u \in waiting PROVE Sleeps(u)'
  <2>1. PICK k \in Core, b \in Addr : \E i \in Asleep(k, b) : waiters[k][b][i].thread = u
    BY AllSleep DEF Sleeps
  <2>2. PICK i \in Asleep(k, b) : waiters[k][b][i].thread = u
    BY <2>1
  <2>3. i \in DOMAIN waiters'[k][b] /\ waiters'[k][b][i] = waiters[k][b][i]
    BY <1>3, <1>4 DEF Asleep, s
  <2>4. i \in Asleep(k, b)'
    BY <1>1, <2>3 DEF Asleep
  <2>5. QED
    BY <2>2, <2>3, <2>4 DEF Sleeps
<1>8. QED
  BY <1>1, <1>6, <1>7, AllWillSleep

\* The one that is woken waits no longer; the others sleep on.
LEMMA WakeSleeps ==
  ASSUME IInv, ThreadsWait, NEW c \in Core, Wake(c) PROVE ThreadsWait'
<1> PICK a, w : a = net[c].addr /\ w = Head(waiters[c][a])
  OBVIOUS
<1>1. /\ net[c].at = "serve" /\ waiters[c][a] # <<>>
      /\ waiting' = waiting \ {w.thread} /\ waiters' = waiters
      /\ \/ net' = [NetWrittenAt(a) EXCEPT ![c].at = "woken"]
         \/ GoTo(c, "woken", a, "none")
  BY DEF Wake, Serving
<1>2. a \in Addr
  BY <1>1, Served
<1>3. net'[c].addr = a /\ \A k \in Core : k # c => net'[k].at = net[k].at /\ net'[k].addr = net[k].addr
  <2>1. CASE GoTo(c, "woken", a, "none")
    <3>1. net' = [net EXCEPT ![c] = [at |-> "woken", addr |-> a, data |-> "none"]]
      BY <2>1 DEF GoTo
    <3>2. net \in [Core -> NetState]
      BY DEF IInv, TypeOK
    <3>3. net'[c] = [at |-> "woken", addr |-> a, data |-> "none"] /\ \A k \in Core : k # c => net'[k] = net[k]
      BY <3>1, <3>2
    <3>4. QED
      BY <3>3
  <2>2. CASE net' = [NetWrittenAt(a) EXCEPT ![c].at = "woken"]
    <3>1. NetWrittenAt(a) \in [Core -> NetState]
      BY <1>2, AgedNet DEF NetWrittenAt
    <3>2. \A k \in Core : NetWrittenAt(a)[k].at = net[k].at /\ NetWrittenAt(a)[k].addr = net[k].addr
      BY <1>2, AgedNet
    <3>3. net'[c] = [NetWrittenAt(a)[c] EXCEPT !.at = "woken"]
          /\ \A k \in Core : k # c => net'[k] = NetWrittenAt(a)[k]
      BY <2>2, <3>1
    <3>4. NetWrittenAt(a)[c] \in NetState
      BY <3>1
    <3>5. net'[c].addr = NetWrittenAt(a)[c].addr
      BY <3>3, <3>4 DEF NetState
    <3>6. QED
      BY <3>2, <3>3, <3>5
  <2>3. QED
    BY <1>1, <2>1, <2>2
<1>4. waiters[c][a] \in Seq(Waiter)
  BY <1>2 DEF IInv, TypeOK
<1>5. w = waiters[c][a][1]
  BY <1>1, <1>4
<1>6. ASSUME NEW u \in waiting, u # w.thread PROVE Sleeps(u)'
  <2>1. PICK k \in Core, b \in Addr : \E i \in Asleep(k, b) : waiters[k][b][i].thread = u
    BY AllSleep DEF Sleeps
  <2>2. PICK i \in Asleep(k, b) : waiters[k][b][i].thread = u
    BY <2>1
  <2>3. ~(k = c /\ b = a /\ i = 1)
    BY <1>5, <1>6, <2>2
  <2>4. i \in Asleep(k, b)'
    BY <1>1, <1>3, <2>3 DEF Asleep
  <2>5. QED
    BY <1>1, <2>2, <2>4 DEF Sleeps
<1>7. QED
  BY <1>1, <1>6, AllWillSleep

\* Every step keeps it.
LEMMA SleepStays ==
  ASSUME IInv, SafeLines, WaitersOK, ThreadsWait, [Next]_vars PROVE ThreadsWait'
<1>1. ASSUME Accesses' = Accesses, waiting' = waiting PROVE ThreadsWait'
  BY <1>1 DEF ThreadsWait
<1>2. ASSUME NEW c \in Core, CacheMessage(c) PROVE ThreadsWait'
  <2>1. /\ waiters' = waiters /\ waiting' = waiting
        /\ net[c].at = "recv"
        /\ net' = net \/ \E a : GoTo(c, "serve", a, "none")
    BY <1>2 DEF CacheMessage, Fill, FinishUpgrade, IgnoreCommand, Invalidate, Flush, WriteBack,
       Received, cacheVars
  <2>2. Accesses' = Accesses
    BY <2>1, Quiet
  <2>3. QED
    BY <1>1, <2>1, <2>2
<1>3. ASSUME NEW c \in Core, ServeWaiters(c) PROVE ThreadsWait'
  <2>1. CASE ServeByUpgrade(c) \/ AllServed(c)
    <3>1. waiting' = waiting
      BY <2>1 DEF ServeByUpgrade, AllServed, cacheVars
    <3>2. QED
      BY <1>1, <2>1, <3>1, ServingStutters DEF Stutters
  <2>2. CASE RemoveWaiter(c)
    <3>1. waiting' = waiting
      BY <2>2 DEF RemoveWaiter
    <3>2. QED
      BY <1>1, <2>2, <3>1, RemoveWaiterStutters DEF Stutters
  <2>3. QED
    BY <1>3, <2>1, <2>2, WakeSleeps DEF ServeWaiters
<1>4. ASSUME NEW c \in Core, DirectoryMessage(c) \/ ProcessRequest(c) \/ DramMessage(c) PROVE ThreadsWait'
  <2>1. waiting' = waiting
    <3>1. CASE DirectoryMessage(c) \/ DramMessage(c)
      BY <3>1 DEF DirectoryMessage, TakeRequest, TakeInvRep, TakeFlushRep, TakeWbRep, TakeDramRep,
         DramMessage, DramRead, DramWrite, cacheVars
    <3>2. CASE ProcessRequest(c)
      BY <3>2 DEF ProcessRequest, ExFlush, ExInvalidate, ExGrant, ShWriteBack, ShShare, ShMakeRoom,
         ShFirst, UpgradeGrant, UpgradeFlush, UpgradeInvalidate, UpgradeAsExclusive, Allocate,
         Nullified, NextRequest, Command, Retrieve, cacheVars
    <3>3. QED
      BY <1>4, <3>1, <3>2
  <2>2. QED
    BY <1>1, <1>4, <2>1, DirectoryStutters DEF Stutters
<1>5. ASSUME NEW t \in Thread, NEW a \in Addr, Access(t, a) PROVE ThreadsWait'
  <2>1. CASE WriteHit(t, a)
    <3>1. waiting' = waiting
      BY <2>1 DEF WriteHit
    <3>2. QED
      BY <1>1, <2>1, <3>1, WriteHitStutters DEF Stutters
  <2>2. QED
    BY <1>5, <2>1, MissSleeps DEF Access
<1>6. ASSUME NEW c \in Core, NEW a \in Addr, Evict(c, a) PROVE ThreadsWait'
  <2>1. UNCHANGED <<waiters, waiting, net>>
    BY <1>6 DEF Evict
  <2>2. QED
    BY <1>1, <2>1, Quiet
<1>7. CASE UNCHANGED vars
  <2>1. UNCHANGED <<waiters, waiting, net>>
    BY <1>7 DEF vars
  <2>2. QED
    BY <1>1, <2>1, Quiet
<1>8. QED
  BY <1>2, <1>3, <1>4, <1>5, <1>6, <1>7 DEF Next, NetStep

(* When nothing is under way *)

AllQuiet == \A c \in Core : inbox[c] = <<>> /\ net[c].at = "recv"

\* What the invariant says of line a then: whoever is called has lost the line,
\* and a sharer without it is the reader that the forwarder sends it to.
QuietLine(a) ==
  /\ Parked(a) /\ Pend(a) = queue[a] /\ ~HeadWaits(a)
  /\ Blocked(a, AnyReq) => StillWaits(a)
  /\ \A c \in Core : /\ Called(a, c) => llc[c][a] = "INVALID"
                     /\ c \in dir[a].sharers /\ llc[c][a] = "INVALID" => Coming(a, c)
                     /\ Queued(Pend(a), LineReq, c) => llc[c][a] = "INVALID"
                     /\ waiters[c][a] # <<>> => Queued(Pend(a), DemandReq, c)

LEMMA QuietLines ==
  ASSUME SafeLines, AssertedLines, LivingLines, AllQuiet, NEW a \in Addr PROVE QuietLine(a)
<1>1. LineInv(a) /\ LineAsserted(a) /\ LineLives(a)
  BY DEF SafeLines, AssertedLines, LivingLines
<1>2. net[DirHome[a]].at = "recv"
  BY DEF AllQuiet
<1>3. Parked(a) /\ Pend(a) = queue[a]
  BY <1>2 DEF Parked, Pend
<1>4. \A T : \A c \in Core : ~Sent(inbox, T, a, c) /\ ~Got(inbox, T, a, c)
  BY EmptyHas DEF AllQuiet, Sent, Got
<1>5. \A type : \A c \in Core : ~Read(inbox, type, a, c)
  BY EmptyHas DEF AllQuiet, Read
<1>6. ~HeadWaits(a)
  BY <1>1, <1>5 DEF LineLives, DramLives
<1>7. Blocked(a, AnyReq) => StillWaits(a)
  BY <1>1 DEF LineLives, HeadLives
<1>8. ASSUME NEW c \in Core
      PROVE  /\ Called(a, c) => llc[c][a] = "INVALID"
             /\ c \in dir[a].sharers /\ llc[c][a] = "INVALID" => Coming(a, c)
             /\ Queued(Pend(a), LineReq, c) => llc[c][a] = "INVALID"
             /\ waiters[c][a] # <<>> => Queued(Pend(a), DemandReq, c)
  <2>1. Called(a, c) => llc[c][a] = "INVALID"
    BY <1>1, <1>4 DEF LineLives, CommandStands
  <2>2. c \in dir[a].sharers /\ llc[c][a] = "INVALID" => Coming(a, c)
    BY <1>1, <1>4 DEF LineAsserted, PairAsserted, Justified
  <2>3. OneRequest(a, c) /\ StateFits(a, c)
    BY <1>1 DEF LineInv, PairInv
  <2>4. Queued(Pend(a), LineReq, c) => llc[c][a] = "INVALID"
    BY <2>3 DEF StateFits, Outstanding
  <2>5. waiters[c][a] # <<>> => Awaited(c, a)
    BY DEF Awaited, AllQuiet
  <2>6. waiters[c][a] # <<>> => Queued(Pend(a), DemandReq, c)
    BY <1>4, <2>3, <2>5 DEF OneRequest, Outstanding
  <2>7. QED
    BY <2>1, <2>2, <2>4, <2>6
<1>9. QED
  BY <1>3, <1>6, <1>7, <1>8 DEF QuietLine

\* So no request waits: the cache whose answer it would wait for has none to give.
LEMMA NobodyCalls ==
  ASSUME IInv, SafeLines, AssertedLines, LivingLines, AllQuiet, NEW a \in Addr PROVE queue[a] = <<>>
<1> SUFFICES ASSUME queue[a] # <<>> PROVE FALSE
  OBVIOUS
<1> PICK r, e : r = Head(queue[a]) /\ e = dir[a]
  OBVIOUS
<1>1. QuietLine(a) /\ Entry(a) /\ SharersFit(a)
  BY QuietLines DEF SafeLines, LineInv, AssertedLines, LineAsserted
<1>2. queue[a] \in Seq(Request) /\ e \in DirEntry
  BY DEF IInv, TypeOK
<1>3. /\ r \in Request /\ Head(Pend(a)) = r /\ Pend(a) # <<>> /\ r.from \in Core
      /\ r.type \in AnyReq
  <2>1. r \in Request
    BY <1>2, HeadTailProperties
  <2>2. r.type \in AnyReq /\ r.from \in Core
    BY <2>1 DEF Request, DemandReq, AnyReq
  <2>3. QED
    BY <1>1, <2>1, <2>2 DEF QuietLine
<1>4. ~r.waitForData
  BY <1>1, <1>3 DEF QuietLine, HeadWaits
<1>5. \A types : r.type \in types => Blocked(a, types)
  BY <1>1, <1>3, <1>4 DEF QuietLine, Blocked
<1>6. StillWaits(a)
  BY <1>1, <1>3, <1>5 DEF QuietLine
<1>7. ASSUME NEW c \in e.sharers, llc[c][a] = "INVALID"
      PROVE  r.from = c /\ r.type = "SH_REQ" /\ e.state = "SHARED" /\ r.forwardingFrom # NoCore
  <2>1. c \in Core
    BY <1>2 DEF DirEntry
  <2>2. Coming(a, c)
    BY <1>1, <1>7, <2>1 DEF QuietLine
  <2>3. QED
    BY <1>3, <1>4, <2>2 DEF Coming
<1>8. ASSUME NEW c \in e.sharers, Called(a, c)
      PROVE  r.from = c /\ r.type = "SH_REQ" /\ e.state = "SHARED" /\ r.forwardingFrom # NoCore
  <2>1. c \in Core
    BY <1>2 DEF DirEntry
  <2>2. llc[c][a] = "INVALID"
    BY <1>1, <1>8, <2>1 DEF QuietLine
  <2>3. QED
    BY <1>7, <2>2
<1>9. \A c \in e.sharers : e.state = "SHARED" /\ r.type \in {"EX_REQ", "NULLIFY_REQ"} => Called(a, c)
  BY <1>3, <1>5 DEF Called, InvLive
<1>10. \A c \in e.sharers :
         e.state \in Owned /\ r.type \in {"EX_REQ", "NULLIFY_REQ", "UPGRADE_REQ"} => Called(a, c)
  BY <1>3, <1>5 DEF Called, FlushLive
<1>11. e.state \in Owned \/ e.state = "SHARED" \/ e.state = "UNCACHED"
  BY <1>2 DEF DirEntry, DirState, Owned
<1>12. /\ e.state \in Owned => e.sharers = {e.owner}
       /\ e.state = "SHARED" => e.sharers # {}
       /\ e.state = "UNCACHED" => e.sharers = {}
  BY <1>1 DEF Entry, SharersFit
<1>13. CASE r.type = "UPGRADE_REQ"
  <2>1. PICK c \in e.sharers : c # r.from
    BY <1>3, <1>6, <1>13 DEF StillWaits
  <2>2. e.state = "SHARED" => Called(a, c)
    BY <1>3, <1>5, <1>13, <2>1 DEF Called, InvLive
  <2>3. Called(a, c)
    BY <1>10, <1>11, <1>12, <1>13, <2>2
  <2>4. QED
    BY <1>8, <1>13, <2>3
<1>14. CASE r.type \in {"EX_REQ", "NULLIFY_REQ"}
  <2>1. e.state # "UNCACHED"
    BY <1>3, <1>6, <1>14 DEF StillWaits
  <2>2. PICK c : c \in e.sharers
    BY <1>11, <1>12, <2>1
  <2>3. Called(a, c)
    BY <1>9, <1>10, <1>11, <1>14, <2>1, <2>2
  <2>4. QED
    BY <1>8, <1>14, <2>2, <2>3
<1>15. CASE r.type = "SH_REQ"
  <2>1. CASE e.state \in Owned /\ r.forwardingFrom = NoCore
    <3>1. e.owner \in e.sharers /\ e.owner \in Core
      BY <1>2, <1>12, <2>1 DEF DirEntry
    <3>2. r.from # e.owner => Called(a, e.owner)
      BY <1>3, <1>5, <1>15, <2>1 DEF Called, WbLive, IsOwner
    <3>3. CASE r.from = e.owner
      <4>1. Queued(Pend(a), LineReq, e.owner)
        <5>1. r \in Asked(LineReq, e.owner)
          BY <1>3, <1>15, <3>3, Kinds DEF Asked
        <5>2. 1 \in DOMAIN queue[a] /\ queue[a][1] = r
          BY <1>2
        <5>3. QED
          BY <1>1, <5>1, <5>2 DEF QuietLine, Queued, Has
      <4>2. llc[e.owner][a] = "INVALID"
        BY <1>1, <3>1, <4>1 DEF QuietLine
      <4>3. QED
        BY <1>7, <2>1, <3>1, <4>2
    <3>4. QED
      BY <1>8, <2>1, <3>1, <3>2, <3>3
  <2>2. CASE e.state = "SHARED" /\ r.forwardingFrom \in e.sharers \ {r.from}
    <3>1. Called(a, r.forwardingFrom)
      BY <1>3, <1>5, <1>15, <2>2 DEF Called, WbLive
    <3>2. QED
      BY <1>8, <2>2, <3>1
  <2>3. CASE e.state = "SHARED" /\ MaxHwSharers = 1 /\ r.from \notin e.sharers
    <3>1. PICK c : c \in e.sharers
      BY <1>12, <2>3
    <3>2. Called(a, c)
      BY <1>3, <1>5, <1>15, <2>3, <3>1 DEF Called, InvLive
    <3>3. QED
      BY <1>8, <2>3, <3>1, <3>2
  <2>4. QED
    BY <1>3, <1>6, <1>15, <2>1, <2>2, <2>3 DEF StillWaits
<1>16. QED
  BY <1>3, <1>13, <1>14, <1>15 DEF AnyReq

\* Nor does an access: its request is nowhere.
LEMMA LivesForgetNothing ==
  IInv /\ SafeLines /\ AssertedLines /\ LivingLines /\ ThreadsWait => NothingForgotten
<1> SUFFICES ASSUME IInv, SafeLines, AssertedLines, LivingLines, ThreadsWait, AllQuiet
             PROVE  /\ waiting = {}
                    /\ \A a \in Addr : queue[a] = <<>> /\ \A c \in Core : waiters[c][a] = <<>>
  BY DEF NothingForgotten, AllQuiet
<1>1. \A a \in Addr : queue[a] = <<>>
  BY NobodyCalls
<1>2. ASSUME NEW a \in Addr, NEW c \in Core PROVE waiters[c][a] = <<>>
  <2>1. QuietLine(a)
    BY QuietLines
  <2>2. ~Queued(Pend(a), DemandReq, c)
    BY <1>1, <2>1, EmptyHas DEF QuietLine, Queued
  <2>3. QED
    BY <2>1, <2>2 DEF QuietLine
<1>3. waiting = {}
  <2>1. \A c \in Core, a \in Addr : Asleep(c, a) = {}
    BY <1>2 DEF Asleep
  <2>2. \A t : ~Sleeps(t)
    BY <2>1 DEF Sleeps
  <2>3. QED
    BY <2>2, AllSleep
<1>4. QED
  BY <1>1, <1>2, <1>3

(* The theorem *)

LEMMA InitLives == Init => Lives
<1> SUFFICES ASSUME Init PROVE Lives
  OBVIOUS
<1>1. \A c \in Core : inbox[c] = <<>> /\ net[c].at = "recv"
  BY DEF Init
<1>2. ASSUME NEW a \in Addr
      PROVE  queue[a] = <<>> /\ dram[a] # "none" /\ dir[a].state = "UNCACHED" /\ Pend(a) = <<>>
  <2>1. net[DirHome[a]].at = "recv"
    BY <1>1
  <2>2. queue[a] = <<>> /\ dram[a] # "none" /\ dir[a].state = "UNCACHED"
    BY DEF Init, NewEntries
  <2>3. QED
    BY <2>1, <2>2 DEF Pend
<1>3. ASSUME NEW a \in Addr PROVE LineLives(a)
  <2>1. \A types : ~Blocked(a, types)
    BY <1>2 DEF Blocked
  <2>2. \A c : ~Called(a, c)
    BY <2>1 DEF Called, InvLive, FlushLive, WbLive
  <2>3. ~HeadWaits(a) /\ ~HeadAt(a)
    BY <1>1, <1>2 DEF HeadWaits, HeadAt
  <2>4. QED
    BY <1>2, <2>1, <2>2, <2>3 DEF LineLives, CommandStands, HeadLives, DramLives, ForwarderFits
<1>4. TailForwards
  BY <1>2 DEF TailForwards
<1>5. DataThere
  <2>1. \A c \in Core, a \in Addr : llc[c][a] = "INVALID"
    BY DEF Init
  <2>2. QED
    BY <1>1, <1>2, <2>1, EmptyHas DEF DataThere
<1>6. ThreadsWait
  BY DEF Init, ThreadsWait
<1>7. QED
  BY <1>3, <1>4, <1>5, <1>6 DEF Lives, LivingLines

\* What every step keeps.
Progressing == /\ IInv /\ SafeLines /\ AssertedLines /\ NoForwarding /\ WaitersOK
               /\ Lives

LEMMA NextProgressing ==
  ASSUME RoomForSharers PROVE Progressing /\ [Next]_vars => Progressing'
<1> SUFFICES ASSUME Progressing, [Next]_vars PROVE Progressing'
  OBVIOUS
<1>1. /\ IInv /\ SafeLines /\ AssertedLines /\ NoForwarding /\ WaitersOK
      /\ LivingLines /\ TailForwards /\ DataThere /\ ThreadsWait
  BY DEF Progressing, Lives
<1>2. IInv' /\ SafeLines' /\ AssertedLines' /\ NoForwarding'
  BY <1>1, NextIInv, NextSafe, NextAsserted, NextForwardsNone
<1>3. WaitersOK'
  BY <1>1, NextLines
<1>4. LivingLines' /\ TailForwards' /\ DataThere' /\ ThreadsWait'
  BY <1>1, LinesLiveOn, TailStays, DataStays, SleepStays
<1>5. QED
  BY <1>2, <1>3, <1>4 DEF Progressing, Lives

\* The protocol never comes to rest with work undone: when no message is under
\* way and every network thread is idle, every access has been served and every
\* queue of a directory is empty, for any number of caches, lines and threads
\* and every order in which messages cross.  A thread that stops at an assertion
\* is not idle; those that fail, and what that takes, are in AssertionsNeverFail.
THEOREM NothingIsForgotten ==
  ASSUME RoomForSharers
  PROVE  Spec => []NothingForgotten
<1>1. Init => Progressing
  BY InitIInv, InitSafe, InitAsserted, InitWaiters, InitLives DEF Progressing
<1>2. Progressing /\ [Next]_vars => Progressing'
  BY NextProgressing
<1>3. Progressing => NothingForgotten
  BY LivesForgetNothing DEF Progressing, Lives
<1>4. QED
  BY <1>1, <1>2, <1>3, PTL DEF Spec
=============================================================================
