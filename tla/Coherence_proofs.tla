-------------------------- MODULE Coherence_proofs --------------------------
(***************************************************************************)
(* Proofs about Coherence for every number of cores, lines and threads and *)
(* every configuration.  TypeOK is not inductive: a directory takes the    *)
(* cores it puts into its entries and messages from the request at the     *)
(* head of a queue, so no queue may be empty while its head is processed.  *)
(* That holds because one network thread only processes the queue of a     *)
(* line, the one of the line's home: whatever a directory has to handle    *)
(* reaches no other core (MessagesTo).                                     *)
(***************************************************************************)
EXTENDS Coherence, SequenceTheorems, TLAPS

\* The messages that may reach core h: requests, answers of caches and data
\* from DRAM reach the home of their line, which sends all commands and reads.
MessagesTo(h) ==
  {m \in Message :
     /\ m.type \in DemandReq \cup CacheReply \cup {"DRAM_READ_REP"} => DirHome[m.addr] = h
     /\ m.type \in DirCommand \cup {"DRAM_READ_REQ"} => DirHome[m.addr] = m.from}

InboxOK(box) == /\ box \in [Core -> Seq(Message)]
                /\ \A c \in Core : box[c] \in Seq(MessagesTo(c))

\* Nobody but the home processes a queue, which then has a head; the waiter
\* that was woken is still there when it is to be removed.
NetOK ==
  \A c \in Core :
    /\ net[c].at \in {"head", "next"} => /\ DirHome[net[c].addr] = c
                                         /\ queue[net[c].addr] # <<>>
    /\ net[c].at = "woken" => waiters[c][net[c].addr] # <<>>

IInv == TypeOK /\ InboxOK(inbox) /\ NetOK

USE MapsAssumption, ConfigAssumption

-----------------------------------------------------------------------------
(* Sequences *)

\* Updating every element of a sequence gives a sequence, just as empty.
LEMMA MappedSeq ==
  ASSUME NEW S, NEW s \in Seq(S), NEW t, t \in [DOMAIN s -> S]
  PROVE  t \in Seq(S) /\ (t = <<>> <=> s = <<>>)
<1>1. Len(s) \in Nat /\ DOMAIN s = 1 .. Len(s)
  BY LenProperties
<1>2. t \in Seq(S) /\ Len(t) = Len(s)
  BY <1>1
<1>3. QED
  BY <1>1, <1>2, EmptySeq

\* Updating the head of a queue keeps it a queue, and not empty.
LEMMA UpdatedHead ==
  ASSUME NEW S, NEW s \in Seq(S), s # <<>>, NEW e \in S
  PROVE  [s EXCEPT ![1] = e] \in Seq(S) /\ [s EXCEPT ![1] = e] # <<>>
<1>1. 1 \in 1 .. Len(s)
  BY EmptySeq
<1>2. [s EXCEPT ![1] = e] \in Seq(S) /\ Len([s EXCEPT ![1] = e]) = Len(s)
  BY <1>1, ExceptSeq
<1>3. QED
  BY <1>1, <1>2, EmptySeq

-----------------------------------------------------------------------------
(* Messages *)

\* A message is what its fields say.
LEMMA MsgOK ==
  ASSUME NEW type \in MsgType, NEW a \in Addr, NEW from \in Core, NEW data \in Data
  PROVE  /\ Msg(type, a, from, data) \in Message
         /\ Msg(type, a, from, data).type = type
         /\ Msg(type, a, from, data).addr = a
         /\ Msg(type, a, from, data).from = from
  BY DEF Msg, Message

\* Messages a directory or DRAM sends, which every core may get.
FromHome == DirReply \cup DirCommand \cup {"DRAM_READ_REQ", "DRAM_WRITE_REQ"}

LEMMA FromHomeOK ==
  ASSUME NEW type \in FromHome, NEW a \in Addr, NEW data \in Data,
         NEW h \in Core, DirHome[a] = h, NEW k \in Core
  PROVE  Msg(type, a, h, data) \in MessagesTo(k)
<1>1. type \in MsgType /\ type \notin DemandReq \cup CacheReply \cup {"DRAM_READ_REP"}
  BY DEF FromHome, MsgType, DirReply, DirCommand, DemandReq, CacheReply, DramMsg
<1>2. QED
  BY <1>1, MsgOK DEF MessagesTo

\* Messages to the home of a line: requests and answers of caches, and data.
LEMMA ToHomeOK ==
  ASSUME NEW type \in DemandReq \cup CacheReply \cup {"DRAM_READ_REP"}, NEW a \in Addr,
         NEW data \in Data, NEW from \in Core
  PROVE  Msg(type, a, from, data) \in MessagesTo(DirHome[a])
<1>1. type \in MsgType /\ type \notin DirCommand \cup {"DRAM_READ_REQ"}
  BY DEF MsgType, DirCommand, DemandReq, CacheReply, DramMsg
<1>2. QED
  BY <1>1, MsgOK DEF MessagesTo

\* The head of an inbox is a message to its core.
LEMMA HeadOK ==
  ASSUME InboxOK(inbox), NEW c \in Core, inbox[c] # <<>>
  PROVE  /\ Head(inbox[c]) \in MessagesTo(c)
         /\ Head(inbox[c]) \in Message
         /\ Head(inbox[c]).addr \in Addr
         /\ Head(inbox[c]).from \in Core
         /\ Head(inbox[c]).data \in Data
         /\ Head(inbox[c]).type \in MsgType
<1>1. inbox[c] \in Seq(MessagesTo(c))
  BY DEF InboxOK
<1>2. Head(inbox[c]) \in MessagesTo(c)
  BY <1>1, HeadTailProperties
<1>3. QED
  BY <1>2 DEF MessagesTo, Message

\* Taking a message leaves messages to the same cores.
LEMMA RestOK ==
  ASSUME InboxOK(inbox), NEW c \in Core, inbox[c] # <<>>
  PROVE  InboxOK(Rest(c))
  BY HeadTailProperties DEF InboxOK, Rest

\* Sending a message to cores it is meant for.
LEMMA DeliverOK ==
  ASSUME NEW box, InboxOK(box), NEW m, NEW to,
         \A c \in Core : c \in to => m \in MessagesTo(c)
  PROVE  InboxOK(Deliver(box, m, to))
<1>1. ASSUME NEW c \in Core PROVE /\ Deliver(box, m, to)[c] \in Seq(MessagesTo(c))
                                  /\ Deliver(box, m, to)[c] \in Seq(Message)
  <2>1. MessagesTo(c) \subseteq Message
    BY DEF MessagesTo
  <2>2. box[c] \in Seq(MessagesTo(c)) /\ box[c] \in Seq(Message)
    BY DEF InboxOK
  <2>3. Deliver(box, m, to)[c] = IF c \in to THEN Append(box[c], m) ELSE box[c]
    BY DEF Deliver
  <2>4. c \in to => m \in MessagesTo(c) /\ m \in Message
    BY <2>1
  <2>5. QED
    BY <2>2, <2>3, <2>4
<1>2. DOMAIN Deliver(box, m, to) = Core /\ Deliver(box, m, to) = [c \in Core |-> Deliver(box, m, to)[c]]
  BY DEF Deliver
<1>3. QED
  BY <1>1, <1>2 DEF InboxOK

\* A write ages the data of messages and changes nothing else of them.
LEMMA AgedMessage ==
  ASSUME NEW c \in Core, NEW m \in MessagesTo(c)
  PROVE  Aged(m) \in MessagesTo(c)
  BY DEF Aged, Outdated, MessagesTo, Message, Data

\* ... and of requests.
LEMMA AgedRequest == ASSUME NEW r \in Request PROVE Aged(r) \in Request
  BY DEF Aged, Outdated, Request, Data

-----------------------------------------------------------------------------
(* The network threads *)

NetTypeOK == /\ net \in [Core -> NetState]
             /\ \A c \in Core : net[c].at # "recv" => net[c].addr \in Addr

\* A network thread that goes on leaves the others where they are: they need
\* only the queues of their own lines and the waiters of their own cache.
LEMMA NetMoves ==
  ASSUME IInv, NEW c \in Core, NEW data \in Data,
         NEW at \in {"recv", "head", "next", "serve", "woken"},
         NEW a \in Addr \cup {NoAddr}, GoTo(c, at, a, data),
         at # "recv" => a \in Addr,
         at \in {"head", "next"} => DirHome[a] = c /\ queue'[a] # <<>>,
         at = "woken" => waiters'[c][a] # <<>>,
         \A b \in Addr : queue'[b] = <<>> => queue[b] = <<>> \/ DirHome[b] = c,
         \A k \in Core \ {c}, b \in Addr : waiters'[k][b] = <<>> => waiters[k][b] = <<>>
  PROVE  NetTypeOK' /\ NetOK'
<1>1. net \in [Core -> NetState] /\ \A k \in Core : net[k].at # "recv" => net[k].addr \in Addr
  BY DEF IInv, TypeOK
<1>2. /\ net' \in [Core -> NetState]
      /\ net'[c].at = at /\ net'[c].addr = a
      /\ \A k \in Core \ {c} : net'[k] = net[k]
  BY <1>1 DEF GoTo, NetState
<1>3. NetTypeOK'
  BY <1>1, <1>2 DEF NetTypeOK
<1>4. ASSUME NEW k \in Core
      PROVE  /\ net'[k].at \in {"head", "next"} => /\ DirHome[net'[k].addr] = k
                                                   /\ queue'[net'[k].addr] # <<>>
             /\ net'[k].at = "woken" => waiters'[k][net'[k].addr] # <<>>
  <2>1. CASE k = c
    BY <1>2, <2>1
  <2>2. CASE k # c
    BY <1>1, <1>2, <2>2 DEF IInv, NetOK
  <2>3. QED
    BY <2>1, <2>2
<1>5. QED
  BY <1>3, <1>4 DEF NetOK

\* Steps beside the network threads must leave them what they work on.
LEMMA NetStays ==
  ASSUME IInv,
         net' \in [Core -> NetState],
         \A k \in Core : net'[k].at = net[k].at /\ net'[k].addr = net[k].addr,
         \A b \in Addr : queue'[b] = <<>> => queue[b] = <<>>,
         \A k \in Core, b \in Addr : waiters'[k][b] = <<>> => waiters[k][b] = <<>>
  PROVE  NetTypeOK' /\ NetOK'
<1>1. \A k \in Core : net[k].at # "recv" => net[k].addr \in Addr
  BY DEF IInv, TypeOK
<1>2. ASSUME NEW k \in Core
      PROVE  /\ net'[k].at \in {"head", "next"} => /\ DirHome[net'[k].addr] = k
                                                   /\ queue'[net'[k].addr] # <<>>
             /\ net'[k].at = "woken" => waiters'[k][net'[k].addr] # <<>>
  BY <1>1 DEF IInv, NetOK
<1>3. QED
  BY <1>1, <1>2 DEF NetTypeOK, NetOK

\* A directory works on its own line, whose queue has a head.
LEMMA AtHead ==
  ASSUME IInv, NEW h \in Core, net[h].at \in {"head", "next"}
  PROVE  /\ net[h].addr \in Addr /\ net[h].data \in Data
         /\ DirHome[net[h].addr] = h
         /\ queue[net[h].addr] \in Seq(Request)
         /\ queue[net[h].addr] # <<>>
         /\ Head(queue[net[h].addr]) \in Request
         /\ Head(queue[net[h].addr]).from \in Core
         /\ Head(queue[net[h].addr]).data \in Data
<1>1. net[h].addr \in Addr /\ net[h].data \in Data
  BY DEF IInv, TypeOK, NetState
<1>2. DirHome[net[h].addr] = h /\ queue[net[h].addr] # <<>>
  BY DEF IInv, NetOK
<1>3. queue[net[h].addr] \in Seq(Request)
  BY <1>1 DEF IInv, TypeOK
<1>4. Head(queue[net[h].addr]) \in Request
  BY <1>2, <1>3, HeadTailProperties
<1>5. QED
  BY <1>1, <1>2, <1>3, <1>4 DEF Request

\* IInv holds again when each of its parts does.
LEMMA Assemble ==
  ASSUME llc' \in [Core -> [Addr -> CacheState]],
         copy' \in [Core -> [Addr -> Data]],
         waiters' \in [Core -> [Addr -> Seq(Waiter)]],
         waiting' \subseteq Thread,
         dir' \in [Addr -> DirEntry],
         present' \subseteq Addr,
         replaced' \subseteq Addr,
         queue' \in [Addr -> Seq(Request)],
         dram' \in [Addr -> Data],
         InboxOK(inbox'), NetTypeOK', NetOK'
  PROVE  IInv'
  BY DEF IInv, TypeOK, InboxOK, NetTypeOK

-----------------------------------------------------------------------------
(* The directory: steps they have in common *)

LEMMA CommandStep ==
  ASSUME IInv, NEW h \in Core, net[h].at = "head",
         NEW type \in DirCommand, NEW to, Command(h, type, to)
  PROVE  IInv'
<1> DEFINE a == net[h].addr
           m == Msg(type, a, h, "none")
<1>1. a \in Addr /\ DirHome[a] = h
  BY AtHead
<1>2. /\ UNCHANGED <<llc, copy, waiters, waiting, dir, present, replaced, queue, dram>>
      /\ inbox' = Deliver(inbox, m, to)
      /\ GoTo(h, "recv", NoAddr, "none")
  BY DEF Command, Done, cacheVars, dirVars
<1>3. \A k \in Core : m \in MessagesTo(k)
  BY <1>1, FromHomeOK DEF FromHome, DirCommand, Data
<1>4. InboxOK(inbox')
  BY <1>2, <1>3, DeliverOK DEF IInv
<1>5. NetTypeOK' /\ NetOK'
  BY <1>2, NetMoves DEF Data
<1>6. QED
  BY <1>2, <1>4, <1>5, Assemble DEF IInv, TypeOK

LEMMA RetrieveStep ==
  ASSUME IInv, NEW h \in Core, net[h].at = "head",
         NEW rep \in DirReply, NEW to \in Core, NEW data \in Data, NEW e \in DirEntry,
         Retrieve(h, rep, to, data, e)
  PROVE  IInv'
<1> DEFINE a == net[h].addr
           req == Head(queue[a])
<1>1. /\ a \in Addr /\ DirHome[a] = h
      /\ queue[a] \in Seq(Request) /\ queue[a] # <<>> /\ queue[a][1] \in Request
  BY AtHead, ElementOfSeq, EmptySeq
<1>2. UNCHANGED <<llc, copy, waiters, waiting, present, replaced, dram>>
  BY DEF Retrieve, cacheVars
<1>3. CASE /\ dir' = [dir EXCEPT ![a] = [e EXCEPT !.forwarder = to]]
           /\ inbox' = Deliver(inbox, Msg(rep, a, h, data), {to})
           /\ GoTo(h, "next", a, "none")
           /\ UNCHANGED queue
  <2>1. \A k \in Core : Msg(rep, a, h, data) \in MessagesTo(k)
    BY <1>1, FromHomeOK DEF FromHome
  <2>2. InboxOK(inbox')
    BY <1>3, <2>1, DeliverOK DEF IInv
  <2>3. NetTypeOK' /\ NetOK'
    BY <1>1, <1>2, <1>3, NetMoves DEF Data
  <2>4. dir' \in [Addr -> DirEntry]
    BY <1>3 DEF IInv, TypeOK, DirEntry
  <2>5. QED
    BY <1>2, <1>3, <2>2, <2>3, <2>4, Assemble DEF IInv, TypeOK
<1>4. CASE /\ dir' = [dir EXCEPT ![a] = e]
           /\ queue' = [queue EXCEPT ![a][1].forwardingFrom = e.forwarder]
           /\ inbox' = Deliver(inbox, Msg("WB_REQ", a, h, "none"), {e.forwarder})
           /\ Done(h)
  <2>1. \A k \in Core : Msg("WB_REQ", a, h, "none") \in MessagesTo(k)
    BY <1>1, FromHomeOK DEF FromHome, DirCommand, Data
  <2>2. InboxOK(inbox')
    BY <1>4, <2>1, DeliverOK DEF IInv
  <2> DEFINE r == [queue[a][1] EXCEPT !.forwardingFrom = e.forwarder]
  <2>3. r \in Request
    BY <1>1 DEF Request, DirEntry
  <2>4. [queue[a] EXCEPT ![1] = r] \in Seq(Request) /\ [queue[a] EXCEPT ![1] = r] # <<>>
    BY <1>1, <2>3, UpdatedHead
  <2>5. queue' = [queue EXCEPT ![a] = [queue[a] EXCEPT ![1] = r]]
    BY <1>4
  <2>6. queue' \in [Addr -> Seq(Request)] /\ \A b \in Addr : queue'[b] = <<>> => queue[b] = <<>>
    BY <1>1, <2>4, <2>5 DEF IInv, TypeOK
  <2>7. NetTypeOK' /\ NetOK'
    BY <1>2, <1>4, <2>6, NetMoves DEF Done, Data
  <2>8. dir' \in [Addr -> DirEntry]
    BY <1>4 DEF IInv, TypeOK
  <2>9. QED
    BY <1>2, <2>2, <2>6, <2>7, <2>8, Assemble DEF IInv, TypeOK
<1>5. CASE /\ dir' = [dir EXCEPT ![a] = e]
           /\ queue' = [queue EXCEPT ![a][1].waitForData = TRUE]
           /\ inbox' = Deliver(inbox, Msg("DRAM_READ_REQ", a, h, "none"), {DramHome[a]})
           /\ Done(h)
  <2>1. \A k \in Core : Msg("DRAM_READ_REQ", a, h, "none") \in MessagesTo(k)
    BY <1>1, FromHomeOK DEF FromHome, Data
  <2>2. InboxOK(inbox')
    BY <1>5, <2>1, DeliverOK DEF IInv
  <2> DEFINE r == [queue[a][1] EXCEPT !.waitForData = TRUE]
  <2>3. r \in Request
    BY <1>1 DEF Request
  <2>4. [queue[a] EXCEPT ![1] = r] \in Seq(Request) /\ [queue[a] EXCEPT ![1] = r] # <<>>
    BY <1>1, <2>3, UpdatedHead
  <2>5. queue' = [queue EXCEPT ![a] = [queue[a] EXCEPT ![1] = r]]
    BY <1>5
  <2>6. queue' \in [Addr -> Seq(Request)] /\ \A b \in Addr : queue'[b] = <<>> => queue[b] = <<>>
    BY <1>1, <2>4, <2>5 DEF IInv, TypeOK
  <2>7. NetTypeOK' /\ NetOK'
    BY <1>2, <1>5, <2>6, NetMoves DEF Done, Data
  <2>8. dir' \in [Addr -> DirEntry]
    BY <1>5 DEF IInv, TypeOK
  <2>9. QED
    BY <1>2, <2>2, <2>6, <2>7, <2>8, Assemble DEF IInv, TypeOK
<1>6. QED
  BY <1>3, <1>4, <1>5 DEF Retrieve

-----------------------------------------------------------------------------
(* The program's accesses *)

\* What a cache controller can do to a line and its copy.
LEMMA LineOK ==
  ASSUME IInv, NEW c \in Core, NEW a \in Addr, NEW state \in CacheState, NEW data \in Data
  PROVE  /\ [llc EXCEPT ![c][a] = state] \in [Core -> [Addr -> CacheState]]
         /\ [copy EXCEPT ![c][a] = data] \in [Core -> [Addr -> Data]]
  BY DEF IInv, TypeOK

\* A write ages data everywhere and changes nothing else of a message or request.
LEMMA WriteOK ==
  ASSUME IInv, NEW c \in Core, NEW a \in Addr, WrittenAt(c, a)
  PROVE  /\ copy' \in [Core -> [Addr -> Data]]
         /\ dram' \in [Addr -> Data]
         /\ queue' \in [Addr -> Seq(Request)]
         /\ \A b \in Addr : queue'[b] = <<>> => queue[b] = <<>>
         /\ InboxOK(inbox')
<1>1. copy' \in [Core -> [Addr -> Data]] /\ dram' \in [Addr -> Data]
  BY DEF WrittenAt, Outdated, Data, IInv, TypeOK
<1> DEFINE aged == [i \in DOMAIN queue[a] |-> Aged(queue[a][i])]
<1>2. aged \in Seq(Request) /\ (aged = <<>> => queue[a] = <<>>)
  <2>1. queue[a] \in Seq(Request)
    BY DEF IInv, TypeOK
  <2>2. \A i \in DOMAIN queue[a] : queue[a][i] \in Request
    BY <2>1, ElementOfSeq, LenProperties
  <2>3. \A i \in DOMAIN queue[a] : Aged(queue[a][i]) \in Request
    BY <2>2, AgedRequest
  <2>4. aged \in [DOMAIN queue[a] -> Request]
    BY <2>3
  <2> HIDE DEF aged
  <2>5. QED
    BY <2>1, <2>4, MappedSeq
<1>3. queue' = [queue EXCEPT ![a] = aged]
  BY DEF WrittenAt
<1>4. queue' \in [Addr -> Seq(Request)] /\ \A b \in Addr : queue'[b] = <<>> => queue[b] = <<>>
  <2> HIDE DEF aged
  <2> QED
    BY <1>2, <1>3 DEF IInv, TypeOK
<1>5. ASSUME NEW k \in Core
      PROVE  inbox'[k] \in Seq(Message) /\ inbox'[k] \in Seq(MessagesTo(k))
  <2> DEFINE box == [i \in DOMAIN inbox[k] |->
                       IF inbox[k][i].addr = a THEN Aged(inbox[k][i]) ELSE inbox[k][i]]
  <2>1. inbox[k] \in Seq(MessagesTo(k)) /\ MessagesTo(k) \subseteq Message
    BY DEF IInv, InboxOK, MessagesTo
  <2>2. \A i \in DOMAIN inbox[k] : inbox[k][i] \in MessagesTo(k)
    BY <2>1, ElementOfSeq, LenProperties
  <2>3. \A i \in DOMAIN inbox[k] : box[i] \in MessagesTo(k)
    BY <2>2, AgedMessage
  <2>4. box \in [DOMAIN inbox[k] -> MessagesTo(k)]
    BY <2>3
  <2>5. inbox'[k] = box
    BY DEF WrittenAt
  <2> HIDE DEF box
  <2>6. box \in Seq(MessagesTo(k))
    BY <2>1, <2>4, MappedSeq
  <2>7. box \in Seq(Message)
    BY <2>1, <2>6, SeqMonotonic
  <2>8. QED
    BY <2>5, <2>6, <2>7
<1>6. DOMAIN inbox' = Core /\ inbox' = [k \in Core |-> inbox'[k]]
  BY DEF WrittenAt
<1>7. QED
  BY <1>1, <1>4, <1>5, <1>6 DEF InboxOK

\* A thread of the program and its cache.
LEMMA AccessOK ==
  ASSUME NEW t \in Thread PROVE LLCOf[t] \in Core
  OBVIOUS

LEMMA AgedNet ==
  ASSUME IInv, NEW a \in Addr, NEW k \in Core
  PROVE  /\ NetWrittenAt(a)[k] \in NetState
         /\ NetWrittenAt(a)[k].at = net[k].at
         /\ NetWrittenAt(a)[k].addr = net[k].addr
<1>1. net[k] \in NetState
  BY DEF IInv, TypeOK
<1>2. Aged(net[k]) \in NetState /\ Aged(net[k]).at = net[k].at /\ Aged(net[k]).addr = net[k].addr
  BY <1>1 DEF Aged, Outdated, NetState, Data
<1>3. QED
  BY <1>1, <1>2 DEF NetWrittenAt

LEMMA WriteHitStep ==
  ASSUME IInv, NEW t \in Thread, NEW a \in Addr, WriteHit(t, a)
  PROVE  IInv'
<1> DEFINE c == LLCOf[t]
<1>1. c \in Core
  BY AccessOK
<1>2. /\ llc' = [llc EXCEPT ![c][a] = "MODIFIED"]
      /\ WrittenAt(c, a)
      /\ net' = NetWrittenAt(a)
      /\ UNCHANGED <<waiters, waiting, dir, present, replaced>>
  BY DEF WriteHit
<1>3. llc' \in [Core -> [Addr -> CacheState]]
  BY <1>1, <1>2 DEF IInv, TypeOK, CacheState
<1>4. /\ copy' \in [Core -> [Addr -> Data]]
      /\ dram' \in [Addr -> Data]
      /\ queue' \in [Addr -> Seq(Request)]
      /\ \A b \in Addr : queue'[b] = <<>> => queue[b] = <<>>
      /\ InboxOK(inbox')
  BY <1>1, <1>2, WriteOK
<1>5. /\ net' \in [Core -> NetState]
      /\ \A k \in Core : net'[k].at = net[k].at /\ net'[k].addr = net[k].addr
  <2>1. DOMAIN net' = Core /\ net' = [k \in Core |-> net'[k]]
    BY <1>2 DEF NetWrittenAt
  <2>2. QED
    BY <1>2, <2>1, AgedNet
<1>6. NetTypeOK' /\ NetOK'
  BY <1>2, <1>4, <1>5, NetStays
<1>7. QED
  BY <1>2, <1>3, <1>4, <1>6, Assemble DEF IInv, TypeOK

LEMMA MissStep ==
  ASSUME IInv, NEW t \in Thread, NEW a \in Addr, NEW exclusive \in BOOLEAN, Miss(t, a, exclusive)
  PROVE  IInv'
<1> DEFINE c == LLCOf[t]
           w == [thread |-> t, exclusive |-> exclusive]
           type == RequestFor(c, a, exclusive)
<1>1. c \in Core /\ w \in Waiter
  BY AccessOK DEF Waiter
<1>2. /\ waiters' = [waiters EXCEPT ![c][a] = Append(@, w)]
      /\ waiting' = waiting \cup {t}
      /\ llc' = llc \/ llc' = [llc EXCEPT ![c][a] = "SHARED_UPGRADING"]
      /\ inbox' \in {inbox, Deliver(inbox, Msg(type, a, c, "none"), {DirHome[a]})}
      /\ UNCHANGED <<copy, dir, present, replaced, queue, dram, net>>
  BY DEF Miss, dirVars
<1>3. llc' \in [Core -> [Addr -> CacheState]]
  <2>1. CASE llc' = llc
    BY <2>1 DEF IInv, TypeOK
  <2>2. CASE llc' = [llc EXCEPT ![c][a] = "SHARED_UPGRADING"]
    BY <1>1, <2>2, LineOK DEF CacheState, Data
  <2>3. QED
    BY <1>2, <2>1, <2>2
<1>4. /\ waiters' \in [Core -> [Addr -> Seq(Waiter)]]
      /\ \A k \in Core, b \in Addr : waiters'[k][b] = <<>> => waiters[k][b] = <<>>
  <2>1. waiters[c][a] \in Seq(Waiter)
    BY <1>1 DEF IInv, TypeOK
  <2>2. Append(waiters[c][a], w) \in Seq(Waiter) /\ Append(waiters[c][a], w) # <<>>
    BY <1>1, <2>1
  <2>3. waiters' = [waiters EXCEPT ![c] = [waiters[c] EXCEPT ![a] = Append(waiters[c][a], w)]]
    BY <1>2
  <2>4. QED
    BY <1>1, <2>2, <2>3 DEF IInv, TypeOK
<1>5. InboxOK(inbox')
  <2>1. type \in DemandReq
    BY DEF RequestFor, DemandReq
  <2> HIDE DEF type
  <2>2. Msg(type, a, c, "none") \in MessagesTo(DirHome[a])
    BY <1>1, <2>1, ToHomeOK DEF Data
  <2>3. InboxOK(Deliver(inbox, Msg(type, a, c, "none"), {DirHome[a]}))
    BY <2>2, DeliverOK DEF IInv
  <2>4. QED
    BY <1>2, <2>3 DEF IInv
<1>6. NetTypeOK' /\ NetOK'
  BY <1>2, <1>4, NetStays DEF IInv, TypeOK
<1>7. waiting' \subseteq Thread
  BY <1>2 DEF IInv, TypeOK
<1>8. QED
  BY <1>2, <1>3, <1>4, <1>5, <1>6, <1>7, Assemble DEF IInv, TypeOK

LEMMA EvictStep ==
  ASSUME IInv, NEW c \in Core, NEW a \in Addr, Evict(c, a)
  PROVE  IInv'
<1>1. /\ llc' = [llc EXCEPT ![c][a] = "INVALID"]
      /\ copy' = [copy EXCEPT ![c][a] = "none"]
      /\ inbox' \in {Deliver(inbox, Msg("FLUSH_REP", a, c, copy[c][a]), {DirHome[a]}),
                     Deliver(inbox, Msg("INV_REP", a, c, "none"), {DirHome[a]})}
      /\ UNCHANGED <<waiters, waiting, dir, present, replaced, queue, dram, net>>
  BY DEF Evict, dirVars
<1>2. llc' \in [Core -> [Addr -> CacheState]] /\ copy' \in [Core -> [Addr -> Data]]
  BY <1>1 DEF IInv, TypeOK, CacheState, Data
<1>3. copy[c][a] \in Data
  BY DEF IInv, TypeOK
<1>4. /\ Msg("FLUSH_REP", a, c, copy[c][a]) \in MessagesTo(DirHome[a])
      /\ Msg("INV_REP", a, c, "none") \in MessagesTo(DirHome[a])
  BY <1>3, ToHomeOK DEF CacheReply, Data
<1>5. /\ InboxOK(Deliver(inbox, Msg("FLUSH_REP", a, c, copy[c][a]), {DirHome[a]}))
      /\ InboxOK(Deliver(inbox, Msg("INV_REP", a, c, "none"), {DirHome[a]}))
  BY <1>4, DeliverOK DEF IInv
<1>6. NetTypeOK' /\ NetOK'
  BY <1>1, NetStays DEF IInv, TypeOK
<1>7. QED
  BY <1>1, <1>2, <1>5, <1>6, Assemble DEF IInv, TypeOK

-----------------------------------------------------------------------------
(* The cache controllers: messages from the directory *)

\* A message that is taken from an inbox.
LEMMA TakenOK ==
  ASSUME IInv, NEW c \in Core, inbox[c] # <<>>
  PROVE  /\ Head(inbox[c]) \in MessagesTo(c)
         /\ Head(inbox[c]).addr \in Addr
         /\ Head(inbox[c]).from \in Core
         /\ Head(inbox[c]).data \in Data
         /\ InboxOK(Rest(c))
  BY HeadOK, RestOK DEF IInv

\* Handlers of replies leave the thread with the waiters of the line.
LEMMA RepliedStep ==
  ASSUME IInv, NEW c \in Core, inbox[c] # <<>>,
         NEW state \in CacheState,
         llc' = [llc EXCEPT ![c][Head(inbox[c]).addr] = state],
         copy' \in [Core -> [Addr -> Data]],
         inbox' = Rest(c),
         GoTo(c, "serve", Head(inbox[c]).addr, "none"),
         UNCHANGED <<waiters, waiting, dir, present, replaced, queue, dram>>
  PROVE  IInv'
<1>1. Head(inbox[c]).addr \in Addr /\ InboxOK(inbox')
  BY TakenOK
<1>2. llc' \in [Core -> [Addr -> CacheState]]
  BY <1>1, LineOK DEF Data
<1>3. NetTypeOK' /\ NetOK'
  BY <1>1, NetMoves DEF Data
<1>4. QED
  BY <1>1, <1>2, <1>3, Assemble DEF IInv, TypeOK

LEMMA FillStep == ASSUME IInv, NEW c \in Core, Fill(c) PROVE IInv'
<1> DEFINE m == Head(inbox[c])
<1>1. PICK state \in {"EXCLUSIVE", "SHARED"} :
        /\ inbox[c] # <<>>
        /\ llc' = [llc EXCEPT ![c][m.addr] = state]
        /\ copy' = [copy EXCEPT ![c][m.addr] = m.data]
        /\ inbox' = Rest(c)
        /\ GoTo(c, "serve", m.addr, "none")
        /\ UNCHANGED <<waiters, waiting, dir, present, replaced, queue, dram>>
  BY DEF Fill, Received, dirVars
<1>2. state \in CacheState /\ m.addr \in Addr /\ m.data \in Data
  BY <1>1, TakenOK DEF CacheState
<1>3. copy' \in [Core -> [Addr -> Data]]
  BY <1>1, <1>2, LineOK
<1>4. QED
  BY <1>1, <1>2, <1>3, RepliedStep

LEMMA FinishUpgradeStep == ASSUME IInv, NEW c \in Core, FinishUpgrade(c) PROVE IInv'
<1>1. /\ inbox[c] # <<>>
      /\ llc' = [llc EXCEPT ![c][Head(inbox[c]).addr] = "MODIFIED"]
      /\ inbox' = Rest(c)
      /\ GoTo(c, "serve", Head(inbox[c]).addr, "none")
      /\ UNCHANGED <<copy, waiters, waiting, dir, present, replaced, queue, dram>>
  BY DEF FinishUpgrade, Received, dirVars
<1>2. "MODIFIED" \in CacheState /\ copy' \in [Core -> [Addr -> Data]]
  BY <1>1 DEF CacheState, IInv, TypeOK
<1>3. QED
  BY <1>1, <1>2, RepliedStep

LEMMA IgnoreCommandStep == ASSUME IInv, NEW c \in Core, IgnoreCommand(c) PROVE IInv'
<1>1. /\ inbox[c] # <<>>
      /\ inbox' = Rest(c)
      /\ UNCHANGED <<llc, copy, waiters, waiting, dir, present, replaced, queue, dram, net>>
  BY DEF IgnoreCommand, Received, cacheVars, dirVars
<1>2. InboxOK(inbox')
  BY <1>1, TakenOK
<1>3. NetTypeOK' /\ NetOK'
  BY <1>1, NetStays DEF IInv, TypeOK
<1>4. QED
  BY <1>1, <1>2, <1>3, Assemble DEF IInv, TypeOK

\* The answer to a command goes to whom sent it, the home of the line.
LEMMA AnsweredStep ==
  ASSUME IInv, NEW c \in Core, inbox[c] # <<>>, Head(inbox[c]).type \in DirCommand,
         NEW type \in CacheReply, NEW data \in Data,
         llc' \in [Core -> [Addr -> CacheState]],
         copy' \in [Core -> [Addr -> Data]],
         inbox' = Deliver(Rest(c), Msg(type, Head(inbox[c]).addr, c, data), {Head(inbox[c]).from}),
         UNCHANGED <<waiters, waiting, dir, present, replaced, queue, dram, net>>
  PROVE  IInv'
<1> DEFINE m == Head(inbox[c])
<1>1. m \in MessagesTo(c) /\ m.addr \in Addr /\ m.from \in Core /\ InboxOK(Rest(c))
  BY TakenOK
<1>2. DirHome[m.addr] = m.from
  BY <1>1 DEF MessagesTo
<1>3. Msg(type, m.addr, c, data) \in MessagesTo(m.from)
  BY <1>1, <1>2, ToHomeOK
<1>4. InboxOK(inbox')
  BY <1>1, <1>3, DeliverOK
<1>5. NetTypeOK' /\ NetOK'
  BY NetStays DEF IInv, TypeOK
<1>6. QED
  BY <1>4, <1>5, Assemble DEF IInv, TypeOK

LEMMA InvalidateStep == ASSUME IInv, NEW c \in Core, Invalidate(c) PROVE IInv'
<1> DEFINE m == Head(inbox[c])
<1>1. /\ inbox[c] # <<>> /\ m.type \in DirCommand
      /\ llc' = [llc EXCEPT ![c][m.addr] = "INVALID"]
      /\ copy' = [copy EXCEPT ![c][m.addr] = "none"]
      /\ inbox' = Deliver(Rest(c), Msg("INV_REP", m.addr, c, "none"), {m.from})
      /\ UNCHANGED <<waiters, waiting, dir, present, replaced, queue, dram, net>>
  BY DEF Invalidate, Received, Drop, dirVars, DirCommand
<1>2. m.addr \in Addr
  BY <1>1, TakenOK
<1>3. llc' \in [Core -> [Addr -> CacheState]] /\ copy' \in [Core -> [Addr -> Data]]
  BY <1>1, <1>2, LineOK DEF CacheState, Data
<1>4. QED
  BY <1>1, <1>3, AnsweredStep DEF CacheReply, Data

LEMMA FlushStep == ASSUME IInv, NEW c \in Core, Flush(c) PROVE IInv'
<1> DEFINE m == Head(inbox[c])
<1>1. /\ inbox[c] # <<>> /\ m.type \in DirCommand
      /\ llc' = [llc EXCEPT ![c][m.addr] = "INVALID"]
      /\ copy' = [copy EXCEPT ![c][m.addr] = "none"]
      /\ inbox' = Deliver(Rest(c), Msg("FLUSH_REP", m.addr, c, copy[c][m.addr]), {m.from})
      /\ UNCHANGED <<waiters, waiting, dir, present, replaced, queue, dram, net>>
  BY DEF Flush, Received, Drop, dirVars, DirCommand
<1>2. m.addr \in Addr
  BY <1>1, TakenOK
<1>3. llc' \in [Core -> [Addr -> CacheState]] /\ copy' \in [Core -> [Addr -> Data]]
  BY <1>1, <1>2, LineOK DEF CacheState, Data
<1>4. copy[c][m.addr] \in Data
  BY <1>2 DEF IInv, TypeOK
<1>5. QED
  BY <1>1, <1>3, <1>4, AnsweredStep DEF CacheReply

LEMMA WriteBackStep == ASSUME IInv, NEW c \in Core, WriteBack(c) PROVE IInv'
<1> DEFINE m == Head(inbox[c])
<1>1. PICK d \in Arbitrary \cup {copy[c][m.addr]} :
        /\ inbox[c] # <<>> /\ m.type \in DirCommand
        /\ llc' = llc \/ llc' = [llc EXCEPT ![c][m.addr] = "SHARED"]
        /\ inbox' = Deliver(Rest(c), Msg("WB_REP", m.addr, c, d), {m.from})
        /\ UNCHANGED <<copy, waiters, waiting, dir, present, replaced, queue, dram, net>>
  BY DEF WriteBack, Received, dirVars, DirCommand
<1>2. m.addr \in Addr
  BY <1>1, TakenOK
<1>3. d \in Data
  <2>1. copy[c][m.addr] \in Data
    BY <1>2 DEF IInv, TypeOK
  <2>2. Arbitrary \subseteq Data
    BY DEF Arbitrary, Data
  <2>3. QED
    BY <2>1, <2>2
<1>4. llc' \in [Core -> [Addr -> CacheState]]
  <2>1. CASE llc' = llc
    BY <2>1 DEF IInv, TypeOK
  <2>2. CASE llc' = [llc EXCEPT ![c][m.addr] = "SHARED"]
    BY <1>2, <2>2, LineOK DEF CacheState, Data
  <2>3. QED
    BY <1>1, <2>1, <2>2
<1>5. copy' \in [Core -> [Addr -> Data]]
  BY <1>1 DEF IInv, TypeOK
<1>6. /\ inbox[c] # <<>> /\ m.type \in DirCommand /\ "WB_REP" \in CacheReply
      /\ inbox' = Deliver(Rest(c), Msg("WB_REP", m.addr, c, d), {m.from})
      /\ UNCHANGED <<waiters, waiting, dir, present, replaced, queue, dram, net>>
  BY <1>1 DEF CacheReply
<1>7. QED
  BY ONLY IInv, c \in Core, <1>3, <1>4, <1>5, <1>6, AnsweredStep

-----------------------------------------------------------------------------
(* The cache controllers: the loop over the waiters *)

\* The thread that serves the waiters of a line is at a line.
LEMMA Served ==
  ASSUME IInv, NEW c \in Core, net[c].at \in {"serve", "woken"}
  PROVE  net[c].addr \in Addr /\ waiters[c][net[c].addr] \in Seq(Waiter)
  BY DEF IInv, TypeOK

LEMMA ServeByUpgradeStep == ASSUME IInv, NEW c \in Core, ServeByUpgrade(c) PROVE IInv'
<1> DEFINE a == net[c].addr
<1>1. /\ net[c].at = "serve"
      /\ llc' = [llc EXCEPT ![c][a] = "SHARED_UPGRADING"]
      /\ inbox' = Deliver(inbox, Msg("UPGRADE_REQ", a, c, "none"), {DirHome[a]})
      /\ GoTo(c, "recv", NoAddr, "none")
      /\ UNCHANGED <<copy, waiters, waiting, dir, present, replaced, queue, dram>>
  BY DEF ServeByUpgrade, Serving, Done, dirVars
<1>2. a \in Addr
  BY <1>1, Served
<1>3. llc' \in [Core -> [Addr -> CacheState]]
  BY <1>1, <1>2, LineOK DEF CacheState, Data
<1>4. Msg("UPGRADE_REQ", a, c, "none") \in MessagesTo(DirHome[a])
  BY <1>2, ToHomeOK DEF DemandReq, Data
<1>5. InboxOK(inbox')
  BY <1>1, <1>4, DeliverOK DEF IInv
<1>6. NetTypeOK' /\ NetOK'
  BY <1>1, NetMoves DEF Data
<1>7. QED
  BY <1>1, <1>3, <1>5, <1>6, Assemble DEF IInv, TypeOK

LEMMA WakeStep == ASSUME IInv, NEW c \in Core, Wake(c) PROVE IInv'
<1> DEFINE a == net[c].addr
<1>1. /\ net[c].at = "serve" /\ waiters[c][a] # <<>>
      /\ waiting' \subseteq waiting
      /\ UNCHANGED <<waiters, dir, present, replaced>>
  BY DEF Wake, Serving
<1>2. a \in Addr /\ waiting' \subseteq Thread
  BY <1>1, Served DEF IInv, TypeOK
<1>3. CASE /\ llc' = [llc EXCEPT ![c][a] = "MODIFIED"]
           /\ WrittenAt(c, a)
           /\ net' = [NetWrittenAt(a) EXCEPT ![c].at = "woken"]
  <2>1. llc' \in [Core -> [Addr -> CacheState]]
    BY <1>2, <1>3, LineOK DEF CacheState, Data
  <2>2. /\ copy' \in [Core -> [Addr -> Data]]
        /\ dram' \in [Addr -> Data]
        /\ queue' \in [Addr -> Seq(Request)]
        /\ \A b \in Addr : queue'[b] = <<>> => queue[b] = <<>>
        /\ InboxOK(inbox')
    BY <1>2, <1>3, WriteOK
  <2>3. /\ \A k \in Core : NetWrittenAt(a)[k] \in NetState
        /\ \A k \in Core : /\ NetWrittenAt(a)[k].at = net[k].at
                           /\ NetWrittenAt(a)[k].addr = net[k].addr
        /\ NetWrittenAt(a) = [k \in Core |-> NetWrittenAt(a)[k]]
    <3>1. NetWrittenAt(a) = [k \in Core |-> NetWrittenAt(a)[k]]
      BY DEF NetWrittenAt
    <3>2. QED
      BY <1>2, <3>1, AgedNet
  <2>4. /\ net' \in [Core -> NetState]
        /\ net'[c].at = "woken" /\ net'[c].addr = a
        /\ \A k \in Core \ {c} : net'[k].at = net[k].at /\ net'[k].addr = net[k].addr
    BY <1>3, <2>3 DEF NetState
  <2>5. \A k \in Core : net[k].at # "recv" => net[k].addr \in Addr
    BY DEF IInv, TypeOK
  <2>6. NetTypeOK'
    BY <1>2, <2>4, <2>5 DEF NetTypeOK
  <2>7. ASSUME NEW k \in Core
        PROVE  /\ net'[k].at \in {"head", "next"} => /\ DirHome[net'[k].addr] = k
                                                     /\ queue'[net'[k].addr] # <<>>
               /\ net'[k].at = "woken" => waiters'[k][net'[k].addr] # <<>>
    <3>1. CASE k = c
      BY <1>1, <2>4, <3>1
    <3>2. CASE k # c
      <4>1. net'[k].at = net[k].at /\ net'[k].addr = net[k].addr
        BY <2>4, <3>2
      <4>2. /\ net[k].at \in {"head", "next"} => /\ DirHome[net[k].addr] = k
                                                 /\ queue[net[k].addr] # <<>>
            /\ net[k].at = "woken" => waiters[k][net[k].addr] # <<>>
        BY DEF IInv, NetOK
      <4>3. waiters' = waiters
        BY <1>1
      <4>4. QED
        BY <2>2, <2>5, <4>1, <4>2, <4>3
    <3>3. QED
      BY <3>1, <3>2
  <2>8. NetOK'
    BY <2>7 DEF NetOK
  <2>9. QED
    BY <1>1, <1>2, <2>1, <2>2, <2>6, <2>8, Assemble DEF IInv, TypeOK
<1>4. CASE /\ GoTo(c, "woken", a, "none")
           /\ UNCHANGED <<llc, copy, dram, queue, inbox>>
  <2>1. NetTypeOK' /\ NetOK'
    BY <1>1, <1>2, <1>4, NetMoves DEF Data
  <2>2. QED
    BY <1>1, <1>2, <1>4, <2>1, Assemble DEF IInv, TypeOK
<1>5. QED
  BY <1>3, <1>4 DEF Wake

LEMMA RemoveWaiterStep == ASSUME IInv, NEW c \in Core, RemoveWaiter(c) PROVE IInv'
<1> DEFINE a == net[c].addr
<1>1. /\ net[c].at = "woken"
      /\ waiters' = [waiters EXCEPT ![c] = [waiters[c] EXCEPT ![a] = Tail(waiters[c][a])]]
      /\ GoTo(c, "serve", a, "none")
      /\ UNCHANGED <<llc, copy, waiting, dir, present, replaced, queue, dram, inbox>>
  BY DEF RemoveWaiter, Serving, dirVars
<1>2. a \in Addr /\ waiters[c][a] \in Seq(Waiter)
  BY <1>1, Served
<1>3. waiters[c][a] # <<>>
  BY <1>1 DEF IInv, NetOK
<1>4. Tail(waiters[c][a]) \in Seq(Waiter)
  BY <1>2, <1>3, HeadTailProperties
<1>5. /\ waiters' \in [Core -> [Addr -> Seq(Waiter)]]
      /\ \A k \in Core \ {c} : waiters'[k] = waiters[k]
  BY <1>1, <1>2, <1>4 DEF IInv, TypeOK
<1>6. NetTypeOK' /\ NetOK'
  BY <1>1, <1>2, <1>5, NetMoves DEF Data
<1>7. QED
  BY <1>1, <1>5, <1>6, Assemble DEF IInv, TypeOK

LEMMA AllServedStep == ASSUME IInv, NEW c \in Core, AllServed(c) PROVE IInv'
<1>1. /\ GoTo(c, "recv", NoAddr, "none")
      /\ UNCHANGED <<llc, copy, waiters, waiting, dir, present, replaced, queue, dram, inbox>>
  BY DEF AllServed, Done, cacheVars, dirVars
<1>2. NetTypeOK' /\ NetOK'
  BY <1>1, NetMoves DEF Data
<1>3. QED
  BY <1>1, <1>2, Assemble DEF IInv, TypeOK

-----------------------------------------------------------------------------
(* The directory: messages *)

\* A message for the directory reaches the home of its line.
LEMMA AtHome ==
  ASSUME IInv, NEW h \in Core, inbox[h] # <<>>,
         Head(inbox[h]).type \in DemandReq \cup CacheReply \cup {"DRAM_READ_REP"}
  PROVE  DirHome[Head(inbox[h]).addr] = h
  BY TakenOK DEF MessagesTo

LEMMA ClaimedOK == ASSUME IInv, NEW a \in Addr PROVE Claimed(a) \subseteq Addr
  BY DEF IInv, TypeOK, Claimed

LEMMA TakeRequestStep == ASSUME IInv, NEW h \in Core, TakeRequest(h) PROVE IInv'
<1> DEFINE m == Head(inbox[h])
           a == m.addr
<1>1. PICK type \in DemandReq :
        /\ inbox[h] # <<>> /\ m.type = type
        /\ present' = Claimed(a)
        /\ queue' = [queue EXCEPT ![a] = Append(@, NewRequest(type, m.from))]
        /\ inbox' = Rest(h)
        /\ \/ GoTo(h, "head", a, "none")
           \/ UNCHANGED net
        /\ UNCHANGED <<llc, copy, waiters, waiting, dir, replaced, dram>>
  BY DEF TakeRequest, Received, cacheVars
<1>2. a \in Addr /\ m.from \in Core /\ InboxOK(inbox') /\ DirHome[a] = h
  BY <1>1, TakenOK, AtHome
<1>3. present' \subseteq Addr
  BY <1>1, <1>2, ClaimedOK
<1> DEFINE r == NewRequest(type, m.from)
<1>4. r \in Request
  BY <1>2 DEF NewRequest, Request, Data
<1>5. queue[a] \in Seq(Request)
  BY <1>2 DEF IInv, TypeOK
<1> HIDE DEF r
<1>6. Append(queue[a], r) \in Seq(Request) /\ Append(queue[a], r) # <<>>
  BY <1>4, <1>5
<1>7. queue' = [queue EXCEPT ![a] = Append(queue[a], r)]
  BY <1>1 DEF r
<1>8. /\ queue' \in [Addr -> Seq(Request)] /\ queue'[a] # <<>>
      /\ \A b \in Addr : queue'[b] = <<>> => queue[b] = <<>>
  BY <1>2, <1>6, <1>7 DEF IInv, TypeOK
<1>9. NetTypeOK' /\ NetOK'
  <2>1. CASE GoTo(h, "head", a, "none")
    BY <1>1, <1>2, <1>8, <2>1, NetMoves DEF Data
  <2>2. CASE UNCHANGED net
    BY <1>1, <1>8, <2>2, NetStays DEF IInv, TypeOK
  <2>3. QED
    BY <1>1, <2>1, <2>2
<1>10. QED
  BY <1>1, <1>2, <1>3, <1>8, <1>9, Assemble DEF IInv, TypeOK

\* What a directory does with an answer of a cache: the entry changes, the data
\* may go to DRAM or into the waiting request, which may go on.
LEMMA AnswerTaken ==
  ASSUME IInv, NEW h \in Core, inbox[h] # <<>>, Head(inbox[h]).type \in CacheReply,
         NEW e \in DirEntry, NEW data \in Data,
         present' = Claimed(Head(inbox[h]).addr),
         dir' = [dir EXCEPT ![Head(inbox[h]).addr] = e],
         inbox' = Rest(h) \/ inbox' = ToDram(Rest(h), Head(inbox[h]), h),
         queue' \in [Addr -> Seq(Request)],
         \A b \in Addr : queue'[b] = <<>> => queue[b] = <<>>,
         UNCHANGED net \/ (/\ queue[Head(inbox[h]).addr] # <<>>
                           /\ GoTo(h, "head", Head(inbox[h]).addr, data)),
         UNCHANGED <<llc, copy, waiters, waiting, replaced, dram>>
  PROVE  IInv'
<1> DEFINE m == Head(inbox[h])
           a == m.addr
<1>1. a \in Addr /\ m.from \in Core /\ m.data \in Data /\ DirHome[a] = h /\ InboxOK(Rest(h))
  BY TakenOK, AtHome
<1>2. present' \subseteq Addr /\ dir' \in [Addr -> DirEntry]
  BY <1>1, ClaimedOK DEF IInv, TypeOK
<1>3. \A k \in Core : Msg("DRAM_WRITE_REQ", a, h, m.data) \in MessagesTo(k)
  BY <1>1, FromHomeOK DEF FromHome
<1>4. InboxOK(ToDram(Rest(h), m, h))
  BY <1>1, <1>3, DeliverOK DEF ToDram
<1>5. InboxOK(inbox')
  BY <1>1, <1>4
<1>6. NetTypeOK' /\ NetOK'
  <2>1. CASE UNCHANGED net
    BY <2>1, NetStays DEF IInv, TypeOK
  <2>2. CASE queue[a] # <<>> /\ GoTo(h, "head", a, data)
    BY <1>1, <2>2, NetMoves
  <2>3. QED
    BY <2>1, <2>2
<1>7. QED
  BY <1>2, <1>5, <1>6, Assemble DEF IInv, TypeOK

LEMMA TakeInvRepStep == ASSUME IInv, NEW h \in Core, TakeInvRep(h) PROVE IInv'
<1> DEFINE m == Head(inbox[h])
           a == m.addr
           left == dir[a].sharers \ {m.from}
           e == [dir[a] EXCEPT !.sharers = left,
                               !.forwarder = IF @ = m.from THEN NoCore ELSE @,
                               !.state = IF left = {} THEN "UNCACHED" ELSE @]
<1>1. /\ inbox[h] # <<>> /\ m.type = "INV_REP"
      /\ present' = Claimed(a)
      /\ dir' = [dir EXCEPT ![a] = e]
      /\ inbox' = Rest(h)
      /\ UNCHANGED net \/ (queue[a] # <<>> /\ GoTo(h, "head", a, "none"))
      /\ UNCHANGED <<llc, copy, waiters, waiting, replaced, queue, dram>>
  BY DEF TakeInvRep, Received, cacheVars
<1>2. a \in Addr
  BY <1>1, TakenOK
<1>3. e \in DirEntry
  <2>1. dir[a] \in DirEntry
    BY <1>2 DEF IInv, TypeOK
  <2>2. QED
    BY <2>1 DEF DirEntry, DirState
<1>4. queue' \in [Addr -> Seq(Request)]
  BY <1>1 DEF IInv, TypeOK
<1> HIDE DEF e
<1>5. QED
  BY <1>1, <1>3, <1>4, AnswerTaken DEF CacheReply, Data

LEMMA TakeFlushRepStep == ASSUME IInv, NEW h \in Core, TakeFlushRep(h) PROVE IInv'
<1> DEFINE m == Head(inbox[h])
           a == m.addr
           left == dir[a].sharers \ {m.from}
           e == [dir[a] EXCEPT !.sharers = left, !.owner = NoCore, !.forwarder = NoCore,
                               !.state = IF left = {} THEN "UNCACHED" ELSE @]
           type == Waits(a)
<1>1. /\ inbox[h] # <<>> /\ m.type = "FLUSH_REP"
      /\ present' = Claimed(a)
      /\ dir' = [dir EXCEPT ![a] = e]
      /\ inbox' = Rest(h) \/ inbox' = ToDram(Rest(h), m, h)
      /\ UNCHANGED <<llc, copy, waiters, waiting, replaced, dram>>
  <2>1. inbox[h] # <<>> /\ m.type = "FLUSH_REP" /\ present' = Claimed(a)
    BY DEF TakeFlushRep, Received
  <2>2. dir' = [dir EXCEPT ![a] = e]
    BY DEF TakeFlushRep
  <2>3. inbox' = Rest(h) \/ inbox' = ToDram(Rest(h), m, h)
    BY DEF TakeFlushRep
  <2>4. UNCHANGED <<llc, copy, waiters, waiting, replaced, dram>>
    BY DEF TakeFlushRep, cacheVars
  <2>5. QED
    BY <2>1, <2>2, <2>3, <2>4
<1>2. a \in Addr /\ m.data \in Data
  BY <1>1, TakenOK
<1>3. PICK d \in {m.data, "none"} :
        \/ UNCHANGED <<queue, net>>
        \/ queue[a] # <<>> /\ GoTo(h, "head", a, d) /\ UNCHANGED queue
        \/ /\ queue[a] # <<>>
           /\ queue' = [queue EXCEPT ![a][1].data = m.data]
           /\ UNCHANGED net
  <2>1. \/ type = "none" /\ UNCHANGED <<queue, net>>
        \/ type = "NULLIFY_REQ" /\ GoTo(h, "head", a, "none") /\ UNCHANGED queue
        \/ /\ \/ type \in {"EX_REQ", "SH_REQ"}
              \/ type = "UPGRADE_REQ" /\ left = {}
           /\ GoTo(h, "head", a, m.data)
           /\ UNCHANGED queue
        \/ /\ type = "UPGRADE_REQ" /\ left # {}
           /\ queue' = [queue EXCEPT ![a][1].data = m.data]
           /\ UNCHANGED net
    BY DEF TakeFlushRep
  <2>2. type # "none" => queue[a] # <<>>
    BY DEF Waits
  <2>3. QED
    BY <2>1, <2>2
<1>4. e \in DirEntry
  <2>1. dir[a] \in DirEntry
    BY <1>2 DEF IInv, TypeOK
  <2>2. QED
    BY <2>1 DEF DirEntry, DirState
<1>5. /\ queue' \in [Addr -> Seq(Request)]
      /\ \A b \in Addr : queue'[b] = <<>> => queue[b] = <<>>
  <2>1. CASE UNCHANGED queue
    BY <2>1 DEF IInv, TypeOK
  <2>2. CASE queue[a] # <<>> /\ queue' = [queue EXCEPT ![a][1].data = m.data]
    <3> DEFINE r == [queue[a][1] EXCEPT !.data = m.data]
    <3>1. queue[a] \in Seq(Request)
      BY <1>2 DEF IInv, TypeOK
    <3>2. queue[a][1] \in Request
      BY <2>2, <3>1, ElementOfSeq, EmptySeq
    <3>3. r \in Request
      BY <1>2, <3>2 DEF Request
    <3>4. [queue[a] EXCEPT ![1] = r] \in Seq(Request) /\ [queue[a] EXCEPT ![1] = r] # <<>>
      BY <2>2, <3>1, <3>3, UpdatedHead
    <3>5. queue' = [queue EXCEPT ![a] = [queue[a] EXCEPT ![1] = r]]
      BY <2>2
    <3>6. QED
      BY <1>2, <3>4, <3>5 DEF IInv, TypeOK
  <2>3. QED
    BY <1>3, <2>1, <2>2
<1>6. /\ m.type \in CacheReply /\ d \in Data
      /\ UNCHANGED net \/ (queue[a] # <<>> /\ GoTo(h, "head", a, d))
  BY <1>1, <1>2, <1>3 DEF CacheReply, Data
<1> HIDE DEF e
<1>7. QED
  BY <1>1, <1>4, <1>5, <1>6, AnswerTaken

LEMMA TakeWbRepStep == ASSUME IInv, NEW h \in Core, TakeWbRep(h) PROVE IInv'
<1> DEFINE m == Head(inbox[h])
           a == m.addr
           e == [dir[a] EXCEPT !.owner = NoCore, !.state = "SHARED"]
<1>1. /\ inbox[h] # <<>> /\ m.type = "WB_REP" /\ queue[a] # <<>>
      /\ present' = Claimed(a)
      /\ dir' = [dir EXCEPT ![a] = e]
      /\ inbox' = Rest(h)
      /\ GoTo(h, "head", a, m.data)
      /\ UNCHANGED <<llc, copy, waiters, waiting, replaced, queue, dram>>
  BY DEF TakeWbRep, WbRepIsExpected, Received, cacheVars
<1>2. a \in Addr /\ m.data \in Data
  BY <1>1, TakenOK
<1>3. e \in DirEntry
  <2>1. dir[a] \in DirEntry
    BY <1>2 DEF IInv, TypeOK
  <2>2. QED
    BY <2>1 DEF DirEntry, DirState
<1>4. queue' \in [Addr -> Seq(Request)]
  BY <1>1 DEF IInv, TypeOK
<1> HIDE DEF e
<1>5. QED
  BY <1>1, <1>2, <1>3, <1>4, AnswerTaken DEF CacheReply

LEMMA TakeDramRepStep == ASSUME IInv, NEW h \in Core, TakeDramRep(h) PROVE IInv'
<1> DEFINE m == Head(inbox[h])
           a == m.addr
           req == Head(queue[a])
           rep == IF req.type = "SH_REQ" /\ dir[a].state = "SHARED" THEN "SH_REP" ELSE "EX_REP"
<1>1. /\ inbox[h] # <<>> /\ m.type = "DRAM_READ_REP" /\ queue[a] # <<>>
      /\ inbox' = Deliver(Rest(h), Msg(rep, a, h, m.data), {req.from})
      /\ GoTo(h, "next", a, "none")
      /\ UNCHANGED <<llc, copy, waiters, waiting, dir, present, replaced, queue, dram>>
  BY DEF TakeDramRep, DramRepIsExpected, Received, cacheVars, dirVars
<1>2. a \in Addr /\ m.data \in Data /\ DirHome[a] = h /\ InboxOK(Rest(h))
  BY <1>1, TakenOK, AtHome
<1>3. rep \in FromHome
  BY DEF FromHome, DirReply
<1> HIDE DEF rep
<1>4. \A k \in Core : Msg(rep, a, h, m.data) \in MessagesTo(k)
  BY <1>2, <1>3, FromHomeOK
<1>5. InboxOK(inbox')
  BY <1>1, <1>2, <1>4, DeliverOK
<1>6. NetTypeOK' /\ NetOK'
  BY <1>1, <1>2, NetMoves DEF Data
<1>7. QED
  BY <1>1, <1>5, <1>6, Assemble DEF IInv, TypeOK

-----------------------------------------------------------------------------
(* The directory: processing requests *)

\* The request at the head and the entry of its line.
LEMMA Processed ==
  ASSUME IInv, NEW h \in Core, NEW types, NEW states, Processing(h, types, states)
  PROVE  /\ net[h].at = "head"
         /\ net[h].addr \in Addr /\ net[h].data \in Data
         /\ DirHome[net[h].addr] = h
         /\ Head(queue[net[h].addr]).from \in Core
         /\ Head(queue[net[h].addr]).data \in Data
         /\ dir[net[h].addr] \in DirEntry
  BY AtHead DEF Processing, IInv, TypeOK

\* Requests that make the directory send a command and wait.
LEMMA CommandSteps ==
  ASSUME IInv, NEW h \in Core,
         \/ ExFlush(h) \/ ExInvalidate(h) \/ ShWriteBack(h) \/ ShMakeRoom(h) \/ UpgradeFlush(h)
  PROVE  IInv'
<1>1. \/ \E to : net[h].at = "head" /\ Command(h, "FLUSH_REQ", to)
      \/ \E to : net[h].at = "head" /\ Command(h, "INV_REQ", to)
      \/ \E to : net[h].at = "head" /\ Command(h, "WB_REQ", to)
  BY DEF ExFlush, ExInvalidate, ShWriteBack, ShMakeRoom, UpgradeFlush, Processing
<1>2. QED
  BY <1>1, CommandStep DEF DirCommand

LEMMA SoleOwnerOK ==
  ASSUME NEW a \in Addr, dir[a] \in DirEntry, NEW c \in Core, NEW state \in DirState
  PROVE  SoleOwner(a, c, state) \in DirEntry
  BY DEF SoleOwner, DirEntry

LEMMA ExGrantStep == ASSUME IInv, NEW h \in Core, ExGrant(h) PROVE IInv'
<1> DEFINE a == net[h].addr
           c == Head(queue[a]).from
<1>1. /\ Processing(h, {"EX_REQ"}, {"UNCACHED"})
      /\ Retrieve(h, "EX_REP", c, net[h].data, SoleOwner(a, c, "MODIFIED"))
  BY DEF ExGrant
<1>2. SoleOwner(a, c, "MODIFIED") \in DirEntry
  BY <1>1, Processed, SoleOwnerOK DEF DirState
<1>3. QED
  BY <1>1, <1>2, Processed, RetrieveStep DEF DirReply

LEMMA ShShareStep == ASSUME IInv, NEW h \in Core, ShShare(h) PROVE IInv'
<1> DEFINE a == net[h].addr
           c == Head(queue[a]).from
           e == [dir[a] EXCEPT !.sharers = @ \cup {c}]
<1>1. /\ Processing(h, {"SH_REQ"}, {"SHARED"})
      /\ Retrieve(h, "SH_REP", c, net[h].data, e)
  BY DEF ShShare
<1>2. dir[a] \in DirEntry /\ c \in Core
  BY <1>1, Processed
<1> HIDE DEF a, c
<1>3. e \in DirEntry
  BY <1>2 DEF DirEntry
<1> HIDE DEF e
<1>4. QED
  BY <1>1, <1>3, Processed, RetrieveStep DEF DirReply, a, c

LEMMA ShFirstStep == ASSUME IInv, NEW h \in Core, ShFirst(h) PROVE IInv'
<1> DEFINE a == net[h].addr
           c == Head(queue[a]).from
<1>1. /\ Processing(h, {"SH_REQ"}, {"UNCACHED"})
      /\ \/ Retrieve(h, "SH_REP", c, net[h].data, SoleOwner(a, c, "SHARED"))
         \/ Retrieve(h, "EX_REP", c, net[h].data, SoleOwner(a, c, "EXCLUSIVE"))
  BY DEF ShFirst
<1>2. SoleOwner(a, c, "SHARED") \in DirEntry /\ SoleOwner(a, c, "EXCLUSIVE") \in DirEntry
  BY <1>1, Processed, SoleOwnerOK DEF DirState
<1>3. QED
  BY <1>1, <1>2, Processed, RetrieveStep DEF DirReply

LEMMA UpgradeAsExclusiveStep == ASSUME IInv, NEW h \in Core, UpgradeAsExclusive(h) PROVE IInv'
<1> DEFINE a == net[h].addr
           c == Head(queue[a]).from
<1>1. Processing(h, {"UPGRADE_REQ"}, {"UNCACHED"})
  BY DEF UpgradeAsExclusive
<1>2. PICK d \in {net[h].data, "none"} \cup Arbitrary :
        Retrieve(h, "EX_REP", c, d, SoleOwner(a, c, "MODIFIED"))
  BY DEF UpgradeAsExclusive
<1>3. d \in Data
  <2>1. Arbitrary \subseteq Data /\ "none" \in Data
    BY DEF Arbitrary, Data
  <2>2. QED
    BY <1>1, <2>1, Processed
<1>4. SoleOwner(a, c, "MODIFIED") \in DirEntry
  BY <1>1, Processed, SoleOwnerOK DEF DirState
<1>5. QED
  BY <1>1, <1>2, <1>3, <1>4, Processed, RetrieveStep DEF DirReply

LEMMA UpgradeGrantStep == ASSUME IInv, NEW h \in Core, UpgradeGrant(h) PROVE IInv'
<1> DEFINE a == net[h].addr
           c == Head(queue[a]).from
           e == [dir[a] EXCEPT !.owner = c, !.state = "MODIFIED"]
<1>1. /\ net[h].at = "head"
      /\ dir' = [dir EXCEPT ![a] = e]
      /\ inbox' = Deliver(inbox, Msg("UPGRADE_REP", a, h, "none"), {c})
      /\ GoTo(h, "next", a, "none")
      /\ UNCHANGED <<llc, copy, waiters, waiting, present, replaced, queue, dram>>
  BY DEF UpgradeGrant, Processing, cacheVars
<1>2. a \in Addr /\ c \in Core /\ DirHome[a] = h /\ queue[a] # <<>>
  BY <1>1, AtHead
<1>3. dir' \in [Addr -> DirEntry]
  <2>1. dir[a] \in DirEntry
    BY <1>2 DEF IInv, TypeOK
  <2>2. e \in DirEntry
    BY <1>2, <2>1 DEF DirEntry, DirState
  <2>3. QED
    BY <1>1, <2>2 DEF IInv, TypeOK
<1>4. \A k \in Core : Msg("UPGRADE_REP", a, h, "none") \in MessagesTo(k)
  BY <1>2, FromHomeOK DEF FromHome, DirReply, Data
<1>5. InboxOK(inbox')
  BY <1>1, <1>4, DeliverOK DEF IInv
<1>6. NetTypeOK' /\ NetOK'
  BY <1>1, <1>2, NetMoves DEF Data
<1>7. QED
  BY <1>1, <1>3, <1>5, <1>6, Assemble DEF IInv, TypeOK

LEMMA UpgradeInvalidateStep == ASSUME IInv, NEW h \in Core, UpgradeInvalidate(h) PROVE IInv'
<1> DEFINE a == net[h].addr
           c == Head(queue[a]).from
           flushed == IF c \in dir[a].sharers THEN {} ELSE {LowestSharer(dir[a])}
<1>1. /\ net[h].at = "head"
      /\ inbox' = Deliver(Deliver(inbox, Msg("FLUSH_REQ", a, h, "none"), flushed),
                          Msg("INV_REQ", a, h, "none"), dir[a].sharers \ ({c} \cup flushed))
      /\ GoTo(h, "recv", NoAddr, "none")
      /\ UNCHANGED <<llc, copy, waiters, waiting, dir, present, replaced, queue, dram>>
  BY DEF UpgradeInvalidate, Processing, Done, cacheVars, dirVars
<1>2. a \in Addr /\ DirHome[a] = h
  BY <1>1, AtHead
<1>3. \A k \in Core : /\ Msg("FLUSH_REQ", a, h, "none") \in MessagesTo(k)
                      /\ Msg("INV_REQ", a, h, "none") \in MessagesTo(k)
  BY <1>2, FromHomeOK DEF FromHome, DirCommand, Data
<1> HIDE DEF flushed
<1>4. InboxOK(Deliver(inbox, Msg("FLUSH_REQ", a, h, "none"), flushed))
  BY <1>3, DeliverOK DEF IInv
<1>5. InboxOK(inbox')
  BY <1>1, <1>3, <1>4, DeliverOK
<1>6. NetTypeOK' /\ NetOK'
  BY <1>1, NetMoves DEF Data
<1>7. QED
  BY <1>1, <1>5, <1>6, Assemble DEF IInv, TypeOK

-----------------------------------------------------------------------------
(* The directory: replacing entries, and the next request *)

LEMMA NewEntriesOK == NewEntries \subseteq DirEntry
  BY DEF NewEntries, DirEntry, DirState

LEMMA AllocateStep == ASSUME IInv, NEW h \in Core, Allocate(h) PROVE IInv'
<1> DEFINE a == net[h].addr
           c == Head(queue[a]).from
<1>1. net[h].at = "head"
  BY DEF Allocate
<1>2. a \in Addr /\ c \in Core /\ DirHome[a] = h /\ queue[a] # <<>>
  BY <1>1, AtHead
<1>3. PICK v \in Victims(a) :
        /\ present' = (present \ {v}) \cup {a}
        /\ \/ /\ \E e \in NewEntries : dir' = [dir EXCEPT ![v] = e]
              /\ UNCHANGED <<replaced, queue, inbox>>
           \/ /\ replaced' = replaced \cup {v}
              /\ queue' = [queue EXCEPT ![v] = <<NewRequest("NULLIFY_REQ", c)>>]
              /\ inbox' = Deliver(inbox, Msg(NullifyType(v), v, h, "none"), NullifyTo(v))
              /\ UNCHANGED dir
        /\ UNCHANGED <<llc, copy, waiters, waiting, dram, net>>
  BY DEF Allocate, cacheVars
<1>4. v \in Addr /\ DirHome[v] = h
  BY <1>2 DEF Victims, SetOf
<1>5. present' \subseteq Addr
  BY <1>2, <1>3 DEF IInv, TypeOK
<1>6. CASE /\ \E e \in NewEntries : dir' = [dir EXCEPT ![v] = e]
           /\ UNCHANGED <<replaced, queue, inbox>>
  <2>1. dir' \in [Addr -> DirEntry]
    BY <1>6, NewEntriesOK DEF IInv, TypeOK
  <2>2. NetTypeOK' /\ NetOK'
    BY <1>3, <1>6, NetStays DEF IInv, TypeOK
  <2>3. QED
    BY <1>3, <1>5, <1>6, <2>1, <2>2, Assemble DEF IInv, TypeOK
<1>7. CASE /\ replaced' = replaced \cup {v}
           /\ queue' = [queue EXCEPT ![v] = <<NewRequest("NULLIFY_REQ", c)>>]
           /\ inbox' = Deliver(inbox, Msg(NullifyType(v), v, h, "none"), NullifyTo(v))
           /\ UNCHANGED dir
  <2> DEFINE r == NewRequest("NULLIFY_REQ", c)
  <2>1. r \in Request
    BY <1>2 DEF NewRequest, Request, Data
  <2> HIDE DEF r
  <2>2. <<r>> \in Seq(Request) /\ <<r>> # <<>>
    BY <2>1
  <2>3. queue' = [queue EXCEPT ![v] = <<r>>]
    BY <1>7 DEF r
  <2>4. /\ queue' \in [Addr -> Seq(Request)]
        /\ \A b \in Addr : queue'[b] = <<>> => queue[b] = <<>>
    BY <1>4, <2>2, <2>3 DEF IInv, TypeOK
  <2>5. NullifyType(v) \in FromHome
    BY DEF NullifyType, FromHome, DirCommand
  <2>6. \A k \in Core : Msg(NullifyType(v), v, h, "none") \in MessagesTo(k)
    BY <1>4, <2>5, FromHomeOK DEF Data
  <2>7. InboxOK(inbox')
    BY <1>7, <2>6, DeliverOK DEF IInv
  <2>8. NetTypeOK' /\ NetOK'
    BY <1>3, <2>4, NetStays DEF IInv, TypeOK
  <2>9. replaced' \subseteq Addr
    BY <1>4, <1>7 DEF IInv, TypeOK
  <2>10. QED
    BY <1>3, <1>5, <1>7, <2>4, <2>7, <2>8, <2>9, Assemble DEF IInv, TypeOK
<1>8. QED
  BY <1>3, <1>6, <1>7

LEMMA NullifiedStep == ASSUME IInv, NEW h \in Core, Nullified(h) PROVE IInv'
<1> DEFINE a == net[h].addr
<1>1. /\ net[h].at = "head"
      /\ replaced' = replaced \ {a}
      /\ \E e \in NewEntries : dir' = [dir EXCEPT ![a] = e]
      /\ GoTo(h, "next", a, "none")
      /\ UNCHANGED <<llc, copy, waiters, waiting, present, queue, dram, inbox>>
  BY DEF Nullified, Processing, cacheVars
<1>2. a \in Addr /\ DirHome[a] = h /\ queue[a] # <<>>
  BY <1>1, AtHead
<1>3. dir' \in [Addr -> DirEntry] /\ replaced' \subseteq Addr
  BY <1>1, NewEntriesOK DEF IInv, TypeOK
<1>4. NetTypeOK' /\ NetOK'
  BY <1>1, <1>2, NetMoves DEF Data
<1>5. QED
  BY <1>1, <1>3, <1>4, Assemble DEF IInv, TypeOK

LEMMA NextRequestStep == ASSUME IInv, NEW h \in Core, NextRequest(h) PROVE IInv'
<1> DEFINE a == net[h].addr
           rest == Tail(queue[a])
<1>1. /\ net[h].at = "next"
      /\ queue' = [queue EXCEPT ![a] = rest]
      /\ IF rest = <<>> THEN GoTo(h, "recv", NoAddr, "none") ELSE GoTo(h, "head", a, "none")
      /\ UNCHANGED <<llc, copy, waiters, waiting, dir, present, replaced, dram, inbox>>
  BY DEF NextRequest, Done, cacheVars
<1>2. /\ a \in Addr /\ DirHome[a] = h
      /\ queue[a] \in Seq(Request) /\ queue[a] # <<>>
  BY <1>1, AtHead
<1>3. rest \in Seq(Request)
  BY <1>2, HeadTailProperties
<1> HIDE DEF rest
<1>4. /\ queue' \in [Addr -> Seq(Request)] /\ queue'[a] = rest
      /\ \A b \in Addr : queue'[b] = <<>> => queue[b] = <<>> \/ DirHome[b] = h
  BY <1>1, <1>2, <1>3 DEF IInv, TypeOK
<1>5. NetTypeOK' /\ NetOK'
  <2>1. CASE rest = <<>>
    BY <1>1, <1>4, <2>1, NetMoves DEF Data
  <2>2. CASE rest # <<>>
    BY <1>1, <1>2, <1>4, <2>2, NetMoves DEF Data
  <2>3. QED
    BY <2>1, <2>2
<1>6. QED
  BY <1>1, <1>4, <1>5, Assemble DEF IInv, TypeOK

-----------------------------------------------------------------------------
(* DRAM *)

LEMMA DramReadStep == ASSUME IInv, NEW c \in Core, DramRead(c) PROVE IInv'
<1> DEFINE m == Head(inbox[c])
<1>1. /\ inbox[c] # <<>> /\ m.type = "DRAM_READ_REQ"
      /\ inbox' = Deliver(Rest(c), Msg("DRAM_READ_REP", m.addr, c, dram[m.addr]), {m.from})
      /\ UNCHANGED <<llc, copy, waiters, waiting, dir, present, replaced, queue, dram, net>>
  BY DEF DramRead, Received, cacheVars, dirVars
<1>2. m \in MessagesTo(c) /\ m.addr \in Addr /\ m.from \in Core /\ InboxOK(Rest(c))
  BY <1>1, TakenOK
<1>3. DirHome[m.addr] = m.from /\ dram[m.addr] \in Data
  BY <1>1, <1>2 DEF MessagesTo, IInv, TypeOK
<1>4. Msg("DRAM_READ_REP", m.addr, c, dram[m.addr]) \in MessagesTo(m.from)
  BY <1>2, <1>3, ToHomeOK
<1>5. InboxOK(inbox')
  BY <1>1, <1>2, <1>4, DeliverOK
<1>6. NetTypeOK' /\ NetOK'
  BY <1>1, NetStays DEF IInv, TypeOK
<1>7. QED
  BY <1>1, <1>5, <1>6, Assemble DEF IInv, TypeOK

LEMMA DramWriteStep == ASSUME IInv, NEW c \in Core, DramWrite(c) PROVE IInv'
<1> DEFINE m == Head(inbox[c])
<1>1. /\ inbox[c] # <<>>
      /\ dram' = [dram EXCEPT ![m.addr] = m.data]
      /\ inbox' = Rest(c)
      /\ UNCHANGED <<llc, copy, waiters, waiting, dir, present, replaced, queue, net>>
  BY DEF DramWrite, Received, cacheVars, dirVars
<1>2. InboxOK(inbox') /\ dram' \in [Addr -> Data]
  BY <1>1, TakenOK DEF IInv, TypeOK
<1>3. NetTypeOK' /\ NetOK'
  BY <1>1, NetStays DEF IInv, TypeOK
<1>4. QED
  BY <1>1, <1>2, <1>3, Assemble DEF IInv, TypeOK

-----------------------------------------------------------------------------
(* The invariant *)

\* At first nothing is cached, queued or under way.
LEMMA InitIInv == Init => IInv
<1> SUFFICES ASSUME Init PROVE IInv
  OBVIOUS
<1>1. TypeOK
  BY NewEntriesOK, EmptySeq
     DEF Init, TypeOK, CacheState, Data, NetState
<1>2. InboxOK(inbox)
  BY EmptySeq DEF Init, InboxOK
<1>3. NetOK
  BY DEF Init, NetOK
<1>4. QED
  BY <1>1, <1>2, <1>3 DEF IInv

LEMMA NextIInv == IInv /\ [Next]_vars => IInv'
<1> SUFFICES ASSUME IInv, [Next]_vars PROVE IInv'
  OBVIOUS
<1>1. ASSUME NEW c \in Core, CacheMessage(c) PROVE IInv'
  BY <1>1, FillStep, FinishUpgradeStep, IgnoreCommandStep, InvalidateStep, FlushStep,
     WriteBackStep DEF CacheMessage
<1>2. ASSUME NEW c \in Core, ServeWaiters(c) PROVE IInv'
  BY <1>2, ServeByUpgradeStep, WakeStep, RemoveWaiterStep, AllServedStep DEF ServeWaiters
<1>3. ASSUME NEW c \in Core, DirectoryMessage(c) PROVE IInv'
  BY <1>3, TakeRequestStep, TakeInvRepStep, TakeFlushRepStep, TakeWbRepStep, TakeDramRepStep
     DEF DirectoryMessage
<1>4. ASSUME NEW c \in Core, ProcessRequest(c) PROVE IInv'
  BY <1>4, CommandSteps, ExGrantStep, ShShareStep, ShFirstStep, UpgradeGrantStep,
     UpgradeInvalidateStep, UpgradeAsExclusiveStep, AllocateStep, NullifiedStep, NextRequestStep
     DEF ProcessRequest
<1>5. ASSUME NEW c \in Core, DramMessage(c) PROVE IInv'
  BY <1>5, DramReadStep, DramWriteStep DEF DramMessage
<1>6. ASSUME NEW t \in Thread, NEW a \in Addr, Access(t, a) PROVE IInv'
  BY <1>6, WriteHitStep, MissStep DEF Access
<1>7. ASSUME NEW c \in Core, NEW a \in Addr, Evict(c, a) PROVE IInv'
  BY <1>7, EvictStep
<1>8. CASE UNCHANGED vars
  <2>1. NetTypeOK' /\ NetOK'
    BY <1>8, NetStays DEF vars, IInv, TypeOK
  <2>2. QED
    BY <1>8, <2>1, Assemble DEF vars, IInv, TypeOK
<1>9. QED
  BY <1>1, <1>2, <1>3, <1>4, <1>5, <1>6, <1>7, <1>8 DEF Next, NetStep

\* Every variable keeps its type: whatever crosses, a directory never takes a
\* request from an empty queue or a core from nowhere.
THEOREM TypeCorrect == Spec => []TypeOK
<1>1. IInv => TypeOK
  BY DEF IInv
<1>2. QED
  BY InitIInv, NextIInv, <1>1, PTL DEF Spec

\* Two network threads never process requests for one line, and whoever does is
\* its home and finds the request at the head of the queue.
OneDirectoryPerLine ==
  \A c, k \in Core :
    /\ net[c].at \in {"head", "next"} => /\ queue[net[c].addr] # <<>>
                                         /\ DirHome[net[c].addr] = c
    /\ /\ net[c].at \in {"head", "next"} /\ net[k].at \in {"head", "next"}
       /\ net[c].addr = net[k].addr
       => c = k

\* The queues of requests need no lock: every line has one directory.
THEOREM DirectoriesWorkApart == Spec => []OneDirectoryPerLine
<1>1. IInv => OneDirectoryPerLine
  BY DEF IInv, NetOK, OneDirectoryPerLine
<1>2. QED
  BY InitIInv, NextIInv, <1>1, PTL DEF Spec
=============================================================================
