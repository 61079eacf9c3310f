----------------------------- MODULE Coherence -----------------------------
(***************************************************************************)
(* The directory-based cache coherence protocol of the memory system:      *)
(* last-level cache controllers (cache_cntlr.cc), tag directories          *)
(* (dram_directory_cntlr.cc) and DRAM controllers, that talk by messages.  *)
(*                                                                         *)
(* Every core has one network thread, which takes the messages of the      *)
(* core's single inbox one by one and runs the handler of the component a  *)
(* message is for.  A directory handler may go on with the request at the  *)
(* head of an address's queue, finish it and go on with the next; net[c]   *)
(* records how far the handler is, and the thread takes no other message   *)
(* before it is done.  The threads of the simulated program run beside it. *)
(*                                                                         *)
(* Configuration modelled: no NUCA cache (m_nuca_cache = NULL).  Where the *)
(* code asserts something, the action has it as a guard, so the thread     *)
(* stops there; AssertionsHold says that none does.  That depends on the   *)
(* configuration: see there.                                               *)
(***************************************************************************)
EXTENDS Integers, Sequences, FiniteSets

CONSTANTS
  Core,          \* cores (network nodes): a last-level cache, directory and DRAM each
  Addr,          \* cache lines
  Thread,        \* threads of the simulated program
  Program,       \* what they may access: records of thread, addr, exclusive (write)
  Evictable,     \* lines that other lines, outside Addr, may push out of a cache
  LLCOf,         \* LLCOf[t]: the core whose last-level cache serves thread t
  DirHome,       \* DirHome[a]: the core with the directory of a
  DramHome,      \* DramHome[a]: the core with the DRAM controller of a
  Protocol,      \* "MSI", "MESI" or "MESIF"
  MaxHwSharers,  \* sharers a directory entry has room for
  DirWays,       \* entries of the one directory set the lines of a home share
  TrackData,     \* follow which copies of a line hold its last value?
  NoAddr

NoCore == -1     \* INVALID_CORE_ID

ASSUME CoreAssumption == Core \subseteq Nat /\ IsFiniteSet(Core)
ASSUME MapsAssumption == /\ LLCOf \in [Thread -> Core]
                         /\ DirHome \in [Addr -> Core]
                         /\ DramHome \in [Addr -> Core]
ASSUME ProgramAssumption ==
  /\ Program \subseteq [thread : Thread, addr : Addr, exclusive : BOOLEAN]
  /\ Evictable \subseteq Addr
ASSUME ConfigAssumption == /\ Protocol \in {"MSI", "MESI", "MESIF"}
                           /\ MaxHwSharers \in Nat \ {0}
                           /\ DirWays \in Nat \ {0}
                           /\ TrackData \in BOOLEAN
                           /\ NoAddr \notin Addr

VARIABLES
  llc,        \* llc[c][a]: coherence state of line a in the last-level cache of c
  copy,       \* copy[c][a]: what that cache holds of a
  waiters,    \* waiters[c][a]: m_directory_waiters, the accesses that wait for a
  waiting,    \* threads that wait for the network thread
  dir,        \* dir[a]: the directory entry of a
  present,    \* lines with an entry in the directory cache
  replaced,   \* lines whose entry is in m_replaced_directory_entry_list
  queue,      \* queue[a]: m_dram_directory_req_queue_list
  dram,       \* dram[a]: what DRAM holds of a
  inbox,      \* inbox[c]: messages to core c, in order
  net         \* net[c]: what the network thread of c is doing

cacheVars == <<llc, copy, waiters, waiting>>
dirVars == <<dir, present, replaced, queue>>
vars == <<llc, copy, waiters, waiting, dir, present, replaced, queue, dram, inbox, net>>

-----------------------------------------------------------------------------
(* Types *)

Data == {"none", "current", "stale"}      \* "current": the last value written

CacheState == {"INVALID", "SHARED", "SHARED_UPGRADING", "EXCLUSIVE", "MODIFIED"}
Readable == {"SHARED", "EXCLUSIVE", "MODIFIED"}

Waiter == [thread : Thread, exclusive : BOOLEAN]

DirState == {"UNCACHED", "SHARED", "EXCLUSIVE", "MODIFIED"}
DirEntry == [state : DirState, sharers : SUBSET Core,
             owner : Core \cup {NoCore}, forwarder : Core \cup {NoCore}]

DemandReq == {"EX_REQ", "SH_REQ", "UPGRADE_REQ"}
Request == [type : DemandReq \cup {"NULLIFY_REQ"}, from : Core, data : Data,
            waitForData : BOOLEAN, forwardingFrom : Core \cup {NoCore}]

DirReply == {"EX_REP", "SH_REP", "UPGRADE_REP"}          \* directory to cache
DirCommand == {"INV_REQ", "FLUSH_REQ", "WB_REQ"}         \* directory to cache
CacheReply == {"INV_REP", "FLUSH_REP", "WB_REP"}         \* cache to directory
DramMsg == {"DRAM_READ_REQ", "DRAM_WRITE_REQ", "DRAM_READ_REP"}
MsgType == DemandReq \cup DirReply \cup DirCommand \cup CacheReply \cup DramMsg
Message == [type : MsgType, addr : Addr, from : Core, data : Data]

NetState == [at : {"recv", "head", "next", "serve", "woken"},
             addr : Addr \cup {NoAddr}, data : Data]

TypeOK ==
  /\ llc \in [Core -> [Addr -> CacheState]]
  /\ copy \in [Core -> [Addr -> Data]]
  /\ waiters \in [Core -> [Addr -> Seq(Waiter)]]
  /\ waiting \subseteq Thread
  /\ dir \in [Addr -> DirEntry]
  /\ present \subseteq Addr
  /\ replaced \subseteq Addr
  /\ queue \in [Addr -> Seq(Request)]
  /\ dram \in [Addr -> Data]
  /\ inbox \in [Core -> Seq(Message)]
  /\ net \in [Core -> NetState]
  /\ \A c \in Core : net[c].at # "recv" => net[c].addr \in Addr

-----------------------------------------------------------------------------
(* Messages and the network thread *)

Msg(type, a, from, data) == [type |-> type, addr |-> a, from |-> from, data |-> data]

\* The inboxes after m is sent to every core of "to" (sendMsg, in any order:
\* the receivers differ).
Deliver(box, m, to) == [c \in Core |-> IF c \in to THEN Append(box[c], m) ELSE box[c]]

Received(c, type) == /\ net[c].at = "recv"
                     /\ inbox[c] # <<>>
                     /\ Head(inbox[c]).type = type

Rest(c) == [inbox EXCEPT ![c] = Tail(@)]

GoTo(c, at, a, data) == net' = [net EXCEPT ![c] = [at |-> at, addr |-> a, data |-> data]]
Done(c) == GoTo(c, "recv", NoAddr, "none")

\* A buffer whose contents nobody wrote, or that was freed before it is read.
Arbitrary == IF TrackData THEN {"current", "stale"} ELSE {"current"}

-----------------------------------------------------------------------------
(* Directory entries and queues *)

\* The constructor leaves m_forwarder_id unset; only MESIF acts on its value.
NewEntries == [state : {"UNCACHED"}, sharers : {{}}, owner : {NoCore},
               forwarder : IF Protocol = "MESIF" THEN Core \cup {NoCore} ELSE {NoCore}]

SetOf(a) == {b \in Addr : DirHome[b] = DirHome[a]}
FreeWay(a) == Cardinality(present \cap SetOf(a)) < DirWays

\* getDirectoryEntry: an entry of the set, else a free one (which it claims),
\* else one that is being replaced.
Found(a) == a \in present \/ FreeWay(a) \/ a \in replaced
Claimed(a) == IF a \notin present /\ FreeWay(a) THEN present \cup {a} ELSE present

LowestSharer(e) == CHOOSE s \in e.sharers : \A u \in e.sharers : s <= u

NewRequest(type, c) == [type |-> type, from |-> c, data |-> "none",
                        waitForData |-> FALSE, forwardingFrom |-> NoCore]

\* Fault: an entry may be replaced while a request for its line is served.
VictimsInUse(a) == {v \in present \cap SetOf(a) :
                      \A w \in present \cap SetOf(a) :
                        Cardinality(dir[v].sharers) <= Cardinality(dir[w].sharers)}

\* Entries that may be replaced: no request is being served for the line, and
\* no other such entry has fewer sharers (a round-robin pointer breaks ties).
Victims(a) == {v \in present \cap SetOf(a) :
                 /\ queue[v] = <<>>
                 /\ \A w \in present \cap SetOf(a) :
                      queue[w] = <<>> =>
                        Cardinality(dir[v].sharers) <= Cardinality(dir[w].sharers)}

Init == /\ llc = [c \in Core |-> [a \in Addr |-> "INVALID"]]
        /\ copy = [c \in Core |-> [a \in Addr |-> "none"]]
        /\ waiters = [c \in Core |-> [a \in Addr |-> <<>>]]
        /\ waiting = {}
        /\ dir \in [Addr -> NewEntries]
        /\ present = {}
        /\ replaced = {}
        /\ queue = [a \in Addr |-> <<>>]
        /\ dram = [a \in Addr |-> "current"]
        /\ inbox = [c \in Core |-> <<>>]
        /\ net = [c \in Core |-> [at |-> "recv", addr |-> NoAddr, data |-> "none"]]

-----------------------------------------------------------------------------
(* The cache controllers: accesses of the program's threads *)

\* The user thread takes the lock of the complete stack before it looks at the
\* last-level cache; the network thread has it while it serves the waiters.
StackFree(c) == net[c].at # "serve"

MayAccess(t, a, exclusive) ==
  /\ [thread |-> t, addr |-> a, exclusive |-> exclusive] \in Program
  /\ t \notin waiting
  /\ StackFree(LLCOf[t])

\* After a write at c every other copy of a is out of date, wherever it is.
Outdated(d) == IF TrackData /\ d = "current" THEN "stale" ELSE d
Aged(r) == [r EXCEPT !.data = Outdated(@)]

WrittenAt(c, a) ==
  /\ copy' = [k \in Core |-> [copy[k] EXCEPT ![a] = IF k = c THEN "current" ELSE Outdated(@)]]
  /\ dram' = [dram EXCEPT ![a] = Outdated(@)]
  /\ queue' = [queue EXCEPT ![a] = [i \in DOMAIN @ |-> Aged(@[i])]]
  /\ inbox' = [k \in Core |-> [i \in DOMAIN inbox[k] |->
                 IF inbox[k][i].addr = a THEN Aged(inbox[k][i]) ELSE inbox[k][i]]]

NetWrittenAt(a) == [k \in Core |-> IF net[k].addr = a THEN Aged(net[k]) ELSE net[k]]

\* A write that hits: silently from EXCLUSIVE to MODIFIED, or on MODIFIED.
WriteHit(t, a) ==
  LET c == LLCOf[t] IN
  /\ MayAccess(t, a, TRUE)
  /\ llc[c][a] \in {"EXCLUSIVE", "MODIFIED"}
  /\ llc' = [llc EXCEPT ![c][a] = "MODIFIED"]
  /\ WrittenAt(c, a)
  /\ net' = NetWrittenAt(a)
  /\ UNCHANGED <<waiters, waiting, dir, present, replaced>>

\* An access the last-level cache cannot satisfy (initiateDirectoryAccess): the
\* thread joins the waiters, and the first one sends the request to the
\* directory.
Permitted(c, a, exclusive) ==
  IF exclusive THEN llc[c][a] \in {"EXCLUSIVE", "MODIFIED"} ELSE llc[c][a] \in Readable

RequestFor(c, a, exclusive) ==
  IF ~exclusive THEN "SH_REQ"
  ELSE IF llc[c][a] = "SHARED" THEN "UPGRADE_REQ" ELSE "EX_REQ"

Misses(t, a, exclusive) == MayAccess(t, a, exclusive) /\ ~Permitted(LLCOf[t], a, exclusive)

\* processExReqToDirectory: the cache must not hold the line.
MissIsExpected(c, a, exclusive) ==
  waiters[c][a] = <<>> /\ RequestFor(c, a, exclusive) = "EX_REQ" => llc[c][a] = "INVALID"

\* Fault: every waiter asks the directory, not only the first one.
MissAlwaysAsking(t, a, exclusive) ==
  LET c == LLCOf[t]
      type == RequestFor(c, a, exclusive)
  IN
  /\ Misses(t, a, exclusive)
  /\ MissIsExpected(c, a, exclusive)
  /\ waiters' = [waiters EXCEPT ![c][a] = Append(@, [thread |-> t, exclusive |-> exclusive])]
  /\ waiting' = waiting \cup {t}
  /\ llc' = IF type = "UPGRADE_REQ" THEN [llc EXCEPT ![c][a] = "SHARED_UPGRADING"] ELSE llc
  /\ inbox' = Deliver(inbox, Msg(type, a, c, "none"), {DirHome[a]})
  /\ UNCHANGED <<copy, dirVars, dram, net>>

Miss(t, a, exclusive) ==
  LET c == LLCOf[t]
      first == waiters[c][a] = <<>>
      type == RequestFor(c, a, exclusive)
  IN
  /\ Misses(t, a, exclusive)
  /\ MissIsExpected(c, a, exclusive)
  /\ waiters' = [waiters EXCEPT ![c][a] = Append(@, [thread |-> t, exclusive |-> exclusive])]
  /\ waiting' = waiting \cup {t}
  /\ llc' = IF first /\ type = "UPGRADE_REQ"
            THEN [llc EXCEPT ![c][a] = "SHARED_UPGRADING"] ELSE llc
  /\ inbox' = IF first THEN Deliver(inbox, Msg(type, a, c, "none"), {DirHome[a]}) ELSE inbox
  /\ UNCHANGED <<copy, dirVars, dram, net>>

\* A line leaves the cache because another one, outside Addr, is inserted by
\* the network thread (insertCacheBlock).  The replacement policies do not
\* choose a line that is being upgraded.
Evict(c, a) ==
  /\ a \in Evictable
  /\ net[c].at = "recv"
  /\ llc[c][a] \in Readable
  /\ LET m == IF llc[c][a] = "MODIFIED" THEN Msg("FLUSH_REP", a, c, copy[c][a])
                                        ELSE Msg("INV_REP", a, c, "none")
     IN inbox' = Deliver(inbox, m, {DirHome[a]})
  /\ llc' = [llc EXCEPT ![c][a] = "INVALID"]
  /\ copy' = [copy EXCEPT ![c][a] = "none"]
  /\ UNCHANGED <<waiters, waiting, dirVars, dram, net>>

-----------------------------------------------------------------------------
(* The cache controllers: messages from the directory *)

\* EX_REP, SH_REP: the line is inserted, then the waiters are served.
Fill(c) ==
  \E state \in {"EXCLUSIVE", "SHARED"} :
    LET m == Head(inbox[c]) IN
    /\ Received(c, IF state = "EXCLUSIVE" THEN "EX_REP" ELSE "SH_REP")
    /\ waiters[c][m.addr] # <<>>
    /\ llc[c][m.addr] = "INVALID"
    /\ llc' = [llc EXCEPT ![c][m.addr] = state]
    /\ copy' = [copy EXCEPT ![c][m.addr] = m.data]
    /\ inbox' = Rest(c)
    /\ GoTo(c, "serve", m.addr, "none")
    /\ UNCHANGED <<waiters, waiting, dirVars, dram>>

\* UPGRADE_REP: the cache that asked for it has the only copy.
FinishUpgrade(c) ==
  LET m == Head(inbox[c]) IN
  /\ Received(c, "UPGRADE_REP")
  /\ waiters[c][m.addr] # <<>>
  /\ llc[c][m.addr] = "SHARED_UPGRADING"
  /\ llc' = [llc EXCEPT ![c][m.addr] = "MODIFIED"]
  /\ inbox' = Rest(c)
  /\ GoTo(c, "serve", m.addr, "none")
  /\ UNCHANGED <<copy, waiters, waiting, dirVars, dram>>

\* Fault: a cache that has lost the line answers an invalidation all the same.
AnswerCommand(c) ==
  /\ Received(c, "INV_REQ")
  /\ llc[c][Head(inbox[c]).addr] = "INVALID"
  /\ inbox' = Deliver(Rest(c), Msg("INV_REP", Head(inbox[c]).addr, c, "none"), {Head(inbox[c]).from})
  /\ UNCHANGED <<cacheVars, dirVars, dram, net>>

\* Fault: a line that is being upgraded is taken for one that is gone.
IgnoreCommandWhileUpgrading(c) ==
  \E type \in DirCommand :
    /\ Received(c, type)
    /\ llc[c][Head(inbox[c]).addr] \in {"INVALID", "SHARED_UPGRADING"}
    /\ inbox' = Rest(c)
    /\ UNCHANGED <<cacheVars, dirVars, dram, net>>

\* INV_REQ, FLUSH_REQ, WB_REQ for a line that is gone: "hoping eviction
\* message is underway", no answer.
IgnoreCommand(c) ==
  \E type \in DirCommand :
    /\ Received(c, type)
    /\ llc[c][Head(inbox[c]).addr] = "INVALID"
    /\ inbox' = Rest(c)
    /\ UNCHANGED <<cacheVars, dirVars, dram, net>>

Drop(c, a) == /\ llc' = [llc EXCEPT ![c][a] = "INVALID"]
              /\ copy' = [copy EXCEPT ![c][a] = "none"]

Invalidate(c) ==
  LET m == Head(inbox[c]) IN
  /\ Received(c, "INV_REQ")
  /\ llc[c][m.addr] \notin {"INVALID", "MODIFIED"}
  /\ Drop(c, m.addr)
  /\ inbox' = Deliver(Rest(c), Msg("INV_REP", m.addr, c, "none"), {m.from})
  /\ UNCHANGED <<waiters, waiting, dirVars, dram, net>>

\* Fault: the answer to a FLUSH_REQ carries no data.
FlushWithoutData(c) ==
  LET m == Head(inbox[c]) IN
  /\ Received(c, "FLUSH_REQ")
  /\ llc[c][m.addr] # "INVALID"
  /\ Drop(c, m.addr)
  /\ inbox' = Deliver(Rest(c), Msg("FLUSH_REP", m.addr, c, "none"), {m.from})
  /\ UNCHANGED <<waiters, waiting, dirVars, dram, net>>

Flush(c) ==
  LET m == Head(inbox[c]) IN
  /\ Received(c, "FLUSH_REQ")
  /\ llc[c][m.addr] # "INVALID"
  /\ Drop(c, m.addr)
  /\ inbox' = Deliver(Rest(c), Msg("FLUSH_REP", m.addr, c, copy[c][m.addr]), {m.from})
  /\ UNCHANGED <<waiters, waiting, dirVars, dram, net>>

\* Fault: the owner keeps the dirty line in state OWNED, which no code handles.
WriteBackOwned(c) ==
  LET m == Head(inbox[c]) IN
  /\ Received(c, "WB_REQ")
  /\ llc[c][m.addr] # "INVALID"
  /\ llc' = [llc EXCEPT ![c][m.addr] = "OWNED"]
  /\ inbox' = Deliver(Rest(c), Msg("WB_REP", m.addr, c, copy[c][m.addr]), {m.from})
  /\ UNCHANGED <<copy, waiters, waiting, dirVars, dram, net>>

\* A line that is being upgraded stays as it is, and the buffer of the answer
\* is never filled.
WriteBack(c) ==
  LET m == Head(inbox[c])
      upgrading == llc[c][m.addr] = "SHARED_UPGRADING"
  IN
  /\ Received(c, "WB_REQ")
  /\ llc[c][m.addr] # "INVALID"
  /\ llc' = IF upgrading THEN llc ELSE [llc EXCEPT ![c][m.addr] = "SHARED"]
  /\ \E d \in IF upgrading THEN Arbitrary ELSE {copy[c][m.addr]} :
        inbox' = Deliver(Rest(c), Msg("WB_REP", m.addr, c, d), {m.from})
  /\ UNCHANGED <<copy, waiters, waiting, dirVars, dram, net>>

-----------------------------------------------------------------------------
(* The cache controllers: the loop over the waiters after a reply *)

Serving(c, at) == net[c].at = at

\* The waiter wants to write a line that came in SHARED: it stays first in
\* line while the network thread asks for the upgrade on its behalf.
ServeByUpgrade(c) ==
  LET a == net[c].addr IN
  /\ Serving(c, "serve")
  /\ waiters[c][a] # <<>>
  /\ Head(waiters[c][a]).exclusive
  /\ llc[c][a] = "SHARED"
  /\ llc' = [llc EXCEPT ![c][a] = "SHARED_UPGRADING"]
  /\ inbox' = Deliver(inbox, Msg("UPGRADE_REQ", a, c, "none"), {DirHome[a]})
  /\ Done(c)
  /\ UNCHANGED <<copy, waiters, waiting, dirVars, dram>>

\* Fault: a waiter is woken without a look at what the cache may do now.
WakeAnyone(c) ==
  LET a == net[c].addr
      w == Head(waiters[c][a])
  IN
  /\ Serving(c, "serve")
  /\ waiters[c][a] # <<>>
  /\ waiting' = waiting \ {w.thread}
  /\ GoTo(c, "woken", a, "none")
  /\ UNCHANGED <<llc, copy, dram, queue, inbox, waiters, dir, present, replaced>>

\* The user thread is woken, gets the stack lock and repeats its access, which
\* has to hit now.
Wake(c) ==
  LET a == net[c].addr
      w == Head(waiters[c][a])
  IN
  /\ Serving(c, "serve")
  /\ waiters[c][a] # <<>>
  /\ Permitted(c, a, w.exclusive)
  /\ waiting' = waiting \ {w.thread}
  /\ \/ /\ w.exclusive
        /\ llc' = [llc EXCEPT ![c][a] = "MODIFIED"]
        /\ WrittenAt(c, a)
        /\ net' = [NetWrittenAt(a) EXCEPT ![c].at = "woken"]
     \/ /\ ~w.exclusive
        /\ GoTo(c, "woken", a, "none")
        /\ UNCHANGED <<llc, copy, dram, queue, inbox>>
  /\ UNCHANGED <<waiters, dir, present, replaced>>

\* The user thread is done and gave the lock back; other threads may have
\* taken it before the network thread does so again.
RemoveWaiter(c) ==
  LET a == net[c].addr IN
  /\ Serving(c, "woken")
  /\ waiters' = [waiters EXCEPT ![c][a] = Tail(@)]
  /\ GoTo(c, "serve", a, "none")
  /\ UNCHANGED <<llc, copy, waiting, dirVars, dram, inbox>>

\* Fault: the network thread is done after the first waiter.
OneServed(c) ==
  /\ Serving(c, "serve")
  /\ Done(c)
  /\ UNCHANGED <<cacheVars, dirVars, dram, inbox>>

AllServed(c) ==
  /\ Serving(c, "serve")
  /\ waiters[c][net[c].addr] = <<>>
  /\ Done(c)
  /\ UNCHANGED <<cacheVars, dirVars, dram, inbox>>

-----------------------------------------------------------------------------
(* The directory: messages *)

\* A request joins the queue of its line and is processed if it is alone there.
\* It takes a free directory entry if there is one.
TakeRequest(h) ==
  \E type \in DemandReq :
    LET m == Head(inbox[h])
        a == m.addr
    IN
    /\ Received(h, type)
    /\ present' = Claimed(a)
    /\ queue' = [queue EXCEPT ![a] = Append(@, NewRequest(type, m.from))]
    /\ inbox' = Rest(h)
    /\ IF queue[a] = <<>> THEN GoTo(h, "head", a, "none") ELSE UNCHANGED net
    /\ UNCHANGED <<cacheVars, dir, replaced, dram>>

\* Faults: a reader goes on although its data is under way from DRAM; it does
\* not go on when the forwarder evicts its copy; the nullify request is forgotten.
ReaderIgnoresDram(req, e, sender) ==
  CASE req.type = "UPGRADE_REQ" -> e.sharers \subseteq {req.from}
    [] req.type = "SH_REQ" -> req.forwardingFrom \in {NoCore, sender}
    [] OTHER -> e.state = "UNCACHED"

ReaderMissesForwarder(req, e, sender) ==
  CASE req.type = "UPGRADE_REQ" -> e.sharers \subseteq {req.from}
    [] req.type = "SH_REQ" -> ~req.waitForData /\ req.forwardingFrom = NoCore
    [] OTHER -> e.state = "UNCACHED"

NullifyForgotten(req, e, sender) ==
  CASE req.type = "UPGRADE_REQ" -> e.sharers \subseteq {req.from}
    [] req.type = "SH_REQ" -> /\ ~req.waitForData
                              /\ req.forwardingFrom \in {NoCore, sender}
    [] OTHER -> req.type = "EX_REQ" /\ e.state = "UNCACHED"

\* INV_REP: does the request at the head of the queue go on now?
InvRepResumes(req, e, sender) ==
  CASE req.type = "UPGRADE_REQ" -> e.sharers \subseteq {req.from}
    [] req.type = "SH_REQ" -> /\ ~req.waitForData
                              /\ req.forwardingFrom \in {NoCore, sender}
    [] OTHER -> e.state = "UNCACHED"

InvRepIsExpected(m) == /\ Found(m.addr)
                       /\ dir[m.addr].state \in {"SHARED", "EXCLUSIVE"}
                       /\ m.from \in dir[m.addr].sharers

TakeInvRep(h) ==
  LET m == Head(inbox[h])
      a == m.addr
      left == dir[a].sharers \ {m.from}
      e == [dir[a] EXCEPT !.sharers = left,
                          !.forwarder = IF @ = m.from THEN NoCore ELSE @,
                          !.state = IF left = {} THEN "UNCACHED" ELSE @]
  IN
  /\ Received(h, "INV_REP")
  /\ InvRepIsExpected(m)
  /\ present' = Claimed(a)
  /\ dir' = [dir EXCEPT ![a] = e]
  /\ inbox' = Rest(h)
  /\ IF queue[a] # <<>> /\ InvRepResumes(Head(queue[a]), e, m.from)
     THEN GoTo(h, "head", a, "none") ELSE UNCHANGED net
  /\ UNCHANGED <<cacheVars, replaced, queue, dram>>

\* FLUSH_REP: the data goes to the request that waits for it, to DRAM, or, when
\* an upgrade still waits for other sharers, into that request.
FlushRepIsExpected(m) == /\ Found(m.addr)
                         /\ m.from \in dir[m.addr].sharers
                         /\ \/ dir[m.addr].sharers = {m.from}
                            \/ dir[m.addr].state = "SHARED"

\* The type of the request that is being served for a line, if there is one.
Waits(a) == IF queue[a] = <<>> THEN "none" ELSE Head(queue[a]).type

ToDram(box, m, h) == Deliver(box, Msg("DRAM_WRITE_REQ", m.addr, h, m.data), {DramHome[m.addr]})

TakeFlushRep(h) ==
  LET m == Head(inbox[h])
      a == m.addr
      left == dir[a].sharers \ {m.from}
      e == [dir[a] EXCEPT !.sharers = left, !.owner = NoCore, !.forwarder = NoCore,
                          !.state = IF left = {} THEN "UNCACHED" ELSE @]
      type == Waits(a)
  IN
  /\ Received(h, "FLUSH_REP")
  /\ FlushRepIsExpected(m)
  /\ present' = Claimed(a)
  /\ dir' = [dir EXCEPT ![a] = e]
  /\ inbox' = IF type \in {"none", "SH_REQ", "NULLIFY_REQ"} THEN ToDram(Rest(h), m, h) ELSE Rest(h)
  /\ \/ type = "none" /\ UNCHANGED <<queue, net>>
     \/ type = "NULLIFY_REQ" /\ GoTo(h, "head", a, "none") /\ UNCHANGED queue
     \/ /\ \/ type \in {"EX_REQ", "SH_REQ"}
           \/ type = "UPGRADE_REQ" /\ left = {}
        /\ GoTo(h, "head", a, m.data)
        /\ UNCHANGED queue
     \/ /\ type = "UPGRADE_REQ" /\ left # {}
        /\ queue' = [queue EXCEPT ![a][1].data = m.data]
        /\ UNCHANGED net
  /\ UNCHANGED <<cacheVars, replaced, dram>>

\* WB_REP: the owner keeps a shared copy; its data goes to the reader only.
WbRepIsExpected(m) == /\ Found(m.addr)
                      /\ m.from \in dir[m.addr].sharers
                      /\ queue[m.addr] # <<>>
                      /\ Head(queue[m.addr]).type = "SH_REQ"

TakeWbRep(h) ==
  LET m == Head(inbox[h])
      a == m.addr
  IN
  /\ Received(h, "WB_REP")
  /\ WbRepIsExpected(m)
  /\ present' = Claimed(a)
  /\ dir' = [dir EXCEPT ![a] = [@ EXCEPT !.owner = NoCore, !.state = "SHARED"]]
  /\ inbox' = Rest(h)
  /\ GoTo(h, "head", a, m.data)
  /\ UNCHANGED <<cacheVars, replaced, queue, dram>>

\* DRAM_READ_REP: answers the request at the head of the queue.
DramRepIsExpected(m) ==
  /\ queue[m.addr] # <<>>
  /\ Found(m.addr)
  /\ CASE Head(queue[m.addr]).type = "SH_REQ" -> dir[m.addr].state \in {"SHARED", "EXCLUSIVE"}
       [] Head(queue[m.addr]).type = "EX_REQ" -> dir[m.addr].state = "MODIFIED"
       [] OTHER -> Head(queue[m.addr]).type = "UPGRADE_REQ"

TakeDramRep(h) ==
  LET m == Head(inbox[h])
      a == m.addr
      req == Head(queue[a])
      rep == IF req.type = "SH_REQ" /\ dir[a].state = "SHARED" THEN "SH_REP" ELSE "EX_REP"
  IN
  /\ Received(h, "DRAM_READ_REP")
  /\ DramRepIsExpected(m)
  /\ inbox' = Deliver(Rest(h), Msg(rep, a, h, m.data), {req.from})
  /\ GoTo(h, "next", a, "none")
  /\ UNCHANGED <<cacheVars, dirVars, dram>>

-----------------------------------------------------------------------------
(* The directory: processing the request at the head of a line's queue *)

\* The network thread of h is about to process the head of the queue of line a,
\* which has a directory entry; "types" restricts what request it is.
Processing(h, types, states) ==
  LET a == net[h].addr IN
  /\ net[h].at = "head"
  /\ Head(queue[a]).type \in types
  /\ a \in present \cup replaced
  /\ dir[a].state \in states

\* A command to caches; the request waits for their answers.
Command(h, type, to) ==
  /\ inbox' = Deliver(inbox, Msg(type, net[h].addr, h, "none"), to)
  /\ Done(h)
  /\ UNCHANGED <<cacheVars, dirVars, dram>>

\* retrieveDataAndSendToL2Cache: line a gets entry e, and its data goes to core
\* "to": what a cache just sent, what the forwarder has (MESIF, tried once per
\* request), or what DRAM has.
MayForward(a, e) == /\ Protocol = "MESIF"
                    /\ Head(queue[a]).forwardingFrom = NoCore
                    /\ e.state = "SHARED"
                    /\ e.forwarder # NoCore

Retrieve(h, rep, to, data, e) ==
  LET a == net[h].addr IN
  /\ \/ /\ data # "none"
        /\ dir' = [dir EXCEPT ![a] = [e EXCEPT !.forwarder = to]]
        /\ inbox' = Deliver(inbox, Msg(rep, a, h, data), {to})
        /\ GoTo(h, "next", a, "none")
        /\ UNCHANGED queue
     \/ /\ data = "none"
        /\ MayForward(a, e)
        /\ dir' = [dir EXCEPT ![a] = e]
        /\ queue' = [queue EXCEPT ![a][1].forwardingFrom = e.forwarder]
        /\ inbox' = Deliver(inbox, Msg("WB_REQ", a, h, "none"), {e.forwarder})
        /\ Done(h)
     \/ /\ data = "none"
        /\ ~MayForward(a, e)
        /\ dir' = [dir EXCEPT ![a] = e]
        /\ queue' = [queue EXCEPT ![a][1].waitForData = TRUE]
        /\ inbox' = Deliver(inbox, Msg("DRAM_READ_REQ", a, h, "none"), {DramHome[a]})
        /\ Done(h)
  /\ UNCHANGED <<cacheVars, present, replaced, dram>>

\* The requester becomes the only sharer, and the owner, of an uncached line.
SoleOwner(a, c, state) == [dir[a] EXCEPT !.sharers = {c}, !.owner = c, !.state = state]

Owned == {"EXCLUSIVE", "MODIFIED"}

\* EX_REQ on an owned line: it must be flushed; on a shared one: invalidated.
ExFlush(h) == /\ Processing(h, {"EX_REQ"}, Owned)
              /\ net[h].data = "none"
              /\ Command(h, "FLUSH_REQ", {dir[net[h].addr].owner})

ExInvalidate(h) == /\ Processing(h, {"EX_REQ"}, {"SHARED"})
                   /\ net[h].data = "none"
                   /\ Command(h, "INV_REQ", dir[net[h].addr].sharers)

ExGrant(h) ==
  LET c == Head(queue[net[h].addr]).from IN
  /\ Processing(h, {"EX_REQ"}, {"UNCACHED"})
  /\ Retrieve(h, "EX_REP", c, net[h].data, SoleOwner(net[h].addr, c, "MODIFIED"))

\* SH_REQ on an owned line: the owner writes it back and keeps a copy.
ShIsExpected(h) ==
  LET e == dir[net[h].addr] IN
  /\ net[h].data = "none"
  /\ e.state = "EXCLUSIVE" => Head(queue[net[h].addr]).from # e.owner

ShWriteBack(h) == /\ Processing(h, {"SH_REQ"}, Owned)
                  /\ ShIsExpected(h)
                  /\ Command(h, "WB_REQ", {dir[net[h].addr].owner})

ShShare(h) ==
  LET a == net[h].addr
      c == Head(queue[a]).from
  IN
  /\ Processing(h, {"SH_REQ"}, {"SHARED"})
  /\ c \in dir[a].sharers \/ Cardinality(dir[a].sharers) < MaxHwSharers
  /\ Retrieve(h, "SH_REP", c, net[h].data, [dir[a] EXCEPT !.sharers = @ \cup {c}])

\* No room for another sharer: a random one is invalidated first.
ShMakeRoom(h) ==
  LET a == net[h].addr IN
  /\ Processing(h, {"SH_REQ"}, {"SHARED"})
  /\ Head(queue[a]).from \notin dir[a].sharers
  /\ Cardinality(dir[a].sharers) >= MaxHwSharers
  /\ \E s \in dir[a].sharers : Command(h, "INV_REQ", {s})

ShFirst(h) ==
  LET a == net[h].addr
      c == Head(queue[a]).from
  IN
  /\ Processing(h, {"SH_REQ"}, {"UNCACHED"})
  /\ IF Protocol = "MSI"
     THEN Retrieve(h, "SH_REP", c, net[h].data, SoleOwner(a, c, "SHARED"))
     ELSE Retrieve(h, "EX_REP", c, net[h].data, SoleOwner(a, c, "EXCLUSIVE"))

\* Fault: granted to any cache that has a copy.
UpgradableBySharer(a, c) == c \in dir[a].sharers

\* UPGRADE_REQ: granted at once to a cache that has the only copy.
Upgradable(a, c) ==
  IF dir[a].state = "SHARED" THEN dir[a].sharers = {c} ELSE LowestSharer(dir[a]) = c

UpgradeIsExpected(h) ==
  LET a == net[h].addr
      c == Head(queue[a]).from
  IN dir[a].state \in Owned /\ Upgradable(a, c) => dir[a].owner = c

UpgradeGrant(h) ==
  LET a == net[h].addr
      c == Head(queue[a]).from
  IN
  /\ Processing(h, {"UPGRADE_REQ"}, Owned \cup {"SHARED"})
  /\ Upgradable(a, c)
  /\ UpgradeIsExpected(h)
  /\ dir' = [dir EXCEPT ![a] = [@ EXCEPT !.owner = c, !.state = "MODIFIED"]]
  /\ inbox' = Deliver(inbox, Msg("UPGRADE_REP", a, h, "none"), {c})
  /\ GoTo(h, "next", a, "none")
  /\ UNCHANGED <<cacheVars, present, replaced, queue, dram>>

UpgradeFlush(h) ==
  LET a == net[h].addr IN
  /\ Processing(h, {"UPGRADE_REQ"}, Owned)
  /\ ~Upgradable(a, Head(queue[a]).from)
  /\ Command(h, "FLUSH_REQ", {dir[a].owner})

\* Every other sharer is invalidated; if the requester has lost its copy, the
\* sharer with the lowest number sends its data back.
UpgradeInvalidate(h) ==
  LET a == net[h].addr
      c == Head(queue[a]).from
      e == dir[a]
      flushed == IF c \in e.sharers THEN {} ELSE {LowestSharer(e)}
  IN
  /\ Processing(h, {"UPGRADE_REQ"}, {"SHARED"})
  /\ ~Upgradable(a, c)
  /\ inbox' = Deliver(Deliver(inbox, Msg("FLUSH_REQ", a, h, "none"), flushed),
                      Msg("INV_REQ", a, h, "none"), e.sharers \ ({c} \cup flushed))
  /\ Done(h)
  /\ UNCHANGED <<cacheVars, dirVars, dram>>

\* The requester lost its copy and nobody else has one.  Data an earlier
\* FLUSH_REP left in the request lies in a buffer that was freed since.
UpgradeAsExclusive(h) ==
  LET a == net[h].addr
      req == Head(queue[a])
      saved == IF net[h].data # "none" THEN {net[h].data}
               ELSE IF req.data = "none" THEN {"none"} ELSE Arbitrary
  IN
  /\ Processing(h, {"UPGRADE_REQ"}, {"UNCACHED"})
  /\ \E d \in saved : Retrieve(h, "EX_REP", req.from, d, SoleOwner(a, req.from, "MODIFIED"))

-----------------------------------------------------------------------------
(* The directory: replacing entries, and the next request *)

\* Commands that make the caches give up line v, by its directory state.
NullifyType(v) == IF dir[v].state = "SHARED" THEN "INV_REQ" ELSE "FLUSH_REQ"
NullifyTo(v) == IF dir[v].state = "SHARED" THEN dir[v].sharers ELSE {dir[v].owner}

\* Fault: the replaced entry is dropped at once, whoever has the line.
ReplaceAtOnce(h) ==
  LET a == net[h].addr IN
  /\ net[h].at = "head"
  /\ a \notin present \cup replaced
  /\ \E v \in Victims(a) :
       /\ present' = (present \ {v}) \cup {a}
       /\ \E e \in NewEntries : dir' = [dir EXCEPT ![v] = e]
  /\ UNCHANGED <<cacheVars, replaced, queue, dram, inbox, net>>

\* The line of the request has no entry: one of the set is replaced.  A line
\* nobody has is dropped at once, any other is nullified first.
Allocate(h) ==
  LET a == net[h].addr IN
  /\ net[h].at = "head"
  /\ a \notin present \cup replaced
  /\ \E v \in Victims(a), c \in {Head(queue[a]).from} :
       /\ present' = (present \ {v}) \cup {a}
       /\ IF dir[v].state = "UNCACHED"
          THEN /\ \E e \in NewEntries : dir' = [dir EXCEPT ![v] = e]
               /\ UNCHANGED <<replaced, queue, inbox>>
          ELSE /\ replaced' = replaced \cup {v}
               /\ queue' = [queue EXCEPT ![v] = <<NewRequest("NULLIFY_REQ", c)>>]
               /\ inbox' = Deliver(inbox, Msg(NullifyType(v), v, h, "none"), NullifyTo(v))
               /\ UNCHANGED dir
  /\ UNCHANGED <<cacheVars, dram, net>>

\* The request is processed again only when nobody has the line any more (see
\* RequestIsExpected), so the commands are never repeated.
Nullified(h) ==
  LET a == net[h].addr IN
  /\ Processing(h, {"NULLIFY_REQ"}, {"UNCACHED"})
  /\ replaced' = replaced \ {a}
  /\ \E e \in NewEntries : dir' = [dir EXCEPT ![a] = e]
  /\ GoTo(h, "next", a, "none")
  /\ UNCHANGED <<cacheVars, present, queue, dram, inbox>>

\* processNextReq: the finished request leaves the queue.
NextRequest(h) ==
  LET a == net[h].addr
      rest == Tail(queue[a])
  IN
  /\ net[h].at = "next"
  /\ rest # <<>> => Head(rest).type \in DemandReq
  /\ queue' = [queue EXCEPT ![a] = rest]
  /\ IF rest = <<>> THEN Done(h) ELSE GoTo(h, "head", a, "none")
  /\ UNCHANGED <<cacheVars, dir, present, replaced, dram, inbox>>

-----------------------------------------------------------------------------
(* DRAM *)

DramRead(c) ==
  LET m == Head(inbox[c]) IN
  /\ Received(c, "DRAM_READ_REQ")
  /\ inbox' = Deliver(Rest(c), Msg("DRAM_READ_REP", m.addr, c, dram[m.addr]), {m.from})
  /\ UNCHANGED <<cacheVars, dirVars, dram, net>>

DramWrite(c) ==
  LET m == Head(inbox[c]) IN
  /\ Received(c, "DRAM_WRITE_REQ")
  /\ dram' = [dram EXCEPT ![m.addr] = m.data]
  /\ inbox' = Rest(c)
  /\ UNCHANGED <<cacheVars, dirVars, net>>

-----------------------------------------------------------------------------
(* The specification *)

CacheMessage(c) == \/ Fill(c) \/ FinishUpgrade(c) \/ IgnoreCommand(c)
                   \/ Invalidate(c) \/ Flush(c) \/ WriteBack(c)
ServeWaiters(c) == ServeByUpgrade(c) \/ Wake(c) \/ RemoveWaiter(c) \/ AllServed(c)
DirectoryMessage(c) == \/ TakeRequest(c) \/ TakeInvRep(c) \/ TakeFlushRep(c)
                       \/ TakeWbRep(c) \/ TakeDramRep(c)
ProcessRequest(c) == \/ ExFlush(c) \/ ExInvalidate(c) \/ ExGrant(c)
                     \/ ShWriteBack(c) \/ ShShare(c) \/ ShMakeRoom(c) \/ ShFirst(c)
                     \/ UpgradeGrant(c) \/ UpgradeFlush(c)
                     \/ UpgradeInvalidate(c) \/ UpgradeAsExclusive(c)
                     \/ Allocate(c) \/ Nullified(c) \/ NextRequest(c)
DramMessage(c) == DramRead(c) \/ DramWrite(c)

NetStep(c) == \/ CacheMessage(c) \/ ServeWaiters(c) \/ DirectoryMessage(c)
              \/ ProcessRequest(c) \/ DramMessage(c)

Access(t, a) == WriteHit(t, a) \/ \E exclusive \in BOOLEAN : Miss(t, a, exclusive)

Next == \/ \E c \in Core : NetStep(c)
        \/ \E t \in Thread, a \in Addr : Access(t, a)
        \/ \E c \in Core, a \in Addr : Evict(c, a)

Spec == Init /\ [][Next]_vars

\* Network threads run until they are done; the program need not do anything.
Fairness == \A c \in Core : WF_vars(NetStep(c))
FairSpec == Spec /\ Fairness

-----------------------------------------------------------------------------
(* Properties *)

\* One writer or many readers: a cache that may write a line without asking
\* (EXCLUSIVE or MODIFIED) is the only one that has it.
SingleWriter ==
  \A a \in Addr : \A c, k \in Core :
    llc[c][a] \in {"EXCLUSIVE", "MODIFIED"} /\ k # c => llc[k][a] = "INVALID"

\* The assertions about the message a network thread takes next.
MessageIsExpected(c, m) ==
  CASE m.type \in {"EX_REP", "SH_REP"} -> waiters[c][m.addr] # <<>> /\ llc[c][m.addr] = "INVALID"
    [] m.type = "UPGRADE_REP" -> waiters[c][m.addr] # <<>> /\ llc[c][m.addr] = "SHARED_UPGRADING"
    [] m.type = "INV_REQ" -> llc[c][m.addr] # "MODIFIED"
    [] m.type = "INV_REP" -> InvRepIsExpected(m)
    [] m.type = "FLUSH_REP" -> FlushRepIsExpected(m)
    [] m.type = "WB_REP" -> WbRepIsExpected(m)
    [] m.type = "DRAM_READ_REP" -> DramRepIsExpected(m)
    [] OTHER -> TRUE

\* The assertions about the request a directory is about to process.
RequestIsExpected(h) ==
  LET a == net[h].addr
      e == dir[a]
  IN
  /\ queue[a] # <<>>
  /\ a \notin present \cup replaced => Victims(a) # {}
  /\ Head(queue[a]).type = "SH_REQ" /\ e.state \in Owned => ShIsExpected(h)
  /\ Head(queue[a]).type = "EX_REQ" /\ e.state # "UNCACHED" => net[h].data = "none"
  /\ Head(queue[a]).type = "UPGRADE_REQ" => UpgradeIsExpected(h)
  /\ Head(queue[a]).type = "NULLIFY_REQ" => e.state = "UNCACHED"
  /\ e.state \in Owned => e.owner \in Core

\* What the loop over the waiters relies on: the first one can be served with
\* what the reply brought, or by asking for an upgrade.
WaiterIsServable(c) ==
  LET a == net[c].addr IN
  waiters[c][a] # <<>> => \/ Permitted(c, a, Head(waiters[c][a]).exclusive)
                          \/ llc[c][a] = "SHARED"

\* No assertion of the cache controllers and directories ever fails, whatever
\* the order in which messages cross: "Ooops", "MODIFIED data is about to get
\* lost!", Redmine #175 and the others.  This needs directory sets that do not
\* fill with lines in use, and entries with room for every cache or for one: a
\* reader the entry has no room for may go on while the INV_REQ that was to make
\* room is still under way, and that finds a sharer that is being upgraded.
AssertionsHold ==
  /\ \A c \in Core :
       /\ net[c].at = "recv" /\ inbox[c] # <<>> => MessageIsExpected(c, Head(inbox[c]))
       /\ net[c].at = "head" => RequestIsExpected(c)
       /\ net[c].at = "serve" => WaiterIsServable(c)
  /\ \A t \in Thread, a \in Addr, exclusive \in BOOLEAN :
       Misses(t, a, exclusive) => MissIsExpected(LLCOf[t], a, exclusive)

\* The directory never forgets a copy: it knows every cache that has the line,
\* and takes the line for owned by the cache that may write it.
DirectoryCoversCaches ==
  \A a \in Addr, c \in Core :
    /\ llc[c][a] # "INVALID" => a \in present \cup replaced /\ c \in dir[a].sharers
    /\ llc[c][a] \in {"EXCLUSIVE", "MODIFIED"} => dir[a].state \in Owned /\ dir[a].owner = c

\* A line that is waited for has exactly one request under way, from the moment
\* it is sent until its reply is taken; nobody asks for any other line.
Underway(c, a) ==
  LET h == DirHome[a]
      sent == {i \in DOMAIN inbox[h] : /\ inbox[h][i].type \in DemandReq
                                       /\ inbox[h][i].addr = a /\ inbox[h][i].from = c}
      queued == {i \in DOMAIN queue[a] : /\ queue[a][i].type \in DemandReq
                                         /\ queue[a][i].from = c
                                         /\ ~(i = 1 /\ net[h].at = "next" /\ net[h].addr = a)}
      answered == {i \in DOMAIN inbox[c] : inbox[c][i].type \in DirReply /\ inbox[c][i].addr = a}
  IN Cardinality(sent) + Cardinality(queued) + Cardinality(answered)

Awaited(c, a) == /\ waiters[c][a] # <<>>
                 /\ ~(net[c].at \in {"serve", "woken"} /\ net[c].addr = a)

OneRequestPerMiss ==
  \A c \in Core, a \in Addr : Underway(c, a) = IF Awaited(c, a) THEN 1 ELSE 0

\* When no message is left and every network thread is idle, every access was
\* served and every directory queue is empty.
NothingForgotten ==
  (\A c \in Core : inbox[c] = <<>> /\ net[c].at = "recv") =>
     /\ waiting = {}
     /\ \A a \in Addr : queue[a] = <<>> /\ \A c \in Core : waiters[c][a] = <<>>

\* What a thread reads from a cache is the last value written (TrackData).
ReadableIsCurrent ==
  \A c \in Core, a \in Addr : llc[c][a] \in Readable => copy[c][a] = "current"

\* The last value written to a line is always somewhere: in a cache, in DRAM or
\* on its way (TrackData).
NoDataLost ==
  \A a \in Addr :
    \/ dram[a] = "current"
    \/ \E c \in Core :
         \/ copy[c][a] = "current"
         \/ net[c].addr = a /\ net[c].data = "current"
         \/ \E i \in DOMAIN inbox[c] : inbox[c][i].addr = a /\ inbox[c][i].data = "current"
    \/ \E i \in DOMAIN queue[a] : queue[a][i].data = "current"

\* "store the data that was FLUSHed": the upgrade it is stored for is answered
\* with it (TrackData).
SavedDataIsSent ==
  [][\A h \in Core :
       LET a == net[h].addr
           req == Head(queue[a])
       IN
       /\ net[h].at = "head" /\ net'[h].at = "next"
       /\ req.type = "UPGRADE_REQ" /\ req.data # "none"
       => inbox'[req.from][Len(inbox'[req.from])].data = req.data]_vars

\* The protocol implements permissions on lines: SHARED_UPGRADING is a copy that
\* may still be read, and a waiter that was woken waits no longer.
Permission(state) == CASE state = "INVALID" -> "none"
                       [] state \in {"SHARED", "SHARED_UPGRADING"} -> "read"
                       [] OTHER -> "write"

PendingAt(c, a) ==
  {[thread |-> waiters[c][a][i].thread, line |-> a, exclusive |-> waiters[c][a][i].exclusive] :
     i \in {j \in DOMAIN waiters[c][a] : ~(j = 1 /\ net[c].at = "woken" /\ net[c].addr = a)}}

Lines == INSTANCE CoherentLines WITH
           Cache <- Core, Line <- Addr, CacheOf <- LLCOf,
           perm <- [c \in Core |-> [a \in Addr |-> Permission(llc[c][a])]],
           pending <- UNION {PendingAt(c, a) : c \in Core, a \in Addr}

ImplementsCoherentLines == Lines!Spec

\* Every access that waits is served.
EveryAccessServed == \A t \in Thread : t \in waiting ~> t \notin waiting

=============================================================================
