----------------------- MODULE CoherenceSafety_proofs -----------------------
(***************************************************************************)
(* The safety of the protocol of Coherence, for every number of caches,    *)
(* lines and threads, every protocol and every order of messages: there    *)
(* is one writer, the directory knows every copy, and a miss has one       *)
(* request under way; in the end, it implements CoherentLines.             *)
(*                                                                         *)
(* None of these is inductive.  What a handler does is right only because  *)
(* of what is on its way: a reply may be installed because no command of   *)
(* the directory is behind it, an upgrade may be granted because nobody    *)
(* has yet given up the copy it is for.  So the invariant SafeLines says,  *)
(* of every line and cache, which requests, answers and commands may be    *)
(* under way together, in which order, and what states of the cache and of *)
(* the directory they go with.  Only the order of the messages between one *)
(* cache and one line's home matters, so a sequence is described by which  *)
(* kinds it has, and which kind comes after which.                         *)
(***************************************************************************)
EXTENDS Coherence_proofs, FiniteSetTheorems

-----------------------------------------------------------------------------
(* What a sequence of messages or requests holds, and in which order *)

\* s has an element in M; in s, no element of N comes after one of M; and no
\* element of O comes after one of N that comes after one of M.
Has(s, M) == \E i \in DOMAIN s : s[i] \in M
NotThen(s, M, N) == \A i, j \in DOMAIN s : i < j /\ s[i] \in M => s[j] \notin N
NotThenThen(s, M, N, O) ==
  \A i, j, k \in DOMAIN s : i < j /\ j < k /\ s[i] \in M /\ s[j] \in N => s[k] \notin O

\* What is appended to a sequence is in it from then on, ...
LEMMA AppendHas ==
  ASSUME NEW S, NEW s \in Seq(S), NEW e, NEW M
  PROVE  Has(Append(s, e), M) <=> Has(s, M) \/ e \in M
<1>1. /\ Len(s) \in Nat /\ DOMAIN s = 1 .. Len(s)
      /\ DOMAIN Append(s, e) = 1 .. Len(s) + 1
      /\ \A i \in 1 .. Len(s) : Append(s, e)[i] = s[i]
      /\ Append(s, e)[Len(s) + 1] = e
  OBVIOUS
<1>2. QED
  BY <1>1 DEF Has

\* ... at its head if there was nothing before, ...
LEMMA AppendHead ==
  ASSUME NEW S, NEW s \in Seq(S), NEW e \in S
  PROVE  /\ Append(s, e) # <<>>
         /\ s = <<>> => Head(Append(s, e)) = e
         /\ s # <<>> => Head(Append(s, e)) = Head(s)
  BY AppendProperties, HeadTailAppend

\* ... and comes after everything that was there.
LEMMA AppendNotThen ==
  ASSUME NEW S, NEW s \in Seq(S), NEW e, NEW M, NEW N
  PROVE  NotThen(Append(s, e), M, N) <=> NotThen(s, M, N) /\ (e \in N => ~Has(s, M))
<1>1. /\ Len(s) \in Nat /\ DOMAIN s = 1 .. Len(s)
      /\ DOMAIN Append(s, e) = 1 .. Len(s) + 1
      /\ \A i \in 1 .. Len(s) : Append(s, e)[i] = s[i]
      /\ Append(s, e)[Len(s) + 1] = e
  OBVIOUS
<1>2. QED
  BY <1>1 DEF Has, NotThen

\* The same of three that follow each other.
LEMMA AppendNotThenThen ==
  ASSUME NEW S, NEW s \in Seq(S), NEW e, NEW M, NEW N, NEW O
  PROVE  NotThenThen(Append(s, e), M, N, O) <=>
           NotThenThen(s, M, N, O) /\ (e \in O => NotThen(s, M, N))
<1>1. /\ Len(s) \in Nat /\ DOMAIN s = 1 .. Len(s)
      /\ DOMAIN Append(s, e) = 1 .. Len(s) + 1
      /\ \A i \in 1 .. Len(s) : Append(s, e)[i] = s[i]
      /\ Append(s, e)[Len(s) + 1] = e
  OBVIOUS
<1>2. QED
  BY <1>1 DEF NotThenThen, NotThen

\* The elements of a tail are those of the sequence behind its head.
LEMMA TailElements ==
  ASSUME NEW S, NEW s \in Seq(S), s # <<>>
  PROVE  /\ Len(s) \in Nat \ {0} /\ DOMAIN s = 1 .. Len(s)
         /\ DOMAIN Tail(s) = 1 .. Len(s) - 1
         /\ \A i \in 1 .. Len(s) - 1 : i + 1 \in 1 .. Len(s) /\ Tail(s)[i] = s[i + 1]
         /\ \A i \in 1 .. Len(s) : i = 1 \/ (i - 1 \in 1 .. Len(s) - 1 /\ Tail(s)[i - 1] = s[i])
         /\ 1 \in 1 .. Len(s) /\ Head(s) = s[1]
  OBVIOUS

\* A tail has what the sequence has, but for its head ...
LEMMA TailHas ==
  ASSUME NEW S, NEW s \in Seq(S), s # <<>>, NEW M
  PROVE  Has(s, M) <=> Head(s) \in M \/ Has(Tail(s), M)
<1>1. ASSUME NEW i \in DOMAIN s, s[i] \in M PROVE Head(s) \in M \/ Has(Tail(s), M)
  <2>1. CASE i = 1
    BY <1>1, <2>1, TailElements
  <2>2. CASE i # 1
    <3>1. i - 1 \in DOMAIN Tail(s) /\ Tail(s)[i - 1] = s[i]
      BY <2>2, TailElements
    <3>2. QED
      BY <1>1, <3>1 DEF Has
  <2>3. QED
    BY <2>1, <2>2
<1>2. ASSUME NEW i \in DOMAIN Tail(s), Tail(s)[i] \in M PROVE Has(s, M)
  BY <1>2, TailElements DEF Has
<1>3. Head(s) \in M => Has(s, M)
  BY TailElements DEF Has
<1>4. QED
  BY <1>1, <1>2, <1>3 DEF Has

\* ... which nothing comes before.
LEMMA TailNotThen ==
  ASSUME NEW S, NEW s \in Seq(S), s # <<>>, NEW M, NEW N
  PROVE  NotThen(s, M, N) <=> NotThen(Tail(s), M, N) /\ (Head(s) \in M => ~Has(Tail(s), N))
<1>1. ASSUME NotThen(s, M, N)
      PROVE  NotThen(Tail(s), M, N) /\ (Head(s) \in M => ~Has(Tail(s), N))
  BY <1>1, TailElements DEF Has, NotThen
<1>2. ASSUME NotThen(Tail(s), M, N), Head(s) \in M => ~Has(Tail(s), N),
             NEW i \in DOMAIN s, NEW j \in DOMAIN s, i < j, s[i] \in M
      PROVE  s[j] \notin N
  <2>1. j - 1 \in DOMAIN Tail(s) /\ Tail(s)[j - 1] = s[j]
    BY <1>2, TailElements
  <2>2. CASE i = 1
    BY <1>2, <2>1, <2>2, TailElements DEF Has
  <2>3. CASE i # 1
    <3>1. i - 1 \in DOMAIN Tail(s) /\ Tail(s)[i - 1] = s[i] /\ i - 1 < j - 1
      BY <1>2, <2>3, TailElements
    <3>2. QED
      BY <1>2, <2>1, <3>1 DEF NotThen
  <2>4. QED
    BY <2>2, <2>3
<1>3. QED
  BY <1>1, <1>2 DEF NotThen

\* The same of three that follow each other.
LEMMA TailNotThenThen ==
  ASSUME NEW S, NEW s \in Seq(S), s # <<>>, NEW M, NEW N, NEW O
  PROVE  NotThenThen(s, M, N, O) =>
           NotThenThen(Tail(s), M, N, O) /\ (Head(s) \in M => NotThen(Tail(s), N, O))
<1> SUFFICES ASSUME NotThenThen(s, M, N, O)
             PROVE  NotThenThen(Tail(s), M, N, O) /\ (Head(s) \in M => NotThen(Tail(s), N, O))
  OBVIOUS
<1>1. ASSUME NEW i \in DOMAIN Tail(s), NEW j \in DOMAIN Tail(s), i < j
      PROVE  /\ i + 1 \in DOMAIN s /\ j + 1 \in DOMAIN s /\ 1 \in DOMAIN s
             /\ 1 < i + 1 /\ i + 1 < j + 1
             /\ Tail(s)[i] = s[i + 1] /\ Tail(s)[j] = s[j + 1] /\ Head(s) = s[1]
  BY <1>1, TailElements
<1>2. NotThenThen(Tail(s), M, N, O)
  <2>1. ASSUME NEW i \in DOMAIN Tail(s), NEW j \in DOMAIN Tail(s), NEW k \in DOMAIN Tail(s),
               i < j, j < k, Tail(s)[i] \in M, Tail(s)[j] \in N
        PROVE  Tail(s)[k] \notin O
    BY <1>1, <2>1 DEF NotThenThen
  <2>2. QED
    BY <2>1 DEF NotThenThen
<1>3. Head(s) \in M => NotThen(Tail(s), N, O)
  BY <1>1 DEF NotThenThen, NotThen
<1>4. QED
  BY <1>2, <1>3

\* An empty sequence has nothing.
LEMMA EmptyHas ==
  ASSUME NEW M, NEW N, NEW O
  PROVE  ~Has(<<>>, M) /\ NotThen(<<>>, M, N) /\ NotThenThen(<<>>, M, N, O)
  BY DEF Has, NotThen, NotThenThen

\* Sequences of the same length whose elements are alike.
LEMMA SameElements ==
  ASSUME NEW s, NEW t, DOMAIN t = DOMAIN s, NEW M, NEW N, NEW O,
         \A i \in DOMAIN s : /\ t[i] \in M <=> s[i] \in M
                             /\ t[i] \in N <=> s[i] \in N
                             /\ t[i] \in O <=> s[i] \in O
  PROVE  /\ Has(t, M) <=> Has(s, M)
         /\ NotThen(t, M, N) <=> NotThen(s, M, N)
         /\ NotThenThen(t, M, N, O) <=> NotThenThen(s, M, N, O)
  BY DEF Has, NotThen, NotThenThen

-----------------------------------------------------------------------------
(* The messages about a line *)

USE MapsAssumption

LineReq == {"SH_REQ", "EX_REQ"}
UpgradeReq == {"UPGRADE_REQ"}
Grant == {"SH_REP", "EX_REP"}
ExGrantRep == {"EX_REP"}
UpgradeRep == {"UPGRADE_REP"}
GivesUp == {"INV_REP", "FLUSH_REP"}
FlushRep == {"FLUSH_REP"}
WbRep == {"WB_REP"}
FlushCmd == {"FLUSH_REQ"}
WbCmd == {"WB_REQ"}

\* Messages of types T about line a from the cores F.
Mail(T, a, F) == {m \in Message : m.type \in T /\ m.addr = a /\ m.from \in F}

\* What caches send to directories, and directories to caches.
FromCache == DemandReq \cup CacheReply
ToCache == DirReply \cup DirCommand

\* Messages of cache c at the home of line a: there is one of types T; none of
\* types U comes after one of types T.
Sent(box, T, a, c) == Has(box[DirHome[a]], Mail(T \cap FromCache, a, {c}))
SentNotThen(box, T, U, a, c) ==
  NotThen(box[DirHome[a]], Mail(T \cap FromCache, a, {c}), Mail(U \cap FromCache, a, {c}))

\* The same of messages of a directory about line a at cache c, ...
Got(box, T, a, c) == Has(box[c], Mail(T \cap ToCache, a, Core))
GotNotThen(box, T, U, a, c) ==
  NotThen(box[c], Mail(T \cap ToCache, a, Core), Mail(U \cap ToCache, a, Core))

\* ... and of reads of line a from DRAM, and their answers, at core c.
Read(box, type, a, c) == Has(box[c], Mail({type}, a, Core))
ReadOnce(box, type, a, c) == NotThen(box[c], Mail({type}, a, Core), Mail({type}, a, Core))
OneWbAfterGrant(box, a, c) ==
  NotThenThen(box[c], Mail(Grant \cap ToCache, a, Core),
                      Mail(WbCmd \cap ToCache, a, Core), Mail(WbCmd \cap ToCache, a, Core))

\* When a message is mail of these types, about this line, from these cores.
LEMMA MailOK ==
  ASSUME NEW type \in MsgType, NEW b \in Addr, NEW from \in Core, NEW data \in Data,
         NEW T, NEW a, NEW F
  PROVE  Msg(type, b, from, data) \in Mail(T, a, F) <=> type \in T /\ b = a /\ from \in F
  BY MsgOK DEF Mail

\* "new" are the inboxes after core "from" sent a message about line b to the
\* cores "to" ...
PostedAbout(new, old, type, b, from, to, a, c, T, U) ==
  /\ Sent(new, T, a, c) <=>
       Sent(old, T, a, c) \/ (DirHome[a] \in to /\ type \in T \cap FromCache /\ b = a /\ from = c)
  /\ SentNotThen(new, T, U, a, c) <=>
       /\ SentNotThen(old, T, U, a, c)
       /\ DirHome[a] \in to /\ type \in U \cap FromCache /\ b = a /\ from = c => ~Sent(old, T, a, c)
  /\ Got(new, T, a, c) <=> Got(old, T, a, c) \/ (c \in to /\ type \in T \cap ToCache /\ b = a)
  /\ GotNotThen(new, T, U, a, c) <=>
       /\ GotNotThen(old, T, U, a, c)
       /\ c \in to /\ type \in U \cap ToCache /\ b = a => ~Got(old, T, a, c)
  /\ OneWbAfterGrant(new, a, c) <=>
       /\ OneWbAfterGrant(old, a, c)
       /\ c \in to /\ type \in WbCmd \cap ToCache /\ b = a => GotNotThen(old, Grant, WbCmd, a, c)

PostedRead(new, old, type, b, to, a, c, x) ==
  /\ Read(new, x, a, c) <=> Read(old, x, a, c) \/ (c \in to /\ type = x /\ b = a)
  /\ ReadOnce(new, x, a, c) <=>
       ReadOnce(old, x, a, c) /\ (c \in to /\ type = x /\ b = a => ~Read(old, x, a, c))

Posted(new, old, type, b, from, to) ==
  \A a \in Addr, c \in Core :
    /\ \A T, U : PostedAbout(new, old, type, b, from, to, a, c, T, U)
    /\ \A x : PostedRead(new, old, type, b, to, a, c, x)

\* ... and after core k took message m.
TakenAbout(new, old, k, m, a, c, T, U) ==
  /\ Sent(old, T, a, c) <=>
       Sent(new, T, a, c) \/ (k = DirHome[a] /\ m.type \in T \cap FromCache /\ m.addr = a /\ m.from = c)
  /\ SentNotThen(old, T, U, a, c) <=>
       /\ SentNotThen(new, T, U, a, c)
       /\ k = DirHome[a] /\ m.type \in T \cap FromCache /\ m.addr = a /\ m.from = c => ~Sent(new, U, a, c)
  /\ Got(old, T, a, c) <=> Got(new, T, a, c) \/ (k = c /\ m.type \in T \cap ToCache /\ m.addr = a)
  /\ GotNotThen(old, T, U, a, c) <=>
       /\ GotNotThen(new, T, U, a, c)
       /\ k = c /\ m.type \in T \cap ToCache /\ m.addr = a => ~Got(new, U, a, c)
  /\ OneWbAfterGrant(old, a, c) =>
       /\ OneWbAfterGrant(new, a, c)
       /\ k = c /\ m.type \in Grant \cap ToCache /\ m.addr = a => GotNotThen(new, WbCmd, WbCmd, a, c)

TakenRead(new, old, k, m, a, c, x) ==
  /\ Read(old, x, a, c) <=> Read(new, x, a, c) \/ (k = c /\ m.type = x /\ m.addr = a)
  /\ ReadOnce(old, x, a, c) <=>
       ReadOnce(new, x, a, c) /\ (k = c /\ m.type = x /\ m.addr = a => ~Read(new, x, a, c))

Taken(new, old, k, m) ==
  \A a \in Addr, c \in Core :
    /\ \A T, U : TakenAbout(new, old, k, m, a, c, T, U)
    /\ \A x : TakenRead(new, old, k, m, a, c, x)

\* Deliver posts a message.
LEMMA DeliverPosts ==
  ASSUME NEW box, InboxOK(box), NEW type \in MsgType, NEW b \in Addr, NEW from \in Core,
         NEW data \in Data, NEW to
  PROVE  Posted(Deliver(box, Msg(type, b, from, data), to), box, type, b, from, to)
<1> DEFINE m == Msg(type, b, from, data)
<1> SUFFICES ASSUME NEW a \in Addr, NEW c \in Core, NEW T, NEW U, NEW x
             PROVE  /\ PostedAbout(Deliver(box, m, to), box, type, b, from, to, a, c, T, U)
                    /\ PostedRead(Deliver(box, m, to), box, type, b, to, a, c, x)
  BY DEF Posted
<1>1. ASSUME NEW k \in Core
      PROVE  /\ box[k] \in Seq(Message)
             /\ Deliver(box, m, to)[k] = IF k \in to THEN Append(box[k], m) ELSE box[k]
  BY DEF InboxOK, Deliver
<1>2. DirHome[a] \in Core
  OBVIOUS
<1>3. \A V, F : m \in Mail(V, a, F) <=> type \in V /\ b = a /\ from \in F
  BY MailOK
<1> HIDE DEF m
<1>4. ASSUME NEW k \in Core, NEW F, NEW V, NEW W, NEW X
      PROVE  LET s == Deliver(box, m, to)[k]
                 M == Mail(V, a, F)  N == Mail(W, a, F)  O == Mail(X, a, F) IN
             /\ Has(s, M) <=> Has(box[k], M) \/ (k \in to /\ m \in M)
             /\ NotThen(s, M, N) <=> NotThen(box[k], M, N) /\ (k \in to /\ m \in N => ~Has(box[k], M))
             /\ NotThenThen(s, M, N, O) <=>
                  NotThenThen(box[k], M, N, O) /\ (k \in to /\ m \in O => NotThen(box[k], M, N))
  <2>1. CASE k \in to
    BY <1>1, <2>1, AppendHas, AppendNotThen, AppendNotThenThen
  <2>2. CASE k \notin to
    BY <1>1, <2>2
  <2>3. QED
    BY <2>1, <2>2
<1>5. \A V : Sent(Deliver(box, m, to), V, a, c) <=>
         Sent(box, V, a, c) \/ (DirHome[a] \in to /\ type \in V \cap FromCache /\ b = a /\ from = c)
  BY <1>2, <1>3, <1>4 DEF Sent
<1>6. SentNotThen(Deliver(box, m, to), T, U, a, c) <=>
         /\ SentNotThen(box, T, U, a, c)
         /\ DirHome[a] \in to /\ type \in U \cap FromCache /\ b = a /\ from = c => ~Sent(box, T, a, c)
  BY <1>2, <1>3, <1>4 DEF Sent, SentNotThen
<1>7. Got(Deliver(box, m, to), T, a, c) <=> Got(box, T, a, c) \/ (c \in to /\ type \in T \cap ToCache /\ b = a)
  BY <1>3, <1>4 DEF Got
<1>8. GotNotThen(Deliver(box, m, to), T, U, a, c) <=>
         /\ GotNotThen(box, T, U, a, c)
         /\ c \in to /\ type \in U \cap ToCache /\ b = a => ~Got(box, T, a, c)
  BY <1>3, <1>4 DEF Got, GotNotThen
<1>9. OneWbAfterGrant(Deliver(box, m, to), a, c) <=>
         /\ OneWbAfterGrant(box, a, c)
         /\ c \in to /\ type \in WbCmd \cap ToCache /\ b = a => GotNotThen(box, Grant, WbCmd, a, c)
  BY <1>3, <1>4 DEF GotNotThen, OneWbAfterGrant
<1>10. PostedRead(Deliver(box, m, to), box, type, b, to, a, c, x)
  BY <1>3, <1>4 DEF PostedRead, Read, ReadOnce
<1>11. QED
  BY <1>5, <1>6, <1>7, <1>8, <1>9, <1>10 DEF PostedAbout, m

\* Rest takes the one received.
LEMMA RestTakes ==
  ASSUME InboxOK(inbox), NEW k \in Core, inbox[k] # <<>>
  PROVE  Taken(Rest(k), inbox, k, Head(inbox[k]))
<1> DEFINE m == Head(inbox[k])
<1> SUFFICES ASSUME NEW a \in Addr, NEW c \in Core, NEW T, NEW U, NEW x
             PROVE  /\ TakenAbout(Rest(k), inbox, k, m, a, c, T, U)
                    /\ TakenRead(Rest(k), inbox, k, m, a, c, x)
  BY DEF Taken
<1>1. ASSUME NEW j \in Core
      PROVE  /\ inbox[j] \in Seq(Message)
             /\ Rest(k)[j] = IF j = k THEN Tail(inbox[k]) ELSE inbox[j]
  BY DEF InboxOK, Rest
<1>2. DirHome[a] \in Core
  OBVIOUS
<1>3. /\ \A V, F : m \in Mail(V, a, F) <=> m.type \in V /\ m.addr = a /\ m.from \in F
      /\ m.from \in Core
  BY HeadOK DEF Mail
<1>4. ASSUME NEW j \in Core, NEW F, NEW V, NEW W, NEW X
      PROVE  LET s == Rest(k)[j]
                 M == Mail(V, a, F)  N == Mail(W, a, F)  O == Mail(X, a, F) IN
             /\ Has(inbox[j], M) <=> Has(s, M) \/ (k = j /\ m \in M)
             /\ NotThen(inbox[j], M, N) <=> NotThen(s, M, N) /\ (k = j /\ m \in M => ~Has(s, N))
             /\ NotThenThen(inbox[j], M, N, O) =>
                  NotThenThen(s, M, N, O) /\ (k = j /\ m \in M => NotThen(s, N, O))
  <2>1. CASE k = j
    BY <1>1, <2>1, TailHas, TailNotThen, TailNotThenThen
  <2>2. CASE k # j
    BY <1>1, <2>2
  <2>3. QED
    BY <2>1, <2>2
<1> HIDE DEF m
<1>5. \A V : Sent(inbox, V, a, c) <=>
         Sent(Rest(k), V, a, c) \/ (k = DirHome[a] /\ m.type \in V \cap FromCache /\ m.addr = a /\ m.from = c)
  BY <1>2, <1>3, <1>4 DEF Sent
<1>6. SentNotThen(inbox, T, U, a, c) <=>
         /\ SentNotThen(Rest(k), T, U, a, c)
         /\ k = DirHome[a] /\ m.type \in T \cap FromCache /\ m.addr = a /\ m.from = c => ~Sent(Rest(k), U, a, c)
  BY <1>2, <1>3, <1>4 DEF Sent, SentNotThen
<1>7. Got(inbox, T, a, c) <=> Got(Rest(k), T, a, c) \/ (k = c /\ m.type \in T \cap ToCache /\ m.addr = a)
  BY <1>3, <1>4 DEF Got
<1>8. GotNotThen(inbox, T, U, a, c) <=>
         /\ GotNotThen(Rest(k), T, U, a, c)
         /\ k = c /\ m.type \in T \cap ToCache /\ m.addr = a => ~Got(Rest(k), U, a, c)
  BY <1>3, <1>4 DEF Got, GotNotThen
<1>9. OneWbAfterGrant(inbox, a, c) =>
         /\ OneWbAfterGrant(Rest(k), a, c)
         /\ k = c /\ m.type \in Grant \cap ToCache /\ m.addr = a => GotNotThen(Rest(k), WbCmd, WbCmd, a, c)
  BY <1>3, <1>4 DEF GotNotThen, OneWbAfterGrant
<1>10. TakenRead(Rest(k), inbox, k, m, a, c, x)
  BY <1>3, <1>4 DEF TakenRead, Read, ReadOnce
<1>11. QED
  BY <1>5, <1>6, <1>7, <1>8, <1>9, <1>10 DEF TakenAbout, m

\* Requests of types T of cache c, and those whose data is under way from DRAM.
Asked(T, c) == {r \in Request : r.type \in T /\ r.from = c}
Starved == {r \in Request : r.waitForData}

Queued(q, T, c) == Has(q, Asked(T, c))
QueuedOnce(q, c) == NotThen(q, Asked(DemandReq, c), Asked(DemandReq, c))
OnlyHeadStarved(q) == NotThen(q, Request, Starved)

\* Nobody processes a request for line a now.
Parked(a) == ~(net[DirHome[a]].at \in {"head", "next"} /\ net[DirHome[a]].addr = a)

\* The requests for line a that are not answered yet.
Pend(a) == IF net[DirHome[a]].at = "next" /\ net[DirHome[a]].addr = a
           THEN Tail(queue[a]) ELSE queue[a]

\* Two queues of the same requests, whatever data these carry.
SameRequests(r, q) ==
  /\ r = <<>> <=> q = <<>>
  /\ \A T, c : Queued(r, T, c) <=> Queued(q, T, c)
  /\ \A c : QueuedOnce(r, c) <=> QueuedOnce(q, c)
  /\ OnlyHeadStarved(r) <=> OnlyHeadStarved(q)
  /\ q # <<>> => /\ Head(r).type = Head(q).type
                 /\ Head(r).from = Head(q).from
                 /\ Head(r).waitForData = Head(q).waitForData
                 /\ Head(r).forwardingFrom = Head(q).forwardingFrom

SameRequest(r, q) == /\ r.type = q.type /\ r.from = q.from
                     /\ r.waitForData = q.waitForData /\ r.forwardingFrom = q.forwardingFrom

\* Queues whose requests differ in their data only.
LEMMA AlikeRequests ==
  ASSUME NEW q \in Seq(Request), NEW r \in Seq(Request), DOMAIN r = DOMAIN q,
         \A i \in DOMAIN q : SameRequest(r[i], q[i])
  PROVE  SameRequests(r, q)
<1>1. \A i \in DOMAIN q : q[i] \in Request /\ r[i] \in Request
  BY ElementOfSeq, LenProperties
<1>2. ASSUME NEW T, NEW c, NEW i \in DOMAIN q
      PROVE  r[i] \in Asked(T, c) <=> q[i] \in Asked(T, c)
  BY <1>1 DEF Asked, SameRequest
<1>3. \A T, c : Queued(r, T, c) <=> Queued(q, T, c)
  BY <1>2 DEF Queued, Has
<1>4. \A c : QueuedOnce(r, c) <=> QueuedOnce(q, c)
  BY <1>2 DEF QueuedOnce, NotThen
<1>5. OnlyHeadStarved(r) <=> OnlyHeadStarved(q)
  <2>1. \A i \in DOMAIN q : /\ r[i] \in Request <=> q[i] \in Request
                            /\ r[i] \in Starved <=> q[i] \in Starved
    BY <1>1 DEF Starved, SameRequest
  <2>2. QED
    BY <2>1, SameElements DEF OnlyHeadStarved
<1>6. r = <<>> <=> q = <<>>
  BY LenProperties, EmptySeq
<1>7. ASSUME q # <<>>
      PROVE  SameRequest(Head(r), Head(q))
  <2>1. 1 \in DOMAIN q /\ Head(q) = q[1] /\ Head(r) = r[1]
    BY <1>6, <1>7, EmptySeq, LenProperties
  <2>2. QED
    BY <2>1
<1>8. QED
  BY <1>3, <1>4, <1>5, <1>6, <1>7 DEF SameRequests, SameRequest

-----------------------------------------------------------------------------
(* The invariant *)

Outstanding(T, a, c) == Sent(inbox, T, a, c) \/ Queued(Pend(a), T, c)
IsOwner(a, c) == dir[a].state \in Owned /\ dir[a].owner = c

\* The request for line a is one of these types and waits for answers of caches.
Blocked(a, types) == /\ Parked(a)
                     /\ Pend(a) # <<>>
                     /\ Head(Pend(a)).type \in types
                     /\ ~Head(Pend(a)).waitForData

\* The reader at the head waits for cache c to write line a back ...
WbLive(a, c) == /\ Blocked(a, {"SH_REQ"})
                /\ Head(Pend(a)).from # c
                /\ \/ IsOwner(a, c)
                   \/ /\ dir[a].state = "SHARED"
                      /\ c \in dir[a].sharers
                      /\ Head(Pend(a)).forwardingFrom = c

\* ... or the request at the head for cache c to flush it.
FlushLive(a, c) == /\ Blocked(a, {"EX_REQ", "UPGRADE_REQ", "NULLIFY_REQ"})
                   /\ c \in dir[a].sharers
                   /\ \/ dir[a].state \in Owned
                      \/ /\ dir[a].state = "SHARED"
                         /\ Head(Pend(a)).type = "UPGRADE_REQ"
                         /\ Head(Pend(a)).from \notin dir[a].sharers

\* A cache has one request for a line under way, on its way, in the queue or
\* answered, exactly when accesses wait for it; a line is only upgraded then.
OneRequest(a, c) ==
  /\ SentNotThen(inbox, DemandReq, DemandReq, a, c)
  /\ QueuedOnce(Pend(a), c)
  /\ GotNotThen(inbox, DirReply, DirReply, a, c)
  /\ ~(Sent(inbox, DemandReq, a, c) /\ Queued(Pend(a), DemandReq, c))
  /\ ~(Outstanding(DemandReq, a, c) /\ Got(inbox, DirReply, a, c))
  /\ Awaited(c, a) <=> Outstanding(DemandReq, a, c) \/ Got(inbox, DirReply, a, c)
  /\ llc[c][a] = "SHARED_UPGRADING" => Awaited(c, a)

\* The cache is in a state its request, or the reply to it, was made for; it may
\* lose a line that is being upgraded.
StateFits(a, c) ==
  /\ Outstanding(LineReq, a, c) \/ Got(inbox, Grant, a, c) => llc[c][a] = "INVALID"
  /\ Outstanding(UpgradeReq, a, c) \/ Got(inbox, UpgradeRep, a, c) =>
       llc[c][a] \in {"INVALID", "SHARED_UPGRADING"}

\* The directory knows every cache that has the line, that will get it, or whose
\* word that it gave it up is still on its way.
Known(a, c) ==
  c \notin dir[a].sharers => /\ llc[c][a] = "INVALID"
                             /\ ~Got(inbox, DirReply, a, c)
                             /\ ~Sent(inbox, GivesUp, a, c)

\* A cache says once that it gave the line up, before it asks for it again, and
\* gets no new copy before the directory knows.
GivenUp(a, c) ==
  /\ Sent(inbox, GivesUp, a, c) => llc[c][a] = "INVALID" /\ ~Got(inbox, Grant, a, c)
  /\ SentNotThen(inbox, GivesUp, GivesUp, a, c)
  /\ SentNotThen(inbox, LineReq, GivesUp, a, c)
  /\ Queued(Pend(a), LineReq, c) => ~Sent(inbox, GivesUp, a, c)

\* Flushed data is waited for, or comes from the owner, which evicted the line.
FlushAnswer(a, c) ==
  Sent(inbox, FlushRep, a, c) =>
    /\ ~Got(inbox, DirReply, a, c)
    /\ FlushLive(a, c) \/ (IsOwner(a, c) /\ ~Outstanding(UpgradeReq, a, c))

\* Whoever may write the line now, or once a reply has come, is its owner.
Ownership(a, c) ==
  /\ llc[c][a] \in {"EXCLUSIVE", "MODIFIED"} \/ Got(inbox, ExGrantRep, a, c) => IsOwner(a, c)
  /\ Got(inbox, UpgradeRep, a, c) => dir[a].state = "MODIFIED" /\ dir[a].owner = c

\* Data that was written back is waited for, and whoever sent it may not write.
WbAnswer(a, c) ==
  /\ SentNotThen(inbox, WbRep, WbRep, a, c)
  /\ SentNotThen(inbox, GivesUp, WbRep, a, c)
  /\ Sent(inbox, WbRep, a, c) =>
       /\ WbLive(a, c)
       /\ llc[c][a] \notin {"EXCLUSIVE", "MODIFIED"}
       /\ ~Got(inbox, DirReply, a, c)
       /\ ~Sent(inbox, FlushRep, a, c)
       /\ llc[c][a] # "INVALID" => ~Got(inbox, WbCmd, a, c)

\* A WB_REQ that is out of date finds the line gone; one that is not finds the
\* line only if every reply has come and no other is behind it.
WbCommand(a, c) ==
  /\ ~WbLive(a, c) => /\ Got(inbox, WbCmd, a, c) => llc[c][a] = "INVALID"
                      /\ GotNotThen(inbox, Grant, WbCmd, a, c)
  /\ WbLive(a, c) /\ llc[c][a] # "INVALID" =>
       /\ GotNotThen(inbox, WbCmd, UpgradeRep, a, c)
       /\ GotNotThen(inbox, WbCmd, WbCmd, a, c)
  /\ WbLive(a, c) /\ llc[c][a] = "INVALID" => OneWbAfterGrant(inbox, a, c)

\* The same of a FLUSH_REQ.
FlushCommand(a, c) ==
  /\ ~FlushLive(a, c) => /\ Got(inbox, FlushCmd, a, c) => llc[c][a] = "INVALID"
                         /\ GotNotThen(inbox, Grant, FlushCmd, a, c)
  /\ FlushLive(a, c) /\ llc[c][a] # "INVALID" => GotNotThen(inbox, FlushCmd, UpgradeRep, a, c)

PairInv(a, c) ==
  /\ OneRequest(a, c) /\ StateFits(a, c) /\ Known(a, c)
  /\ GivenUp(a, c) /\ FlushAnswer(a, c) /\ Ownership(a, c)
  /\ WbAnswer(a, c) /\ WbCommand(a, c) /\ FlushCommand(a, c)

\* A directory entry is consistent, and there as long as a cache has the line.
Entry(a) ==
  /\ dir[a].state \in Owned => dir[a].sharers = {dir[a].owner}
  /\ dir[a].state = "UNCACHED" => dir[a].sharers = {}
  /\ dir[a].state # "UNCACHED" => a \in present \cup replaced

\* Only the request at the head waits for data from DRAM; the entry has the
\* requester already, which does not have the line and does not give it up.
HeadWaits(a) == Pend(a) # <<>> /\ Head(Pend(a)).waitForData

DataWait(a) ==
  /\ OnlyHeadStarved(Pend(a))
  /\ HeadWaits(a) =>
       LET r == Head(Pend(a)) IN
       /\ Parked(a)
       /\ r.type \in DemandReq
       /\ r.from \in dir[a].sharers
       /\ llc[r.from][a] = "INVALID"
       /\ ~Sent(inbox, GivesUp, a, r.from)
       /\ ~(r.type = "SH_REQ" /\ dir[a].state = "SHARED") => IsOwner(a, r.from)

\* A line is read from DRAM once, for the request at the head.
DramRequest(a) ==
  /\ Read(inbox, "DRAM_READ_REQ", a, DramHome[a]) \/ Read(inbox, "DRAM_READ_REP", a, DirHome[a])
       => HeadWaits(a)
  /\ ~(/\ Read(inbox, "DRAM_READ_REQ", a, DramHome[a])
       /\ Read(inbox, "DRAM_READ_REP", a, DirHome[a]))
  /\ ReadOnce(inbox, "DRAM_READ_REQ", a, DramHome[a])
  /\ ReadOnce(inbox, "DRAM_READ_REP", a, DirHome[a])
  /\ \A k \in Core : Read(inbox, "DRAM_READ_REQ", a, k) => k = DramHome[a]

LineInv(a) == /\ \A c \in Core : PairInv(a, c)
              /\ Entry(a) /\ DataWait(a) /\ DramRequest(a)

SafeLines == \A a \in Addr : LineInv(a)

-----------------------------------------------------------------------------
(* Steps that leave a line, or a cache's share in it, as it is *)

\* Of line a and cache c, the inboxes hold the same messages in the same order.
SameMailAbout(new, old, a, c, T, U) ==
  /\ Sent(new, T, a, c) <=> Sent(old, T, a, c)
  /\ SentNotThen(new, T, U, a, c) <=> SentNotThen(old, T, U, a, c)
  /\ Got(new, T, a, c) <=> Got(old, T, a, c)
  /\ GotNotThen(new, T, U, a, c) <=> GotNotThen(old, T, U, a, c)
  /\ OneWbAfterGrant(old, a, c) => OneWbAfterGrant(new, a, c)

SameMail(new, old, a, c) == \A T, U : SameMailAbout(new, old, a, c, T, U)

\* The same of what DRAM is asked and answers.
SameReads(new, old, a, c) ==
  \A x \in {"DRAM_READ_REQ", "DRAM_READ_REP"} :
    /\ Read(new, x, a, c) <=> Read(old, x, a, c)
    /\ ReadOnce(new, x, a, c) <=> ReadOnce(old, x, a, c)

\* A message not between line a and cache c changes nothing between them.
LEMMA PostedElsewhere ==
  ASSUME NEW new, NEW old, NEW type, NEW b, NEW from, NEW to, Posted(new, old, type, b, from, to),
         NEW a \in Addr, NEW c \in Core,
         \/ a # b
         \/ /\ c \notin to \/ type \notin ToCache
            /\ from # c \/ DirHome[a] \notin to \/ type \notin FromCache
  PROVE  SameMail(new, old, a, c)
  BY DEF Posted, PostedAbout, SameMail, SameMailAbout

\* The same when it is taken.
LEMMA TakenElsewhere ==
  ASSUME NEW new, NEW old, NEW k, NEW m, Taken(new, old, k, m),
         NEW a \in Addr, NEW c \in Core,
         \/ a # m.addr
         \/ /\ k # c \/ m.type \notin ToCache
            /\ m.from # c \/ k # DirHome[a] \/ m.type \notin FromCache
  PROVE  SameMail(new, old, a, c)
  BY DEF Taken, TakenAbout, SameMail, SameMailAbout

\* A message that is no read of line a changes none of them.
LEMMA PostedNoRead ==
  ASSUME NEW new, NEW old, NEW type, NEW b, NEW from, NEW to, Posted(new, old, type, b, from, to),
         NEW a \in Addr, NEW c \in Core,
         a # b \/ c \notin to \/ type \notin {"DRAM_READ_REQ", "DRAM_READ_REP"}
  PROVE  SameReads(new, old, a, c)
  BY DEF Posted, PostedRead, SameReads

\* The same when it is taken.
LEMMA TakenNoRead ==
  ASSUME NEW new, NEW old, NEW k, NEW m, Taken(new, old, k, m),
         NEW a \in Addr, NEW c \in Core,
         a # m.addr \/ c # k \/ m.type \notin {"DRAM_READ_REQ", "DRAM_READ_REP"}
  PROVE  SameReads(new, old, a, c)
  BY DEF Taken, TakenRead, SameReads

\* A message is taken and another one posted.
LEMMA SameMailTrans ==
  ASSUME NEW x, NEW y, NEW z, NEW a, NEW c, SameMail(x, y, a, c), SameMail(y, z, a, c)
  PROVE  SameMail(x, z, a, c)
  BY DEF SameMail, SameMailAbout

\* The directory has nothing new about line a.
SameLine(a) ==
  /\ dir'[a] = dir[a]
  /\ a \in present \cup replaced => a \in present' \cup replaced'
  /\ Pend(a) # <<>> => (Parked(a)' <=> Parked(a))
  /\ SameRequests(Pend(a)', Pend(a))

\* Nothing happens between line a and cache c.
SamePair(a, c) ==
  /\ llc'[c][a] = llc[c][a]
  /\ Awaited(c, a)' <=> Awaited(c, a)
  /\ SameMail(inbox', inbox, a, c)

\* What the invariant asks of the directory, and what it knows of cache c.
SameView(a, c) ==
  /\ dir'[a] = dir[a]
  /\ IsOwner(a, c)' <=> IsOwner(a, c)
  /\ WbLive(a, c)' <=> WbLive(a, c)
  /\ FlushLive(a, c)' <=> FlushLive(a, c)
  /\ \A T : Queued(Pend(a)', T, c) <=> Queued(Pend(a), T, c)
  /\ QueuedOnce(Pend(a)', c) <=> QueuedOnce(Pend(a), c)

\* As long as nothing happens to them, what is waited for stays the same, ...
LEMMA ViewStays ==
  ASSUME NEW a, NEW c, SameLine(a)
  PROVE  SameView(a, c)
<1> DEFINE old == Pend(a)
           new == Pend(a)'
<1>1. /\ new = <<>> <=> old = <<>>
      /\ \A T : Queued(new, T, c) <=> Queued(old, T, c)
      /\ QueuedOnce(new, c) <=> QueuedOnce(old, c)
      /\ old # <<>> => /\ Head(new).type = Head(old).type
                       /\ Head(new).from = Head(old).from
                       /\ Head(new).waitForData = Head(old).waitForData
                       /\ Head(new).forwardingFrom = Head(old).forwardingFrom
  BY DEF SameLine, SameRequests
<1>2. dir'[a] = dir[a] /\ (old # <<>> => (Parked(a)' <=> Parked(a)))
  BY DEF SameLine
<1> HIDE DEF old, new
<1>3. \A types : Blocked(a, types)' <=> Blocked(a, types)
  BY <1>1, <1>2 DEF Blocked, old, new
<1>4. (IsOwner(a, c)' <=> IsOwner(a, c)) /\ (WbLive(a, c)' <=> WbLive(a, c))
  BY <1>1, <1>2, <1>3 DEF WbLive, IsOwner, Blocked, old, new
<1>5. FlushLive(a, c)' <=> FlushLive(a, c)
  BY <1>1, <1>2, <1>3 DEF FlushLive, Blocked, old, new
<1>6. QED
  BY <1>1, <1>2, <1>4, <1>5 DEF SameView, old, new

\* ... and the invariant holds of whatever looks the same.
LEMMA PairSeen ==
  ASSUME NEW a \in Addr, NEW c \in Core, PairInv(a, c), SameView(a, c), SamePair(a, c)
  PROVE  PairInv(a, c)'
<1>1. llc'[c][a] = llc[c][a] /\ (Awaited(c, a)' <=> Awaited(c, a))
  BY DEF SamePair
<1>2. \A T, U : SameMailAbout(inbox', inbox, a, c, T, U)
  BY DEF SamePair, SameMail
<1>3. \A T : Outstanding(T, a, c)' <=> Outstanding(T, a, c)
  BY <1>2 DEF Outstanding, SameMailAbout, SameView
<1>4. OneRequest(a, c)'
  BY <1>1, <1>2, <1>3 DEF PairInv, OneRequest, SameMailAbout, SameView
<1>5. StateFits(a, c)' /\ Known(a, c)' /\ GivenUp(a, c)'
  BY <1>1, <1>2, <1>3 DEF PairInv, StateFits, Known, GivenUp, SameMailAbout, SameView
<1>6. FlushAnswer(a, c)' /\ Ownership(a, c)'
  BY <1>1, <1>2, <1>3 DEF PairInv, FlushAnswer, Ownership, SameMailAbout, SameView
<1>7. WbAnswer(a, c)' /\ WbCommand(a, c)' /\ FlushCommand(a, c)'
  BY <1>1, <1>2 DEF PairInv, WbAnswer, WbCommand, FlushCommand, SameMailAbout, SameView
<1>8. QED
  BY <1>4, <1>5, <1>6, <1>7 DEF PairInv

\* Both together: nothing happened to line a and cache c.
LEMMA PairStays ==
  ASSUME NEW a \in Addr, NEW c \in Core, PairInv(a, c), SameLine(a), SamePair(a, c)
  PROVE  PairInv(a, c)'
  BY ViewStays, PairSeen

\* The requests that are not answered yet are requests.
LEMMA PendOK ==
  ASSUME IInv, NEW a \in Addr
  PROVE  /\ Pend(a) \in Seq(Request)
         /\ Pend(a) # <<>> => Head(Pend(a)) \in Request /\ Head(Pend(a)).from \in Core
<1>1. queue[a] \in Seq(Request)
  BY DEF IInv, TypeOK
<1>2. DirHome[a] \in Core
  OBVIOUS
<1>3. net[DirHome[a]].at = "next" /\ net[DirHome[a]].addr = a => queue[a] # <<>>
  BY <1>2 DEF IInv, NetOK
<1>4. Pend(a) \in Seq(Request)
  BY <1>1, <1>3, HeadTailProperties DEF Pend
<1>5. Pend(a) # <<>> => Head(Pend(a)) \in Request
  BY <1>4, HeadTailProperties
<1>6. QED
  BY <1>4, <1>5 DEF Request

\* Nothing is read of line a, and nothing answered, in such a step.
LEMMA ReadsStay ==
  ASSUME NEW a \in Addr, LineInv(a), \A k \in Core : SameReads(inbox', inbox, a, k)
  PROVE  (HeadWaits(a)' => HeadWaits(a)) /\ (HeadWaits(a) => HeadWaits(a)') => DramRequest(a)'
<1>1. DirHome[a] \in Core /\ DramHome[a] \in Core
  OBVIOUS
<1>2. QED
  BY <1>1 DEF LineInv, DramRequest, SameReads

\* The invariant of a line whose step concerns no cache but c.
LEMMA LineStays ==
  ASSUME IInv, NEW a \in Addr, NEW c \in Core, LineInv(a), SameLine(a),
         \A k \in Core \ {c} : SamePair(a, k),
         (HeadWaits(a)' => HeadWaits(a)) /\ (HeadWaits(a) => HeadWaits(a)') => DramRequest(a)',
         PairInv(a, c)',
         HeadWaits(a) /\ Head(Pend(a)).from = c =>
           llc'[c][a] = "INVALID" /\ ~Sent(inbox', GivesUp, a, c)
  PROVE  LineInv(a)'
<1> DEFINE old == Pend(a)
           new == Pend(a)'
<1>1. /\ new = <<>> <=> old = <<>>
      /\ OnlyHeadStarved(new) <=> OnlyHeadStarved(old)
      /\ old # <<>> => /\ Head(new).type = Head(old).type
                       /\ Head(new).from = Head(old).from
                       /\ Head(new).waitForData = Head(old).waitForData
      /\ old # <<>> => Head(old).from \in Core
  BY PendOK DEF SameLine, SameRequests
<1>2. /\ dir'[a] = dir[a]
      /\ a \in present \cup replaced => a \in present' \cup replaced'
      /\ old # <<>> => (Parked(a)' <=> Parked(a))
  BY DEF SameLine
<1> HIDE DEF old, new
<1>3. HeadWaits(a)' <=> HeadWaits(a)
  BY <1>1 DEF HeadWaits, old, new
<1>4. \A k \in Core \ {c} : PairInv(a, k)'
  BY PairStays DEF LineInv
<1>5. Entry(a)'
  BY <1>2 DEF LineInv, Entry
<1>6. \A k \in Core \ {c} : llc'[k][a] = llc[k][a] /\ (Sent(inbox', GivesUp, a, k) <=> Sent(inbox, GivesUp, a, k))
  BY DEF SamePair, SameMail, SameMailAbout
<1>7. DataWait(a)'
  <2>1. OnlyHeadStarved(new)
    BY <1>1 DEF LineInv, DataWait, old, new
  <2>2. ASSUME HeadWaits(a)'
        PROVE  /\ Parked(a)'
               /\ Head(new).type \in DemandReq
               /\ Head(new).from \in dir'[a].sharers
               /\ llc'[Head(new).from][a] = "INVALID"
               /\ ~Sent(inbox', GivesUp, a, Head(new).from)
               /\ ~(Head(new).type = "SH_REQ" /\ dir'[a].state = "SHARED") =>
                    dir'[a].state \in Owned /\ dir'[a].owner = Head(new).from
    <3>1. HeadWaits(a) /\ old # <<>>
      BY <1>3, <2>2 DEF HeadWaits, old
    <3>2. /\ Parked(a)
          /\ Head(old).type \in DemandReq
          /\ Head(old).from \in dir[a].sharers
          /\ llc[Head(old).from][a] = "INVALID"
          /\ ~Sent(inbox, GivesUp, a, Head(old).from)
          /\ ~(Head(old).type = "SH_REQ" /\ dir[a].state = "SHARED") => IsOwner(a, Head(old).from)
      BY <3>1 DEF LineInv, DataWait, old
    <3>3. llc'[Head(old).from][a] = "INVALID" /\ ~Sent(inbox', GivesUp, a, Head(old).from)
      BY <1>1, <1>6, <3>1, <3>2 DEF old
    <3>4. QED
      BY <1>1, <1>2, <3>1, <3>2, <3>3 DEF IsOwner
  <2>3. QED
    BY <2>1, <2>2 DEF DataWait, IsOwner, new
<1>8. QED
  BY <1>3, <1>4, <1>5, <1>7 DEF LineInv

\* A step between cache c and line a, beside the directories.
LEMMA CacheStep ==
  ASSUME IInv, SafeLines, NEW a \in Addr, NEW c \in Core,
         \A b \in Addr : SameLine(b),
         \A b \in Addr, k \in Core : b # a \/ k # c => SamePair(b, k),
         \A b \in Addr, k \in Core : SameReads(inbox', inbox, b, k),
         PairInv(a, c)',
         HeadWaits(a) /\ Head(Pend(a)).from = c =>
           llc'[c][a] = "INVALID" /\ ~Sent(inbox', GivesUp, a, c)
  PROVE  SafeLines'
<1>1. LineInv(a)'
  BY LineStays, ReadsStay DEF SafeLines
<1>2. ASSUME NEW b \in Addr, b # a PROVE LineInv(b)'
  <2>1. \A k \in Core : SamePair(b, k)
    BY <1>2
  <2>2. LineInv(b) /\ PairInv(b, c)'
    BY <2>1, PairStays DEF SafeLines, LineInv
  <2>3. HeadWaits(b) /\ Head(Pend(b)).from = c =>
          llc'[c][b] = "INVALID" /\ ~Sent(inbox', GivesUp, b, c)
    BY <2>1, <2>2, Zenon DEF LineInv, DataWait, SamePair, SameMail, SameMailAbout
  <2>4. QED
    BY <2>1, <2>2, <2>3, LineStays, ReadsStay
<1>3. QED
  BY <1>1, <1>2 DEF SafeLines

-----------------------------------------------------------------------------
(* The steps of the cache controllers *)

\* Which messages are of which kind.
LEMMA Kinds ==
  \A x : /\ x \in DemandReq <=> x \in LineReq \/ x \in UpgradeReq
         /\ x \in LineReq <=> x = "SH_REQ" \/ x = "EX_REQ"
         /\ x \in UpgradeReq <=> x = "UPGRADE_REQ"
         /\ x \in DirReply <=> x \in Grant \/ x \in UpgradeRep
         /\ x \in Grant <=> x = "SH_REP" \/ x = "EX_REP"
         /\ x \in ExGrantRep <=> x = "EX_REP"
         /\ x \in UpgradeRep <=> x = "UPGRADE_REP"
         /\ x \in GivesUp <=> x = "INV_REP" \/ x = "FLUSH_REP"
         /\ x \in FlushRep <=> x = "FLUSH_REP"
         /\ x \in WbRep <=> x = "WB_REP"
         /\ x \in FlushCmd <=> x = "FLUSH_REQ"
         /\ x \in WbCmd <=> x = "WB_REQ"
         /\ x \in FromCache <=> \/ x \in DemandReq \/ x \in GivesUp \/ x \in WbRep
         /\ x \in ToCache <=> \/ x \in DirReply \/ x \in FlushCmd \/ x \in WbCmd
                             \/ x = "INV_REQ"
  BY DEF DemandReq, LineReq, UpgradeReq, DirReply, Grant, ExGrantRep, UpgradeRep, GivesUp,
         FlushRep, WbRep, FlushCmd, WbCmd, FromCache, ToCache, CacheReply, DirCommand

\* A message of a kind is one of its parts.
LEMMA KindsHeld ==
  ASSUME NEW box, NEW a, NEW c
  PROVE  /\ Got(box, DirReply, a, c) <=> Got(box, Grant, a, c) \/ Got(box, UpgradeRep, a, c)
         /\ Got(box, ExGrantRep, a, c) => Got(box, Grant, a, c)
         /\ Sent(box, DemandReq, a, c) <=> Sent(box, LineReq, a, c) \/ Sent(box, UpgradeReq, a, c)
         /\ Sent(box, FlushRep, a, c) => Sent(box, GivesUp, a, c)
<1>1. \A m : m \in Mail(DirReply \cap ToCache, a, Core) <=>
             m \in Mail(Grant \cap ToCache, a, Core) \/ m \in Mail(UpgradeRep \cap ToCache, a, Core)
  BY Kinds DEF Mail
<1>2. \A m : m \in Mail(ExGrantRep \cap ToCache, a, Core) => m \in Mail(Grant \cap ToCache, a, Core)
  BY Kinds DEF Mail
<1>3. \A m : m \in Mail(DemandReq \cap FromCache, a, {c}) <=>
             m \in Mail(LineReq \cap FromCache, a, {c}) \/ m \in Mail(UpgradeReq \cap FromCache, a, {c})
  BY Kinds DEF Mail
<1>4. \A m : m \in Mail(FlushRep \cap FromCache, a, {c}) => m \in Mail(GivesUp \cap FromCache, a, {c})
  BY Kinds DEF Mail
<1>5. QED
  BY <1>1, <1>2, <1>3, <1>4 DEF Got, Sent, Has

\* The same of requests that are queued.
LEMMA KindsQueued ==
  ASSUME NEW q, NEW c
  PROVE  Queued(q, DemandReq, c) <=> Queued(q, LineReq, c) \/ Queued(q, UpgradeReq, c)
<1>1. Asked(DemandReq, c) = Asked(LineReq, c) \cup Asked(UpgradeReq, c)
  BY Kinds DEF Asked
<1>2. QED
  BY <1>1 DEF Queued, Has

\* A directory that is at rest, or goes on with what it did, has nothing new.
LEMMA SameQueue == ASSUME NEW q PROVE SameRequests(q, q)
  BY DEF SameRequests

\* Directories that change nothing leave every line as it is.
LEMMA LinesStay ==
  ASSUME IInv, UNCHANGED <<dir, present, replaced, queue>>,
         \A k \in Core : net[k].at \in {"head", "next"} \/ net'[k].at \in {"head", "next"} =>
           net'[k].at = net[k].at /\ net'[k].addr = net[k].addr
  PROVE  \A b \in Addr : SameLine(b)
<1> SUFFICES ASSUME NEW b \in Addr PROVE SameLine(b)
  OBVIOUS
<1>1. DirHome[b] \in Core
  OBVIOUS
<1>2. (Parked(b)' <=> Parked(b)) /\ Pend(b)' = Pend(b)
  BY <1>1 DEF Parked, Pend
<1>3. QED
  BY <1>2, SameQueue DEF SameLine

\* The request at the head of the queue is queued.
LEMMA HeadQueued ==
  ASSUME IInv, NEW a \in Addr, Pend(a) # <<>>, Head(Pend(a)).type \in DemandReq
  PROVE  Queued(Pend(a), DemandReq, Head(Pend(a)).from)
<1>1. Pend(a) \in Seq(Request) /\ Head(Pend(a)) \in Request
  BY PendOK
<1>2. 1 \in DOMAIN Pend(a) /\ Pend(a)[1] = Head(Pend(a))
  BY <1>1, EmptySeq, LenProperties
<1>3. Head(Pend(a)) \in Asked(DemandReq, Head(Pend(a)).from)
  BY <1>1 DEF Asked
<1>4. QED
  BY <1>2, <1>3 DEF Queued, Has

\* Changing what one cache holds of one line, f being llc or waiters.
LEMMA OneChanged ==
  ASSUME NEW S, NEW f \in [Core -> [Addr -> S]], NEW c \in Core, NEW a \in Addr, NEW s,
         NEW k \in Core, NEW b \in Addr
  PROVE  [f EXCEPT ![c][a] = s][k][b] = IF k = c /\ b = a THEN s ELSE f[k][b]
  OBVIOUS

\* A network thread that starts to serve the waiters of line a, or stops.
LEMMA ServiceMoves ==
  ASSUME NEW c \in Core, NEW a \in Addr, UNCHANGED waiters,
         \A k \in Core \ {c} : net'[k] = net[k],
         net[c].at \in {"serve", "woken"} => net[c].addr = a,
         net'[c].at \in {"serve", "woken"} => net'[c].addr = a
  PROVE  \A b \in Addr, k \in Core : b # a \/ k # c => (Awaited(k, b)' <=> Awaited(k, b))
<1> SUFFICES ASSUME NEW b \in Addr, NEW k \in Core, b # a \/ k # c
             PROVE  Awaited(k, b)' <=> Awaited(k, b)
  OBVIOUS
<1>1. CASE k # c
  BY <1>1 DEF Awaited
<1>2. CASE k = c
  BY <1>2 DEF Awaited
<1>3. QED
  BY <1>1, <1>2

\* What is not there comes in no order.
LEMMA NoneThen ==
  ASSUME NEW box, NEW a, NEW c
  PROVE  /\ \A T, U : /\ ~Got(box, T, a, c) \/ ~Got(box, U, a, c) => GotNotThen(box, T, U, a, c)
                      /\ ~Sent(box, T, a, c) \/ ~Sent(box, U, a, c) => SentNotThen(box, T, U, a, c)
         /\ GotNotThen(box, Grant, WbCmd, a, c) => OneWbAfterGrant(box, a, c)
  BY DEF Got, GotNotThen, Sent, SentNotThen, OneWbAfterGrant, Has, NotThen, NotThenThen

\* Cache c takes message m of a directory about line a, ...
CacheTakes(new, old, c, a, m) ==
  /\ \A T, U : /\ Sent(new, T, a, c) <=> Sent(old, T, a, c)
               /\ SentNotThen(new, T, U, a, c) <=> SentNotThen(old, T, U, a, c)
               /\ Got(new, T, a, c) => Got(old, T, a, c)
               /\ m.type \in T => Got(old, T, a, c) /\ (GotNotThen(old, T, U, a, c) => ~Got(new, U, a, c))
               /\ m.type \notin T => (Got(new, T, a, c) <=> Got(old, T, a, c))
               /\ GotNotThen(old, T, U, a, c) => GotNotThen(new, T, U, a, c)
  /\ OneWbAfterGrant(old, a, c) =>
       OneWbAfterGrant(new, a, c) /\ (m.type \in Grant => GotNotThen(new, WbCmd, WbCmd, a, c))

\* What Taken says of the messages between them.
LEMMA CacheTook ==
  ASSUME NEW new, NEW old, NEW c \in Core, NEW m, NEW a \in Addr, Taken(new, old, c, m),
         m.addr = a, m.type \in ToCache, m.type \notin FromCache
  PROVE  CacheTakes(new, old, c, a, m)
<1>1. \A T, U : TakenAbout(new, old, c, m, a, c, T, U)
  BY DEF Taken
<1>2. QED
  BY <1>1 DEF TakenAbout, CacheTakes

\* ... and sends one of this type to the home of the line.
CachePosts(new, old, type, a, c) ==
  /\ \A T, U : /\ Sent(new, T, a, c) <=> Sent(old, T, a, c) \/ type \in T
               /\ SentNotThen(new, T, U, a, c) <=>
                    SentNotThen(old, T, U, a, c) /\ (type \in U => ~Sent(old, T, a, c))
               /\ Got(new, T, a, c) <=> Got(old, T, a, c)
               /\ GotNotThen(new, T, U, a, c) <=> GotNotThen(old, T, U, a, c)
  /\ OneWbAfterGrant(new, a, c) <=> OneWbAfterGrant(old, a, c)

\* What Posted says of the messages between them.
LEMMA CachePosted ==
  ASSUME NEW new, NEW old, NEW c \in Core, NEW type, NEW a \in Addr,
         Posted(new, old, type, a, c, {DirHome[a]}),
         type \in FromCache, type \notin ToCache
  PROVE  CachePosts(new, old, type, a, c)
<1>1. \A T, U : PostedAbout(new, old, type, a, c, {DirHome[a]}, a, c, T, U)
  BY DEF Posted
<1>2. QED
  BY <1>1 DEF PostedAbout, CachePosts

\* A cache takes a reply: the line, which it does not have, is inserted.
LEMMA FillSafe == ASSUME IInv, SafeLines, NEW c \in Core, Fill(c) PROVE SafeLines'
<1>1. PICK m \in Message, a \in Addr, state \in {"EXCLUSIVE", "SHARED"} :
        /\ m = Head(inbox[c]) /\ a = m.addr
        /\ net[c].at = "recv" /\ inbox[c] # <<>>
        /\ m.type = IF state = "EXCLUSIVE" THEN "EX_REP" ELSE "SH_REP"
        /\ waiters[c][a] # <<>>
        /\ llc[c][a] = "INVALID"
        /\ llc' = [llc EXCEPT ![c][a] = state]
        /\ inbox' = Rest(c)
        /\ GoTo(c, "serve", a, "none")
        /\ UNCHANGED <<waiters, dir, present, replaced, queue>>
  BY HeadOK, Zenon DEF Fill, Received, dirVars, IInv
<1>2. Taken(inbox', inbox, c, m)
  BY <1>1, RestTakes DEF IInv
<1>3. \A k \in Core, b \in Addr : llc'[k][b] = IF k = c /\ b = a THEN state ELSE llc[k][b]
  <2>1. llc \in [Core -> [Addr -> CacheState]]
    BY DEF IInv, TypeOK
  <2>2. llc' = [llc EXCEPT ![c][a] = state]
    BY <1>1
  <2>3. QED
    BY <2>1, <2>2, OneChanged
<1>4. net'[c].at = "serve" /\ net'[c].addr = a /\ \A k \in Core \ {c} : net'[k] = net[k]
  BY <1>1 DEF GoTo, IInv, TypeOK
<1>5. \A b \in Addr : SameLine(b)
  BY <1>1, <1>4, LinesStay
<1>6. ~Awaited(c, a)' /\ Awaited(c, a)
  BY <1>1, <1>4 DEF Awaited
<1>7. \A b \in Addr, k \in Core : b # a \/ k # c => (Awaited(k, b)' <=> Awaited(k, b))
  BY <1>1, <1>4, ServiceMoves
<1>8. /\ m.type \in ToCache /\ m.type \notin FromCache
      /\ m.type \in DirReply /\ m.type \in Grant /\ (m.type \in ExGrantRep <=> state = "EXCLUSIVE")
      /\ m.type \notin UpgradeRep /\ m.type \notin FlushCmd /\ m.type \notin WbCmd
  BY <1>1, Kinds
<1>9. \A b \in Addr, k \in Core : b # a \/ k # c => SamePair(b, k)
  BY <1>1, <1>2, <1>3, <1>7, <1>8, TakenElsewhere DEF SamePair
<1>10. \A b \in Addr, k \in Core : SameReads(inbox', inbox, b, k)
  BY <1>1, <1>2, TakenNoRead
<1>11. SameView(a, c) /\ llc'[c][a] = state
  BY <1>3, <1>5, ViewStays
<1>12. CacheTakes(inbox', inbox, c, a, m) /\ PairInv(a, c)
  BY <1>1, <1>2, <1>8, CacheTook DEF SafeLines, LineInv
<1>13. /\ \A T : Outstanding(T, a, c)' <=> Outstanding(T, a, c)
       /\ Got(inbox, Grant, a, c) /\ Got(inbox, DirReply, a, c)
       /\ state = "EXCLUSIVE" => Got(inbox, ExGrantRep, a, c)
  BY <1>8, <1>11, <1>12 DEF Outstanding, SameView, CacheTakes
<1>14. /\ ~Outstanding(DemandReq, a, c)
       /\ ~Got(inbox', DirReply, a, c)
  BY <1>8, <1>12, <1>13 DEF PairInv, OneRequest, CacheTakes
<1>15. OneRequest(a, c)'
  BY <1>6, <1>11, <1>12, <1>13, <1>14 DEF PairInv, OneRequest, Outstanding, SameView, CacheTakes
<1>16. /\ ~Outstanding(LineReq, a, c) /\ ~Outstanding(UpgradeReq, a, c)
       /\ ~Got(inbox', Grant, a, c) /\ ~Got(inbox', UpgradeRep, a, c) /\ ~Got(inbox', ExGrantRep, a, c)
       /\ c \in dir[a].sharers /\ ~Sent(inbox', GivesUp, a, c) /\ ~Sent(inbox', FlushRep, a, c)
       /\ ~Sent(inbox', WbRep, a, c)
  BY <1>12, <1>13, <1>14, KindsHeld, KindsQueued
     DEF Outstanding, PairInv, Known, GivenUp, WbAnswer, CacheTakes
<1>17. StateFits(a, c)' /\ Known(a, c)' /\ GivenUp(a, c)' /\ FlushAnswer(a, c)' /\ WbAnswer(a, c)'
  BY <1>11, <1>13, <1>16, NoneThen DEF StateFits, Known, GivenUp, FlushAnswer, WbAnswer, SameView
<1>18. Ownership(a, c)'
  BY <1>11, <1>12, <1>13, <1>16 DEF PairInv, Ownership, SameView
<1>19. WbCommand(a, c)' /\ FlushCommand(a, c)'
  BY <1>8, <1>11, <1>12, <1>16, NoneThen DEF PairInv, WbCommand, FlushCommand, SameView, CacheTakes
<1>20. ~(HeadWaits(a) /\ Head(Pend(a)).from = c)
  BY <1>1, <1>14, HeadQueued DEF SafeLines, LineInv, DataWait, Outstanding, HeadWaits
<1>21. PairInv(a, c)'
  BY <1>15, <1>17, <1>18, <1>19 DEF PairInv
<1>22. QED
  BY <1>1, <1>5, <1>9, <1>10, <1>20, <1>21, CacheStep

\* A cache takes an UPGRADE_REP: it has the only copy.
LEMMA FinishUpgradeSafe ==
  ASSUME IInv, SafeLines, NEW c \in Core, FinishUpgrade(c) PROVE SafeLines'
<1>1. PICK m \in Message, a \in Addr :
        /\ m = Head(inbox[c]) /\ a = m.addr
        /\ net[c].at = "recv" /\ inbox[c] # <<>>
        /\ m.type = "UPGRADE_REP"
        /\ waiters[c][a] # <<>>
        /\ llc[c][a] = "SHARED_UPGRADING"
        /\ llc' = [llc EXCEPT ![c][a] = "MODIFIED"]
        /\ inbox' = Rest(c)
        /\ GoTo(c, "serve", a, "none")
        /\ UNCHANGED <<waiters, dir, present, replaced, queue>>
  BY HeadOK DEF FinishUpgrade, Received, dirVars, IInv
<1>2. Taken(inbox', inbox, c, m)
  BY <1>1, RestTakes DEF IInv
<1>3. \A k \in Core, b \in Addr : llc'[k][b] = IF k = c /\ b = a THEN "MODIFIED" ELSE llc[k][b]
  <2>1. llc \in [Core -> [Addr -> CacheState]]
    BY DEF IInv, TypeOK
  <2>2. llc' = [llc EXCEPT ![c][a] = "MODIFIED"]
    BY <1>1
  <2>3. QED
    BY <2>1, <2>2, OneChanged
<1>4. net'[c].at = "serve" /\ net'[c].addr = a /\ \A k \in Core \ {c} : net'[k] = net[k]
  BY <1>1 DEF GoTo, IInv, TypeOK
<1>5. \A b \in Addr : SameLine(b)
  BY <1>1, <1>4, LinesStay
<1>6. ~Awaited(c, a)' /\ Awaited(c, a)
  BY <1>1, <1>4 DEF Awaited
<1>7. \A b \in Addr, k \in Core : b # a \/ k # c => (Awaited(k, b)' <=> Awaited(k, b))
  BY <1>1, <1>4, ServiceMoves
<1>8. /\ m.type \in ToCache /\ m.type \notin FromCache
      /\ m.type \in DirReply /\ m.type \in UpgradeRep
      /\ m.type \notin Grant /\ m.type \notin FlushCmd /\ m.type \notin WbCmd
  BY <1>1, Kinds
<1>9. \A b \in Addr, k \in Core : b # a \/ k # c => SamePair(b, k)
  BY <1>1, <1>2, <1>3, <1>7, <1>8, TakenElsewhere DEF SamePair
<1>10. \A b \in Addr, k \in Core : SameReads(inbox', inbox, b, k)
  BY <1>1, <1>2, TakenNoRead
<1>11. SameView(a, c) /\ llc'[c][a] = "MODIFIED"
  BY <1>3, <1>5, ViewStays
<1>12. CacheTakes(inbox', inbox, c, a, m) /\ PairInv(a, c)
  BY <1>1, <1>2, <1>8, CacheTook DEF SafeLines, LineInv
<1>13. /\ \A T : Outstanding(T, a, c)' <=> Outstanding(T, a, c)
       /\ Got(inbox, UpgradeRep, a, c) /\ Got(inbox, DirReply, a, c)
  BY <1>8, <1>11, <1>12 DEF Outstanding, SameView, CacheTakes
<1>14. /\ ~Outstanding(DemandReq, a, c)
       /\ ~Got(inbox', DirReply, a, c)
  BY <1>8, <1>12, <1>13 DEF PairInv, OneRequest, CacheTakes
<1>15. OneRequest(a, c)'
  BY <1>6, <1>11, <1>12, <1>13, <1>14 DEF PairInv, OneRequest, Outstanding, SameView, CacheTakes
<1>16. /\ ~Outstanding(LineReq, a, c) /\ ~Outstanding(UpgradeReq, a, c)
       /\ ~Got(inbox', Grant, a, c) /\ ~Got(inbox', UpgradeRep, a, c) /\ ~Got(inbox', ExGrantRep, a, c)
       /\ c \in dir[a].sharers /\ ~Sent(inbox', GivesUp, a, c) /\ ~Sent(inbox', FlushRep, a, c)
       /\ ~Sent(inbox', WbRep, a, c)
  BY <1>1, <1>12, <1>13, <1>14, KindsHeld, KindsQueued, Zenon DEF Outstanding, PairInv, Known,
     GivenUp, WbAnswer, CacheTakes
<1>17. StateFits(a, c)' /\ Known(a, c)' /\ GivenUp(a, c)' /\ FlushAnswer(a, c)' /\ WbAnswer(a, c)'
  BY <1>11, <1>13, <1>16, NoneThen DEF StateFits, Known, GivenUp, FlushAnswer, WbAnswer, SameView
<1>18. Ownership(a, c)'
  BY <1>11, <1>12, <1>13, <1>16 DEF PairInv, Ownership, SameView, IsOwner, Owned
<1>19. WbCommand(a, c)' /\ FlushCommand(a, c)'
  BY <1>1, <1>8, <1>11, <1>12, <1>16, NoneThen, Zenon DEF PairInv, WbCommand, FlushCommand,
     SameView, CacheTakes
<1>20. ~(HeadWaits(a) /\ Head(Pend(a)).from = c)
  BY <1>1, <1>14, HeadQueued DEF SafeLines, LineInv, DataWait, Outstanding, HeadWaits
<1>21. PairInv(a, c)'
  BY <1>15, <1>17, <1>18, <1>19 DEF PairInv
<1>22. QED
  BY <1>1, <1>5, <1>9, <1>10, <1>20, <1>21, CacheStep

\* A command for a line that is gone gets no answer.
LEMMA IgnoreCommandSafe ==
  ASSUME IInv, SafeLines, NEW c \in Core, IgnoreCommand(c) PROVE SafeLines'
<1>1. PICK m \in Message, a \in Addr :
        /\ m = Head(inbox[c]) /\ a = m.addr
        /\ net[c].at = "recv" /\ inbox[c] # <<>>
        /\ m.type \in DirCommand
        /\ llc[c][a] = "INVALID"
        /\ inbox' = Rest(c)
        /\ UNCHANGED <<llc, net, waiters, dir, present, replaced, queue>>
  BY HeadOK DEF IgnoreCommand, Received, cacheVars, dirVars, IInv
<1>2. Taken(inbox', inbox, c, m)
  BY <1>1, RestTakes DEF IInv
<1>3. \A b \in Addr : SameLine(b)
  BY <1>1, LinesStay
<1>4. \A b \in Addr, k \in Core : Awaited(k, b)' <=> Awaited(k, b)
  BY <1>1 DEF Awaited
<1>5. /\ m.type \in ToCache /\ m.type \notin FromCache /\ m.type \notin DirReply
      /\ m.type \notin {"DRAM_READ_REQ", "DRAM_READ_REP"}
  BY <1>1, Kinds DEF DirCommand
<1>6. \A b \in Addr, k \in Core : b # a \/ k # c => SamePair(b, k)
  BY <1>1, <1>2, <1>4, <1>5, TakenElsewhere DEF SamePair
<1>7. \A b \in Addr, k \in Core : SameReads(inbox', inbox, b, k)
  BY <1>1, <1>2, <1>5, TakenNoRead
<1>8. SameView(a, c)
  BY <1>3, ViewStays
<1>9. CacheTakes(inbox', inbox, c, a, m) /\ PairInv(a, c)
  BY <1>1, <1>2, <1>5, CacheTook DEF SafeLines, LineInv
<1>10. \A T : Outstanding(T, a, c)' <=> Outstanding(T, a, c)
  BY <1>8, <1>9 DEF Outstanding, SameView, CacheTakes
<1>11. OneRequest(a, c)'
  BY <1>1, <1>4, <1>5, <1>8, <1>9, <1>10, Zenon DEF PairInv, OneRequest, SameView, CacheTakes
<1>12. StateFits(a, c)' /\ Known(a, c)'
  BY <1>1, <1>8, <1>9, <1>10, Zenon DEF PairInv, StateFits, Known, SameView, CacheTakes
<1>13. GivenUp(a, c)' /\ FlushAnswer(a, c)' /\ Ownership(a, c)'
  BY <1>1, <1>8, <1>9, <1>10, Zenon DEF PairInv, GivenUp, FlushAnswer, Ownership, SameView,
     CacheTakes
<1>14. WbAnswer(a, c)' /\ WbCommand(a, c)' /\ FlushCommand(a, c)'
  BY <1>1, <1>8, <1>9, Zenon DEF PairInv, WbAnswer, WbCommand, FlushCommand, SameView, CacheTakes
<1>15. PairInv(a, c)'
  BY <1>11, <1>12, <1>13, <1>14 DEF PairInv
<1>16. HeadWaits(a) /\ Head(Pend(a)).from = c =>
         llc'[c][a] = "INVALID" /\ ~Sent(inbox', GivesUp, a, c)
  <2>1. DataWait(a)
    BY DEF SafeLines, LineInv
  <2>2. ASSUME HeadWaits(a), Head(Pend(a)).from = c PROVE ~Sent(inbox, GivesUp, a, c)
    BY <2>1, <2>2 DEF DataWait
  <2>3. QED
    BY <1>1, <1>9, <2>2 DEF CacheTakes
<1>17. QED
  BY <1>3, <1>6, <1>7, <1>15, <1>16, CacheStep

\* Cache c gives up line a: it says so in the same step, and nothing but a
\* message of the directory, if it took one, is gone from its inbox ("mid").
LEMMA PairGivesUp ==
  ASSUME NEW a \in Addr, NEW c \in Core, PairInv(a, c), SameView(a, c),
         llc[c][a] # "INVALID", llc'[c][a] = "INVALID", Awaited(c, a)' <=> Awaited(c, a),
         NEW mid,
         \A T, U : /\ Sent(mid, T, a, c) <=> Sent(inbox, T, a, c)
                   /\ SentNotThen(mid, T, U, a, c) <=> SentNotThen(inbox, T, U, a, c)
                   /\ Got(mid, T, a, c) => Got(inbox, T, a, c)
                   /\ GotNotThen(inbox, T, U, a, c) => GotNotThen(mid, T, U, a, c),
         Got(mid, DirReply, a, c) <=> Got(inbox, DirReply, a, c),
         NEW type \in GivesUp, CachePosts(inbox', mid, type, a, c),
         type \in FlushRep => /\ ~Got(mid, DirReply, a, c)
                              /\ ~Sent(inbox, WbRep, a, c)
                              /\ FlushLive(a, c) \/ (IsOwner(a, c) /\ ~Outstanding(UpgradeReq, a, c))
  PROVE  PairInv(a, c)'
<1>1. /\ type \notin DemandReq /\ type \notin LineReq /\ type \notin UpgradeReq
      /\ type \notin WbRep
  BY Kinds
<1>2. \A T : type \notin T => (Outstanding(T, a, c)' <=> Outstanding(T, a, c))
  BY DEF Outstanding, SameView, CachePosts
<1>3. OneRequest(a, c)'
  BY <1>1, <1>2 DEF PairInv, OneRequest, SameView, CachePosts
<1>4. /\ ~Outstanding(LineReq, a, c) /\ ~Got(inbox, Grant, a, c) /\ c \in dir[a].sharers
      /\ ~Sent(inbox, GivesUp, a, c)
  BY DEF PairInv, StateFits, Known, GivenUp
<1>5. /\ ~Sent(inbox, LineReq, a, c) /\ ~Queued(Pend(a), LineReq, c)
      /\ ~Got(inbox', Grant, a, c) /\ ~Got(inbox', ExGrantRep, a, c)
      /\ ~Sent(inbox, FlushRep, a, c)
  BY <1>4, KindsHeld DEF Outstanding, CachePosts
<1>6. StateFits(a, c)' /\ Known(a, c)'
  BY <1>4 DEF StateFits, Known, SameView
<1>7. GivenUp(a, c)'
  BY <1>1, <1>4, <1>5, NoneThen DEF GivenUp, SameView, CachePosts
<1>8. FlushAnswer(a, c)'
  BY <1>1, <1>2, <1>5, Kinds DEF FlushAnswer, SameView, CachePosts
<1>9. Ownership(a, c)'
  BY <1>5 DEF PairInv, Ownership, SameView, CachePosts
<1>10. WbAnswer(a, c)'
  BY <1>1, <1>5 DEF PairInv, WbAnswer, SameView, CachePosts
<1>11. WbCommand(a, c)' /\ FlushCommand(a, c)'
  BY <1>5, NoneThen DEF WbCommand, FlushCommand
<1>12. QED
  BY <1>3, <1>6, <1>7, <1>8, <1>9, <1>10, <1>11 DEF PairInv

\* The request at the head of a queue does not wait for data of a line its
\* cache has, and if it waits for caches, then to write back or to flush.
LEMMA HeadLacksLine ==
  ASSUME SafeLines, NEW a \in Addr, NEW c \in Core, llc[c][a] # "INVALID"
  PROVE  ~(HeadWaits(a) /\ Head(Pend(a)).from = c)
  BY DEF SafeLines, LineInv, DataWait

\* The request at the head waits for one kind of answer.
LEMMA OneLive == ASSUME NEW a, NEW c, NEW k PROVE ~(WbLive(a, c) /\ FlushLive(a, k))
  BY DEF WbLive, FlushLive, Blocked

\* Cache c loses line a, whose home it tells so.  It took message m of the
\* directory if "mid" is the rest of its inbox, or none if it is its inbox.
LEMMA GivesUpStep ==
  ASSUME IInv, SafeLines, NEW c \in Core, NEW a \in Addr,
         llc[c][a] # "INVALID", llc' = [llc EXCEPT ![c][a] = "INVALID"],
         NEW mid, InboxOK(mid),
         \/ mid = inbox
         \/ \E m \in Message : /\ m.type \in DirCommand /\ m.addr = a
                               /\ Taken(mid, inbox, c, m),
         NEW type \in GivesUp, NEW data \in Data,
         inbox' = Deliver(mid, Msg(type, a, c, data), {DirHome[a]}),
         UNCHANGED <<net, waiters, dir, present, replaced, queue>>,
         type \in FlushRep => /\ ~Got(mid, DirReply, a, c)
                              /\ ~Sent(inbox, WbRep, a, c)
                              /\ FlushLive(a, c) \/ (IsOwner(a, c) /\ ~Outstanding(UpgradeReq, a, c))
  PROVE  SafeLines'
<1>1. \A k \in Core, b \in Addr : llc'[k][b] = IF k = c /\ b = a THEN "INVALID" ELSE llc[k][b]
  <2>1. llc \in [Core -> [Addr -> CacheState]]
    BY DEF IInv, TypeOK
  <2>2. QED
    BY <2>1, OneChanged
<1>2. \A b \in Addr : SameLine(b)
  BY LinesStay
<1>3. \A b \in Addr, k \in Core : Awaited(k, b)' <=> Awaited(k, b)
  BY DEF Awaited
<1>4. /\ type \in MsgType /\ type \in FromCache /\ type \notin ToCache
      /\ type \notin {"DRAM_READ_REQ", "DRAM_READ_REP"}
  BY Kinds DEF MsgType, CacheReply
<1>5. Posted(inbox', mid, type, a, c, {DirHome[a]})
  BY <1>4, DeliverPosts
<1>6. /\ \A b \in Addr, k \in Core : SameReads(mid, inbox, b, k)
      /\ \A b \in Addr, k \in Core : b # a \/ k # c => SameMail(mid, inbox, b, k)
      /\ \A T, U : /\ Sent(mid, T, a, c) <=> Sent(inbox, T, a, c)
                   /\ SentNotThen(mid, T, U, a, c) <=> SentNotThen(inbox, T, U, a, c)
                   /\ Got(mid, T, a, c) => Got(inbox, T, a, c)
                   /\ GotNotThen(inbox, T, U, a, c) => GotNotThen(mid, T, U, a, c)
      /\ Got(mid, DirReply, a, c) <=> Got(inbox, DirReply, a, c)
  <2>1. CASE mid = inbox
    BY <2>1 DEF SameReads, SameMail, SameMailAbout
  <2>2. CASE mid # inbox
    <3>1. PICK m \in Message : m.type \in DirCommand /\ m.addr = a /\ Taken(mid, inbox, c, m)
      BY <2>2
    <3>2. /\ m.type \in ToCache /\ m.type \notin FromCache /\ m.type \notin DirReply
          /\ m.type \notin {"DRAM_READ_REQ", "DRAM_READ_REP"}
      BY <3>1, Kinds DEF DirCommand
    <3>3. CacheTakes(mid, inbox, c, a, m)
      BY <3>1, <3>2, CacheTook
    <3>4. \A b \in Addr, k \in Core : SameReads(mid, inbox, b, k)
      BY <3>1, <3>2, TakenNoRead
    <3>5. \A b \in Addr, k \in Core : b # a \/ k # c => SameMail(mid, inbox, b, k)
      BY <3>1, <3>2, TakenElsewhere
    <3>6. QED
      BY <3>2, <3>3, <3>4, <3>5 DEF CacheTakes
  <2>3. QED
    BY <2>1, <2>2
<1>7. \A b \in Addr, k \in Core : b # a \/ k # c => SamePair(b, k)
  <2>1. ASSUME NEW b \in Addr, NEW k \in Core, b # a \/ k # c
        PROVE  SamePair(b, k)
    <3>1. SameMail(mid, inbox, b, k) /\ SameMail(inbox', mid, b, k)
      BY <1>4, <1>5, <1>6, <2>1, PostedElsewhere
    <3>2. SameMail(inbox', inbox, b, k)
      BY <3>1, SameMailTrans
    <3>3. llc'[k][b] = llc[k][b] /\ (Awaited(k, b)' <=> Awaited(k, b))
      BY <1>1, <1>3, <2>1
    <3>4. QED
      BY <3>2, <3>3 DEF SamePair
  <2>2. QED
    BY <2>1
<1>8. \A b \in Addr, k \in Core : SameReads(inbox', inbox, b, k)
  <2>1. \A b \in Addr, k \in Core : SameReads(inbox', mid, b, k)
    BY <1>4, <1>5, PostedNoRead
  <2>2. QED
    BY <1>6, <2>1 DEF SameReads
<1>9. SameView(a, c) /\ PairInv(a, c) /\ llc'[c][a] = "INVALID"
  BY <1>1, <1>2, ViewStays DEF SafeLines, LineInv
<1>10. CachePosts(inbox', mid, type, a, c)
  BY <1>4, <1>5, CachePosted
<1>11. PairInv(a, c)'
  BY <1>3, <1>6, <1>9, <1>10, PairGivesUp
<1>12. QED
  BY <1>2, <1>7, <1>8, <1>11, HeadLacksLine, CacheStep

\* A cache loses its copy to INV_REQ ...
LEMMA InvalidateSafe == ASSUME IInv, SafeLines, NEW c \in Core, Invalidate(c) PROVE SafeLines'
<1>1. PICK m \in Message, a \in Addr :
        /\ m = Head(inbox[c]) /\ a = m.addr
        /\ inbox[c] # <<>> /\ m \in MessagesTo(c)
        /\ m.type = "INV_REQ"
        /\ llc[c][a] # "INVALID"
        /\ llc' = [llc EXCEPT ![c][a] = "INVALID"]
        /\ inbox' = Deliver(Rest(c), Msg("INV_REP", a, c, "none"), {m.from})
        /\ UNCHANGED <<net, waiters, dir, present, replaced, queue>>
  BY HeadOK DEF Invalidate, Received, Drop, dirVars, IInv
<1>2. m.type \in DirCommand /\ m.from = DirHome[a]
  BY <1>1 DEF MessagesTo, DirCommand
<1>3. InboxOK(Rest(c)) /\ Taken(Rest(c), inbox, c, m)
  BY <1>1, RestOK, RestTakes DEF IInv
<1>4. "INV_REP" \in GivesUp /\ "INV_REP" \notin FlushRep /\ "none" \in Data
  BY Kinds DEF Data
<1>5. QED
  BY <1>1, <1>2, <1>3, <1>4, GivesUpStep

\* ... or to FLUSH_REQ, and sends its data.
LEMMA FlushSafe == ASSUME IInv, SafeLines, NEW c \in Core, Flush(c) PROVE SafeLines'
<1>1. PICK m \in Message, a \in Addr :
        /\ m = Head(inbox[c]) /\ a = m.addr
        /\ inbox[c] # <<>> /\ m \in MessagesTo(c)
        /\ m.type = "FLUSH_REQ"
        /\ llc[c][a] # "INVALID"
        /\ llc' = [llc EXCEPT ![c][a] = "INVALID"]
        /\ inbox' = Deliver(Rest(c), Msg("FLUSH_REP", a, c, copy[c][a]), {m.from})
        /\ UNCHANGED <<net, waiters, dir, present, replaced, queue>>
  BY HeadOK, Zenon DEF Flush, Received, Drop, dirVars, IInv
<1>2. m.type \in DirCommand /\ m.from = DirHome[a]
  BY <1>1 DEF MessagesTo, DirCommand
<1>3. InboxOK(Rest(c)) /\ Taken(Rest(c), inbox, c, m)
  BY <1>1, RestOK, RestTakes DEF IInv
<1>4. "FLUSH_REP" \in GivesUp /\ copy[c][a] \in Data
  BY Kinds DEF IInv, TypeOK
<1>5. CacheTakes(Rest(c), inbox, c, a, m)
  BY <1>1, <1>2, <1>3, Kinds, CacheTook
<1>6. PairInv(a, c) /\ m.type \in FlushCmd
  BY <1>1, Kinds DEF SafeLines, LineInv
<1>7. FlushLive(a, c) /\ ~Got(Rest(c), UpgradeRep, a, c)
  BY <1>1, <1>5, <1>6, Zenon DEF PairInv, FlushCommand, CacheTakes
<1>8. ~Got(Rest(c), DirReply, a, c)
  BY <1>1, <1>5, <1>6, <1>7, KindsHeld, Zenon DEF PairInv, StateFits, CacheTakes
<1>9. ~Sent(inbox, WbRep, a, c)
  BY <1>6, <1>7, OneLive DEF PairInv, WbAnswer
<1>10. QED
  BY <1>1, <1>2, <1>3, <1>4, <1>7, <1>8, <1>9, GivesUpStep, Zenon

\* The same when the line is replaced by another one.
LEMMA EvictSafe ==
  ASSUME IInv, SafeLines, NEW c \in Core, NEW a \in Addr, Evict(c, a) PROVE SafeLines'
<1> DEFINE type == IF llc[c][a] = "MODIFIED" THEN "FLUSH_REP" ELSE "INV_REP"
           data == IF llc[c][a] = "MODIFIED" THEN copy[c][a] ELSE "none"
<1>1. /\ llc[c][a] # "INVALID" /\ llc[c][a] # "SHARED_UPGRADING"
      /\ llc' = [llc EXCEPT ![c][a] = "INVALID"]
      /\ inbox' = Deliver(inbox, Msg(type, a, c, data), {DirHome[a]})
      /\ UNCHANGED <<net, waiters, dir, present, replaced, queue>>
  BY DEF Evict, Readable, dirVars
<1>2. /\ type \in GivesUp /\ data \in Data /\ InboxOK(inbox)
      /\ type \in FlushRep => llc[c][a] = "MODIFIED"
  BY Kinds DEF Data, IInv, TypeOK
<1>3. PairInv(a, c)
  BY DEF SafeLines, LineInv
<1>4. ASSUME llc[c][a] = "MODIFIED"
      PROVE  /\ ~Got(inbox, DirReply, a, c) /\ ~Sent(inbox, WbRep, a, c)
             /\ IsOwner(a, c) /\ ~Outstanding(UpgradeReq, a, c)
  BY <1>3, <1>4, KindsHeld DEF PairInv, StateFits, WbAnswer, Ownership
<1> HIDE DEF type, data
<1>5. QED
  BY <1>1, <1>2, <1>4, GivesUpStep

\* A cache writes a line back: it keeps a shared copy, or the copy it upgrades.
LEMMA WriteBackSafe == ASSUME IInv, SafeLines, NEW c \in Core, WriteBack(c) PROVE SafeLines'
<1>1. PICK m \in Message, a \in Addr, data \in Data, state \in {"SHARED", "SHARED_UPGRADING"} :
        /\ m = Head(inbox[c]) /\ a = m.addr
        /\ inbox[c] # <<>> /\ m \in MessagesTo(c)
        /\ m.type = "WB_REQ"
        /\ llc[c][a] # "INVALID"
        /\ state = "SHARED_UPGRADING" <=> llc[c][a] = "SHARED_UPGRADING"
        /\ llc' = [llc EXCEPT ![c][a] = state]
        /\ inbox' = Deliver(Rest(c), Msg("WB_REP", a, c, data), {m.from})
        /\ UNCHANGED <<net, waiters, dir, present, replaced, queue>>
  <2> DEFINE m == Head(inbox[c])
             a == m.addr
             upgrading == llc[c][a] = "SHARED_UPGRADING"
  <2>1. m \in Message /\ a \in Addr /\ inbox[c] # <<>> /\ m \in MessagesTo(c)
    BY HeadOK DEF WriteBack, Received, IInv
  <2>2. PICK data \in IF upgrading THEN Arbitrary ELSE {copy[c][a]} :
          inbox' = Deliver(Rest(c), Msg("WB_REP", a, c, data), {m.from})
    BY DEF WriteBack
  <2>3. data \in Data
    <3>1. copy[c][a] \in Data
      BY <2>1 DEF IInv, TypeOK
    <3>2. Arbitrary \subseteq Data
      BY DEF Arbitrary, Data
    <3>3. QED
      BY <2>2, <3>1, <3>2
  <2>4. /\ m.type = "WB_REQ" /\ llc[c][a] # "INVALID"
        /\ llc' = IF upgrading THEN llc ELSE [llc EXCEPT ![c][a] = "SHARED"]
        /\ UNCHANGED <<net, waiters, dir, present, replaced, queue>>
    BY DEF WriteBack, Received, dirVars
  <2>5. llc \in [Core -> [Addr -> CacheState]]
    BY DEF IInv, TypeOK
  <2> HIDE DEF m, a
  <2>6. CASE upgrading
    <3>1. llc' = [llc EXCEPT ![c][a] = "SHARED_UPGRADING"]
      BY <2>1, <2>4, <2>5, <2>6
    <3>2. QED
      BY <2>1, <2>2, <2>3, <2>4, <2>6, <3>1 DEF m, a
  <2>7. CASE ~upgrading
    BY <2>1, <2>2, <2>3, <2>4, <2>7, Zenon DEF m, a
  <2>8. QED
    BY <2>6, <2>7
<1>2. m.type \in DirCommand /\ m.from = DirHome[a]
  BY <1>1 DEF MessagesTo, DirCommand
<1> DEFINE mid == Rest(c)
<1>3. InboxOK(mid) /\ Taken(mid, inbox, c, m)
  BY <1>1, RestOK, RestTakes DEF IInv
<1> HIDE DEF mid
<1>4. \A k \in Core, b \in Addr : llc'[k][b] = IF k = c /\ b = a THEN state ELSE llc[k][b]
  <2>1. llc \in [Core -> [Addr -> CacheState]]
    BY DEF IInv, TypeOK
  <2>2. QED
    BY <1>1, <2>1, OneChanged
<1>5. \A b \in Addr : SameLine(b)
  BY <1>1, LinesStay
<1>6. \A b \in Addr, k \in Core : Awaited(k, b)' <=> Awaited(k, b)
  BY <1>1 DEF Awaited
<1>7. /\ m.type \in ToCache /\ m.type \notin FromCache /\ m.type \notin DirReply
      /\ m.type \notin UpgradeRep /\ m.type \in WbCmd /\ m.type \notin FlushCmd
      /\ m.type \notin {"DRAM_READ_REQ", "DRAM_READ_REP"}
  BY <1>1, Kinds
<1>8. /\ "WB_REP" \in MsgType /\ "WB_REP" \in FromCache /\ "WB_REP" \notin ToCache
      /\ "WB_REP" \notin DemandReq /\ "WB_REP" \notin LineReq /\ "WB_REP" \notin UpgradeReq
      /\ "WB_REP" \notin GivesUp /\ "WB_REP" \notin FlushRep /\ "WB_REP" \in WbRep
  BY Kinds DEF MsgType, CacheReply
<1>9. Posted(inbox', mid, "WB_REP", a, c, {DirHome[a]})
  BY <1>1, <1>2, <1>3, <1>8, DeliverPosts DEF mid
<1>10. \A b \in Addr, k \in Core : b # a \/ k # c => SamePair(b, k)
  <2>1. ASSUME NEW b \in Addr, NEW k \in Core, b # a \/ k # c
        PROVE  SameMail(inbox', inbox, b, k)
    <3>1. SameMail(mid, inbox, b, k)
      BY <1>1, <1>3, <1>7, <2>1, TakenElsewhere
    <3>2. SameMail(inbox', mid, b, k)
      BY <1>8, <1>9, <2>1, PostedElsewhere
    <3>3. QED
      BY <3>1, <3>2, SameMailTrans
  <2>2. QED
    BY <1>4, <1>6, <2>1 DEF SamePair
<1>11. \A b \in Addr, k \in Core : SameReads(inbox', inbox, b, k)
  <2>1. \A b \in Addr, k \in Core : SameReads(mid, inbox, b, k)
    BY <1>3, <1>7, TakenNoRead
  <2>2. \A b \in Addr, k \in Core : SameReads(inbox', mid, b, k)
    BY <1>9, PostedNoRead
  <2>3. QED
    BY <2>1, <2>2 DEF SameReads
<1>12. /\ SameView(a, c) /\ PairInv(a, c) /\ llc'[c][a] = state
       /\ Awaited(c, a)' <=> Awaited(c, a)
  BY <1>4, <1>5, <1>6, ViewStays DEF SafeLines, LineInv
<1>13. CacheTakes(mid, inbox, c, a, m) /\ CachePosts(inbox', mid, "WB_REP", a, c)
  BY <1>1, <1>3, <1>7, <1>8, <1>9, CacheTook, CachePosted
<1>14. Got(inbox, WbCmd, a, c) /\ WbLive(a, c) /\ ~FlushLive(a, c)
  BY <1>1, <1>7, <1>12, <1>13, OneLive, Zenon DEF PairInv, WbCommand, CacheTakes
<1>15. /\ ~Sent(inbox, WbRep, a, c)
       /\ ~Got(mid, WbCmd, a, c) /\ ~Got(mid, UpgradeRep, a, c)
  BY <1>1, <1>7, <1>12, <1>13, <1>14, Zenon DEF PairInv, WbAnswer, WbCommand, CacheTakes
<1>16. /\ c \in dir[a].sharers /\ ~Sent(inbox, GivesUp, a, c) /\ ~Sent(inbox, FlushRep, a, c)
       /\ ~Outstanding(LineReq, a, c) /\ ~Got(inbox, Grant, a, c)
  BY <1>1, <1>12, KindsHeld, Zenon DEF PairInv, Known, GivenUp, StateFits
<1>17. /\ ~Got(inbox', WbCmd, a, c) /\ ~Got(inbox', DirReply, a, c)
       /\ ~Got(inbox', Grant, a, c) /\ ~Got(inbox', UpgradeRep, a, c) /\ ~Got(inbox', ExGrantRep, a, c)
       /\ ~Sent(inbox', GivesUp, a, c) /\ ~Sent(inbox', FlushRep, a, c)
       /\ ~Sent(mid, WbRep, a, c) /\ ~Sent(mid, GivesUp, a, c)
  BY <1>8, <1>13, <1>15, <1>16, KindsHeld DEF CacheTakes, CachePosts
<1>18. \A T : "WB_REP" \notin T => (Outstanding(T, a, c)' <=> Outstanding(T, a, c))
  BY <1>12, <1>13 DEF Outstanding, SameView, CacheTakes, CachePosts
<1>19. OneRequest(a, c)'
  BY <1>1, <1>7, <1>8, <1>12, <1>13, <1>18, Zenon DEF PairInv, OneRequest, SameView, CacheTakes,
     CachePosts
<1>20. StateFits(a, c)' /\ Known(a, c)' /\ GivenUp(a, c)' /\ FlushAnswer(a, c)'
  BY <1>1, <1>8, <1>12, <1>16, <1>17, <1>18, NoneThen, Zenon DEF PairInv, StateFits, Known,
     GivenUp, FlushAnswer, SameView
<1>21. Ownership(a, c)' /\ WbCommand(a, c)' /\ FlushCommand(a, c)'
  <2>1. ~Got(inbox', FlushCmd, a, c)
    BY <1>1, <1>12, <1>13, <1>14, Zenon DEF PairInv, FlushCommand, CacheTakes, CachePosts
  <2>2. Ownership(a, c)'
    BY <1>12, <1>17 DEF Ownership
  <2>3. QED
    BY <1>17, <2>1, <2>2, NoneThen DEF WbCommand, FlushCommand
<1>22. WbAnswer(a, c)'
  BY <1>8, <1>12, <1>13, <1>14, <1>17, NoneThen DEF WbAnswer, SameView, CachePosts
<1>23. PairInv(a, c)'
  BY <1>19, <1>20, <1>21, <1>22 DEF PairInv
<1>24. QED
  BY <1>1, <1>5, <1>10, <1>11, <1>23, HeadLacksLine, CacheStep

\* Nothing happens to line a but that it is read from DRAM, ...
LEMMA LineRead ==
  ASSUME IInv, NEW a \in Addr, LineInv(a), SameLine(a), \A k \in Core : SamePair(a, k),
         (HeadWaits(a)' => HeadWaits(a)) /\ (HeadWaits(a) => HeadWaits(a)') => DramRequest(a)'
  PROVE  LineInv(a)'
<1>1. PICK c \in Core : c = DirHome[a]
  OBVIOUS
<1>2. PairInv(a, c)'
  BY PairStays DEF LineInv
<1>3. HeadWaits(a) /\ Head(Pend(a)).from = c =>
        llc'[c][a] = "INVALID" /\ ~Sent(inbox', GivesUp, a, c)
  <2>1. DataWait(a)
    BY DEF LineInv
  <2>2. llc'[c][a] = llc[c][a] /\ (Sent(inbox', GivesUp, a, c) <=> Sent(inbox, GivesUp, a, c))
    BY DEF SamePair, SameMail, SameMailAbout
  <2>3. QED
    BY <2>1, <2>2 DEF DataWait
<1>4. QED
  BY <1>2, <1>3, LineStays

\* ... or not even that.
LEMMA LineSame ==
  ASSUME IInv, NEW a \in Addr, LineInv(a), SameLine(a), \A k \in Core : SamePair(a, k),
         \A k \in Core : SameReads(inbox', inbox, a, k)
  PROVE  LineInv(a)'
  BY LineRead, ReadsStay

\* A step that changes nothing the invariant is about.
LEMMA NothingChanges ==
  ASSUME IInv, SafeLines, UNCHANGED <<llc, inbox>>,
         \A b \in Addr : SameLine(b),
         \A b \in Addr, k \in Core : Awaited(k, b)' <=> Awaited(k, b)
  PROVE  SafeLines'
<1>1. \A b \in Addr, k \in Core : SamePair(b, k)
  BY DEF SamePair, SameMail, SameMailAbout
<1>2. \A b \in Addr, k \in Core : SameReads(inbox', inbox, b, k)
  BY DEF SameReads
<1>3. QED
  BY <1>1, <1>2, LineSame DEF SafeLines

\* A cache asks for a line it does not have, or for the upgrade of one it has.
LEMMA AskStep ==
  ASSUME IInv, SafeLines, NEW c \in Core, NEW a \in Addr,
         ~Awaited(c, a), Awaited(c, a)',
         \A b \in Addr, k \in Core : b # a \/ k # c => (Awaited(k, b)' <=> Awaited(k, b)),
         \A b \in Addr : SameLine(b),
         NEW type \in DemandReq,
         inbox' = Deliver(inbox, Msg(type, a, c, "none"), {DirHome[a]}),
         \/ type # "UPGRADE_REQ" /\ llc[c][a] = "INVALID" /\ llc' = llc
         \/ /\ type = "UPGRADE_REQ" /\ llc[c][a] = "SHARED"
            /\ llc' = [llc EXCEPT ![c][a] = "SHARED_UPGRADING"]
  PROVE  SafeLines'
<1>1. /\ \A k \in Core, b \in Addr : k # c \/ b # a => llc'[k][b] = llc[k][b]
      /\ \/ type # "UPGRADE_REQ" /\ llc[c][a] = "INVALID" /\ llc'[c][a] = "INVALID"
         \/ type = "UPGRADE_REQ" /\ llc[c][a] = "SHARED" /\ llc'[c][a] = "SHARED_UPGRADING"
  <2>1. llc \in [Core -> [Addr -> CacheState]]
    BY DEF IInv, TypeOK
  <2>2. CASE type # "UPGRADE_REQ"
    BY <2>2
  <2>3. CASE type = "UPGRADE_REQ"
    BY <2>1, <2>3, OneChanged
  <2>4. QED
    BY <2>2, <2>3
<1>2. /\ type \in MsgType /\ type \in FromCache /\ type \notin ToCache
      /\ type \notin GivesUp /\ type \notin FlushRep /\ type \notin WbRep
      /\ type \in LineReq <=> type # "UPGRADE_REQ"
      /\ type \in UpgradeReq <=> type = "UPGRADE_REQ"
      /\ type \notin {"DRAM_READ_REQ", "DRAM_READ_REP"}
  BY Kinds DEF MsgType
<1>3. Posted(inbox', inbox, type, a, c, {DirHome[a]})
  <2>1. InboxOK(inbox) /\ "none" \in Data
    BY DEF IInv, Data
  <2>2. QED
    BY <1>2, <2>1, DeliverPosts
<1>4. \A b \in Addr, k \in Core : b # a \/ k # c => SamePair(b, k)
  <2>1. ASSUME NEW b \in Addr, NEW k \in Core, b # a \/ k # c
        PROVE  SamePair(b, k)
    <3>1. SameMail(inbox', inbox, b, k)
      BY <1>2, <1>3, <2>1, PostedElsewhere
    <3>2. llc'[k][b] = llc[k][b] /\ (Awaited(k, b)' <=> Awaited(k, b))
      BY <1>1, <2>1
    <3>3. QED
      BY <3>1, <3>2 DEF SamePair
  <2>2. QED
    BY <2>1
<1>5. \A b \in Addr, k \in Core : SameReads(inbox', inbox, b, k)
  BY <1>2, <1>3, PostedNoRead
<1>6. SameView(a, c) /\ PairInv(a, c)
  BY ViewStays DEF SafeLines, LineInv
<1>7. CachePosts(inbox', inbox, type, a, c)
  BY <1>2, <1>3, CachePosted
<1>8. /\ ~Outstanding(DemandReq, a, c) /\ ~Got(inbox, DirReply, a, c)
      /\ ~Sent(inbox, DemandReq, a, c) /\ ~Queued(Pend(a), DemandReq, c)
  BY <1>6 DEF PairInv, OneRequest, Outstanding
<1>9. /\ ~Outstanding(LineReq, a, c) /\ ~Outstanding(UpgradeReq, a, c)
      /\ ~Queued(Pend(a), LineReq, c) /\ ~Queued(Pend(a), UpgradeReq, c)
      /\ ~Got(inbox, Grant, a, c) /\ ~Got(inbox, UpgradeRep, a, c) /\ ~Got(inbox, ExGrantRep, a, c)
  BY <1>8, KindsHeld, KindsQueued DEF Outstanding
<1>10. \A T : type \notin T => (Outstanding(T, a, c)' <=> Outstanding(T, a, c))
  BY <1>6, <1>7 DEF Outstanding, SameView, CachePosts
<1>11. OneRequest(a, c)'
  <2>1. Outstanding(DemandReq, a, c)' /\ ~Got(inbox', DirReply, a, c)
    BY <1>6, <1>7, <1>8 DEF Outstanding, CachePosts
  <2>2. SentNotThen(inbox', DemandReq, DemandReq, a, c) /\ ~Queued(Pend(a)', DemandReq, c)
    BY <1>6, <1>7, <1>8, NoneThen DEF SameView, CachePosts
  <2>3. QED
    BY <1>6, <2>1, <2>2, NoneThen DEF PairInv, OneRequest, SameView
<1>12. StateFits(a, c)' /\ Known(a, c)'
  BY <1>1, <1>2, <1>6, <1>7, <1>9, <1>10 DEF PairInv, StateFits, Known, SameView, CachePosts
<1>13. GivenUp(a, c)'
  BY <1>1, <1>2, <1>6, <1>7, <1>9 DEF PairInv, GivenUp, SameView, CachePosts
<1>14. FlushAnswer(a, c)'
  <2>1. type \in UpgradeReq => ~Sent(inbox, FlushRep, a, c)
    BY <1>1, <1>2, <1>6, KindsHeld DEF PairInv, GivenUp
  <2>2. QED
    BY <1>2, <1>6, <1>7, <1>10, <2>1 DEF PairInv, FlushAnswer, SameView, CachePosts
<1>15. Ownership(a, c)' /\ WbAnswer(a, c)'
  BY <1>1, <1>2, <1>6, <1>7, <1>9 DEF PairInv, Ownership, WbAnswer, SameView, CachePosts
<1>16. WbCommand(a, c)' /\ FlushCommand(a, c)'
  BY <1>1, <1>6, <1>7 DEF PairInv, WbCommand, FlushCommand, SameView, CachePosts
<1>17. PairInv(a, c)'
  BY <1>11, <1>12, <1>13, <1>14, <1>15, <1>16 DEF PairInv
<1>18. ~(HeadWaits(a) /\ Head(Pend(a)).from = c)
  <2>1. DataWait(a)
    BY DEF SafeLines, LineInv
  <2>2. QED
    BY <1>8, <2>1, HeadQueued DEF DataWait, HeadWaits
<1>19. QED
  BY <1>4, <1>5, <1>17, <1>18, CacheStep

\* The loop over the waiters asks for an upgrade for the first of them.
LEMMA ServeByUpgradeSafe ==
  ASSUME IInv, SafeLines, NEW c \in Core, ServeByUpgrade(c) PROVE SafeLines'
<1>1. PICK a \in Addr :
        /\ net[c].at = "serve" /\ a = net[c].addr
        /\ waiters[c][a] # <<>>
        /\ llc[c][a] = "SHARED"
        /\ llc' = [llc EXCEPT ![c][a] = "SHARED_UPGRADING"]
        /\ inbox' = Deliver(inbox, Msg("UPGRADE_REQ", a, c, "none"), {DirHome[a]})
        /\ Done(c)
        /\ UNCHANGED <<waiters, dir, present, replaced, queue>>
  BY DEF ServeByUpgrade, Serving, dirVars, IInv, TypeOK
<1>2. net'[c].at = "recv" /\ \A k \in Core \ {c} : net'[k] = net[k]
  BY <1>1 DEF Done, GoTo, IInv, TypeOK
<1>3. \A b \in Addr : SameLine(b)
  BY <1>1, <1>2, LinesStay
<1>4. ~Awaited(c, a) /\ Awaited(c, a)'
  BY <1>1, <1>2 DEF Awaited
<1>5. \A b \in Addr, k \in Core : b # a \/ k # c => (Awaited(k, b)' <=> Awaited(k, b))
  BY <1>1, <1>2, ServiceMoves
<1>6. "UPGRADE_REQ" \in DemandReq
  BY DEF DemandReq
<1>7. QED
  BY <1>1, <1>3, <1>4, <1>5, <1>6, AskStep

\* A thread misses: the first waiter asks, the others only wait.
LEMMA MissSafe ==
  ASSUME IInv, SafeLines, NEW t \in Thread, NEW a \in Addr, NEW exclusive \in BOOLEAN,
         Miss(t, a, exclusive)
  PROVE  SafeLines'
<1> DEFINE c == LLCOf[t]
           type == RequestFor(c, a, exclusive)
<1>1. /\ net[c].at # "serve" /\ ~Permitted(c, a, exclusive)
      /\ MissIsExpected(c, a, exclusive)
      /\ waiters' = [waiters EXCEPT ![c][a] = Append(@, [thread |-> t, exclusive |-> exclusive])]
      /\ llc' = IF waiters[c][a] = <<>> /\ type = "UPGRADE_REQ"
                THEN [llc EXCEPT ![c][a] = "SHARED_UPGRADING"] ELSE llc
      /\ inbox' = IF waiters[c][a] = <<>>
                  THEN Deliver(inbox, Msg(type, a, c, "none"), {DirHome[a]}) ELSE inbox
      /\ UNCHANGED <<net, dir, present, replaced, queue>>
  BY DEF Miss, Misses, MayAccess, StackFree, dirVars
<1>2. c \in Core
  OBVIOUS
<1>3. type \in DemandReq
  BY DEF RequestFor, DemandReq
<1>4. waiters[c][a] = <<>> =>
        \/ type # "UPGRADE_REQ" /\ llc[c][a] \in {"INVALID", "SHARED_UPGRADING"}
        \/ type = "UPGRADE_REQ" /\ llc[c][a] = "SHARED"
  <2>1. llc[c][a] \in CacheState
    BY <1>2 DEF IInv, TypeOK
  <2>2. QED
    BY <1>1, <2>1 DEF CacheState, Permitted, Readable, MissIsExpected, RequestFor
<1> HIDE DEF c, type
<1>5. \A k \in Core, b \in Addr : k # c \/ b # a => waiters'[k][b] = waiters[k][b]
  <2>1. waiters \in [Core -> [Addr -> Seq(Waiter)]]
    BY DEF IInv, TypeOK
  <2>2. QED
    BY <1>1, <1>2, <2>1, OneChanged
<1>6. waiters'[c][a] # <<>>
  <2>1. waiters \in [Core -> [Addr -> Seq(Waiter)]]
    BY DEF IInv, TypeOK
  <2>2. waiters[c][a] \in Seq(Waiter) /\ [thread |-> t, exclusive |-> exclusive] \in Waiter
    BY <1>2, <2>1 DEF Waiter
  <2>3. Append(waiters[c][a], [thread |-> t, exclusive |-> exclusive]) # <<>>
    BY <2>2, AppendProperties
  <2>4. waiters'[c][a] = Append(waiters[c][a], [thread |-> t, exclusive |-> exclusive])
    BY <1>1, <1>2, <2>1, OneChanged
  <2>5. QED
    BY <2>3, <2>4
<1>7. \A b \in Addr, k \in Core : b # a \/ k # c => (Awaited(k, b)' <=> Awaited(k, b))
  BY <1>1, <1>5 DEF Awaited
<1>8. \A b \in Addr : SameLine(b)
  BY <1>1, LinesStay
<1>9. CASE waiters[c][a] = <<>>
  <2>1. ~Awaited(c, a)
    BY <1>9 DEF Awaited
  <2>2. Awaited(c, a)'
    BY <1>1, <1>2, <1>6, <1>9 DEF Awaited, IInv, NetOK
  <2>3. llc[c][a] # "SHARED_UPGRADING"
    BY <1>2, <2>1 DEF SafeLines, LineInv, PairInv, OneRequest
  <2>4. QED
    BY <1>1, <1>2, <1>3, <1>4, <1>7, <1>8, <1>9, <2>1, <2>2, <2>3, AskStep
<1>10. CASE waiters[c][a] # <<>>
  <2>1. Awaited(c, a)' <=> Awaited(c, a)
    BY <1>1, <1>6, <1>10 DEF Awaited
  <2>2. QED
    BY <1>1, <1>7, <1>8, <1>10, <2>1, NothingChanges
<1>11. QED
  BY <1>9, <1>10

\* A write ages data and changes nothing else of messages and requests.
LEMMA AgedMail ==
  ASSUME IInv, NEW c \in Core, NEW a \in Addr, WrittenAt(c, a), NEW b \in Addr, NEW k \in Core
  PROVE  SameMail(inbox', inbox, b, k) /\ SameReads(inbox', inbox, b, k)
<1>1. ASSUME NEW j \in Core
      PROVE  /\ DOMAIN inbox'[j] = DOMAIN inbox[j]
             /\ \A T, F : \A i \in DOMAIN inbox[j] :
                  inbox'[j][i] \in Mail(T, b, F) <=> inbox[j][i] \in Mail(T, b, F)
  <2> DEFINE box == [i \in DOMAIN inbox[j] |->
                       IF inbox[j][i].addr = a THEN Aged(inbox[j][i]) ELSE inbox[j][i]]
  <2>1. inbox'[j] = box
    BY DEF WrittenAt
  <2>2. \A i \in DOMAIN inbox[j] : inbox[j][i] \in Message
    <3>1. inbox[j] \in Seq(Message)
      BY DEF IInv, InboxOK
    <3>2. QED
      BY <3>1, ElementOfSeq, LenProperties
  <2>3. ASSUME NEW m \in Message
        PROVE  /\ Aged(m) \in Message /\ Aged(m).type = m.type
               /\ Aged(m).addr = m.addr /\ Aged(m).from = m.from
    BY DEF Aged, Outdated, Message, Data
  <2>4. ASSUME NEW i \in DOMAIN inbox[j]
        PROVE  /\ box[i] \in Message /\ box[i].type = inbox[j][i].type
               /\ box[i].addr = inbox[j][i].addr /\ box[i].from = inbox[j][i].from
    BY <2>2, <2>3
  <2>5. DOMAIN box = DOMAIN inbox[j]
    OBVIOUS
  <2> HIDE DEF box
  <2>6. ASSUME NEW T, NEW F, NEW i \in DOMAIN inbox[j]
        PROVE  box[i] \in Mail(T, b, F) <=> inbox[j][i] \in Mail(T, b, F)
    BY <2>2, <2>4 DEF Mail
  <2>7. QED
    BY <2>1, <2>5, <2>6
<1>2. ASSUME NEW j \in Core, NEW F, NEW T, NEW U, NEW V
      PROVE  LET M == Mail(T, b, F)  N == Mail(U, b, F)  O == Mail(V, b, F) IN
             /\ Has(inbox'[j], M) <=> Has(inbox[j], M)
             /\ NotThen(inbox'[j], M, N) <=> NotThen(inbox[j], M, N)
             /\ NotThenThen(inbox'[j], M, N, O) <=> NotThenThen(inbox[j], M, N, O)
  BY <1>1, SameElements
<1>3. DirHome[b] \in Core
  OBVIOUS
<1>4. ASSUME NEW T, NEW U PROVE SameMailAbout(inbox', inbox, b, k, T, U)
  BY <1>2, <1>3 DEF SameMailAbout, Sent, SentNotThen, Got, GotNotThen, OneWbAfterGrant
<1>5. SameReads(inbox', inbox, b, k)
  BY <1>2 DEF SameReads, Read, ReadOnce
<1>6. QED
  BY <1>4, <1>5 DEF SameMail

\* ... and to no directory.
LEMMA AgedLines ==
  ASSUME IInv, NEW c \in Core, NEW a \in Addr, WrittenAt(c, a),
         UNCHANGED <<dir, present, replaced>>,
         \A k \in Core : net[k].at \in {"head", "next"} \/ net'[k].at \in {"head", "next"} =>
           net'[k].at = net[k].at /\ net'[k].addr = net[k].addr
  PROVE  \A b \in Addr : SameLine(b)
<1> SUFFICES ASSUME NEW b \in Addr PROVE SameLine(b)
  OBVIOUS
<1>1. DirHome[b] \in Core
  OBVIOUS
<1>2. Parked(b)' <=> Parked(b)
  BY <1>1 DEF Parked
<1>3. /\ queue[b] \in Seq(Request) /\ queue'[b] \in Seq(Request)
      /\ DOMAIN queue'[b] = DOMAIN queue[b]
      /\ \A i \in DOMAIN queue[b] : SameRequest(queue'[b][i], queue[b][i])
  <2>1. queue[b] \in Seq(Request) /\ queue'[b] \in Seq(Request)
    BY WriteOK DEF IInv, TypeOK
  <2>2. queue'[b] = IF b = a THEN [i \in DOMAIN queue[b] |-> Aged(queue[b][i])] ELSE queue[b]
    BY DEF WrittenAt, IInv, TypeOK
  <2>3. ASSUME NEW r \in Request PROVE SameRequest(Aged(r), r)
    BY <2>3 DEF SameRequest, Aged, Request
  <2>4. \A i \in DOMAIN queue[b] : queue[b][i] \in Request
    BY <2>1, ElementOfSeq, LenProperties
  <2>5. QED
    BY <2>1, <2>2, <2>3, <2>4 DEF SameRequest
<1>4. SameRequests(queue'[b], queue[b])
  BY <1>3, AlikeRequests
<1>5. SameRequests(Pend(b)', Pend(b))
  <2>1. CASE net[DirHome[b]].at = "next" /\ net[DirHome[b]].addr = b
    <3>1. queue[b] # <<>> /\ queue'[b] # <<>>
      BY <1>1, <1>4, <2>1 DEF IInv, NetOK, SameRequests
    <3>2. Tail(queue[b]) \in Seq(Request) /\ Tail(queue'[b]) \in Seq(Request)
      BY <1>3, <3>1, HeadTailProperties
    <3>3. DOMAIN Tail(queue'[b]) = DOMAIN Tail(queue[b])
      BY <1>3, <3>1, TailElements, LenProperties
    <3>4. \A i \in DOMAIN Tail(queue[b]) : SameRequest(Tail(queue'[b])[i], Tail(queue[b])[i])
      BY <1>3, <3>1, <3>3, TailElements
    <3>5. SameRequests(Tail(queue'[b]), Tail(queue[b]))
      BY <3>2, <3>3, <3>4, AlikeRequests
    <3>6. QED
      BY <1>1, <2>1, <3>5 DEF Pend
  <2>2. CASE ~(net[DirHome[b]].at = "next" /\ net[DirHome[b]].addr = b)
    BY <1>1, <1>4, <2>2 DEF Pend
  <2>3. QED
    BY <2>1, <2>2
<1>6. QED
  BY <1>2, <1>5 DEF SameLine

\* A write to a line the cache may write.
LEMMA WriteStep ==
  ASSUME IInv, SafeLines, NEW c \in Core, NEW a \in Addr,
         llc[c][a] \in {"EXCLUSIVE", "MODIFIED"},
         llc' = [llc EXCEPT ![c][a] = "MODIFIED"],
         WrittenAt(c, a), UNCHANGED <<waiters, dir, present, replaced>>,
         \A k \in Core : net[k].at \in {"head", "next"} \/ net'[k].at \in {"head", "next"} =>
           net'[k].at = net[k].at /\ net'[k].addr = net[k].addr,
         \A b \in Addr, k \in Core : Awaited(k, b)' <=> Awaited(k, b)
  PROVE  SafeLines'
<1>1. \A k \in Core, b \in Addr : llc'[k][b] = IF k = c /\ b = a THEN "MODIFIED" ELSE llc[k][b]
  <2>1. llc \in [Core -> [Addr -> CacheState]]
    BY DEF IInv, TypeOK
  <2>2. QED
    BY <2>1, OneChanged
<1>2. \A b \in Addr : SameLine(b)
  BY AgedLines
<1>3. \A b \in Addr, k \in Core : SameMail(inbox', inbox, b, k) /\ SameReads(inbox', inbox, b, k)
  BY AgedMail
<1>4. \A b \in Addr, k \in Core : b # a \/ k # c => SamePair(b, k)
  BY <1>1, <1>3 DEF SamePair
<1>5. /\ SameView(a, c) /\ PairInv(a, c) /\ llc'[c][a] = "MODIFIED"
      /\ Awaited(c, a)' <=> Awaited(c, a)
      /\ \A T, U : SameMailAbout(inbox', inbox, a, c, T, U)
  BY <1>1, <1>2, <1>3, ViewStays DEF SafeLines, LineInv, SameMail
<1>6. \A T : Outstanding(T, a, c)' <=> Outstanding(T, a, c)
  BY <1>5 DEF Outstanding, SameView, SameMailAbout
<1>7. OneRequest(a, c)'
  BY <1>5, <1>6 DEF PairInv, OneRequest, SameView, SameMailAbout
<1>8. StateFits(a, c)' /\ Known(a, c)' /\ GivenUp(a, c)' /\ FlushAnswer(a, c)'
  BY <1>5, <1>6 DEF PairInv, StateFits, Known, GivenUp, FlushAnswer, SameView, SameMailAbout
<1>9. Ownership(a, c)' /\ WbAnswer(a, c)'
  BY <1>5 DEF PairInv, Ownership, WbAnswer, SameView, SameMailAbout
<1>10. WbCommand(a, c)' /\ FlushCommand(a, c)'
  BY <1>5 DEF PairInv, WbCommand, FlushCommand, SameView, SameMailAbout
<1>11. PairInv(a, c)'
  BY <1>7, <1>8, <1>9, <1>10 DEF PairInv
<1>12. QED
  BY <1>2, <1>3, <1>4, <1>11, HeadLacksLine, CacheStep

\* A thread writes what its cache may write.
LEMMA WriteHitSafe ==
  ASSUME IInv, SafeLines, NEW t \in Thread, NEW a \in Addr, WriteHit(t, a) PROVE SafeLines'
<1> DEFINE c == LLCOf[t]
<1>1. /\ llc[c][a] \in {"EXCLUSIVE", "MODIFIED"}
      /\ llc' = [llc EXCEPT ![c][a] = "MODIFIED"]
      /\ WrittenAt(c, a)
      /\ net' = NetWrittenAt(a)
      /\ UNCHANGED <<waiters, dir, present, replaced>>
  BY DEF WriteHit
<1>2. c \in Core
  OBVIOUS
<1>3. \A k \in Core : net'[k].at = net[k].at /\ net'[k].addr = net[k].addr
  BY <1>1, AgedNet
<1>4. \A b \in Addr, k \in Core : Awaited(k, b)' <=> Awaited(k, b)
  BY <1>1, <1>3 DEF Awaited
<1> HIDE DEF c
<1>5. QED
  BY <1>1, <1>2, <1>3, <1>4, WriteStep

\* The loop over the waiters moves on while it has the line.
LEMMA WakeSafe == ASSUME IInv, SafeLines, NEW c \in Core, Wake(c) PROVE SafeLines'
<1>1. PICK a \in Addr :
        /\ net[c].at = "serve" /\ a = net[c].addr
        /\ UNCHANGED <<waiters, dir, present, replaced>>
        /\ \/ /\ llc[c][a] \in {"EXCLUSIVE", "MODIFIED"}
              /\ llc' = [llc EXCEPT ![c][a] = "MODIFIED"]
              /\ WrittenAt(c, a)
              /\ net' = [NetWrittenAt(a) EXCEPT ![c].at = "woken"]
           \/ /\ GoTo(c, "woken", a, "none")
              /\ UNCHANGED <<llc, queue, inbox>>
  BY Zenon DEF Wake, Serving, Permitted, IInv, TypeOK
<1>2. /\ net'[c].at = "woken" /\ net'[c].addr = a
      /\ \A k \in Core \ {c} : net'[k].at = net[k].at /\ net'[k].addr = net[k].addr
  <2>1. CASE net' = [NetWrittenAt(a) EXCEPT ![c].at = "woken"]
    <3>1. \A k \in Core : /\ NetWrittenAt(a)[k] \in NetState
                          /\ NetWrittenAt(a)[k].at = net[k].at
                          /\ NetWrittenAt(a)[k].addr = net[k].addr
      BY AgedNet
    <3>2. NetWrittenAt(a) = [k \in Core |-> NetWrittenAt(a)[k]]
      BY DEF NetWrittenAt
    <3>3. QED
      BY <1>1, <2>1, <3>1, <3>2 DEF NetState
  <2>2. CASE GoTo(c, "woken", a, "none")
    BY <2>2 DEF GoTo, IInv, TypeOK
  <2>3. QED
    BY <1>1, <2>1, <2>2
<1>3. \A b \in Addr, k \in Core : Awaited(k, b)' <=> Awaited(k, b)
  <2>1. ASSUME NEW b \in Addr, NEW k \in Core PROVE Awaited(k, b)' <=> Awaited(k, b)
    <3>1. CASE k = c
      BY <1>1, <1>2, <3>1 DEF Awaited
    <3>2. CASE k # c
      BY <1>1, <1>2, <3>2 DEF Awaited
    <3>3. QED
      BY <3>1, <3>2
  <2>2. QED
    BY <2>1
<1>4. \A k \in Core : net[k].at \in {"head", "next"} \/ net'[k].at \in {"head", "next"} =>
        net'[k].at = net[k].at /\ net'[k].addr = net[k].addr
  BY <1>1, <1>2
<1>5. CASE WrittenAt(c, a) /\ llc[c][a] \in {"EXCLUSIVE", "MODIFIED"}
           /\ llc' = [llc EXCEPT ![c][a] = "MODIFIED"]
  BY <1>1, <1>3, <1>4, <1>5, WriteStep
<1>6. CASE UNCHANGED <<llc, queue, inbox>>
  <2>1. \A b \in Addr : SameLine(b)
    BY <1>1, <1>4, <1>6, LinesStay
  <2>2. QED
    BY <1>3, <1>6, <2>1, NothingChanges
<1>7. QED
  BY <1>1, <1>5, <1>6

\* A waiter that was served leaves the list.
LEMMA RemoveWaiterSafe ==
  ASSUME IInv, SafeLines, NEW c \in Core, RemoveWaiter(c) PROVE SafeLines'
<1>1. PICK a \in Addr :
        /\ net[c].at = "woken" /\ a = net[c].addr
        /\ waiters' = [waiters EXCEPT ![c][a] = Tail(@)]
        /\ GoTo(c, "serve", a, "none")
        /\ UNCHANGED <<llc, inbox, dir, present, replaced, queue>>
  BY DEF RemoveWaiter, Serving, dirVars, IInv, TypeOK
<1>2. /\ net'[c].at = "serve" /\ net'[c].addr = a
      /\ \A k \in Core \ {c} : net'[k] = net[k]
  BY <1>1 DEF GoTo, IInv, TypeOK
<1>3. \A k \in Core, b \in Addr : k # c \/ b # a => waiters'[k][b] = waiters[k][b]
  <2>1. waiters \in [Core -> [Addr -> Seq(Waiter)]]
    BY DEF IInv, TypeOK
  <2>2. QED
    BY <1>1, <2>1, OneChanged
<1>4. \A b \in Addr, k \in Core : Awaited(k, b)' <=> Awaited(k, b)
  <2>1. ASSUME NEW b \in Addr, NEW k \in Core PROVE Awaited(k, b)' <=> Awaited(k, b)
    <3>1. CASE k = c /\ b = a
      BY <1>1, <1>2, <3>1 DEF Awaited
    <3>2. CASE k = c /\ b # a
      BY <1>1, <1>2, <1>3, <3>2 DEF Awaited
    <3>3. CASE k # c
      BY <1>2, <1>3, <3>3 DEF Awaited
    <3>4. QED
      BY <3>1, <3>2, <3>3
  <2>2. QED
    BY <2>1
<1>5. \A b \in Addr : SameLine(b)
  BY <1>1, <1>2, LinesStay
<1>6. QED
  BY <1>1, <1>4, <1>5, NothingChanges

\* No waiter is left, and the network thread takes the next message.
LEMMA AllServedSafe == ASSUME IInv, SafeLines, NEW c \in Core, AllServed(c) PROVE SafeLines'
<1>1. PICK a \in Addr :
        /\ net[c].at = "serve" /\ a = net[c].addr
        /\ waiters[c][a] = <<>>
        /\ Done(c)
        /\ UNCHANGED <<llc, waiters, inbox, dir, present, replaced, queue>>
  BY DEF AllServed, Serving, cacheVars, dirVars, IInv, TypeOK
<1>2. net'[c].at = "recv" /\ \A k \in Core \ {c} : net'[k] = net[k]
  BY <1>1 DEF Done, GoTo, IInv, TypeOK
<1>3. \A b \in Addr, k \in Core : Awaited(k, b)' <=> Awaited(k, b)
  <2>1. ASSUME NEW b \in Addr, NEW k \in Core PROVE Awaited(k, b)' <=> Awaited(k, b)
    <3>1. CASE k = c
      BY <1>1, <1>2, <3>1 DEF Awaited
    <3>2. CASE k # c
      BY <1>1, <1>2, <3>2 DEF Awaited
    <3>3. QED
      BY <3>1, <3>2
  <2>2. QED
    BY <2>1
<1>4. \A b \in Addr : SameLine(b)
  BY <1>1, <1>2, LinesStay
<1>5. QED
  BY <1>1, <1>3, <1>4, NothingChanges

-----------------------------------------------------------------------------
(* The steps of the directories *)

\* A directory has no part in the loops over waiters.
LEMMA NoWaiterServed ==
  ASSUME NEW h \in Core, UNCHANGED waiters,
         \A k \in Core \ {h} : net'[k] = net[k],
         net[h].at \notin {"serve", "woken"}, net'[h].at \notin {"serve", "woken"}
  PROVE  \A b \in Addr, k \in Core : Awaited(k, b)' <=> Awaited(k, b)
<1> SUFFICES ASSUME NEW b \in Addr, NEW k \in Core PROVE Awaited(k, b)' <=> Awaited(k, b)
  OBVIOUS
<1>1. CASE k = h
  BY <1>1 DEF Awaited
<1>2. CASE k # h
  BY <1>2 DEF Awaited
<1>3. QED
  BY <1>1, <1>2

\* The directory of line a is about to process a request for it.
HeadAt(a) == net[DirHome[a]].at = "head" /\ net[DirHome[a]].addr = a

\* The directory of line a works on that line only.
WorksOn(a) ==
  LET h == DirHome[a] IN
  /\ \A k \in Core \ {h} : net'[k] = net[k]
  /\ net[h].at \in {"recv", "head", "next"} /\ net'[h].at \in {"recv", "head", "next"}
  /\ net[h].at \in {"head", "next"} => net[h].addr = a
  /\ net'[h].at \in {"head", "next"} => net'[h].addr = a

\* What the directories have of other lines, and messages about them, stay.
OthersStay(a) ==
  /\ llc' = llc /\ waiters' = waiters
  /\ \A b \in Addr \ {a} : /\ dir'[b] = dir[b] /\ queue'[b] = queue[b]
                           /\ b \in present \cup replaced => b \in present' \cup replaced'
  /\ \A b \in Addr \ {a}, k \in Core : /\ SameMail(inbox', inbox, b, k)
                                       /\ SameReads(inbox', inbox, b, k)

\* A step of the directory that concerns one line: it holds of all of them.
LEMMA OneLine ==
  ASSUME IInv, SafeLines, NEW a \in Addr, WorksOn(a), OthersStay(a), LineInv(a)'
  PROVE  SafeLines'
<1>1. \A b \in Addr, k \in Core : Awaited(k, b)' <=> Awaited(k, b)
  <2>1. DirHome[a] \in Core
    OBVIOUS
  <2>2. QED
    BY <2>1, NoWaiterServed DEF WorksOn, OthersStay
<1>2. ASSUME NEW b \in Addr \ {a} PROVE LineInv(b)'
  <2>1. DirHome[b] \in Core
    OBVIOUS
  <2>2. /\ Parked(b)' <=> Parked(b)
        /\ Pend(b)' = Pend(b)
    BY <2>1 DEF Parked, Pend, WorksOn, OthersStay
  <2>3. SameLine(b)
    BY <2>2, SameQueue DEF SameLine, OthersStay
  <2>4. \A k \in Core : SamePair(b, k)
    BY <1>1 DEF SamePair, OthersStay
  <2>5. \A k \in Core : SameReads(inbox', inbox, b, k)
    BY DEF OthersStay
  <2>6. QED
    BY <2>3, <2>4, <2>5, LineSame DEF SafeLines
<1>3. QED
  BY <1>2 DEF SafeLines

\* Cache c may get a message of this type of the directory of line a, and
\* nothing else happens to their messages.
GetsMail(new, old, type, a, c) ==
  /\ \A T, U : /\ Sent(new, T, a, c) <=> Sent(old, T, a, c)
               /\ SentNotThen(new, T, U, a, c) <=> SentNotThen(old, T, U, a, c)
               /\ Got(new, T, a, c) <=> Got(old, T, a, c) \/ type \in T \cap ToCache
               /\ GotNotThen(new, T, U, a, c) <=>
                    GotNotThen(old, T, U, a, c) /\ (type \in U \cap ToCache => ~Got(old, T, a, c))
  /\ OneWbAfterGrant(old, a, c) /\ (type \in WbCmd => GotNotThen(old, Grant, WbCmd, a, c)) =>
       OneWbAfterGrant(new, a, c)

\* What Posted says of such a message.
LEMMA HomePosts ==
  ASSUME NEW new, NEW old, NEW type, NEW a \in Addr, NEW to,
         Posted(new, old, type, a, DirHome[a], to), type \notin FromCache, NEW c \in Core
  PROVE  /\ c \in to => GetsMail(new, old, type, a, c)
         /\ c \notin to => GetsMail(new, old, "none", a, c)
<1>1. \A T, U : PostedAbout(new, old, type, a, DirHome[a], to, a, c, T, U)
  BY DEF Posted
<1>2. "none" \notin ToCache
  BY Kinds
<1>3. \A x : x \in WbCmd => x \in ToCache
  BY Kinds
<1>4. QED
  BY <1>1, <1>2, <1>3 DEF PostedAbout, GetsMail

\* The same requests of cache c are queued.
SameAsked(a, c) ==
  /\ \A T \in {DemandReq, LineReq, UpgradeReq} : Queued(Pend(a)', T, c) <=> Queued(Pend(a), T, c)
  /\ QueuedOnce(Pend(a), c) => QueuedOnce(Pend(a)', c)

\* The directory does not wait for cache c; now it may send it a command, for
\* which it waits or which finds the line gone.
LEMMA PairCommanded ==
  ASSUME NEW a \in Addr, NEW c \in Core, PairInv(a, c), ~WbLive(a, c), ~FlushLive(a, c),
         c \in dir[a].sharers => c \in dir'[a].sharers,
         IsOwner(a, c) => IsOwner(a, c)',
         dir[a].state = "MODIFIED" /\ dir[a].owner = c => dir'[a].state = "MODIFIED",
         SameAsked(a, c), llc'[c][a] = llc[c][a], Awaited(c, a)' <=> Awaited(c, a),
         NEW type, type \notin DirReply, GetsMail(inbox', inbox, type, a, c),
         type \in WbCmd => WbLive(a, c)' \/ (llc[c][a] = "INVALID" /\ ~Got(inbox, Grant, a, c)),
         type \in FlushCmd => FlushLive(a, c)' \/ (llc[c][a] = "INVALID" /\ ~Got(inbox, Grant, a, c))
  PROVE  PairInv(a, c)'
<1>1. \A T \in {DemandReq, LineReq, UpgradeReq} : Outstanding(T, a, c)' <=> Outstanding(T, a, c)
  BY DEF Outstanding, SameAsked, GetsMail
<1>2. \A T \in {DirReply, Grant, ExGrantRep, UpgradeRep} : Got(inbox', T, a, c) <=> Got(inbox, T, a, c)
  BY Kinds DEF GetsMail
<1>3. /\ \A T, U : /\ Sent(inbox', T, a, c) <=> Sent(inbox, T, a, c)
                   /\ SentNotThen(inbox', T, U, a, c) <=> SentNotThen(inbox, T, U, a, c)
      /\ GotNotThen(inbox', DirReply, DirReply, a, c) <=> GotNotThen(inbox, DirReply, DirReply, a, c)
  BY DEF GetsMail
<1>4. OneRequest(a, c)'
  BY <1>1, <1>2, <1>3 DEF PairInv, OneRequest, SameAsked
<1>5. StateFits(a, c)' /\ Known(a, c)'
  BY <1>1, <1>2, <1>3 DEF PairInv, StateFits, Known
<1>6. GivenUp(a, c)'
  BY <1>2, <1>3 DEF PairInv, GivenUp, SameAsked
<1>7. FlushAnswer(a, c)'
  BY <1>1, <1>2, <1>3 DEF PairInv, FlushAnswer
<1>8. Ownership(a, c)'
  BY <1>2 DEF PairInv, Ownership, IsOwner, Owned
<1>9. WbAnswer(a, c)'
  BY <1>3 DEF PairInv, WbAnswer
<1>10. /\ type \in WbCmd => type \in ToCache
       /\ type \in FlushCmd => type \in ToCache
       /\ ~(type \in WbCmd /\ type \in FlushCmd)
       /\ type \notin UpgradeRep
  BY Kinds
<1>11. /\ Got(inbox', WbCmd, a, c) <=> Got(inbox, WbCmd, a, c) \/ type \in WbCmd
       /\ GotNotThen(inbox', Grant, WbCmd, a, c) <=>
            GotNotThen(inbox, Grant, WbCmd, a, c) /\ (type \in WbCmd => ~Got(inbox, Grant, a, c))
       /\ GotNotThen(inbox', WbCmd, UpgradeRep, a, c) <=> GotNotThen(inbox, WbCmd, UpgradeRep, a, c)
       /\ GotNotThen(inbox', WbCmd, WbCmd, a, c) <=>
            GotNotThen(inbox, WbCmd, WbCmd, a, c) /\ (type \in WbCmd => ~Got(inbox, WbCmd, a, c))
       /\ OneWbAfterGrant(inbox, a, c) /\ (type \in WbCmd => GotNotThen(inbox, Grant, WbCmd, a, c)) =>
            OneWbAfterGrant(inbox', a, c)
  BY <1>10 DEF GetsMail
<1>12. WbCommand(a, c)'
  BY <1>11, NoneThen DEF PairInv, WbCommand
<1>13. /\ Got(inbox', FlushCmd, a, c) <=> Got(inbox, FlushCmd, a, c) \/ type \in FlushCmd
       /\ GotNotThen(inbox', Grant, FlushCmd, a, c) <=>
            GotNotThen(inbox, Grant, FlushCmd, a, c) /\ (type \in FlushCmd => ~Got(inbox, Grant, a, c))
       /\ GotNotThen(inbox', FlushCmd, UpgradeRep, a, c) <=> GotNotThen(inbox, FlushCmd, UpgradeRep, a, c)
  BY <1>10 DEF GetsMail
<1>14. FlushCommand(a, c)'
  BY <1>13, NoneThen DEF PairInv, FlushCommand
<1>15. QED
  BY <1>4, <1>5, <1>6, <1>7, <1>8, <1>9, <1>12, <1>14 DEF PairInv

\* The directory answers the request of cache c.
LEMMA PairAnswered ==
  ASSUME NEW a \in Addr, NEW c \in Core, PairInv(a, c), ~WbLive(a, c), ~FlushLive(a, c), ~Parked(a)',
         Queued(Pend(a), DemandReq, c), ~Queued(Pend(a)', DemandReq, c), QueuedOnce(Pend(a)', c),
         llc'[c][a] = llc[c][a], Awaited(c, a)' <=> Awaited(c, a),
         NEW type \in DirReply, GetsMail(inbox', inbox, type, a, c),
         c \in dir'[a].sharers,
         type \in Grant => llc[c][a] = "INVALID" /\ ~Sent(inbox, GivesUp, a, c),
         type \in ExGrantRep => IsOwner(a, c)',
         type \in UpgradeRep => /\ dir'[a].state = "MODIFIED" /\ dir'[a].owner = c
                                /\ ~Sent(inbox, FlushRep, a, c)
  PROVE  PairInv(a, c)'
<1>1. /\ Outstanding(DemandReq, a, c) /\ ~Sent(inbox, DemandReq, a, c)
      /\ ~Got(inbox, DirReply, a, c) /\ Awaited(c, a)
  BY DEF PairInv, OneRequest, Outstanding
<1>2. /\ ~Got(inbox, Grant, a, c) /\ ~Got(inbox, ExGrantRep, a, c) /\ ~Got(inbox, UpgradeRep, a, c)
      /\ ~Queued(Pend(a)', LineReq, c) /\ ~Queued(Pend(a)', UpgradeReq, c)
      /\ ~Sent(inbox, LineReq, a, c) /\ ~Sent(inbox, UpgradeReq, a, c)
      /\ Outstanding(LineReq, a, c) \/ Outstanding(UpgradeReq, a, c)
  BY <1>1, KindsHeld, KindsQueued DEF Outstanding
<1>3. llc[c][a] \in {"INVALID", "SHARED_UPGRADING"}
  BY <1>2 DEF PairInv, StateFits
<1>4. /\ type \in ToCache /\ type \notin WbCmd /\ type \notin FlushCmd
      /\ type \in Grant <=> type \notin UpgradeRep
  BY Kinds
<1>5. /\ \A T, U : /\ Sent(inbox', T, a, c) <=> Sent(inbox, T, a, c)
                   /\ SentNotThen(inbox', T, U, a, c) <=> SentNotThen(inbox, T, U, a, c)
                   /\ Got(inbox', T, a, c) <=> Got(inbox, T, a, c) \/ type \in T
      /\ GotNotThen(inbox', DirReply, DirReply, a, c)
      /\ \A T : /\ GotNotThen(inbox', T, WbCmd, a, c) <=> GotNotThen(inbox, T, WbCmd, a, c)
                /\ GotNotThen(inbox', T, FlushCmd, a, c) <=> GotNotThen(inbox, T, FlushCmd, a, c)
  <2>1. GotNotThen(inbox, DirReply, DirReply, a, c)
    BY DEF PairInv, OneRequest
  <2>2. QED
    BY <1>1, <1>4, <2>1 DEF GetsMail
<1>6. OneRequest(a, c)'
  BY <1>1, <1>5 DEF PairInv, OneRequest, Outstanding
<1>7. StateFits(a, c)' /\ Known(a, c)'
  BY <1>2, <1>3, <1>5 DEF StateFits, Known, Outstanding
<1>8. GivenUp(a, c)'
  BY <1>2, <1>4, <1>5 DEF PairInv, GivenUp
<1>9. ~Sent(inbox', FlushRep, a, c)
  BY <1>4, <1>5, KindsHeld
<1>10. FlushAnswer(a, c)' /\ Ownership(a, c)'
  BY <1>2, <1>3, <1>5, <1>9 DEF FlushAnswer, Ownership
<1>11. WbAnswer(a, c)'
  BY <1>5 DEF PairInv, WbAnswer
<1>12. ~WbLive(a, c)' /\ ~FlushLive(a, c)'
  BY DEF WbLive, FlushLive, Blocked
<1>13. WbCommand(a, c)' /\ FlushCommand(a, c)'
  BY <1>4, <1>5, <1>12 DEF PairInv, WbCommand, FlushCommand
<1>14. QED
  BY <1>6, <1>7, <1>8, <1>10, <1>11, <1>13 DEF PairInv

\* What is left of the requests for a line when the first one is answered.
LEMMA FirstAnswered ==
  ASSUME NEW q \in Seq(Request), q # <<>>, NEW c
  PROVE  /\ Tail(q) \in Seq(Request)
         /\ Head(q).from # c => \A T : Queued(Tail(q), T, c) <=> Queued(q, T, c)
         /\ \A T : Queued(Tail(q), T, c) => Queued(q, T, c)
         /\ QueuedOnce(q, c) =>
              /\ QueuedOnce(Tail(q), c)
              /\ Head(q).from = c /\ Head(q).type \in DemandReq => ~Queued(Tail(q), DemandReq, c)
         /\ OnlyHeadStarved(q) =>
              /\ OnlyHeadStarved(Tail(q))
              /\ Tail(q) # <<>> => ~Head(Tail(q)).waitForData
<1>1. Head(q) \in Request /\ Tail(q) \in Seq(Request)
  BY HeadTailProperties
<1>2. \A T : Queued(q, T, c) <=> Head(q) \in Asked(T, c) \/ Queued(Tail(q), T, c)
  BY TailHas DEF Queued
<1>3. \A T : Head(q) \in Asked(T, c) <=> Head(q).type \in T /\ Head(q).from = c
  BY <1>1 DEF Asked
<1>4. QueuedOnce(q, c) =>
        /\ QueuedOnce(Tail(q), c)
        /\ Head(q) \in Asked(DemandReq, c) => ~Queued(Tail(q), DemandReq, c)
  BY TailNotThen DEF QueuedOnce, Queued
<1>5. OnlyHeadStarved(q) => OnlyHeadStarved(Tail(q)) /\ ~Has(Tail(q), Starved)
  BY <1>1, TailNotThen DEF OnlyHeadStarved
<1>6. ASSUME Tail(q) # <<>>, Head(Tail(q)).waitForData PROVE Has(Tail(q), Starved)
  <2>1. Head(Tail(q)) \in Request
    BY <1>1, <1>6, HeadTailProperties
  <2>2. Head(Tail(q)) \in Starved
    BY <1>6, <2>1 DEF Starved
  <2>3. QED
    BY <1>1, <1>6, <2>2, TailHas
<1>7. QED
  BY <1>1, <1>2, <1>3, <1>4, <1>5, <1>6

\* The directory answers the request at the head of the queue with this reply.
Replies(a, f, rep) ==
  /\ Head(queue[a]).from = f /\ Head(queue[a]).type \in DemandReq
  /\ ~Parked(a)' /\ Pend(a)' = Tail(queue[a])
  /\ rep \in DirReply /\ GetsMail(inbox', inbox, rep, a, f)
  /\ \A c \in Core \ {f} : GetsMail(inbox', inbox, "none", a, c)
  /\ llc' = llc /\ \A c \in Core : Awaited(c, a)' <=> Awaited(c, a)
  /\ f \in dir'[a].sharers /\ dir[a].sharers \subseteq dir'[a].sharers
  /\ rep \in Grant => llc[f][a] = "INVALID" /\ ~Sent(inbox, GivesUp, a, f)
  /\ rep \in ExGrantRep => IsOwner(a, f)'
  /\ rep \in UpgradeRep => /\ dir'[a].state = "MODIFIED" /\ dir'[a].owner = f
                           /\ ~Sent(inbox, FlushRep, a, f)
  /\ \A c \in Core \ {f} : IsOwner(a, c) => dir'[a] = dir[a]

\* The answered request is the cache's only one; the others are as before.
LEMMA LineAnswered ==
  ASSUME IInv, NEW a \in Addr, LineInv(a), Pend(a) = queue[a], queue[a] # <<>>,
         \A c \in Core : ~WbLive(a, c) /\ ~FlushLive(a, c),
         NEW f \in Core, NEW rep, Replies(a, f, rep), Entry(a)',
         \A k \in Core : ~Read(inbox', "DRAM_READ_REQ", a, k),
         ~Read(inbox', "DRAM_READ_REP", a, DirHome[a]),
         ReadOnce(inbox', "DRAM_READ_REQ", a, DramHome[a]),
         ReadOnce(inbox', "DRAM_READ_REP", a, DirHome[a])
  PROVE  LineInv(a)'
<1>1. /\ queue[a] \in Seq(Request)
      /\ Queued(Pend(a), DemandReq, f)
  BY HeadQueued DEF IInv, TypeOK, Replies
<1>2. /\ ~Parked(a)' /\ Pend(a)' = Tail(queue[a])
      /\ rep \in DirReply /\ llc' = llc
      /\ \A c \in Core : Awaited(c, a)' <=> Awaited(c, a)
  BY DEF Replies
<1>3. PairInv(a, f)'
  <2>1. QueuedOnce(Pend(a)', f) /\ ~Queued(Pend(a)', DemandReq, f)
    <3>1. QueuedOnce(queue[a], f)
      BY DEF LineInv, PairInv, OneRequest
    <3>2. Head(queue[a]).from = f /\ Head(queue[a]).type \in DemandReq
      BY DEF Replies
    <3>3. QueuedOnce(Tail(queue[a]), f) /\ ~Queued(Tail(queue[a]), DemandReq, f)
      BY <1>1, <3>1, <3>2, FirstAnswered
    <3>4. QED
      BY <1>2, <3>3
  <2>2. PairInv(a, f)
    BY DEF LineInv
  <2>3. QED
    BY <1>1, <1>2, <2>1, <2>2, PairAnswered DEF Replies
<1>4. ASSUME NEW c \in Core, c # f PROVE PairInv(a, c)'
  <2>1. SameAsked(a, c)
    <3>1. Head(queue[a]).from # c
      BY <1>4 DEF Replies
    <3>2. /\ \A T : Queued(Tail(queue[a]), T, c) <=> Queued(queue[a], T, c)
          /\ QueuedOnce(queue[a], c) => QueuedOnce(Tail(queue[a]), c)
      BY <1>1, <3>1, FirstAnswered
    <3>3. QED
      BY <1>2, <3>2 DEF SameAsked
  <2>2. GetsMail(inbox', inbox, "none", a, c)
    BY <1>4 DEF Replies
  <2>3. "none" \notin DirReply /\ "none" \notin WbCmd /\ "none" \notin FlushCmd
    BY Kinds
  <2>4. PairInv(a, c) /\ llc'[c][a] = llc[c][a]
    BY <1>2 DEF LineInv
  <2>5. c \in dir[a].sharers => c \in dir'[a].sharers
    BY DEF Replies
  <2>6. /\ IsOwner(a, c) => IsOwner(a, c)'
        /\ dir[a].state = "MODIFIED" /\ dir[a].owner = c => dir'[a].state = "MODIFIED"
    BY <1>4 DEF Replies, IsOwner, Owned
  <2>7. QED
    BY <1>2, <2>1, <2>2, <2>3, <2>4, <2>5, <2>6, PairCommanded
<1>5. DataWait(a)' /\ DramRequest(a)'
  <2>1. OnlyHeadStarved(Pend(a)') /\ ~HeadWaits(a)'
    BY <1>1, <1>2, FirstAnswered DEF LineInv, DataWait, HeadWaits
  <2>2. QED
    BY <2>1 DEF DataWait, DramRequest
<1>6. QED
  BY <1>3, <1>4, <1>5 DEF LineInv

\* The first request is noted to wait for data or for the forwarder.
LEMMA FirstNoted ==
  ASSUME NEW q \in Seq(Request), q # <<>>, NEW r \in Request,
         r.type = Head(q).type, r.from = Head(q).from, NEW c
  PROVE  /\ [q EXCEPT ![1] = r] \in Seq(Request) /\ [q EXCEPT ![1] = r] # <<>>
         /\ Head([q EXCEPT ![1] = r]) = r
         /\ \A T : Queued([q EXCEPT ![1] = r], T, c) <=> Queued(q, T, c)
         /\ QueuedOnce([q EXCEPT ![1] = r], c) <=> QueuedOnce(q, c)
         /\ OnlyHeadStarved([q EXCEPT ![1] = r]) <=> OnlyHeadStarved(q)
<1> DEFINE p == [q EXCEPT ![1] = r]
<1>1. p \in Seq(Request) /\ p # <<>>
  BY UpdatedHead
<1>2. /\ Len(q) \in Nat /\ DOMAIN q = 1 .. Len(q) /\ 1 \in DOMAIN q
      /\ DOMAIN p = DOMAIN q /\ p[1] = r
      /\ \A i \in DOMAIN q : i # 1 => p[i] = q[i]
      /\ Head(q) = q[1]
  BY EmptySeq, LenProperties
<1>3. Head(p) = p[1]
  BY <1>1
<1>4. \A i \in DOMAIN q : p[i] \in Request /\ q[i] \in Request
  BY <1>1, <1>2, ElementOfSeq, LenProperties
<1> HIDE DEF p
<1>5. ASSUME NEW T, NEW i \in DOMAIN q PROVE p[i] \in Asked(T, c) <=> q[i] \in Asked(T, c)
  BY <1>2, <1>4 DEF Asked
<1>6. (\A T : Queued(p, T, c) <=> Queued(q, T, c)) /\ (QueuedOnce(p, c) <=> QueuedOnce(q, c))
  BY <1>2, <1>5 DEF Queued, QueuedOnce, Has, NotThen
<1>7. OnlyHeadStarved(p) <=> OnlyHeadStarved(q)
  <2>1. \A i, j \in DOMAIN q : i < j => p[j] = q[j]
    BY <1>2
  <2>2. QED
    BY <1>2, <1>4, <2>1 DEF OnlyHeadStarved, NotThen
<1>8. QED
  BY <1>1, <1>2, <1>3, <1>6, <1>7 DEF p

\* q is such a queue.
Noted(q, old, r) ==
  /\ q # <<>> /\ Head(q) = r
  /\ \A T, c : Queued(q, T, c) <=> Queued(old, T, c)
  /\ \A c : QueuedOnce(q, c) <=> QueuedOnce(old, c)
  /\ OnlyHeadStarved(q) <=> OnlyHeadStarved(old)

\* r is written over the first request of a queue.
HeadBecomes(a, r) == queue' = [queue EXCEPT ![a] = [queue[a] EXCEPT ![1] = r]]

\* What the other requests are does not change.
LEMMA QueueNoted ==
  ASSUME IInv, NEW a \in Addr, queue[a] # <<>>, NEW r \in Request,
         r.type = Head(queue[a]).type, r.from = Head(queue[a]).from, HeadBecomes(a, r)
  PROVE  Noted(queue'[a], queue[a], r) /\ \A b \in Addr \ {a} : queue'[b] = queue[b]
<1>1. queue \in [Addr -> Seq(Request)] /\ queue[a] \in Seq(Request)
  BY DEF IInv, TypeOK
<1> DEFINE q == [queue[a] EXCEPT ![1] = r]
<1>2. queue'[a] = q /\ \A b \in Addr \ {a} : queue'[b] = queue[b]
  BY <1>1 DEF HeadBecomes
<1>3. \A c : /\ q # <<>> /\ Head(q) = r
             /\ \A T : Queued(q, T, c) <=> Queued(queue[a], T, c)
             /\ QueuedOnce(q, c) <=> QueuedOnce(queue[a], c)
             /\ OnlyHeadStarved(q) <=> OnlyHeadStarved(queue[a])
  BY <1>1, FirstNoted
<1> HIDE DEF q
<1>4. QED
  BY <1>2, <1>3 DEF Noted

\* What is known of the line whose request is processed: the directory waits
\* for nobody, and data is under way only from the owner.
LEMMA AtWork ==
  ASSUME IInv, SafeLines, NEW h \in Core, net[h].at = "head", NEW a, a = net[h].addr
  PROVE  /\ a \in Addr /\ DirHome[a] = h
         /\ Pend(a) = queue[a] /\ queue[a] \in Seq(Request) /\ queue[a] # <<>>
         /\ Head(queue[a]) \in Request /\ ~Head(queue[a]).waitForData
         /\ Head(queue[a]).from \in Core
         /\ Head(queue[a]).type \in DemandReq =>
              Queued(Pend(a), DemandReq, Head(queue[a]).from)
         /\ ~Parked(a) /\ ~HeadWaits(a)
         /\ LineInv(a)
         /\ \A c \in Core : ~WbLive(a, c) /\ ~FlushLive(a, c)
         /\ \A k \in Core : ~Read(inbox, "DRAM_READ_REQ", a, k)
         /\ ~Read(inbox, "DRAM_READ_REP", a, DirHome[a])
<1>1. a \in Addr /\ DirHome[a] = h /\ queue[a] # <<>> /\ queue[a] \in Seq(Request)
  BY AtHead
<1>2. Pend(a) = queue[a] /\ ~Parked(a)
  BY <1>1 DEF Pend, Parked
<1>3. LineInv(a)
  BY <1>1 DEF SafeLines
<1>4. ~HeadWaits(a)
  <2>1. DataWait(a)
    BY <1>3 DEF LineInv
  <2>2. QED
    BY <1>2, <2>1 DEF DataWait
<1>5. Head(queue[a]) \in Request /\ Head(queue[a]).from \in Core
  BY <1>1, <1>2, PendOK
<1>6. ~Head(queue[a]).waitForData
  BY <1>1, <1>2, <1>4 DEF HeadWaits
<1>7. \A c \in Core : ~WbLive(a, c) /\ ~FlushLive(a, c)
  BY <1>2 DEF WbLive, FlushLive, Blocked
<1>8. /\ \A k \in Core : ~Read(inbox, "DRAM_READ_REQ", a, k)
      /\ ~Read(inbox, "DRAM_READ_REP", a, DirHome[a])
  BY <1>3, <1>4 DEF LineInv, DramRequest
<1>9. Head(queue[a]).type \in DemandReq => Queued(Pend(a), DemandReq, Head(queue[a]).from)
  BY <1>1, <1>2, HeadQueued
<1>10. QED
  BY <1>1, <1>2, <1>3, <1>4, <1>5, <1>6, <1>7, <1>8, <1>9

\* The directory sends commands, got[c] to cache c, and its request waits: for
\* the owner to write the line back, or to flush it, or for a sharer to do so.
LEMMA CommandsSent ==
  ASSUME IInv, SafeLines, NEW h \in Core, net[h].at = "head", NEW a, a = net[h].addr,
         Done(h), UNCHANGED <<llc, waiters, dir, present, replaced, queue>>,
         NEW got \in [Core -> DirCommand \cup {"none"}],
         \A c \in Core : GetsMail(inbox', inbox, got[c], a, c),
         \A b \in Addr \ {a}, c \in Core : SameMail(inbox', inbox, b, c),
         \A b \in Addr, c \in Core : SameReads(inbox', inbox, b, c),
         \A c \in Core : got[c] = "WB_REQ" =>
           Head(queue[a]).type = "SH_REQ" /\ IsOwner(a, c),
         \A c \in Core : got[c] = "FLUSH_REQ" =>
           \/ Head(queue[a]).type \in {"EX_REQ", "UPGRADE_REQ"} /\ IsOwner(a, c)
           \/ /\ Head(queue[a]).type = "UPGRADE_REQ" /\ dir[a].state = "SHARED"
              /\ Head(queue[a]).from \notin dir[a].sharers
  PROVE  SafeLines'
<1>1. /\ a \in Addr /\ DirHome[a] = h
      /\ Pend(a) = queue[a] /\ queue[a] # <<>> /\ ~Head(queue[a]).waitForData
      /\ ~HeadWaits(a) /\ LineInv(a)
      /\ \A c \in Core : ~WbLive(a, c) /\ ~FlushLive(a, c)
      /\ Head(queue[a]).from \in Core
      /\ Head(queue[a]).type \in DemandReq =>
           Queued(Pend(a), DemandReq, Head(queue[a]).from)
  BY AtWork
<1>2. net'[h].at = "recv" /\ \A k \in Core \ {h} : net'[k] = net[k]
  BY DEF Done, GoTo, IInv, TypeOK
<1>3. Parked(a)' /\ Pend(a)' = queue[a]
  BY <1>1, <1>2 DEF Parked, Pend
<1>4. \A b \in Addr, k \in Core : Awaited(k, b)' <=> Awaited(k, b)
  BY <1>2, NoWaiterServed
<1>5. \A types : Head(queue[a]).type \in types => Blocked(a, types)'
  BY <1>1, <1>3 DEF Blocked
<1>6. ASSUME NEW c \in Core PROVE PairInv(a, c)'
  <2>1. PairInv(a, c) /\ Entry(a)
    BY <1>1 DEF LineInv
  <2>2. got[c] \notin DirReply
    BY Kinds DEF DirCommand
  <2>3. got[c] \in WbCmd => WbLive(a, c)' \/ (llc[c][a] = "INVALID" /\ ~Got(inbox, Grant, a, c))
    <3>1. SUFFICES ASSUME got[c] = "WB_REQ"
                   PROVE  WbLive(a, c)' \/ (llc[c][a] = "INVALID" /\ ~Got(inbox, Grant, a, c))
      BY Kinds
    <3>2. Head(queue[a]).type = "SH_REQ" /\ IsOwner(a, c)
      BY <3>1
    <3>3. CASE Head(queue[a]).from # c
      BY <1>3, <1>5, <3>2, <3>3 DEF WbLive, IsOwner
    <3>4. CASE Head(queue[a]).from = c
      <4>1. Outstanding(DemandReq, a, c) /\ Outstanding(LineReq, a, c)
        <5>1. queue[a] \in Seq(Request) /\ Head(queue[a]) \in Asked(LineReq, c)
          BY <1>1, <3>2, <3>4, AtWork, Kinds DEF Asked
        <5>2. Queued(Pend(a), LineReq, c)
          BY <1>1, <5>1, TailHas DEF Queued
        <5>3. QED
          BY <5>2, KindsQueued DEF Outstanding
      <4>2. ~Got(inbox, Grant, a, c)
        BY <2>1, <4>1, KindsHeld DEF PairInv, OneRequest
      <4>3. QED
        BY <2>1, <4>1, <4>2 DEF PairInv, StateFits
    <3>5. QED
      BY <3>3, <3>4
  <2>4. got[c] \in FlushCmd => FlushLive(a, c)' \/ (llc[c][a] = "INVALID" /\ ~Got(inbox, Grant, a, c))
    <3>1. SUFFICES ASSUME got[c] = "FLUSH_REQ"
                   PROVE  FlushLive(a, c)' \/ (llc[c][a] = "INVALID" /\ ~Got(inbox, Grant, a, c))
      BY Kinds
    <3>2. CASE c \in dir[a].sharers
      <4>1. Blocked(a, {"EX_REQ", "UPGRADE_REQ", "NULLIFY_REQ"})'
        BY <1>5, <3>1
      <4>2. QED
        BY <1>3, <3>1, <3>2, <4>1 DEF FlushLive, IsOwner
    <3>3. CASE c \notin dir[a].sharers
      BY <2>1, <3>3, KindsHeld DEF PairInv, Known
    <3>4. QED
      BY <3>2, <3>3
  <2>5. SameAsked(a, c)
    BY <1>1, <1>3 DEF SameAsked
  <2>6. QED
    BY <1>1, <1>4, <2>1, <2>2, <2>3, <2>4, <2>5, PairCommanded DEF IsOwner
<1>7. Entry(a)' /\ DataWait(a)' /\ DramRequest(a)'
  <2>1. Entry(a) /\ DataWait(a) /\ DramRequest(a)
    BY <1>1 DEF LineInv
  <2>2. ~HeadWaits(a)'
    BY <1>1, <1>3 DEF HeadWaits
  <2>3. DataWait(a)'
    BY <1>1, <1>3, <2>1, <2>2, Zenon DEF DataWait
  <2>4. DramRequest(a)'
    BY <1>1, <2>1, <2>2 DEF DramRequest, SameReads
  <2>5. QED
    BY <2>1, <2>3, <2>4 DEF Entry
<1>8. WorksOn(a)
  BY <1>1, <1>2 DEF WorksOn
<1>9. QED
  BY <1>1, <1>6, <1>7, <1>8, OneLine DEF LineInv, OthersStay

\* Commands, got[c] to cache c, are all that is sent; their answers are waited for.
CommandsPosted(h, a, got) ==
  /\ Done(h) /\ UNCHANGED <<llc, waiters, dir, present, replaced, queue>>
  /\ got \in [Core -> DirCommand \cup {"none"}]
  /\ \A c \in Core : GetsMail(inbox', inbox, got[c], a, c)
  /\ \A b \in Addr \ {a}, c \in Core : SameMail(inbox', inbox, b, c)
  /\ \A b \in Addr, c \in Core : SameReads(inbox', inbox, b, c)

\* Command sends commands to caches and waits for their answers.
LEMMA CommandPosts ==
  ASSUME IInv, SafeLines, NEW h \in Core, net[h].at = "head", NEW a, a = net[h].addr,
         NEW type \in DirCommand, NEW to, Command(h, type, to)
  PROVE  \E got : /\ CommandsPosted(h, a, got)
                  /\ \A c \in Core : got[c] \in DirCommand => c \in to /\ got[c] = type
<1>1. a \in Addr /\ DirHome[a] = h
  BY AtWork
<1> DEFINE got == [c \in Core |-> IF c \in to THEN type ELSE "none"]
<1>2. /\ inbox' = Deliver(inbox, Msg(type, a, h, "none"), to)
      /\ Done(h) /\ UNCHANGED <<llc, waiters, dir, present, replaced, queue>>
  BY DEF Command, cacheVars, dirVars
<1>3. type \in MsgType /\ type \notin FromCache /\ type \notin {"DRAM_READ_REQ", "DRAM_READ_REP"}
  BY Kinds DEF MsgType, DirCommand
<1>4. Posted(inbox', inbox, type, a, h, to)
  BY <1>1, <1>2, <1>3, DeliverPosts DEF IInv, Data
<1>5. \A c \in Core : GetsMail(inbox', inbox, got[c], a, c)
  BY <1>1, <1>3, <1>4, HomePosts
<1>6. \A b \in Addr \ {a}, c \in Core : SameMail(inbox', inbox, b, c)
  BY <1>4, PostedElsewhere
<1>7. \A b \in Addr, c \in Core : SameReads(inbox', inbox, b, c)
  BY <1>3, <1>4, PostedNoRead
<1>8. got \in [Core -> DirCommand \cup {"none"}] /\ "none" \notin DirCommand
  BY DEF DirCommand
<1>9. \A c \in Core : got[c] \in DirCommand => c \in to /\ got[c] = type
  BY <1>8
<1> HIDE DEF got
<1>10. QED
  BY <1>2, <1>5, <1>6, <1>7, <1>8, <1>9, Zenon DEF CommandsPosted

\* An owner that is to write the line back or to flush it.
LEMMA CommandSent ==
  ASSUME IInv, SafeLines, NEW h \in Core, net[h].at = "head", NEW a, a = net[h].addr,
         NEW type \in DirCommand, NEW to, Command(h, type, to),
         type = "WB_REQ" => \A c \in to : Head(queue[a]).type = "SH_REQ" /\ IsOwner(a, c),
         type = "FLUSH_REQ" => \A c \in to :
           Head(queue[a]).type \in {"EX_REQ", "UPGRADE_REQ"} /\ IsOwner(a, c)
  PROVE  SafeLines'
<1>1. PICK got : /\ CommandsPosted(h, a, got)
                 /\ \A c \in Core : got[c] \in DirCommand => c \in to /\ got[c] = type
  BY CommandPosts
<1>2. \A c \in Core : /\ got[c] = "WB_REQ" => c \in to /\ type = "WB_REQ"
                      /\ got[c] = "FLUSH_REQ" => c \in to /\ type = "FLUSH_REQ"
  BY <1>1 DEF DirCommand
<1>3. QED
  BY <1>1, <1>2, CommandsSent DEF CommandsPosted

\* Requests that have caches flush, write back or give up the line.
LEMMA CommandsSafe ==
  ASSUME IInv, SafeLines, NEW h \in Core,
         \/ ExFlush(h) \/ ExInvalidate(h) \/ ShWriteBack(h) \/ ShMakeRoom(h) \/ UpgradeFlush(h)
  PROVE  SafeLines'
<1> DEFINE a == net[h].addr
<1>1. /\ net[h].at = "head"
      /\ \/ /\ Head(queue[a]).type \in {"EX_REQ", "UPGRADE_REQ"} /\ dir[a].state \in Owned
            /\ Command(h, "FLUSH_REQ", {dir[a].owner})
         \/ /\ Head(queue[a]).type = "SH_REQ" /\ dir[a].state \in Owned
            /\ Command(h, "WB_REQ", {dir[a].owner})
         \/ \E to : Command(h, "INV_REQ", to)
  BY DEF ExFlush, ExInvalidate, ShWriteBack, ShMakeRoom, UpgradeFlush, Processing
<1> HIDE DEF a
<1>2. a = net[h].addr
  BY DEF a
<1>3. CASE /\ Head(queue[a]).type \in {"EX_REQ", "UPGRADE_REQ"} /\ dir[a].state \in Owned
           /\ Command(h, "FLUSH_REQ", {dir[a].owner})
  BY <1>1, <1>2, <1>3, CommandSent DEF DirCommand, IsOwner
<1>4. CASE /\ Head(queue[a]).type = "SH_REQ" /\ dir[a].state \in Owned
           /\ Command(h, "WB_REQ", {dir[a].owner})
  BY <1>1, <1>2, <1>4, CommandSent DEF DirCommand, IsOwner
<1>5. ASSUME NEW to, Command(h, "INV_REQ", to) PROVE SafeLines'
  BY <1>1, <1>2, <1>5, CommandSent DEF DirCommand
<1>6. QED
  BY <1>1, <1>3, <1>4, <1>5

\* An upgrade: the other sharers give the line up, one of them with its data.
LEMMA UpgradeInvalidatePosts ==
  ASSUME IInv, SafeLines, NEW h \in Core, UpgradeInvalidate(h), NEW a, a = net[h].addr
  PROVE  /\ net[h].at = "head" /\ Head(queue[a]).type = "UPGRADE_REQ" /\ dir[a].state = "SHARED"
         /\ \E got :
              /\ CommandsPosted(h, a, got)
              /\ \A k \in Core :
                   /\ got[k] # "WB_REQ"
                   /\ got[k] = "FLUSH_REQ" => Head(queue[a]).from \notin dir[a].sharers
                   /\ got[k] = "INV_REQ" => k \in dir[a].sharers /\ k # Head(queue[a]).from
<1> DEFINE c == Head(queue[a]).from
           flushed == IF c \in dir[a].sharers THEN {} ELSE {LowestSharer(dir[a])}
           others == dir[a].sharers \ ({c} \cup flushed)
           mid == Deliver(inbox, Msg("FLUSH_REQ", a, h, "none"), flushed)
           got == [k \in Core |-> IF k \in flushed THEN "FLUSH_REQ"
                                  ELSE IF k \in others THEN "INV_REQ" ELSE "none"]
<1>1. /\ net[h].at = "head"
      /\ Head(queue[a]).type = "UPGRADE_REQ" /\ dir[a].state = "SHARED"
      /\ inbox' = Deliver(mid, Msg("INV_REQ", a, h, "none"), others)
      /\ Done(h)
      /\ UNCHANGED <<llc, waiters, dir, present, replaced, queue>>
  BY DEF UpgradeInvalidate, Processing, cacheVars, dirVars
<1>2. a \in Addr /\ DirHome[a] = h /\ a = net[h].addr
  BY <1>1, AtWork, Zenon
<1>3. /\ flushed \cap others = {}
      /\ flushed # {} => c \notin dir[a].sharers
  OBVIOUS
<1>4. /\ \A type \in {"FLUSH_REQ", "INV_REQ"} :
           type \in MsgType /\ type \notin FromCache /\ type \notin {"DRAM_READ_REQ", "DRAM_READ_REP"}
      /\ "none" \in Data
  BY Kinds DEF MsgType, DirCommand, Data
<1>5. \A k \in Core : Msg("FLUSH_REQ", a, h, "none") \in MessagesTo(k)
  BY <1>2, <1>4, FromHomeOK DEF FromHome, DirCommand
<1>6. InboxOK(mid)
  BY <1>5, DeliverOK DEF IInv
<1>7. Posted(mid, inbox, "FLUSH_REQ", a, h, flushed)
  BY <1>2, <1>4, DeliverPosts DEF IInv
<1>8. /\ got \in [Core -> DirCommand \cup {"none"}]
      /\ \A k \in Core : /\ k \in flushed => got[k] = "FLUSH_REQ"
                         /\ k \in others => got[k] = "INV_REQ"
                         /\ k \notin flushed \cup others => got[k] = "none"
  BY <1>3, Zenon DEF DirCommand
<1> HIDE DEF c, flushed, others, mid, got
<1>9. Posted(inbox', mid, "INV_REQ", a, h, others)
  BY <1>1, <1>2, <1>4, <1>6, DeliverPosts
<1>10. ASSUME NEW k \in Core PROVE GetsMail(inbox', inbox, got[k], a, k)
  <2>1. /\ k \in flushed => GetsMail(mid, inbox, "FLUSH_REQ", a, k)
        /\ k \notin flushed => GetsMail(mid, inbox, "none", a, k)
    BY <1>2, <1>4, <1>7, HomePosts
  <2>2. /\ k \in others => GetsMail(inbox', mid, "INV_REQ", a, k)
        /\ k \notin others => GetsMail(inbox', mid, "none", a, k)
    BY <1>2, <1>4, <1>9, HomePosts
  <2>3. "none" \notin ToCache /\ "none" \notin WbCmd
    BY Kinds
  <2>4. CASE k \in flushed
    <3>1. k \notin others /\ got[k] = "FLUSH_REQ"
      BY <1>3, <1>8, <2>4
    <3>2. QED
      BY <2>1, <2>2, <2>3, <2>4, <3>1 DEF GetsMail
  <2>5. CASE k \notin flushed
    <3>1. got[k] = IF k \in others THEN "INV_REQ" ELSE "none"
      BY <1>8, <2>5
    <3>2. GetsMail(mid, inbox, "none", a, k)
      BY <2>1, <2>5
    <3>3. \A T, U : /\ Sent(mid, T, a, k) <=> Sent(inbox, T, a, k)
                    /\ SentNotThen(mid, T, U, a, k) <=> SentNotThen(inbox, T, U, a, k)
                    /\ Got(mid, T, a, k) <=> Got(inbox, T, a, k)
                    /\ GotNotThen(mid, T, U, a, k) <=> GotNotThen(inbox, T, U, a, k)
                    /\ OneWbAfterGrant(inbox, a, k) => OneWbAfterGrant(mid, a, k)
      BY <2>3, <3>2 DEF GetsMail
    <3>4. QED
      BY <2>2, <3>1, <3>3 DEF GetsMail
  <2>6. QED
    BY <2>4, <2>5
<1>11. \A b \in Addr \ {a}, k \in Core : SameMail(inbox', inbox, b, k)
  <2>1. ASSUME NEW b \in Addr \ {a}, NEW k \in Core
        PROVE  SameMail(mid, inbox, b, k) /\ SameMail(inbox', mid, b, k)
    BY <1>7, <1>9, PostedElsewhere
  <2>2. QED
    BY <2>1, SameMailTrans
<1>12. \A b \in Addr, k \in Core : SameReads(inbox', inbox, b, k)
  <2>1. ASSUME NEW b \in Addr, NEW k \in Core
        PROVE  SameReads(mid, inbox, b, k) /\ SameReads(inbox', mid, b, k)
    BY <1>4, <1>7, <1>9, PostedNoRead
  <2>2. QED
    BY <2>1 DEF SameReads
<1>13. \A k \in Core : /\ got[k] # "WB_REQ"
                       /\ got[k] = "FLUSH_REQ" => Head(queue[a]).from \notin dir[a].sharers
                       /\ got[k] = "INV_REQ" => k \in dir[a].sharers /\ k # Head(queue[a]).from
  BY <1>3, <1>8 DEF c, others
<1>14. CommandsPosted(h, a, got)
  BY <1>1, <1>8, <1>10, <1>11, <1>12, Zenon DEF CommandsPosted
<1>15. QED
  BY <1>1, <1>13, <1>14, Zenon

LEMMA UpgradeInvalidateSafe ==
  ASSUME IInv, SafeLines, NEW h \in Core, UpgradeInvalidate(h) PROVE SafeLines'
<1> PICK a : a = net[h].addr
  OBVIOUS
<1>1. PICK got :
        /\ CommandsPosted(h, a, got)
        /\ \A k \in Core : /\ got[k] # "WB_REQ"
                           /\ got[k] = "FLUSH_REQ" => Head(queue[a]).from \notin dir[a].sharers
  BY UpgradeInvalidatePosts
<1>2. net[h].at = "head" /\ Head(queue[a]).type = "UPGRADE_REQ" /\ dir[a].state = "SHARED"
  BY UpgradeInvalidatePosts
<1>3. QED
  BY <1>1, <1>2, CommandsSent DEF CommandsPosted

\* Entry e, which answers the request of cache f at the head of the queue with
\* reply "rep", is one for a line nobody owns and f does not have.
Answers(a, rep, f, e) ==
  /\ Head(queue[a]).from = f /\ Head(queue[a]).type \in DemandReq
  /\ a \in present \cup replaced
  /\ llc[f][a] = "INVALID" /\ ~Sent(inbox, GivesUp, a, f)
  /\ dir[a].state \notin Owned
  /\ f \in e.sharers /\ dir[a].sharers \subseteq e.sharers
  /\ e.state = "SHARED" => Head(queue[a]).type = "SH_REQ"
  /\ e.state # "SHARED" => e.state \in Owned /\ e.sharers = {f} /\ e.owner = f
  /\ rep = "EX_REP" => e.state \in Owned

\* The line has that entry now, and nothing else has changed but its queue.
Entered(a, e) ==
  /\ dir'[a].state = e.state /\ dir'[a].sharers = e.sharers /\ dir'[a].owner = e.owner
  /\ \A b \in Addr \ {a} : dir'[b] = dir[b] /\ queue'[b] = queue[b]
  /\ llc' = llc /\ waiters' = waiters /\ present' = present /\ replaced' = replaced

\* The network thread of h has done with the line, or goes on behind its request.
Leaves(h, a) ==
  /\ \A k \in Core \ {h} : net'[k] = net[k]
  /\ net'[h].at = "recv" \/ (net'[h].at = "next" /\ net'[h].addr = a)

\* The three ways to go on from there have this in common: a message is sent.
Retrieving(h, a, rep, f, e, type, data, to) ==
  /\ Answers(a, rep, f, e) /\ Entered(a, e) /\ Leaves(h, a)
  /\ type \in MsgType \ FromCache /\ data \in Data
  /\ inbox' = Deliver(inbox, Msg(type, a, h, data), to)

\* What the three ways to retrieve data have in common.
LEMMA Retrieved ==
  ASSUME IInv, SafeLines, NEW h \in Core, net[h].at = "head", NEW a, a = net[h].addr,
         NEW rep, NEW f, NEW e, NEW type, NEW data, NEW to,
         Retrieving(h, a, rep, f, e, type, data, to)
  PROVE  /\ f \in Core /\ PairInv(a, f) /\ Queued(Pend(a), DemandReq, f)
         /\ \A b \in Addr, k \in Core : Awaited(k, b)' <=> Awaited(k, b)
         /\ Posted(inbox', inbox, type, a, h, to)
         /\ \A c \in Core : /\ c \in to => GetsMail(inbox', inbox, type, a, c)
                            /\ c \notin to => GetsMail(inbox', inbox, "none", a, c)
         /\ \A c \in Core : /\ c \in dir[a].sharers => c \in dir'[a].sharers
                            /\ ~IsOwner(a, c) /\ dir[a].state # "MODIFIED"
         /\ Entry(a)'
         /\ LineInv(a)' => SafeLines'
<1>1. /\ Answers(a, rep, f, e) /\ Entered(a, e) /\ Leaves(h, a)
      /\ type \in MsgType /\ type \notin FromCache /\ data \in Data
      /\ inbox' = Deliver(inbox, Msg(type, a, h, data), to)
  BY DEF Retrieving
<1>2. /\ a \in Addr /\ DirHome[a] = h /\ LineInv(a)
      /\ net[h].at \notin {"serve", "woken"} /\ net'[h].at \notin {"serve", "woken"}
      /\ \A k \in Core \ {h} : net'[k] = net[k]
  BY <1>1, AtWork DEF Leaves
<1>3. f \in Core /\ Queued(Pend(a), DemandReq, f)
  BY <1>1, AtWork DEF Answers
<1>4. \A b \in Addr, k \in Core : Awaited(k, b)' <=> Awaited(k, b)
  BY <1>1, <1>2, NoWaiterServed DEF Entered
<1>5. Posted(inbox', inbox, type, a, h, to)
  BY <1>1, <1>2, DeliverPosts DEF IInv
<1>6. \A c \in Core : /\ c \in to => GetsMail(inbox', inbox, type, a, c)
                      /\ c \notin to => GetsMail(inbox', inbox, "none", a, c)
  BY <1>1, <1>2, <1>5, HomePosts
<1>7. \A c \in Core : /\ c \in dir[a].sharers => c \in dir'[a].sharers
                      /\ ~IsOwner(a, c) /\ dir[a].state # "MODIFIED"
  BY <1>1 DEF Answers, Entered, IsOwner, Owned
<1>8. Entry(a)'
  BY <1>1 DEF Answers, Entered, Entry, Owned
<1>9. ASSUME LineInv(a)' PROVE SafeLines'
  <2>1. WorksOn(a)
    BY <1>1, <1>2 DEF WorksOn, Leaves
  <2>2. \A b \in Addr \ {a}, k \in Core : SameMail(inbox', inbox, b, k) /\ SameReads(inbox', inbox, b, k)
    BY <1>5, PostedElsewhere, PostedNoRead
  <2>3. OthersStay(a)
    BY <1>1, <2>2 DEF Entered, OthersStay
  <2>4. QED
    BY <1>2, <1>9, <2>1, <2>3, OneLine
<1>10. QED
  BY <1>2, <1>3, <1>4, <1>5, <1>6, <1>7, <1>8, <1>9 DEF LineInv

\* With data a cache sent: the request is answered.
LEMMA DataRetrieved ==
  ASSUME IInv, SafeLines, NEW h \in Core, net[h].at = "head", NEW a, a = net[h].addr,
         NEW rep \in Grant, NEW f, NEW e, Answers(a, rep, f, e), Entered(a, e),
         queue' = queue, NEW data \in Data, inbox' = Deliver(inbox, Msg(rep, a, h, data), {f}),
         GoTo(h, "next", a, "none")
  PROVE  SafeLines'
<1>1. /\ a \in Addr /\ DirHome[a] = h /\ LineInv(a)
      /\ Pend(a) = queue[a] /\ queue[a] \in Seq(Request) /\ queue[a] # <<>>
      /\ ~HeadWaits(a)
      /\ \A c \in Core : ~WbLive(a, c) /\ ~FlushLive(a, c)
      /\ \A k \in Core : ~Read(inbox, "DRAM_READ_REQ", a, k)
      /\ ~Read(inbox, "DRAM_READ_REP", a, DirHome[a])
  BY AtWork
<1>2. net'[h].at = "next" /\ net'[h].addr = a /\ Leaves(h, a)
  BY DEF GoTo, IInv, TypeOK, Leaves
<1>3. /\ rep \in MsgType /\ rep \notin FromCache /\ rep \in DirReply
      /\ rep \notin UpgradeRep /\ (rep \in ExGrantRep => rep = "EX_REP")
      /\ rep \notin {"DRAM_READ_REQ", "DRAM_READ_REP"}
  BY Kinds DEF MsgType, DirReply
<1>4. /\ f \in Core /\ PairInv(a, f) /\ Queued(Pend(a), DemandReq, f)
      /\ \A b \in Addr, k \in Core : Awaited(k, b)' <=> Awaited(k, b)
      /\ Posted(inbox', inbox, rep, a, h, {f})
      /\ \A c \in Core : /\ c \in {f} => GetsMail(inbox', inbox, rep, a, c)
                         /\ c \notin {f} => GetsMail(inbox', inbox, "none", a, c)
      /\ \A c \in Core : /\ c \in dir[a].sharers => c \in dir'[a].sharers
                         /\ ~IsOwner(a, c) /\ dir[a].state # "MODIFIED"
      /\ Entry(a)'
      /\ LineInv(a)' => SafeLines'
  <2>1. Retrieving(h, a, rep, f, e, rep, data, {f})
    BY <1>2, <1>3 DEF Retrieving
  <2>2. QED
    BY <2>1, Retrieved
<1>5. ~Parked(a)' /\ Pend(a)' = Tail(queue[a])
  BY <1>1, <1>2 DEF Parked, Pend
<1>6. Replies(a, f, rep)
  <2>1. GetsMail(inbox', inbox, rep, a, f) /\ \A c \in Core \ {f} : GetsMail(inbox', inbox, "none", a, c)
    BY <1>4
  <2>2. llc' = llc /\ f \in dir'[a].sharers /\ dir[a].sharers \subseteq dir'[a].sharers
    BY DEF Answers, Entered
  <2>3. rep \in ExGrantRep => IsOwner(a, f)'
    BY <1>3 DEF Answers, Entered, IsOwner, Owned
  <2>4. QED
    BY <1>1, <1>3, <1>4, <1>5, <2>1, <2>2, <2>3, Zenon DEF Replies, Answers
<1>7. \A k \in Core : SameReads(inbox', inbox, a, k)
  BY <1>1, <1>3, <1>4, PostedNoRead
<1>8. LineInv(a)'
  <2>1. DramHome[a] \in Core /\ DirHome[a] \in Core
    BY <1>1
  <2>2. QED
    BY <1>1, <1>4, <1>6, <1>7, <2>1, LineAnswered, Zenon DEF LineInv, DramRequest, SameReads
<1>9. QED
  BY <1>4, <1>8

\* With data of the forwarder or of DRAM: the request waits, and says for what.
Noting(a, e, r, type, to) ==
  /\ Noted(queue'[a], queue[a], r) /\ r.from = Head(queue[a]).from
  /\ type = "WB_REQ" => /\ r.type = "SH_REQ" /\ ~r.waitForData
                        /\ e.state = "SHARED" /\ to = {r.forwardingFrom}

\* What such a step keeps, whatever the note says about data and reads.
LEMMA RequestNoted ==
  ASSUME IInv, SafeLines, NEW h \in Core, net[h].at = "head", NEW a, a = net[h].addr, Done(h),
         NEW rep, NEW f, NEW e, NEW r, NEW type \in {"WB_REQ", "DRAM_READ_REQ"}, NEW to,
         Retrieving(h, a, rep, f, e, type, "none", to), Noting(a, e, r, type, to)
  PROVE  /\ f \in Core
         /\ Posted(inbox', inbox, type, a, h, to)
         /\ Parked(a)' /\ Pend(a)' # <<>> /\ Head(Pend(a)') = r /\ OnlyHeadStarved(Pend(a)')
         /\ DataWait(a)' /\ DramRequest(a)' => SafeLines'
<1>1. /\ a \in Addr /\ DirHome[a] = h /\ LineInv(a)
      /\ Pend(a) = queue[a] /\ queue[a] \in Seq(Request) /\ queue[a] # <<>>
      /\ \A c \in Core : ~WbLive(a, c) /\ ~FlushLive(a, c)
  BY AtWork
<1>2. /\ net'[h].at = "recv"
      /\ Answers(a, rep, f, e) /\ Entered(a, e)
  BY DEF Retrieving, Done, GoTo, IInv, TypeOK
<1>3. /\ type \in MsgType /\ type \notin DirReply /\ type \notin FlushCmd
      /\ (type \in WbCmd => type = "WB_REQ")
      /\ "none" \notin DirReply /\ "none" \notin WbCmd /\ "none" \notin FlushCmd
  BY Kinds DEF MsgType, DirCommand, DramMsg
<1>4. /\ f \in Core /\ PairInv(a, f) /\ Queued(Pend(a), DemandReq, f)
      /\ \A b \in Addr, k \in Core : Awaited(k, b)' <=> Awaited(k, b)
      /\ Posted(inbox', inbox, type, a, h, to)
      /\ \A c \in Core : /\ c \in to => GetsMail(inbox', inbox, type, a, c)
                         /\ c \notin to => GetsMail(inbox', inbox, "none", a, c)
      /\ \A c \in Core : /\ c \in dir[a].sharers => c \in dir'[a].sharers
                         /\ ~IsOwner(a, c) /\ dir[a].state # "MODIFIED"
      /\ Entry(a)'
      /\ LineInv(a)' => SafeLines'
  BY Retrieved
<1> PICK q : q = queue'[a]
  OBVIOUS
<1>5. Parked(a)' /\ Pend(a)' = q
  BY <1>1, <1>2 DEF Parked, Pend
<1>6. /\ q # <<>> /\ Head(q) = r
      /\ \A T, c : Queued(q, T, c) <=> Queued(queue[a], T, c)
      /\ \A c : QueuedOnce(q, c) <=> QueuedOnce(queue[a], c)
      /\ OnlyHeadStarved(q) <=> OnlyHeadStarved(queue[a])
  BY DEF Noting, Noted
<1>7. OnlyHeadStarved(q)
  BY <1>1, <1>6, Zenon DEF LineInv, DataWait
<1>8. ASSUME NEW c \in Core PROVE PairInv(a, c)'
  <2>1. SameAsked(a, c)
    BY <1>1, <1>5, <1>6 DEF SameAsked
  <2>2. PairInv(a, c)
    BY <1>1 DEF LineInv
  <2>3. ASSUME c \in to, type \in WbCmd
        PROVE  WbLive(a, c)' \/ (llc[c][a] = "INVALID" /\ ~Got(inbox, Grant, a, c))
    <3>1. /\ r.type = "SH_REQ" /\ ~r.waitForData /\ e.state = "SHARED" /\ c = r.forwardingFrom
          /\ r.from = f
      BY <1>2, <1>3, <2>3 DEF Noting, Answers
    <3>2. CASE c = f
      <4>1. ~Got(inbox, Grant, a, c)
        BY <1>4, <3>2, KindsHeld DEF PairInv, OneRequest, Outstanding
      <4>2. QED
        BY <1>2, <3>2, <4>1 DEF Answers
    <3>3. CASE c \notin dir[a].sharers
      BY <2>2, <3>3, KindsHeld DEF PairInv, Known
    <3>4. CASE c # f /\ c \in dir[a].sharers
      <4>1. c \in dir'[a].sharers
        BY <1>4, <3>4
      <4>2. Blocked(a, {"SH_REQ"})'
        BY <1>5, <1>6, <3>1 DEF Blocked
      <4>3. QED
        BY <1>2, <1>5, <1>6, <3>1, <3>4, <4>1, <4>2 DEF WbLive, Entered
    <3>5. QED
      BY <3>2, <3>3, <3>4
  <2>4. PICK got \in {type, "none"} : /\ GetsMail(inbox', inbox, got, a, c)
                                      /\ got = "none" \/ c \in to
    BY <1>4
  <2>5. /\ got \notin DirReply /\ got \notin FlushCmd
        /\ got \in WbCmd => c \in to /\ type \in WbCmd
    BY <1>3, <2>4
  <2>6. llc' = llc
    BY <1>2 DEF Entered
  <2>7. QED
    BY <1>1, <1>4, <2>1, <2>2, <2>3, <2>4, <2>5, <2>6, PairCommanded
<1>9. QED
  BY <1>4, <1>5, <1>6, <1>7, <1>8 DEF LineInv

\* The request of f is forwarded, or read from DRAM: r is what it becomes.
Forwarded(h, a, rep, f, e, r) ==
  /\ Done(h) /\ Retrieving(h, a, rep, f, e, "WB_REQ", "none", {e.forwarder})
  /\ Noting(a, e, r, "WB_REQ", {e.forwarder})
  /\ r \in Request /\ r.type = Head(queue[a]).type /\ r.from = f
  /\ ~r.waitForData /\ r.forwardingFrom = e.forwarder /\ e.forwarder # NoCore

ReadFromDram(h, a, rep, f, e, r) ==
  /\ Done(h) /\ Retrieving(h, a, rep, f, e, "DRAM_READ_REQ", "none", {DramHome[a]})
  /\ Noting(a, e, r, "DRAM_READ_REQ", {DramHome[a]})
  /\ r \in Request /\ r.type = Head(queue[a]).type /\ r.from = f /\ r.waitForData

\* The three ways to retrieve the data.
LEMMA RetrieveWays ==
  ASSUME IInv, SafeLines, NEW h \in Core, net[h].at = "head", NEW a, a = net[h].addr,
         NEW rep \in Grant, NEW f, NEW e \in DirEntry, Answers(a, rep, f, e), NEW data \in Data,
         Retrieve(h, rep, f, data, e)
  PROVE  \/ /\ Entered(a, e) /\ queue' = queue
            /\ inbox' = Deliver(inbox, Msg(rep, a, h, data), {f})
            /\ GoTo(h, "next", a, "none")
         \/ \E r : Forwarded(h, a, rep, f, e, r)
         \/ \E r : ReadFromDram(h, a, rep, f, e, r)
<1>1. /\ a \in Addr /\ queue[a] \in Seq(Request) /\ queue[a] # <<>>
      /\ Head(queue[a]) \in Request /\ ~Head(queue[a]).waitForData
  BY AtWork
<1>2. llc' = llc /\ waiters' = waiters /\ present' = present /\ replaced' = replaced
  BY DEF Retrieve, cacheVars
<1>3. Head(queue[a]) = queue[a][1] /\ 1 \in DOMAIN queue[a]
  BY <1>1, EmptySeq, LenProperties
<1>4. Head(queue[a]).from = f /\ Head(queue[a]).type \in DemandReq
  BY DEF Answers
<1>5. ASSUME /\ dir' = [dir EXCEPT ![a] = [e EXCEPT !.forwarder = f]]
             /\ UNCHANGED queue
      PROVE  Entered(a, e)
  BY <1>1, <1>2, <1>5 DEF IInv, TypeOK, DirEntry, Entered
<1>6. ASSUME dir' = [dir EXCEPT ![a] = e]
      PROVE  /\ dir'[a].state = e.state /\ dir'[a].sharers = e.sharers /\ dir'[a].owner = e.owner
             /\ \A b \in Addr \ {a} : dir'[b] = dir[b]
  BY <1>1, <1>6 DEF IInv, TypeOK
<1>7. /\ "none" \in Data
      /\ Done(h) => Leaves(h, a)
      /\ \A type \in {"WB_REQ", "DRAM_READ_REQ"} : type \in MsgType \ FromCache
  <2>1. Done(h) => Leaves(h, a)
    BY DEF Done, GoTo, IInv, TypeOK, Leaves
  <2>2. \A type \in {"WB_REQ", "DRAM_READ_REQ"} : type \in MsgType \ FromCache
    BY Kinds DEF MsgType, DirCommand, DramMsg
  <2>3. QED
    BY <2>1, <2>2 DEF Data
<1>8. CASE /\ MayForward(a, e)
           /\ dir' = [dir EXCEPT ![a] = e]
           /\ queue' = [queue EXCEPT ![a][1].forwardingFrom = e.forwarder]
           /\ inbox' = Deliver(inbox, Msg("WB_REQ", a, h, "none"), {e.forwarder})
           /\ Done(h)
  <2>1. PICK r : r = [queue[a][1] EXCEPT !.forwardingFrom = e.forwarder]
    OBVIOUS
  <2>2. /\ r \in Request /\ r.type = Head(queue[a]).type /\ r.from = f
        /\ ~r.waitForData /\ r.forwardingFrom = e.forwarder
    BY <1>1, <1>3, <1>4, <2>1, Zenon DEF Request, DirEntry
  <2>3. Noted(queue'[a], queue[a], r) /\ \A b \in Addr \ {a} : queue'[b] = queue[b]
    <3>1. HeadBecomes(a, r)
      BY <1>8, <2>1 DEF HeadBecomes
    <3>2. /\ a \in Addr /\ queue[a] # <<>> /\ r \in Request
          /\ r.type = Head(queue[a]).type /\ r.from = Head(queue[a]).from
      BY <1>1, <1>4, <2>2
    <3>3. QED
      BY <3>1, <3>2, QueueNoted, Zenon
  <2>4. e.state = "SHARED" /\ r.type = "SH_REQ"
    BY <1>8, <2>2 DEF MayForward, Answers
  <2>5. Entered(a, e)
    BY <1>2, <1>6, <1>8, <2>3 DEF Entered
  <2>6. Retrieving(h, a, rep, f, e, "WB_REQ", "none", {e.forwarder})
    BY <1>8, <1>7, <2>5 DEF Retrieving
  <2>7. Noting(a, e, r, "WB_REQ", {e.forwarder})
    BY <1>4, <2>2, <2>3, <2>4 DEF Noting
  <2>8. e.forwarder # NoCore
    BY <1>8 DEF MayForward
  <2>9. QED
    BY <1>8, <2>2, <2>6, <2>7, <2>8 DEF Forwarded
<1>9. CASE /\ dir' = [dir EXCEPT ![a] = e]
           /\ queue' = [queue EXCEPT ![a][1].waitForData = TRUE]
           /\ inbox' = Deliver(inbox, Msg("DRAM_READ_REQ", a, h, "none"), {DramHome[a]})
           /\ Done(h)
  <2>1. PICK r : r = [queue[a][1] EXCEPT !.waitForData = TRUE]
    OBVIOUS
  <2>2. /\ r \in Request /\ r.type = Head(queue[a]).type /\ r.from = f /\ r.waitForData
    BY <1>1, <1>3, <1>4, <2>1, Zenon DEF Request
  <2>3. Noted(queue'[a], queue[a], r) /\ \A b \in Addr \ {a} : queue'[b] = queue[b]
    <3>1. HeadBecomes(a, r)
      BY <1>9, <2>1 DEF HeadBecomes
    <3>2. /\ a \in Addr /\ queue[a] # <<>> /\ r \in Request
          /\ r.type = Head(queue[a]).type /\ r.from = Head(queue[a]).from
      BY <1>1, <1>4, <2>2
    <3>3. QED
      BY <3>1, <3>2, QueueNoted, Zenon
  <2>4. Entered(a, e)
    BY <1>2, <1>6, <1>9, <2>3 DEF Entered
  <2>5. Retrieving(h, a, rep, f, e, "DRAM_READ_REQ", "none", {DramHome[a]})
    BY <1>9, <1>7, <2>4 DEF Retrieving
  <2>6. Noting(a, e, r, "DRAM_READ_REQ", {DramHome[a]})
    BY <1>4, <2>2, <2>3 DEF Noting
  <2>7. QED
    BY <1>9, <2>2, <2>5, <2>6 DEF ReadFromDram
<1>10. QED
  BY <1>5, <1>8, <1>9 DEF Retrieve

\* The data is sent, or asked of the forwarder or of DRAM.
LEMMA RetrieveSafe ==
  ASSUME IInv, SafeLines, NEW h \in Core, net[h].at = "head", NEW a, a = net[h].addr,
         NEW rep \in Grant, NEW f, NEW e \in DirEntry, Answers(a, rep, f, e), NEW data \in Data,
         Retrieve(h, rep, f, data, e)
  PROVE  SafeLines'
<1>1. /\ a \in Addr /\ DirHome[a] = h /\ LineInv(a) /\ ~HeadWaits(a)
      /\ \A k \in Core : ~Read(inbox, "DRAM_READ_REQ", a, k)
      /\ ~Read(inbox, "DRAM_READ_REP", a, DirHome[a])
  BY AtWork
<1>2. CASE /\ Entered(a, e) /\ queue' = queue
           /\ inbox' = Deliver(inbox, Msg(rep, a, h, data), {f})
           /\ GoTo(h, "next", a, "none")
  BY <1>2, DataRetrieved
<1>3. ASSUME NEW r, Forwarded(h, a, rep, f, e, r) PROVE SafeLines'
  <2>1. /\ Posted(inbox', inbox, "WB_REQ", a, h, {e.forwarder})
        /\ Parked(a)' /\ Pend(a)' # <<>> /\ Head(Pend(a)') = r /\ OnlyHeadStarved(Pend(a)')
        /\ DataWait(a)' /\ DramRequest(a)' => SafeLines'
    BY <1>3, RequestNoted DEF Forwarded
  <2>2. ~HeadWaits(a)' /\ \A k \in Core : SameReads(inbox', inbox, a, k)
    BY <1>1, <1>3, <2>1, PostedNoRead DEF HeadWaits, Forwarded
  <2>3. DataWait(a)'
    BY <2>1, <2>2 DEF DataWait
  <2>4. DramRequest(a)'
    <3>1. DramHome[a] \in Core /\ DirHome[a] \in Core
      BY <1>1
    <3>2. QED
      BY <1>1, <2>2, <3>1 DEF LineInv, DramRequest, SameReads
  <2>5. QED
    BY <2>1, <2>3, <2>4
<1>4. ASSUME NEW r, ReadFromDram(h, a, rep, f, e, r) PROVE SafeLines'
  <2>1. /\ Entered(a, e) /\ Head(queue[a]).type \in DemandReq
        /\ r.type = Head(queue[a]).type /\ r.from = f /\ r.waitForData
    BY <1>4 DEF ReadFromDram, Retrieving, Answers
  <2>2. /\ f \in Core
        /\ Posted(inbox', inbox, "DRAM_READ_REQ", a, h, {DramHome[a]})
        /\ Parked(a)' /\ Pend(a)' # <<>> /\ Head(Pend(a)') = r /\ OnlyHeadStarved(Pend(a)')
        /\ DataWait(a)' /\ DramRequest(a)' => SafeLines'
    BY <1>4, RequestNoted DEF ReadFromDram
  <2>3. HeadWaits(a)'
    BY <2>1, <2>2 DEF HeadWaits
  <2>4. DataWait(a)'
    <3>1. f \in dir'[a].sharers
      BY <2>1 DEF Answers, Entered
    <3>2. ~Sent(inbox', GivesUp, a, f)
      <4>1. PostedAbout(inbox', inbox, "DRAM_READ_REQ", a, h, {DramHome[a]}, a, f, GivesUp, GivesUp)
        BY <1>1, <2>2 DEF Posted
      <4>2. "DRAM_READ_REQ" \notin GivesUp
        BY Kinds
      <4>3. QED
        BY <4>1, <4>2 DEF PostedAbout, Answers
    <3>3. ~(r.type = "SH_REQ" /\ dir'[a].state = "SHARED") => IsOwner(a, f)'
      BY <2>1 DEF Answers, IsOwner, Entered
    <3>4. llc'[f][a] = "INVALID" /\ r.type \in DemandReq /\ r.from = f
      BY <2>1 DEF Answers, Entered
    <3>5. QED
      BY <2>2, <2>3, <3>1, <3>2, <3>3, <3>4, Zenon DEF DataWait
  <2>5. DramRequest(a)'
    <3>1. DramHome[a] \in Core /\ DirHome[a] \in Core
      BY <1>1
    <3>2. \A k \in Core : \A x : PostedRead(inbox', inbox, "DRAM_READ_REQ", a, {DramHome[a]}, a, k, x)
      BY <1>1, <2>2 DEF Posted
    <3>3. /\ ~Read(inbox', "DRAM_READ_REP", a, DirHome[a])
          /\ ReadOnce(inbox', "DRAM_READ_REP", a, DirHome[a]) <=> ReadOnce(inbox, "DRAM_READ_REP", a, DirHome[a])
          /\ ReadOnce(inbox', "DRAM_READ_REQ", a, DramHome[a]) <=> ReadOnce(inbox, "DRAM_READ_REQ", a, DramHome[a])
          /\ \A k \in Core : Read(inbox', "DRAM_READ_REQ", a, k) => k = DramHome[a]
      BY <1>1, <3>1, <3>2 DEF PostedRead
    <3>4. QED
      BY <1>1, <2>3, <3>3 DEF LineInv, DramRequest
  <2>6. QED
    BY <2>2, <2>4, <2>5
<1>5. QED
  BY <1>2, <1>3, <1>4, RetrieveWays

\* The entry of a line with one owner.
LEMMA SoleOwnerEntry ==
  ASSUME NEW a, dir[a] \in DirEntry, NEW f \in Core, NEW state \in DirState,
         NEW e, e = SoleOwner(a, f, state)
  PROVE  e \in DirEntry /\ e.state = state /\ e.sharers = {f} /\ e.owner = f
  BY DEF DirEntry, SoleOwner

\* The directory notes the owner of line a.
EntersOwner(a, f) == dir' = [dir EXCEPT ![a] = [dir[a] EXCEPT !.owner = f, !.state = "MODIFIED"]]

\* It notes nothing else.
LEMMA OwnerEntered ==
  ASSUME IInv, NEW a \in Addr, NEW f, EntersOwner(a, f)
  PROVE  /\ dir'[a].sharers = dir[a].sharers /\ dir'[a].owner = f /\ dir'[a].state = "MODIFIED"
         /\ \A b \in Addr \ {a} : dir'[b] = dir[b]
<1>1. dir \in [Addr -> DirEntry] /\ dir[a] \in DirEntry
  BY DEF IInv, TypeOK
<1> PICK e : e = [dir[a] EXCEPT !.owner = f, !.state = "MODIFIED"]
  OBVIOUS
<1>2. e.sharers = dir[a].sharers /\ e.owner = f /\ e.state = "MODIFIED"
  BY <1>1 DEF DirEntry
<1>3. dir'[a] = e /\ \A b \in Addr \ {a} : dir'[b] = dir[b]
  BY <1>1 DEF EntersOwner
<1>4. QED
  BY <1>2, <1>3

\* f's request is for a line nobody has, and e is the entry it gets.
AnswersFirst(h, a, f, types, rep, state, e) ==
  /\ net[h].at = "head" /\ Head(queue[a]).type \in types /\ dir[a].state = "UNCACHED"
  /\ a \in Addr /\ f \in Core /\ dir[a].sharers = {}
  /\ e \in DirEntry /\ e.state = state /\ e.sharers = {f}
  /\ Answers(a, rep, f, e)

\* Who asks for a line nobody has is its only sharer then.
LEMMA UncachedAnswered ==
  ASSUME IInv, SafeLines, NEW h \in Core, NEW types \in SUBSET DemandReq,
         Processing(h, types, {"UNCACHED"}), NEW a, a = net[h].addr, NEW f, f = Head(queue[a]).from,
         NEW rep \in Grant, NEW state \in {"SHARED", "EXCLUSIVE", "MODIFIED"},
         state = "SHARED" => types = {"SH_REQ"} /\ rep = "SH_REP",
         NEW e, e = SoleOwner(a, f, state)
  PROVE  AnswersFirst(h, a, f, types, rep, state, e)
<1>1. /\ a \in Addr /\ dir[a] \in DirEntry /\ f \in Core /\ net[h].at = "head"
      /\ Head(queue[a]).type \in DemandReq /\ Head(queue[a]).type \in types
      /\ state = "SHARED" => Head(queue[a]).type = "SH_REQ"
      /\ a \in present \cup replaced /\ dir[a].state = "UNCACHED"
  <2>1. /\ net[h].at = "head" /\ Head(queue[a]).type \in types
        /\ a \in present \cup replaced /\ dir[a].state \in {"UNCACHED"}
    BY Zenon DEF Processing
  <2>2. a \in Addr /\ dir[a] \in DirEntry /\ f \in Core
    BY Processed
  <2>3. QED
    BY <2>1, <2>2
<1>2. LineInv(a) /\ PairInv(a, f) /\ Entry(a)
  BY <1>1 DEF SafeLines, LineInv
<1>3. dir[a].sharers = {}
  BY <1>1, <1>2, Zenon DEF Entry
<1>4. llc[f][a] = "INVALID" /\ ~Sent(inbox, GivesUp, a, f)
  BY <1>2, <1>3, Zenon DEF PairInv, Known
<1>5. e \in DirEntry /\ e.state = state /\ e.sharers = {f} /\ e.owner = f
  <2>1. state \in DirState
    BY DEF DirState
  <2>2. dir[a] \in DirEntry /\ f \in Core
    BY <1>1
  <2>3. QED
    BY <2>1, <2>2, SoleOwnerEntry
<1>6. Answers(a, rep, f, e)
  BY <1>1, <1>3, <1>4, <1>5, Zenon DEF Answers, Owned
<1>7. QED
  BY <1>1, <1>3, <1>5, <1>6 DEF AnswersFirst

\* A request of one of these types, for a line nobody has, is answered with rep.
Grants(h, a, f, types, rep, state) ==
  /\ Processing(h, types, {"UNCACHED"})
  /\ types \in SUBSET DemandReq /\ rep \in Grant /\ state \in {"SHARED", "EXCLUSIVE", "MODIFIED"}
  /\ state = "SHARED" => rep = "SH_REP" /\ Protocol = "MSI"
  /\ rep = "SH_REP" => state = "SHARED"
  /\ state = "MODIFIED" <=> "SH_REQ" \notin types
  /\ state # "MODIFIED" => types = {"SH_REQ"}
  /\ \E data \in Data : Retrieve(h, rep, f, data, SoleOwner(a, f, state))

\* A line nobody has is given to a reader or a writer.
LEMMA GrantKinds ==
  ASSUME IInv, NEW h \in Core, ExGrant(h) \/ ShFirst(h) \/ UpgradeAsExclusive(h),
         NEW a, NEW f, a = net[h].addr, f = Head(queue[a]).from
  PROVE  \E types, rep, state : Grants(h, a, f, types, rep, state)
<1>1. "SH_REP" \in Grant /\ "EX_REP" \in Grant /\ {"EX_REQ"} \in SUBSET DemandReq
      /\ {"SH_REQ"} \in SUBSET DemandReq /\ {"UPGRADE_REQ"} \in SUBSET DemandReq
      /\ "SH_REQ" \notin {"EX_REQ"} /\ "SH_REQ" \notin {"UPGRADE_REQ"}
  BY Kinds
<1>2. CASE ExGrant(h)
  <2>1. /\ Processing(h, {"EX_REQ"}, {"UNCACHED"})
        /\ Retrieve(h, "EX_REP", f, net[h].data, SoleOwner(a, f, "MODIFIED"))
    BY <1>2 DEF ExGrant
  <2>2. net[h].data \in Data
    BY <2>1, Processed
  <2>3. Grants(h, a, f, {"EX_REQ"}, "EX_REP", "MODIFIED")
    BY <1>1, <2>1, <2>2 DEF Grants
  <2>4. QED
    BY <2>3
<1>3. CASE ShFirst(h)
  <2>1. /\ Processing(h, {"SH_REQ"}, {"UNCACHED"})
        /\ \/ /\ Retrieve(h, "SH_REP", f, net[h].data, SoleOwner(a, f, "SHARED"))
              /\ Protocol = "MSI"
           \/ Retrieve(h, "EX_REP", f, net[h].data, SoleOwner(a, f, "EXCLUSIVE"))
    BY <1>3 DEF ShFirst
  <2>2. net[h].data \in Data
    BY <2>1, Processed
  <2>3. CASE Retrieve(h, "SH_REP", f, net[h].data, SoleOwner(a, f, "SHARED")) /\ Protocol = "MSI"
    <3>1. Grants(h, a, f, {"SH_REQ"}, "SH_REP", "SHARED")
      BY <1>1, <2>1, <2>2, <2>3 DEF Grants
    <3>2. QED
      BY <3>1
  <2>4. CASE Retrieve(h, "EX_REP", f, net[h].data, SoleOwner(a, f, "EXCLUSIVE"))
    <3>1. Grants(h, a, f, {"SH_REQ"}, "EX_REP", "EXCLUSIVE")
      BY <1>1, <2>1, <2>2, <2>4 DEF Grants
    <3>2. QED
      BY <3>1
  <2>5. QED
    BY <2>1, <2>3, <2>4
<1>4. CASE UpgradeAsExclusive(h)
  <2>1. Processing(h, {"UPGRADE_REQ"}, {"UNCACHED"})
    BY <1>4, Zenon DEF UpgradeAsExclusive
  <2>2. PICK d \in {net[h].data, "none"} \cup Arbitrary :
          Retrieve(h, "EX_REP", f, d, SoleOwner(a, f, "MODIFIED"))
    BY <1>4, Zenon DEF UpgradeAsExclusive
  <2>3. d \in Data
    <3>1. Arbitrary \subseteq Data /\ "none" \in Data
      BY DEF Arbitrary, Data
    <3>2. QED
      BY <2>1, <3>1, Processed
  <2>4. Grants(h, a, f, {"UPGRADE_REQ"}, "EX_REP", "MODIFIED")
    BY <1>1, <2>1, <2>2, <2>3 DEF Grants
  <2>5. QED
    BY <2>4
<1>5. QED
  BY <1>2, <1>3, <1>4

LEMMA GrantsSafe ==
  ASSUME IInv, SafeLines, NEW h \in Core, ExGrant(h) \/ ShFirst(h) \/ UpgradeAsExclusive(h)
  PROVE  SafeLines'
<1> PICK a, f : a = net[h].addr /\ f = Head(queue[a]).from
  OBVIOUS
<1>1. PICK types, rep, state : Grants(h, a, f, types, rep, state)
  BY GrantKinds
<1>2. /\ Processing(h, types, {"UNCACHED"})
      /\ types \in SUBSET DemandReq /\ rep \in Grant /\ state \in {"SHARED", "EXCLUSIVE", "MODIFIED"}
      /\ state = "SHARED" => types = {"SH_REQ"} /\ rep = "SH_REP"
  BY <1>1 DEF Grants
<1>3. PICK data \in Data : Retrieve(h, rep, f, data, SoleOwner(a, f, state))
  BY <1>1 DEF Grants
<1> PICK e : e = SoleOwner(a, f, state)
  OBVIOUS
<1>4. /\ net[h].at = "head" /\ a \in Addr /\ f \in Core
      /\ e \in DirEntry /\ Answers(a, rep, f, e)
  BY <1>2, UncachedAnswered DEF AnswersFirst
<1>5. QED
  BY <1>2, <1>3, <1>4, RetrieveSafe, Zenon

\* A line that is shared is given to one more reader.
LEMMA ShShareAnswers ==
  ASSUME IInv, SafeLines, NEW h \in Core, ShShare(h),
         NEW a, NEW f, a = net[h].addr, f = Head(queue[a]).from
  PROVE  \E e \in DirEntry :
           /\ net[h].at = "head" /\ a \in Addr /\ f \in Core /\ net[h].data \in Data
           /\ Head(queue[a]).type = "SH_REQ" /\ dir[a].state = "SHARED"
           /\ f \in dir[a].sharers \/ Cardinality(dir[a].sharers) < MaxHwSharers
           /\ e.state = "SHARED" /\ e.sharers = dir[a].sharers \cup {f}
           /\ e.forwarder = dir[a].forwarder
           /\ Answers(a, "SH_REP", f, e)
           /\ Retrieve(h, "SH_REP", f, net[h].data, e)
<1>1. /\ Processing(h, {"SH_REQ"}, {"SHARED"})
      /\ f \in dir[a].sharers \/ Cardinality(dir[a].sharers) < MaxHwSharers
      /\ Retrieve(h, "SH_REP", f, net[h].data, [dir[a] EXCEPT !.sharers = @ \cup {f}])
  BY Zenon DEF ShShare
<1>2. /\ a \in Addr /\ dir[a] \in DirEntry /\ f \in Core /\ net[h].at = "head" /\ net[h].data \in Data
      /\ Head(queue[a]).type = "SH_REQ"
      /\ a \in present \cup replaced /\ dir[a].state = "SHARED"
  BY <1>1, Processed, Zenon DEF Processing
<1>3. PairInv(a, f)
  BY <1>2 DEF SafeLines, LineInv
<1>4. Queued(Pend(a), LineReq, f)
  <2>1. /\ Pend(a) = queue[a] /\ queue[a] \in Seq(Request) /\ queue[a] # <<>>
        /\ Head(queue[a]) \in Request
    BY <1>2, AtWork
  <2>2. Head(queue[a]) \in Asked(LineReq, f)
    BY <1>2, <2>1, Kinds DEF Asked
  <2>3. QED
    BY <2>1, <2>2, TailHas DEF Queued
<1>5. llc[f][a] = "INVALID" /\ ~Sent(inbox, GivesUp, a, f)
  BY <1>3, <1>4, Zenon DEF PairInv, StateFits, GivenUp, Outstanding
<1> PICK e : e = [dir[a] EXCEPT !.sharers = @ \cup {f}]
  OBVIOUS
<1>6. /\ e \in DirEntry /\ e.state = "SHARED" /\ e.sharers = dir[a].sharers \cup {f}
      /\ e.forwarder = dir[a].forwarder
  BY <1>2, Zenon DEF DirEntry
<1>7. "SH_REP" \in Grant /\ "SH_REQ" \in DemandReq
  BY Kinds
<1>8. Answers(a, "SH_REP", f, e)
  BY <1>2, <1>5, <1>6, <1>7, Zenon DEF Answers, Owned
<1>9. QED
  BY <1>1, <1>2, <1>6, <1>8, Zenon

LEMMA ShShareSafe == ASSUME IInv, SafeLines, NEW h \in Core, ShShare(h) PROVE SafeLines'
<1> PICK a, f : a = net[h].addr /\ f = Head(queue[a]).from
  OBVIOUS
<1>1. PICK e \in DirEntry :
        /\ net[h].at = "head" /\ net[h].data \in Data /\ Answers(a, "SH_REP", f, e)
        /\ Retrieve(h, "SH_REP", f, net[h].data, e)
  BY ShShareAnswers, Zenon
<1>2. "SH_REP" \in Grant
  BY Kinds
<1>3. QED
  BY <1>1, <1>2, RetrieveSafe, Zenon

\* The upgrade f asked for is granted: the directory goes on to the next request.
UpgradeGives(h, a, f) ==
  /\ net[h].at = "head" /\ Head(queue[a]).type = "UPGRADE_REQ"
  /\ a \in Addr /\ f \in Core /\ dir[a].sharers = {f} /\ Queued(Pend(a), UpgradeReq, f)
  /\ dir'[a].sharers = {f} /\ dir'[a].owner = f /\ dir'[a].state = "MODIFIED"
  /\ ~Parked(a)' /\ ~HeadAt(a)' /\ Pend(a)' = Tail(queue[a])
  /\ \A c \in Core : GetsMail(inbox', inbox, IF c = f THEN "UPGRADE_REP" ELSE "none", a, c)
  /\ WorksOn(a) /\ OthersStay(a) /\ SafeLines'

\* The only cache that has the line may write it.
LEMMA UpgradeGranted ==
  ASSUME IInv, SafeLines, NEW h \in Core, UpgradeGrant(h),
         NEW a, NEW f, a = net[h].addr, f = Head(queue[a]).from
  PROVE  UpgradeGives(h, a, f)
<1>1. /\ Processing(h, {"UPGRADE_REQ"}, Owned \cup {"SHARED"})
      /\ Upgradable(a, f)
      /\ UpgradeIsExpected(h)
      /\ dir' = [dir EXCEPT ![a] = [@ EXCEPT !.owner = f, !.state = "MODIFIED"]]
      /\ inbox' = Deliver(inbox, Msg("UPGRADE_REP", a, h, "none"), {f})
      /\ GoTo(h, "next", a, "none")
      /\ llc' = llc /\ waiters' = waiters
      /\ present' = present /\ replaced' = replaced /\ queue' = queue
  BY DEF UpgradeGrant, cacheVars
<1>2. /\ net[h].at = "head" /\ Head(queue[a]).type = "UPGRADE_REQ"
      /\ a \in present \cup replaced /\ dir[a].state \in Owned \cup {"SHARED"}
  BY <1>1, Zenon DEF Processing
<1>3. /\ a \in Addr /\ DirHome[a] = h /\ LineInv(a) /\ f \in Core
      /\ Pend(a) = queue[a] /\ queue[a] \in Seq(Request) /\ queue[a] # <<>>
      /\ Head(queue[a]) \in Request
      /\ \A c \in Core : ~WbLive(a, c) /\ ~FlushLive(a, c)
      /\ \A k \in Core : ~Read(inbox, "DRAM_READ_REQ", a, k)
      /\ ~Read(inbox, "DRAM_READ_REP", a, DirHome[a])
  BY <1>2, AtWork
<1>4. dir[a].sharers = {f}
  <2>1. CASE dir[a].state = "SHARED"
    BY <1>1, <2>1 DEF Upgradable
  <2>2. CASE dir[a].state \in Owned
    <3>1. dir[a].owner = f
      BY <1>1, <2>2, Zenon DEF UpgradeIsExpected
    <3>2. QED
      BY <1>3, <2>2, <3>1 DEF LineInv, Entry
  <2>3. QED
    BY <1>2, <2>1, <2>2
<1>5. /\ dir'[a].sharers = {f} /\ dir'[a].owner = f /\ dir'[a].state = "MODIFIED"
      /\ \A b \in Addr \ {a} : dir'[b] = dir[b]
  <2>1. EntersOwner(a, f)
    BY <1>1, Zenon DEF EntersOwner
  <2>2. QED
    BY <1>3, <1>4, <2>1, OwnerEntered, Zenon
<1>6. /\ net'[h].at = "next" /\ net'[h].addr = a
      /\ \A k \in Core \ {h} : net'[k] = net[k]
  BY <1>1 DEF GoTo, IInv, TypeOK
<1>7. ~Parked(a)' /\ Pend(a)' = Tail(queue[a])
  BY <1>1, <1>3, <1>6, Zenon DEF Parked, Pend
<1>8. /\ "UPGRADE_REP" \in MsgType \ FromCache /\ "UPGRADE_REP" \in DirReply
      /\ "UPGRADE_REP" \notin Grant /\ "UPGRADE_REP" \notin ExGrantRep
      /\ "UPGRADE_REQ" \in DemandReq /\ "UPGRADE_REQ" \in UpgradeReq /\ "none" \in Data
  BY Kinds DEF MsgType, Data
<1>9. Posted(inbox', inbox, "UPGRADE_REP", a, h, {f})
  BY <1>1, <1>3, <1>8, DeliverPosts, Zenon DEF IInv
<1>10. /\ GetsMail(inbox', inbox, "UPGRADE_REP", a, f)
       /\ \A c \in Core \ {f} : GetsMail(inbox', inbox, "none", a, c)
  BY <1>3, <1>8, <1>9, HomePosts, Zenon
<1>11. \A b \in Addr, k \in Core : Awaited(k, b)' <=> Awaited(k, b)
  BY <1>1, <1>2, <1>6, NoWaiterServed, Zenon
<1>12. Queued(Pend(a), UpgradeReq, f)
  <2>1. Head(queue[a]) \in Asked(UpgradeReq, f)
    BY <1>2, <1>3, <1>8 DEF Asked
  <2>2. QED
    BY <1>3, <2>1, TailHas DEF Queued
<1>13. ~Sent(inbox, FlushRep, a, f)
  BY <1>3, <1>12 DEF LineInv, PairInv, FlushAnswer, Outstanding
<1>14. Replies(a, f, "UPGRADE_REP")
  <2>1. \A c \in Core \ {f} : ~IsOwner(a, c)
    BY <1>3, <1>4 DEF LineInv, Entry, IsOwner
  <2>2. QED
    BY <1>1, <1>2, <1>3, <1>4, <1>5, <1>7, <1>8, <1>10, <1>11, <1>13, <2>1, Zenon DEF Replies
<1>15. Entry(a)'
  BY <1>1, <1>2, <1>5, Zenon DEF Entry
<1>16. \A b \in Addr, k \in Core : SameReads(inbox', inbox, b, k)
  BY <1>9, PostedNoRead
<1>17. LineInv(a)'
  <2>1. DramHome[a] \in Core /\ DirHome[a] \in Core
    BY <1>3
  <2>2. QED
    BY <1>3, <1>14, <1>15, <1>16, <2>1, LineAnswered DEF LineInv, DramRequest, SameReads
<1>18. \A b \in Addr \ {a}, k \in Core : SameMail(inbox', inbox, b, k)
  BY <1>9, PostedElsewhere
<1>19. WorksOn(a)
  BY <1>2, <1>3, <1>6 DEF WorksOn
<1>20. OthersStay(a)
  BY <1>1, <1>5, <1>16, <1>18, Zenon DEF OthersStay
<1>21. SafeLines'
  BY <1>3, <1>17, <1>19, <1>20, OneLine
<1>22. ~HeadAt(a)'
  BY <1>3, <1>6 DEF HeadAt
<1>23. QED
  BY <1>2, <1>3, <1>4, <1>5, <1>7, <1>10, <1>19, <1>20, <1>21, <1>12, <1>22 DEF UpgradeGives

LEMMA UpgradeGrantSafe == ASSUME IInv, SafeLines, NEW h \in Core, UpgradeGrant(h) PROVE SafeLines'
  BY UpgradeGranted DEF UpgradeGives

\* The answered request leaves the queue of line a, in which it was not counted any more.
GoesOn(h, a) ==
  /\ a \in Addr /\ DirHome[a] = h
  /\ net[h].at = "next" /\ net'[h].at \in {"recv", "head"}
  /\ net'[h].at = "head" =>
       net'[h].addr = a /\ net'[h].data = "none" /\ Head(queue'[a]).type \in DemandReq
  /\ \A k \in Core \ {h} : net'[k] = net[k]
  /\ UNCHANGED <<llc, inbox>> /\ waiters' = waiters
  /\ dir' = dir /\ \A b \in Addr \ {a} : queue'[b] = queue[b]
  /\ \A b \in Addr, k \in Core : Awaited(k, b)' <=> Awaited(k, b)
  /\ \A b \in Addr : SameLine(b)

LEMMA NextRequestGoesOn ==
  ASSUME IInv, SafeLines, NEW h \in Core, NextRequest(h), NEW a, a = net[h].addr
  PROVE  GoesOn(h, a)
<1>1. /\ net[h].at = "next"
      /\ queue' = [queue EXCEPT ![a] = Tail(queue[a])]
      /\ Tail(queue[a]) # <<>> => Head(Tail(queue[a])).type \in DemandReq
      /\ IF Tail(queue[a]) = <<>> THEN Done(h) ELSE GoTo(h, "head", a, "none")
      /\ UNCHANGED <<llc, inbox>> /\ waiters' = waiters
      /\ dir' = dir /\ present' = present /\ replaced' = replaced
  BY DEF NextRequest, cacheVars
<1>2. a \in Addr /\ DirHome[a] = h
  BY <1>1, AtHead
<1>3. /\ queue'[a] = Tail(queue[a])
      /\ \A b \in Addr \ {a} : queue'[b] = queue[b]
  BY <1>1, <1>2 DEF IInv, TypeOK
<1>4. /\ Tail(queue[a]) = <<>> => net'[h].at = "recv"
      /\ Tail(queue[a]) # <<>> => net'[h].at = "head" /\ net'[h].addr = a /\ net'[h].data = "none"
      /\ \A k \in Core \ {h} : net'[k] = net[k]
  <2>1. CASE Tail(queue[a]) = <<>>
    <3>1. Done(h)
      BY <1>1, <2>1
    <3>2. QED
      BY <2>1, <3>1 DEF Done, GoTo, IInv, TypeOK
  <2>2. CASE Tail(queue[a]) # <<>>
    <3>1. GoTo(h, "head", a, "none")
      BY <1>1, <2>2
    <3>2. QED
      BY <2>2, <3>1 DEF GoTo, IInv, TypeOK
  <2>3. QED
    BY <2>1, <2>2
<1>5. \A b \in Addr, k \in Core : Awaited(k, b)' <=> Awaited(k, b)
  <2>1. net[h].at \notin {"serve", "woken"} /\ net'[h].at \notin {"serve", "woken"}
    BY <1>1, <1>4
  <2>2. QED
    BY <1>1, <1>4, <2>1, NoWaiterServed
<1>6. ASSUME NEW b \in Addr PROVE SameLine(b)
  <2>1. Pend(b)' = Pend(b) /\ (Pend(b) # <<>> => (Parked(b)' <=> Parked(b)))
    <3>1. CASE b = a
      BY <1>1, <1>2, <1>3, <1>4, <3>1 DEF Pend, Parked
    <3>2. CASE b # a
      <4>1. DirHome[b] \in Core
        OBVIOUS
      <4>2. QED
        BY <1>1, <1>2, <1>3, <1>4, <3>2, <4>1 DEF Pend, Parked
    <3>3. QED
      BY <3>1, <3>2
  <2>2. QED
    BY <1>1, <2>1, SameQueue DEF SameLine
<1>7. QED
  BY <1>1, <1>2, <1>3, <1>4, <1>5, <1>6 DEF GoesOn

LEMMA NextRequestSafe == ASSUME IInv, SafeLines, NEW h \in Core, NextRequest(h) PROVE SafeLines'
<1> SUFFICES ASSUME NEW a, a = net[h].addr PROVE SafeLines'
  OBVIOUS
<1>1. GoesOn(h, a)
  BY NextRequestGoesOn
<1>2. UNCHANGED <<llc, inbox>>
  BY <1>1 DEF GoesOn
<1>3. QED
  BY <1>1, <1>2, NothingChanges DEF GoesOn

\* Nobody has line a any more: its entry goes, and the request is answered.
LosesEntry(h, a) ==
  /\ net[h].at = "head" /\ a \in Addr /\ dir[a].state = "UNCACHED" /\ dir[a].sharers = {}
  /\ dir'[a].state = "UNCACHED" /\ dir'[a].sharers = {}
  /\ inbox' = inbox /\ llc' = llc
  /\ Pend(a)' = Tail(queue[a]) /\ ~HeadAt(a)'
  /\ WorksOn(a) /\ OthersStay(a) /\ SafeLines'

LEMMA NullifiedLoses ==
  ASSUME IInv, SafeLines, NEW h \in Core, Nullified(h), NEW a, a = net[h].addr
  PROVE  LosesEntry(h, a)
<1>1. /\ Processing(h, {"NULLIFY_REQ"}, {"UNCACHED"})
      /\ replaced' = replaced \ {a} /\ GoTo(h, "next", a, "none")
      /\ llc' = llc /\ waiters' = waiters /\ inbox' = inbox
      /\ present' = present /\ queue' = queue
  BY DEF Nullified, cacheVars
<1>2. PICK e \in NewEntries : dir' = [dir EXCEPT ![a] = e]
  BY DEF Nullified
<1>3. /\ net[h].at = "head" /\ Head(queue[a]).type = "NULLIFY_REQ" /\ dir[a].state = "UNCACHED"
  BY <1>1 DEF Processing
<1>4. /\ a \in Addr /\ DirHome[a] = h /\ LineInv(a)
      /\ Pend(a) = queue[a] /\ queue[a] \in Seq(Request) /\ queue[a] # <<>>
      /\ \A c \in Core : ~WbLive(a, c) /\ ~FlushLive(a, c)
      /\ \A k \in Core : ~Read(inbox, "DRAM_READ_REQ", a, k)
      /\ ~Read(inbox, "DRAM_READ_REP", a, DirHome[a])
  BY <1>3, AtWork
<1>5. /\ dir'[a].state = "UNCACHED" /\ dir'[a].sharers = {}
      /\ \A b \in Addr \ {a} : dir'[b] = dir[b]
  <2>1. e.state = "UNCACHED" /\ e.sharers = {}
    BY <1>2 DEF NewEntries
  <2>2. QED
    BY <1>2, <1>4, <2>1 DEF IInv, TypeOK
<1>6. dir[a].sharers = {}
  BY <1>3, <1>4 DEF LineInv, Entry
<1>7. /\ net'[h].at = "next" /\ net'[h].addr = a
      /\ \A k \in Core \ {h} : net'[k] = net[k]
  BY <1>1 DEF GoTo, IInv, TypeOK
<1>8. Pend(a)' = Tail(queue[a])
  BY <1>1, <1>4, <1>7 DEF Pend
<1>9. \A b \in Addr, k \in Core : Awaited(k, b)' <=> Awaited(k, b)
  <2>1. net[h].at \notin {"serve", "woken"} /\ net'[h].at \notin {"serve", "woken"}
    BY <1>3, <1>7
  <2>2. QED
    BY <1>1, <1>7, <2>1, NoWaiterServed
<1>10. ASSUME NEW c \in Core PROVE PairInv(a, c)'
  <2>1. SameAsked(a, c)
    <3>1. \A T \in {DemandReq, LineReq, UpgradeReq} : Head(queue[a]) \notin Asked(T, c)
      BY <1>3, Kinds DEF Asked
    <3>2. \A T \in {DemandReq, LineReq, UpgradeReq} :
            Queued(Tail(queue[a]), T, c) <=> Queued(queue[a], T, c)
      BY <1>4, <3>1, TailHas DEF Queued
    <3>3. QueuedOnce(queue[a], c) => QueuedOnce(Tail(queue[a]), c)
      BY <1>4, FirstAnswered
    <3>4. QED
      BY <1>4, <1>8, <3>2, <3>3 DEF SameAsked
  <2>2. PairInv(a, c) /\ ~IsOwner(a, c) /\ llc'[c][a] = llc[c][a]
    BY <1>1, <1>3, <1>4 DEF LineInv, IsOwner, Owned
  <2>3. /\ "none" \notin DirReply /\ "none" \notin WbCmd /\ "none" \notin FlushCmd
        /\ "none" \notin ToCache
    BY Kinds
  <2>4. GetsMail(inbox', inbox, "none", a, c)
    BY <1>1, <2>3 DEF GetsMail
  <2>5. QED
    BY <1>3, <1>4, <1>6, <1>9, <2>1, <2>2, <2>3, <2>4, PairCommanded
<1>11. Entry(a)' /\ DataWait(a)' /\ DramRequest(a)'
  <2>1. OnlyHeadStarved(Pend(a)') /\ ~HeadWaits(a)'
    BY <1>4, <1>8, FirstAnswered, Zenon DEF LineInv, DataWait, HeadWaits
  <2>2. DramHome[a] \in Core /\ DirHome[a] \in Core
    BY <1>4
  <2>3. QED
    BY <1>1, <1>4, <1>5, <2>1, <2>2, Zenon DEF LineInv, Entry, Owned, DataWait, DramRequest
<1>12. WorksOn(a)
  BY <1>3, <1>4, <1>7 DEF WorksOn
<1>13. OthersStay(a)
  <2>1. \A b \in Addr, k \in Core : SameMail(inbox', inbox, b, k) /\ SameReads(inbox', inbox, b, k)
    BY <1>1 DEF SameMail, SameMailAbout, SameReads
  <2>2. QED
    BY <1>1, <1>5, <2>1 DEF OthersStay
<1>14. SafeLines'
  BY <1>4, <1>10, <1>11, <1>12, <1>13, OneLine DEF LineInv
<1>15. ~HeadAt(a)'
  BY <1>4, <1>7 DEF HeadAt
<1>16. QED
  BY <1>1, <1>3, <1>4, <1>5, <1>6, <1>8, <1>12, <1>13, <1>14, <1>15 DEF LosesEntry

LEMMA NullifiedSafe == ASSUME IInv, SafeLines, NEW h \in Core, Nullified(h) PROVE SafeLines'
<1>1. LosesEntry(h, net[h].addr)
  BY NullifiedLoses
<1>2. QED
  BY <1>1 DEF LosesEntry

-----------------------------------------------------------------------------
(* The steps of the DRAM controllers *)

\* DRAM answers a read.
LEMMA DramReadSafe == ASSUME IInv, SafeLines, NEW c \in Core, DramRead(c) PROVE SafeLines'
<1> PICK m, a : m = Head(inbox[c]) /\ a = m.addr
  OBVIOUS
<1>1. /\ net[c].at = "recv" /\ inbox[c] # <<>> /\ m.type = "DRAM_READ_REQ"
      /\ inbox' = Deliver(Rest(c), Msg("DRAM_READ_REP", a, c, dram[a]), {m.from})
      /\ UNCHANGED <<llc, waiters, net>> /\ UNCHANGED <<dir, present, replaced, queue>>
  BY DEF DramRead, Received, cacheVars, dirVars
<1>2. /\ a \in Addr /\ m.from = DirHome[a] /\ dram[a] \in Data /\ m.from \in Core
      /\ InboxOK(Rest(c))
  BY <1>1, HeadOK, RestOK DEF IInv, TypeOK, MessagesTo
<1>3. /\ "DRAM_READ_REP" \in MsgType
      /\ \A T \in {FromCache, ToCache} : "DRAM_READ_REP" \notin T /\ "DRAM_READ_REQ" \notin T
  BY Kinds DEF MsgType, DramMsg
<1>4. Taken(Rest(c), inbox, c, m)
  BY <1>1, RestTakes DEF IInv
<1>5. Posted(inbox', Rest(c), "DRAM_READ_REP", a, c, {DirHome[a]})
  BY <1>1, <1>2, <1>3, DeliverPosts
<1>6. \A b \in Addr, k \in Core : SamePair(b, k)
  <2>1. ASSUME NEW b \in Addr, NEW k \in Core
        PROVE  SameMail(Rest(c), inbox, b, k) /\ SameMail(inbox', Rest(c), b, k)
    BY <1>1, <1>3, <1>4, <1>5, TakenElsewhere, PostedElsewhere
  <2>2. ASSUME NEW b \in Addr, NEW k \in Core PROVE SameMail(inbox', inbox, b, k)
    BY <2>1, SameMailTrans
  <2>3. QED
    BY <1>1, <2>2 DEF SamePair, Awaited
<1>7. \A b \in Addr : SameLine(b)
  BY <1>1, LinesStay
<1>8. ASSUME NEW b \in Addr \ {a} PROVE LineInv(b)'
  <2>1. ASSUME NEW k \in Core
        PROVE  SameReads(Rest(c), inbox, b, k) /\ SameReads(inbox', Rest(c), b, k)
    BY <1>2, <1>4, <1>5, TakenNoRead, PostedNoRead
  <2>2. \A k \in Core : SameReads(inbox', inbox, b, k)
    BY <2>1 DEF SameReads
  <2>3. QED
    BY <1>6, <1>7, <2>2, LineSame DEF SafeLines
<1>9. LineInv(a)'
  <2>1. LineInv(a)
    BY <1>2 DEF SafeLines
  <2>2. DirHome[a] \in Core /\ DramHome[a] \in Core
    BY <1>2
  <2>3. /\ Read(inbox, "DRAM_READ_REQ", a, c)
        /\ ReadOnce(inbox, "DRAM_READ_REQ", a, c) => ~Read(Rest(c), "DRAM_READ_REQ", a, c)
        /\ \A k \in Core : Read(Rest(c), "DRAM_READ_REQ", a, k) => Read(inbox, "DRAM_READ_REQ", a, k)
        /\ \A k \in Core : ReadOnce(inbox, "DRAM_READ_REQ", a, k) => ReadOnce(Rest(c), "DRAM_READ_REQ", a, k)
        /\ \A k \in Core : Read(Rest(c), "DRAM_READ_REP", a, k) => Read(inbox, "DRAM_READ_REP", a, k)
        /\ \A k \in Core : ReadOnce(inbox, "DRAM_READ_REP", a, k) => ReadOnce(Rest(c), "DRAM_READ_REP", a, k)
    <3>1. \A k \in Core : \A x : TakenRead(Rest(c), inbox, c, m, a, k, x)
      BY <1>2, <1>4 DEF Taken
    <3>2. QED
      BY <1>1, <3>1 DEF TakenRead
  <2>4. c = DramHome[a] /\ HeadWaits(a) /\ ~Read(inbox, "DRAM_READ_REP", a, DirHome[a])
    BY <2>1, <2>3, Zenon DEF LineInv, DramRequest
  <2>5. /\ \A k \in Core : Read(inbox', "DRAM_READ_REQ", a, k) <=> Read(Rest(c), "DRAM_READ_REQ", a, k)
        /\ \A k \in Core : ReadOnce(inbox', "DRAM_READ_REQ", a, k) <=> ReadOnce(Rest(c), "DRAM_READ_REQ", a, k)
        /\ ReadOnce(inbox', "DRAM_READ_REP", a, DirHome[a]) <=>
             /\ ReadOnce(Rest(c), "DRAM_READ_REP", a, DirHome[a])
             /\ ~Read(Rest(c), "DRAM_READ_REP", a, DirHome[a])
    <3>1. \A k \in Core : \A x : PostedRead(inbox', Rest(c), "DRAM_READ_REP", a, {DirHome[a]}, a, k, x)
      BY <1>2, <1>5 DEF Posted
    <3>2. QED
      BY <2>2, <3>1 DEF PostedRead
  <2>6. ~Read(inbox', "DRAM_READ_REQ", a, DramHome[a])
    BY <2>1, <2>2, <2>3, <2>4, <2>5, Zenon DEF LineInv, DramRequest
  <2>7. (HeadWaits(a) => HeadWaits(a)') => DramRequest(a)'
    BY <2>1, <2>2, <2>3, <2>4, <2>5, <2>6, Zenon DEF LineInv, DramRequest
  <2>8. QED
    BY <1>2, <1>6, <1>7, <2>1, <2>7, LineRead
<1>10. QED
  BY <1>8, <1>9 DEF SafeLines

\* What DRAM holds matters to no permission.
LEMMA DramWriteSafe == ASSUME IInv, SafeLines, NEW c \in Core, DramWrite(c) PROVE SafeLines'
<1> PICK m : m = Head(inbox[c])
  OBVIOUS
<1>1. /\ net[c].at = "recv" /\ inbox[c] # <<>> /\ m.type = "DRAM_WRITE_REQ"
      /\ inbox' = Rest(c)
      /\ UNCHANGED <<llc, waiters, net>> /\ UNCHANGED <<dir, present, replaced, queue>>
  BY DEF DramWrite, Received, cacheVars, dirVars
<1>2. \A T \in {FromCache, ToCache, {"DRAM_READ_REQ", "DRAM_READ_REP"}} : "DRAM_WRITE_REQ" \notin T
  BY Kinds
<1>3. Taken(inbox', inbox, c, m)
  BY <1>1, RestTakes DEF IInv
<1>4. ASSUME NEW b \in Addr, NEW k \in Core
      PROVE  SameMail(inbox', inbox, b, k) /\ SameReads(inbox', inbox, b, k)
  BY <1>1, <1>2, <1>3, TakenElsewhere, TakenNoRead
<1>5. \A b \in Addr, k \in Core : SamePair(b, k)
  BY <1>1, <1>4 DEF SamePair, Awaited
<1>6. \A b \in Addr : SameLine(b)
  BY <1>1, LinesStay
<1>7. QED
  BY <1>4, <1>5, <1>6, LineSame DEF SafeLines

-----------------------------------------------------------------------------
(* Messages of caches to the directories *)

\* The home of line a takes a message of this type of cache c.
HomeTakes(new, old, type, a, c) ==
  /\ \A T, U : /\ Sent(old, T, a, c) <=> Sent(new, T, a, c) \/ type \in T
               /\ SentNotThen(old, T, U, a, c) <=>
                    SentNotThen(new, T, U, a, c) /\ (type \in T => ~Sent(new, U, a, c))
               /\ Got(new, T, a, c) <=> Got(old, T, a, c)
               /\ GotNotThen(new, T, U, a, c) <=> GotNotThen(old, T, U, a, c)
  /\ OneWbAfterGrant(old, a, c) => OneWbAfterGrant(new, a, c)

\* What is known when the home of line a takes message m of cache s.
AnswersOf(h, m, a, s) ==
  /\ net[h].at = "recv" /\ inbox[h] # <<>> /\ m = Head(inbox[h])
  /\ m.type \in FromCache /\ a = m.addr /\ s = m.from

\* Such a message comes from cache s to the home of a, which is at rest.
LEMMA AnswerOf ==
  ASSUME IInv, SafeLines, NEW h \in Core, NEW m, NEW a, NEW s, AnswersOf(h, m, a, s)
  PROVE  /\ a \in Addr /\ DirHome[a] = h /\ s \in Core /\ LineInv(a)
         /\ Parked(a) /\ Pend(a) = queue[a] /\ queue[a] \in Seq(Request)
         /\ HomeTakes(Rest(h), inbox, m.type, a, s)
         /\ \A c \in Core \ {s} : SameMail(Rest(h), inbox, a, c)
         /\ \A b \in Addr \ {a}, c \in Core : SameMail(Rest(h), inbox, b, c)
         /\ \A b \in Addr, c \in Core : SameReads(Rest(h), inbox, b, c)
<1>1. /\ net[h].at = "recv" /\ inbox[h] # <<>> /\ m = Head(inbox[h])
      /\ m.type \in FromCache /\ a = m.addr /\ s = m.from
  BY DEF AnswersOf
<1>2. /\ m.type \notin ToCache /\ m.type \notin {"DRAM_READ_REQ", "DRAM_READ_REP"}
      /\ m.type \in DemandReq \cup CacheReply
  BY <1>1, Kinds DEF FromCache
<1>3. /\ a \in Addr /\ s \in Core /\ DirHome[a] = h
  BY <1>1, <1>2, HeadOK DEF IInv, MessagesTo
<1>4. Parked(a) /\ Pend(a) = queue[a] /\ queue[a] \in Seq(Request) /\ LineInv(a)
  BY <1>1, <1>3 DEF Parked, Pend, IInv, TypeOK, SafeLines
<1>5. Taken(Rest(h), inbox, h, m)
  BY <1>1, RestTakes DEF IInv
<1>6. HomeTakes(Rest(h), inbox, m.type, a, s)
  <2>1. \A T, U : TakenAbout(Rest(h), inbox, h, m, a, s, T, U)
    BY <1>3, <1>5 DEF Taken
  <2>2. QED
    BY <1>1, <1>2, <1>3, <2>1 DEF TakenAbout, HomeTakes
<1>7. \A c \in Core \ {s} : SameMail(Rest(h), inbox, a, c)
  BY <1>1, <1>2, <1>3, <1>5, TakenElsewhere
<1>8. \A b \in Addr \ {a}, c \in Core : SameMail(Rest(h), inbox, b, c)
  BY <1>1, <1>5, TakenElsewhere
<1>9. \A b \in Addr, c \in Core : SameReads(Rest(h), inbox, b, c)
  BY <1>2, <1>5, TakenNoRead
<1>10. QED
  BY <1>3, <1>4, <1>6, <1>7, <1>8, <1>9

\* A request joins the queue: it counts the same there as on its way.
LEMMA RequestQueued ==
  ASSUME IInv, SafeLines, NEW a \in Addr, NEW f \in Core, NEW type \in DemandReq, PairInv(a, f),
         HomeTakes(inbox', inbox, type, a, f),
         \A T : Queued(Pend(a)', T, f) <=> Queued(Pend(a), T, f) \/ type \in T,
         QueuedOnce(Pend(a), f) /\ ~Queued(Pend(a), DemandReq, f) => QueuedOnce(Pend(a)', f),
         dir'[a] = dir[a], llc' = llc, Awaited(f, a)' <=> Awaited(f, a),
         WbLive(a, f)' <=> WbLive(a, f), FlushLive(a, f)' <=> FlushLive(a, f)
  PROVE  PairInv(a, f)'
<1>1. /\ Sent(inbox, DemandReq, a, f) /\ ~Queued(Pend(a), DemandReq, f)
      /\ ~Sent(inbox', DemandReq, a, f) /\ ~Got(inbox, DirReply, a, f)
      /\ QueuedOnce(Pend(a)', f)
  BY DEF HomeTakes, PairInv, OneRequest, Outstanding
<1>2. \A T : Outstanding(T, a, f)' <=> Outstanding(T, a, f)
  BY DEF Outstanding, HomeTakes
<1>3. /\ type \notin GivesUp /\ type \notin FlushRep /\ type \notin WbRep
      /\ ~Queued(Pend(a), LineReq, f)
  BY <1>1, Kinds, KindsQueued
<1>4. /\ \A T \in {GivesUp, FlushRep, WbRep} : Sent(inbox', T, a, f) <=> Sent(inbox, T, a, f)
      /\ \A T, U : SentNotThen(inbox, T, U, a, f) => SentNotThen(inbox', T, U, a, f)
      /\ \A T, U : /\ Got(inbox', T, a, f) <=> Got(inbox, T, a, f)
                   /\ GotNotThen(inbox', T, U, a, f) <=> GotNotThen(inbox, T, U, a, f)
      /\ OneWbAfterGrant(inbox, a, f) => OneWbAfterGrant(inbox', a, f)
      /\ type \in LineReq /\ SentNotThen(inbox, LineReq, GivesUp, a, f) => ~Sent(inbox', GivesUp, a, f)
  BY <1>3 DEF HomeTakes
<1>5. OneRequest(a, f)'
  BY <1>1, <1>2, <1>4 DEF PairInv, OneRequest
<1>6. StateFits(a, f)' /\ Known(a, f)'
  BY <1>2, <1>4 DEF PairInv, StateFits, Known
<1>7. GivenUp(a, f)'
  BY <1>3, <1>4 DEF PairInv, GivenUp
<1>8. FlushAnswer(a, f)' /\ Ownership(a, f)'
  BY <1>2, <1>4 DEF PairInv, FlushAnswer, Ownership, IsOwner
<1>9. WbAnswer(a, f)' /\ WbCommand(a, f)' /\ FlushCommand(a, f)'
  BY <1>4 DEF PairInv, WbAnswer, WbCommand, FlushCommand
<1>10. QED
  BY <1>5, <1>6, <1>7, <1>8, <1>9 DEF PairInv

\* The request is behind all others, and nothing else about the queue is new.
LEMMA Enqueued ==
  ASSUME IInv, NEW a \in Addr, NEW e \in Request, queue' = [queue EXCEPT ![a] = Append(queue[a], e)]
  PROVE  /\ queue'[a] = Append(queue[a], e) /\ \A b \in Addr \ {a} : queue'[b] = queue[b]
         /\ queue'[a] # <<>>
         /\ queue[a] = <<>> => Head(queue'[a]) = e
         /\ queue[a] # <<>> => Head(queue'[a]) = Head(queue[a])
<1>1. queue \in [Addr -> Seq(Request)] /\ queue[a] \in Seq(Request)
  BY DEF IInv, TypeOK
<1>2. queue'[a] = Append(queue[a], e) /\ \A b \in Addr \ {a} : queue'[b] = queue[b]
  BY <1>1
<1> PICK q : q = queue[a]
  OBVIOUS
<1>3. /\ Append(q, e) # <<>>
      /\ q = <<>> => Head(Append(q, e)) = e
      /\ q # <<>> => Head(Append(q, e)) = Head(q)
  BY <1>1, AppendHead
<1>4. QED
  BY <1>2, <1>3

\* Directory h takes a request of cache f for line a.
Joins(h, a, f, type) ==
  /\ a \in Addr /\ f \in Core /\ DirHome[a] = h
  /\ Parked(a) /\ Pend(a) = queue[a] /\ dir' = dir /\ llc' = llc
  /\ HomeTakes(inbox', inbox, type, a, f)
  /\ \A c \in Core \ {f} : SameMail(inbox', inbox, a, c)
  /\ \A T, c : Queued(Pend(a)', T, c) <=> Queued(Pend(a), T, c) \/ (type \in T /\ f = c)
  /\ Pend(a)' = queue'[a] /\ queue'[a] # <<>>
  /\ queue[a] = <<>> => /\ ~Parked(a)' /\ net'[h].data = "none"
                        /\ Head(queue'[a]) = NewRequest(type, f)
  /\ queue[a] # <<>> => Parked(a)' /\ Head(queue'[a]) = Head(queue[a])
  /\ WorksOn(a) /\ OthersStay(a) /\ SafeLines'

\* The directory takes a request, and processes it if it is the first.
LEMMA TakeRequestJoins ==
  ASSUME IInv, SafeLines, NEW h \in Core, TakeRequest(h),
         NEW a, a = Head(inbox[h]).addr, NEW f, f = Head(inbox[h]).from
  PROVE  \E type \in DemandReq : Joins(h, a, f, type)
<1> PICK m : m = Head(inbox[h]) /\ a = m.addr /\ f = m.from
  OBVIOUS
<1> PICK type \in DemandReq :
       /\ Received(h, type)
       /\ present' = Claimed(a)
       /\ queue' = [queue EXCEPT ![a] = Append(queue[a], NewRequest(type, f))]
       /\ inbox' = Rest(h)
       /\ IF queue[a] = <<>> THEN GoTo(h, "head", a, "none") ELSE UNCHANGED net
       /\ llc' = llc /\ waiters' = waiters /\ dir' = dir /\ replaced' = replaced
  BY Zenon DEF TakeRequest, cacheVars
<1> PICK e : e = NewRequest(type, f)
  OBVIOUS
<1>1. AnswersOf(h, m, a, f) /\ m.type = type /\ net[h].at = "recv"
  BY Kinds DEF AnswersOf, Received
<1>2. /\ a \in Addr /\ DirHome[a] = h /\ f \in Core /\ LineInv(a)
      /\ Parked(a) /\ Pend(a) = queue[a] /\ queue[a] \in Seq(Request)
      /\ HomeTakes(inbox', inbox, type, a, f)
      /\ \A c \in Core \ {f} : SameMail(inbox', inbox, a, c)
      /\ \A b \in Addr \ {a}, c \in Core : SameMail(inbox', inbox, b, c)
      /\ \A b \in Addr, c \in Core : SameReads(inbox', inbox, b, c)
  BY <1>1, AnswerOf
<1>3. e \in Request /\ e.type = type /\ e.from = f /\ ~e.waitForData
  BY <1>2 DEF NewRequest, Request, Data
<1>4. queue'[a] = Append(queue[a], e) /\ \A b \in Addr \ {a} : queue'[b] = queue[b]
  BY <1>2, Zenon DEF IInv, TypeOK
<1>5. /\ queue[a] = <<>> => net'[h].at = "head" /\ net'[h].addr = a /\ net'[h].data = "none"
      /\ queue[a] # <<>> => net'[h] = net[h]
      /\ \A k \in Core \ {h} : net'[k] = net[k]
  <2>1. CASE queue[a] = <<>>
    <3>1. GoTo(h, "head", a, "none")
      BY <2>1
    <3>2. QED
      BY <2>1, <3>1 DEF GoTo, IInv, TypeOK
  <2>2. CASE queue[a] # <<>>
    BY <2>2
  <2>3. QED
    BY <2>1, <2>2
<1>6. /\ Pend(a)' = queue'[a] /\ Pend(a)' # <<>>
      /\ queue[a] = <<>> => ~Parked(a)' /\ Head(Pend(a)') = e
      /\ queue[a] # <<>> => Parked(a)' /\ Head(Pend(a)') = Head(queue[a])
  <2>1. /\ queue'[a] # <<>>
        /\ queue[a] = <<>> => Head(queue'[a]) = e
        /\ queue[a] # <<>> => Head(queue'[a]) = Head(queue[a])
    BY <1>2, <1>3, Enqueued, Zenon
  <2>2. CASE queue[a] = <<>>
    BY <1>2, <1>5, <2>1, <2>2, Zenon DEF Pend, Parked
  <2>3. CASE queue[a] # <<>>
    BY <1>1, <1>2, <1>5, <2>1, <2>3, Zenon DEF Pend, Parked
  <2>4. QED
    BY <2>2, <2>3
<1>7. \A b \in Addr, k \in Core : Awaited(k, b)' <=> Awaited(k, b)
  <2>1. net[h].at \notin {"serve", "woken"} /\ net'[h].at \notin {"serve", "woken"}
    BY <1>1, <1>5
  <2>2. QED
    BY <1>5, <2>1, NoWaiterServed
<1>8. ASSUME NEW c \in Core
      PROVE  /\ IsOwner(a, c)' <=> IsOwner(a, c)
             /\ WbLive(a, c)' <=> WbLive(a, c)
             /\ FlushLive(a, c)' <=> FlushLive(a, c)
  <2>1. dir'[a] = dir[a]
    OBVIOUS
  <2>2. CASE queue[a] = <<>>
    <3>1. \A types : ~Blocked(a, types) /\ ~Blocked(a, types)'
      BY <1>2, <1>6, <2>2, Zenon DEF Blocked
    <3>2. QED
      BY <2>1, <3>1, Zenon DEF IsOwner, WbLive, FlushLive
  <2>3. CASE queue[a] # <<>>
    <3>1. Head(Pend(a)') = Head(Pend(a)) /\ Pend(a) # <<>> /\ Pend(a)' # <<>> /\ Parked(a)'
      BY <1>2, <1>6, <2>3, Zenon
    <3>2. \A types : Blocked(a, types)' <=> Blocked(a, types)
      BY <1>2, <3>1, Zenon DEF Blocked
    <3>3. QED
      BY <2>1, <3>1, <3>2, Zenon DEF IsOwner, WbLive, FlushLive
  <2>4. QED
    BY <2>2, <2>3
<1>9. ASSUME NEW c
      PROVE  /\ \A T : Queued(Pend(a)', T, c) <=> Queued(Pend(a), T, c) \/ (type \in T /\ f = c)
             /\ QueuedOnce(Pend(a)', c) <=>
                  QueuedOnce(Pend(a), c) /\ (f = c => ~Queued(Pend(a), DemandReq, c))
  <2>1. \A T : e \in Asked(T, c) <=> type \in T /\ f = c
    BY <1>3 DEF Asked
  <2>2. ASSUME NEW T
        PROVE  Queued(Pend(a)', T, c) <=> Queued(Pend(a), T, c) \/ (type \in T /\ f = c)
    <3>1. Has(Append(queue[a], e), Asked(T, c)) <=> Has(queue[a], Asked(T, c)) \/ e \in Asked(T, c)
      BY <1>2, AppendHas
    <3>2. QED
      BY <1>2, <1>4, <1>6, <2>1, <3>1, Zenon DEF Queued
  <2>3. QueuedOnce(Pend(a)', c) <=>
          QueuedOnce(Pend(a), c) /\ (f = c => ~Queued(Pend(a), DemandReq, c))
    <3> PICK M : M = Asked(DemandReq, c)
      OBVIOUS
    <3>1. NotThen(Append(queue[a], e), M, M) <=> NotThen(queue[a], M, M) /\ (e \in M => ~Has(queue[a], M))
      BY <1>2, AppendNotThen
    <3>2. e \in M <=> f = c
      BY <2>1
    <3>3. QED
      BY <1>2, <1>4, <1>6, <3>1, <3>2, Zenon DEF Queued, QueuedOnce
  <2>4. QED
    BY <2>2, <2>3
<1>10. PairInv(a, f)'
  BY <1>2, <1>7, <1>8, <1>9, RequestQueued, Zenon DEF LineInv
<1>11. ASSUME NEW c \in Core, c # f PROVE PairInv(a, c)'
  <2>1. SameView(a, c)
    BY <1>8, <1>9, <1>11 DEF SameView
  <2>2. SamePair(a, c)
    BY <1>2, <1>7, <1>11 DEF SamePair
  <2>3. QED
    BY <1>2, <2>1, <2>2, PairSeen, Zenon DEF LineInv
<1>12. present \subseteq Claimed(a)
  BY DEF Claimed
<1>13. Entry(a)'
  BY <1>2, <1>12, Zenon DEF LineInv, Entry
<1>14. DataWait(a)' /\ (HeadWaits(a)' <=> HeadWaits(a))
  <2>1. OnlyHeadStarved(Pend(a)')
    <3>1. e \notin Starved
      BY <1>3 DEF Starved
    <3>2. NotThen(queue[a], Request, Starved)
      BY <1>2, Zenon DEF LineInv, DataWait, OnlyHeadStarved
    <3>3. NotThen(Append(queue[a], e), Request, Starved)
      BY <1>2, <1>3, <3>1, <3>2, AppendNotThen, Zenon
    <3>4. QED
      BY <1>4, <1>6, <3>3, Zenon DEF OnlyHeadStarved
  <2>2. HeadWaits(a)' <=> HeadWaits(a)
    BY <1>2, <1>3, <1>6, Zenon DEF HeadWaits
  <2>3. ASSUME HeadWaits(a)
        PROVE  LET r == Head(Pend(a)) IN ~Sent(inbox', GivesUp, a, r.from)
    <3>1. Head(Pend(a)).from \in Core /\ ~Sent(inbox, GivesUp, a, Head(Pend(a)).from)
      BY <1>2, <2>3, PendOK, Zenon DEF LineInv, DataWait, HeadWaits
    <3>2. CASE Head(Pend(a)).from = f
      <4>1. ~Sent(inbox, GivesUp, a, f)
        BY <3>1, <3>2
      <4>2. ~Sent(inbox', GivesUp, a, f)
        BY <1>2, <4>1, Zenon DEF HomeTakes
      <4>3. QED
        BY <3>2, <4>2
    <3>3. CASE Head(Pend(a)).from # f
      BY <1>2, <3>1, <3>3, Zenon DEF SameMail, SameMailAbout
    <3>4. QED
      BY <3>2, <3>3
  <2>4. HeadWaits(a) => Parked(a)' /\ Head(Pend(a)') = Head(Pend(a))
    BY <1>2, <1>6, Zenon DEF HeadWaits
  <2>5. DataWait(a)'
    BY <1>2, <2>1, <2>2, <2>3, <2>4, Zenon DEF LineInv, DataWait, IsOwner
  <2>6. QED
    BY <2>2, <2>5
<1>15. DramRequest(a)'
  BY <1>2, <1>14, ReadsStay, Zenon
<1>16. WorksOn(a)
  BY <1>1, <1>2, <1>5, Zenon DEF WorksOn
<1>17. OthersStay(a)
  BY <1>2, <1>4, <1>12, Zenon DEF OthersStay
<1>18. SafeLines'
  BY <1>2, <1>10, <1>11, <1>13, <1>14, <1>15, <1>16, <1>17, OneLine, Zenon DEF LineInv
<1>19. Joins(h, a, f, type)
  <2>1. /\ queue[a] = <<>> => /\ ~Parked(a)' /\ net'[h].data = "none"
                              /\ Head(queue'[a]) = NewRequest(type, f)
        /\ queue[a] # <<>> => Parked(a)' /\ Head(queue'[a]) = Head(queue[a])
        /\ Pend(a)' = queue'[a] /\ queue'[a] # <<>>
    BY <1>5, <1>6, Zenon
  <2>2. \A T, c : Queued(Pend(a)', T, c) <=> Queued(Pend(a), T, c) \/ (type \in T /\ f = c)
    BY <1>9
  <2>3. QED
    BY <1>2, <1>16, <1>17, <1>18, <2>1, <2>2, Zenon DEF Joins
<1>20. QED
  BY <1>19

LEMMA TakeRequestSafe == ASSUME IInv, SafeLines, NEW h \in Core, TakeRequest(h) PROVE SafeLines'
<1> PICK a, f : a = Head(inbox[h]).addr /\ f = Head(inbox[h]).from
  OBVIOUS
<1>1. \E type \in DemandReq : Joins(h, a, f, type)
  BY TakeRequestJoins
<1>2. QED
  BY <1>1 DEF Joins


\* An answer of another cache makes the directory forget nothing of cache c.
Outlives(a, c) ==
  /\ c \in dir[a].sharers => c \in dir'[a].sharers
  /\ ~IsOwner(a, c)
  /\ WbLive(a, c)' <=> WbLive(a, c)
  /\ FlushLive(a, c) => FlushLive(a, c)'

\* What is known of cache c outlives an answer of another cache.
LEMMA PairOutlives ==
  ASSUME NEW a \in Addr, NEW c \in Core, PairInv(a, c), SamePair(a, c), Outlives(a, c),
         SameRequests(Pend(a)', Pend(a))
  PROVE  PairInv(a, c)'
<1>1. llc'[c][a] = llc[c][a] /\ (Awaited(c, a)' <=> Awaited(c, a))
  BY DEF SamePair
<1>2. \A T, U : SameMailAbout(inbox', inbox, a, c, T, U)
  BY DEF SamePair, SameMail
<1>3. /\ \A T : Queued(Pend(a)', T, c) <=> Queued(Pend(a), T, c)
      /\ QueuedOnce(Pend(a)', c) <=> QueuedOnce(Pend(a), c)
  BY DEF SameRequests
<1>4. \A T : Outstanding(T, a, c)' <=> Outstanding(T, a, c)
  BY <1>2, <1>3 DEF Outstanding, SameMailAbout
<1>5. OneRequest(a, c)'
  BY <1>1, <1>2, <1>3, <1>4 DEF PairInv, OneRequest, SameMailAbout
<1>6. StateFits(a, c)' /\ Known(a, c)' /\ GivenUp(a, c)'
  BY <1>1, <1>2, <1>3, <1>4 DEF PairInv, StateFits, Known, GivenUp, SameMailAbout, Outlives
<1>7. FlushAnswer(a, c)'
  BY <1>2, <1>4 DEF PairInv, FlushAnswer, SameMailAbout, Outlives
<1>8. Ownership(a, c)'
  BY <1>1, <1>2 DEF PairInv, Ownership, IsOwner, Owned, SameMailAbout, Outlives
<1>9. WbAnswer(a, c)' /\ WbCommand(a, c)'
  BY <1>1, <1>2 DEF PairInv, WbAnswer, WbCommand, SameMailAbout, Outlives
<1>10. FlushCommand(a, c)'
  BY <1>1, <1>2, NoneThen DEF PairInv, FlushCommand, SameMailAbout, Outlives
<1>11. QED
  BY <1>5, <1>6, <1>7, <1>8, <1>9, <1>10 DEF PairInv

\* Cache s has given the line up, and the directory learns it.
LEMMA PairGone ==
  ASSUME NEW a \in Addr, NEW s \in Core, PairInv(a, s), ~Got(inbox, DirReply, a, s),
         NEW type \in GivesUp, HomeTakes(inbox', inbox, type, a, s),
         SameRequests(Pend(a)', Pend(a)), llc' = llc, Awaited(s, a)' <=> Awaited(s, a)
  PROVE  PairInv(a, s)'
<1>1. Sent(inbox, GivesUp, a, s)
  BY DEF HomeTakes
<1>2. /\ llc[s][a] = "INVALID" /\ ~Got(inbox, Grant, a, s)
      /\ ~Got(inbox, ExGrantRep, a, s) /\ ~Got(inbox, UpgradeRep, a, s)
  BY <1>1, KindsHeld DEF PairInv, GivenUp
<1>3. /\ type \notin DemandReq /\ type \notin LineReq /\ type \notin UpgradeReq
      /\ type \notin WbRep
  BY Kinds
<1>4. /\ \A T \in {DemandReq, LineReq, UpgradeReq} : Sent(inbox', T, a, s) <=> Sent(inbox, T, a, s)
      /\ \A T, U : SentNotThen(inbox, T, U, a, s) => SentNotThen(inbox', T, U, a, s)
      /\ \A T : Got(inbox', T, a, s) <=> Got(inbox, T, a, s)
      /\ SentNotThen(inbox, GivesUp, GivesUp, a, s) => ~Sent(inbox', GivesUp, a, s)
      /\ SentNotThen(inbox, GivesUp, WbRep, a, s) => ~Sent(inbox', WbRep, a, s)
  BY <1>3 DEF HomeTakes
<1>5. ~Sent(inbox', GivesUp, a, s) /\ ~Sent(inbox', WbRep, a, s) /\ ~Sent(inbox', FlushRep, a, s)
  BY <1>4, KindsHeld DEF PairInv, GivenUp, WbAnswer
<1>6. /\ \A T : Queued(Pend(a)', T, s) <=> Queued(Pend(a), T, s)
      /\ QueuedOnce(Pend(a)', s) <=> QueuedOnce(Pend(a), s)
  BY DEF SameRequests
<1>7. \A T \in {DemandReq, LineReq, UpgradeReq} : Outstanding(T, a, s)' <=> Outstanding(T, a, s)
  BY <1>4, <1>6 DEF Outstanding
<1>8. OneRequest(a, s)'
  BY <1>4, <1>6, <1>7, NoneThen DEF PairInv, OneRequest
<1>9. StateFits(a, s)' /\ Known(a, s)' /\ GivenUp(a, s)'
  BY <1>2, <1>4, <1>5, <1>7, NoneThen DEF StateFits, Known, GivenUp
<1>10. FlushAnswer(a, s)' /\ Ownership(a, s)' /\ WbAnswer(a, s)'
  BY <1>2, <1>4, <1>5, NoneThen DEF FlushAnswer, Ownership, WbAnswer
<1>11. WbCommand(a, s)' /\ FlushCommand(a, s)'
  BY <1>2, <1>4, NoneThen DEF WbCommand, FlushCommand
<1>12. QED
  BY <1>8, <1>9, <1>10, <1>11 DEF PairInv

\* Cache s has written the line back, as the reader waited for it to do.
LEMMA PairWroteBack ==
  ASSUME NEW a \in Addr, NEW s \in Core, PairInv(a, s), ~FlushLive(a, s), ~Parked(a)',
         NEW type \in WbRep, HomeTakes(inbox', inbox, type, a, s),
         dir'[a].sharers = dir[a].sharers,
         SameRequests(Pend(a)', Pend(a)), llc' = llc, Awaited(s, a)' <=> Awaited(s, a)
  PROVE  PairInv(a, s)'
<1>1. Sent(inbox, WbRep, a, s)
  BY DEF HomeTakes
<1>2. /\ llc[s][a] \notin {"EXCLUSIVE", "MODIFIED"}
      /\ ~Got(inbox, DirReply, a, s) /\ ~Got(inbox, Grant, a, s)
      /\ ~Got(inbox, ExGrantRep, a, s) /\ ~Got(inbox, UpgradeRep, a, s)
      /\ ~Sent(inbox, FlushRep, a, s)
      /\ llc[s][a] # "INVALID" => ~Got(inbox, WbCmd, a, s)
  BY <1>1, KindsHeld DEF PairInv, WbAnswer
<1>3. type \notin DemandReq /\ type \notin LineReq /\ type \notin UpgradeReq /\ type \notin GivesUp
  BY Kinds
<1>4. /\ \A T \in {DemandReq, LineReq, UpgradeReq, GivesUp} :
           Sent(inbox', T, a, s) <=> Sent(inbox, T, a, s)
      /\ \A T, U : SentNotThen(inbox, T, U, a, s) => SentNotThen(inbox', T, U, a, s)
      /\ \A T : Got(inbox', T, a, s) <=> Got(inbox, T, a, s)
      /\ \A T, U : GotNotThen(inbox', T, U, a, s) <=> GotNotThen(inbox, T, U, a, s)
      /\ SentNotThen(inbox, WbRep, WbRep, a, s) => ~Sent(inbox', WbRep, a, s)
      /\ Sent(inbox', FlushRep, a, s) => Sent(inbox, FlushRep, a, s)
  BY <1>3 DEF HomeTakes
<1>5. ~Sent(inbox', WbRep, a, s)
  BY <1>4 DEF PairInv, WbAnswer
<1>6. /\ \A T : Queued(Pend(a)', T, s) <=> Queued(Pend(a), T, s)
      /\ QueuedOnce(Pend(a)', s) <=> QueuedOnce(Pend(a), s)
  BY DEF SameRequests
<1>7. \A T \in {DemandReq, LineReq, UpgradeReq} : Outstanding(T, a, s)' <=> Outstanding(T, a, s)
  BY <1>4, <1>6 DEF Outstanding
<1>8. OneRequest(a, s)'
  BY <1>4, <1>6, <1>7 DEF PairInv, OneRequest
<1>9. StateFits(a, s)' /\ Known(a, s)' /\ GivenUp(a, s)'
  BY <1>4, <1>6, <1>7 DEF PairInv, StateFits, Known, GivenUp
<1>10. FlushAnswer(a, s)' /\ Ownership(a, s)' /\ WbAnswer(a, s)'
  BY <1>2, <1>4, <1>5, NoneThen DEF FlushAnswer, Ownership, WbAnswer
<1>11. ~WbLive(a, s)' /\ ~FlushLive(a, s)'
  BY DEF WbLive, FlushLive, Blocked
<1>12. WbCommand(a, s)' /\ FlushCommand(a, s)'
  BY <1>2, <1>4, <1>11, NoneThen DEF PairInv, WbCommand, FlushCommand
<1>13. QED
  BY <1>8, <1>9, <1>10, <1>12 DEF PairInv

\* The home of line a has taken an answer of cache s: the same requests wait.
LEMMA AnswerHandled ==
  ASSUME IInv, SafeLines, NEW a \in Addr, NEW s \in Core, WorksOn(a), OthersStay(a),
         \A c \in Core \ {s} : SameMail(inbox', inbox, a, c),
         \A k \in Core : SameReads(inbox', inbox, a, k),
         SameRequests(Pend(a)', Pend(a)), PairInv(a, s)', Entry(a)',
         \A c \in Core \ {s} : Outlives(a, c),
         HeadWaits(a) => /\ Parked(a)' /\ Head(Pend(a)).from # s
                         /\ Head(Pend(a)).type = "SH_REQ" /\ dir'[a].state = "SHARED"
  PROVE  SafeLines'
<1> DEFINE old == Pend(a)
           new == Pend(a)'
<1>1. LineInv(a)
  BY DEF SafeLines
<1>2. \A b \in Addr, k \in Core : Awaited(k, b)' <=> Awaited(k, b)
  <2>1. DirHome[a] \in Core
    OBVIOUS
  <2>2. QED
    BY <2>1, NoWaiterServed DEF WorksOn, OthersStay
<1>3. ASSUME NEW c \in Core \ {s} PROVE PairInv(a, c)'
  <2>1. SamePair(a, c) /\ Outlives(a, c)
    BY <1>2 DEF SamePair, OthersStay
  <2>2. QED
    BY <1>1, <2>1, PairOutlives DEF LineInv
<1>4. /\ new = <<>> <=> old = <<>>
      /\ OnlyHeadStarved(new) <=> OnlyHeadStarved(old)
      /\ old # <<>> => /\ Head(new).type = Head(old).type
                       /\ Head(new).from = Head(old).from
                       /\ Head(new).waitForData = Head(old).waitForData
      /\ old # <<>> => Head(old).from \in Core
  BY PendOK DEF SameRequests
<1> HIDE DEF old, new
<1>5. HeadWaits(a)' <=> HeadWaits(a)
  BY <1>4 DEF HeadWaits, old, new
<1>6. DataWait(a)'
  <2>1. OnlyHeadStarved(new)
    BY <1>1, <1>4 DEF LineInv, DataWait, old
  <2>2. ASSUME HeadWaits(a)'
        PROVE  /\ Parked(a)'
               /\ Head(new).type \in DemandReq
               /\ Head(new).from \in dir'[a].sharers
               /\ llc'[Head(new).from][a] = "INVALID"
               /\ ~Sent(inbox', GivesUp, a, Head(new).from)
               /\ Head(new).type = "SH_REQ" /\ dir'[a].state = "SHARED"
    <3>1. /\ HeadWaits(a) /\ old # <<>> /\ Parked(a)' /\ Head(old).from # s
          /\ Head(old).type = "SH_REQ" /\ dir'[a].state = "SHARED"
      BY <1>5, <2>2 DEF HeadWaits, old
    <3>2. /\ Head(old).from \in dir[a].sharers
          /\ llc[Head(old).from][a] = "INVALID"
          /\ ~Sent(inbox, GivesUp, a, Head(old).from)
      BY <1>1, <3>1 DEF LineInv, DataWait, old
    <3>3. /\ Outlives(a, Head(old).from)
          /\ SameMail(inbox', inbox, a, Head(old).from)
          /\ llc' = llc
      BY <1>4, <3>1 DEF OthersStay
    <3>4. ~Sent(inbox', GivesUp, a, Head(old).from)
      BY <3>2, <3>3 DEF SameMail, SameMailAbout
    <3>5. "SH_REQ" \in DemandReq
      BY DEF DemandReq
    <3>6. QED
      BY <1>4, <3>1, <3>2, <3>3, <3>4, <3>5 DEF Outlives
  <2>3. QED
    BY <2>1, <2>2 DEF DataWait, new
<1>7. DramRequest(a)'
  BY <1>1, <1>5, ReadsStay
<1>8. \A c \in Core : PairInv(a, c)'
  BY <1>3
<1>9. LineInv(a)'
  BY <1>6, <1>7, <1>8 DEF LineInv
<1>10. QED
  BY <1>9, OneLine

\* What the directory's thread does after an answer: it goes on with the request
\* at the head, or takes the next message.
Resumes(h, a, now) ==
  /\ \A k \in Core \ {h} : net'[k] = net[k]
  /\ now => net'[h].at = "head" /\ net'[h].addr = a
  /\ ~now => net'[h] = net[h]

\* The request at the head is processed now, or waits as before.
LEMMA Resumed ==
  ASSUME IInv, NEW h \in Core, net[h].at = "recv", NEW a \in Addr, DirHome[a] = h,
         NEW now \in BOOLEAN, Resumes(h, a, now), waiters' = waiters
  PROVE  /\ Parked(a)' <=> ~now
         /\ Pend(a) = queue[a] /\ Pend(a)' = queue'[a] /\ Parked(a)
         /\ \A b \in Addr, k \in Core : Awaited(k, b)' <=> Awaited(k, b)
         /\ WorksOn(a)
<1>1. /\ net'[h].at = IF now THEN "head" ELSE "recv"
      /\ now => net'[h].addr = a
      /\ \A k \in Core \ {h} : net'[k] = net[k]
  BY DEF Resumes
<1>2. \A b \in Addr, k \in Core : Awaited(k, b)' <=> Awaited(k, b)
  BY <1>1, NoWaiterServed
<1>3. (Parked(a)' <=> ~now) /\ Pend(a) = queue[a] /\ Pend(a)' = queue'[a] /\ Parked(a)
  BY <1>1 DEF Parked, Pend
<1>4. WorksOn(a)
  BY <1>1 DEF WorksOn
<1>5. QED
  BY <1>2, <1>3, <1>4

\* Directory h has taken an answer of cache s for line a.
Answered(h, a, s, type) ==
  /\ a \in Addr /\ s \in Core /\ DirHome[a] = h /\ llc' = llc
  /\ Parked(a) /\ Pend(a) = queue[a] /\ Pend(a)' = queue'[a] /\ SameRequests(queue'[a], queue[a])
  /\ HomeTakes(inbox', inbox, type, a, s)
  /\ \A c \in Core \ {s} : SameMail(inbox', inbox, a, c)
  /\ WorksOn(a) /\ OthersStay(a) /\ SafeLines'

\* It was the INV_REP of a sharer, and the next request goes on now or does not.
SharerGone(h, a, s, now) ==
  /\ Answered(h, a, s, "INV_REP") /\ queue'[a] = queue[a]
  /\ Parked(a)' <=> ~now
  /\ now => queue[a] # <<>> /\ net'[h].data = "none"
  /\ s \in dir[a].sharers
  /\ dir'[a].sharers = dir[a].sharers \ {s} /\ dir'[a].owner = dir[a].owner
  /\ dir'[a].state = IF dir'[a].sharers = {} THEN "UNCACHED" ELSE dir[a].state
  /\ queue[a] # <<>> /\ Head(queue[a]).type = "SH_REQ" =>
       (now <=> ~Head(queue[a]).waitForData /\ Head(queue[a]).forwardingFrom \in {NoCore, s})
  /\ queue[a] # <<>> /\ Head(queue[a]).type = "UPGRADE_REQ" =>
       (now <=> dir'[a].sharers \subseteq {Head(queue[a]).from})
  /\ queue[a] # <<>> /\ Head(queue[a]).type \in {"EX_REQ", "NULLIFY_REQ"} =>
       (now => dir'[a].state = "UNCACHED")
  /\ HeadWaits(a) => /\ Parked(a)' /\ Head(Pend(a)).from # s
                     /\ Head(Pend(a)).type = "SH_REQ" /\ dir'[a].state = "SHARED"

\* A cache says that it has given the line up without data.
LEMMA TakeInvRepTakes ==
  ASSUME IInv, SafeLines, NEW h \in Core, TakeInvRep(h),
         NEW a, a = Head(inbox[h]).addr, NEW s, s = Head(inbox[h]).from
  PROVE  \E now \in BOOLEAN : SharerGone(h, a, s, now)
<1> PICK m : m = Head(inbox[h]) /\ a = m.addr /\ s = m.from
  OBVIOUS
<1> PICK left : left = dir[a].sharers \ {s}
  OBVIOUS
<1>0. PICK e : e = [dir[a] EXCEPT !.sharers = left,
                                  !.forwarder = IF @ = s THEN NoCore ELSE @,
                                  !.state = IF left = {} THEN "UNCACHED" ELSE @]
  BY Zenon
<1> PICK now \in BOOLEAN : now <=> queue[a] # <<>> /\ InvRepResumes(Head(queue[a]), e, s)
  OBVIOUS
<1>1. /\ net[h].at = "recv" /\ inbox[h] # <<>> /\ m.type = "INV_REP"
      /\ dir[a].state \in {"SHARED", "EXCLUSIVE"} /\ s \in dir[a].sharers
      /\ present' = Claimed(a) /\ dir' = [dir EXCEPT ![a] = e] /\ inbox' = Rest(h)
      /\ now => GoTo(h, "head", a, "none")
      /\ ~now => net' = net
      /\ llc' = llc /\ waiters' = waiters /\ replaced' = replaced /\ queue' = queue
  BY <1>0, Zenon DEF TakeInvRep, InvRepIsExpected, Received, cacheVars
<1>2. m.type \in GivesUp /\ AnswersOf(h, m, a, s)
  BY <1>1, Kinds DEF AnswersOf
<1>3. /\ a \in Addr /\ DirHome[a] = h /\ s \in Core /\ LineInv(a)
      /\ HomeTakes(inbox', inbox, m.type, a, s)
      /\ \A c \in Core \ {s} : SameMail(inbox', inbox, a, c)
      /\ \A b \in Addr \ {a}, c \in Core : SameMail(inbox', inbox, b, c)
      /\ \A b \in Addr, c \in Core : SameReads(inbox', inbox, b, c)
  <2>1. inbox' = Rest(h)
    BY <1>1
  <2>2. QED
    BY <1>2, <2>1, AnswerOf
<1>4. /\ dir'[a].sharers = left /\ dir'[a].owner = dir[a].owner
      /\ left = {} => dir'[a].state = "UNCACHED"
      /\ left # {} => dir'[a].state = dir[a].state
      /\ \A b \in Addr \ {a} : dir'[b] = dir[b]
  <2>1. dir[a] \in DirEntry /\ dir \in [Addr -> DirEntry]
    BY <1>3 DEF IInv, TypeOK
  <2>2. dir'[a] = e /\ \A b \in Addr \ {a} : dir'[b] = dir[b]
    BY <1>1, <1>3, <2>1
  <2>3. e.sharers = left /\ e.owner = dir[a].owner /\ e.state = IF left = {} THEN "UNCACHED" ELSE dir[a].state
    BY <1>0, <2>1, Zenon DEF DirEntry
  <2>4. QED
    BY <2>2, <2>3, Zenon
<1>5. Resumes(h, a, now)
  <2>1. CASE now
    <3>1. GoTo(h, "head", a, "none")
      BY <1>1, <2>1
    <3>2. QED
      BY <2>1, <3>1 DEF Resumes, GoTo, IInv, TypeOK
  <2>2. CASE ~now
    BY <1>1, <2>2 DEF Resumes
  <2>3. QED
    BY <2>1, <2>2
<1>6. /\ Parked(a)' <=> ~now
      /\ Pend(a) = queue[a] /\ Pend(a)' = queue[a] /\ Parked(a)
      /\ \A b \in Addr, k \in Core : Awaited(k, b)' <=> Awaited(k, b)
      /\ WorksOn(a)
  BY <1>1, <1>3, <1>5, Resumed
<1>7. SameRequests(Pend(a)', Pend(a))
  BY <1>6, SameQueue
<1>8. /\ queue[a] # <<>> /\ Head(queue[a]).type = "SH_REQ" =>
           (now <=> ~Head(queue[a]).waitForData /\ Head(queue[a]).forwardingFrom \in {NoCore, s})
      /\ queue[a] # <<>> /\ Head(queue[a]).type = "UPGRADE_REQ" =>
           (now <=> left \subseteq {Head(queue[a]).from})
  <2>1. dir[a] \in DirEntry
    BY <1>3 DEF IInv, TypeOK
  <2>2. e.sharers = left
    BY <1>0, <2>1, Zenon DEF DirEntry
  <2>3. QED
    BY <2>2, Zenon DEF InvRepResumes
<1>9. PairInv(a, s)'
  <2>1. PairInv(a, s) /\ Sent(inbox, GivesUp, a, s)
    BY <1>2, <1>3, Zenon DEF LineInv, HomeTakes
  <2>2. ~Got(inbox, Grant, a, s) /\ ~Got(inbox, UpgradeRep, a, s)
    BY <1>1, <2>1, Zenon DEF PairInv, GivenUp, Ownership
  <2>3. QED
    BY <1>1, <1>2, <1>3, <1>6, <1>7, <2>1, <2>2, KindsHeld, PairGone, Zenon
<1>10. dir[a].state \in Owned => dir[a].sharers = {s} /\ dir[a].owner = s /\ left = {}
  BY <1>1, <1>3, Zenon DEF LineInv, Entry
<1>11. ASSUME NEW c \in Core \ {s} PROVE Outlives(a, c)
  <2>1. ~IsOwner(a, c) /\ ~IsOwner(a, c)'
    BY <1>4, <1>10, Zenon DEF IsOwner, Owned
  <2>2. c \in dir[a].sharers <=> c \in dir'[a].sharers
    BY <1>4
  <2>3. c \in dir[a].sharers => left # {} /\ dir[a].state = "SHARED" /\ dir'[a].state = "SHARED"
    BY <1>1, <1>4, <1>10, Zenon DEF Owned
  <2>4. Blocked(a, {"SH_REQ"}) /\ Head(queue[a]).forwardingFrom = c => Blocked(a, {"SH_REQ"})'
    <3>1. c # NoCore
      BY CoreAssumption DEF NoCore
    <3>2. QED
      BY <1>6, <1>8, <3>1, Zenon DEF Blocked
  <2>5. \A types : Blocked(a, types)' => Blocked(a, types)
    BY <1>6 DEF Blocked
  <2>6. WbLive(a, c)' <=> WbLive(a, c)
    BY <1>6, <2>1, <2>2, <2>3, <2>4, <2>5, Zenon DEF WbLive
  <2>7. FlushLive(a, c) => FlushLive(a, c)'
    <3>1. SUFFICES ASSUME FlushLive(a, c) PROVE FlushLive(a, c)'
      OBVIOUS
    <3>2. /\ c \in dir[a].sharers /\ dir[a].state = "SHARED" /\ dir'[a].state = "SHARED"
          /\ queue[a] # <<>> /\ Head(queue[a]).type = "UPGRADE_REQ"
          /\ Head(queue[a]).from \notin dir[a].sharers
          /\ ~Head(queue[a]).waitForData
      BY <1>6, <2>3, <3>1, Zenon DEF FlushLive, Blocked, Owned
    <3>3. c \in left /\ c # Head(queue[a]).from
      BY <3>2
    <3>4. ~now
      BY <1>8, <3>2, <3>3, Zenon
    <3>5. QED
      BY <1>4, <1>6, <2>2, <3>2, <3>4, Zenon DEF FlushLive, Blocked
  <2>8. QED
    BY <2>1, <2>2, <2>6, <2>7 DEF Outlives
<1>12. present \subseteq Claimed(a)
  BY DEF Claimed
<1>13. Entry(a)'
  BY <1>1, <1>3, <1>4, <1>10, <1>12, Zenon DEF LineInv, Entry, Owned
<1>14. OthersStay(a)
  BY <1>1, <1>3, <1>4, <1>12, Zenon DEF OthersStay
<1>15. HeadWaits(a) => /\ Parked(a)' /\ Head(Pend(a)).from # s
                       /\ Head(Pend(a)).type = "SH_REQ" /\ dir'[a].state = "SHARED"
  <2>1. SUFFICES ASSUME HeadWaits(a)
                 PROVE  /\ Parked(a)' /\ Head(Pend(a)).from # s
                        /\ Head(Pend(a)).type = "SH_REQ" /\ dir'[a].state = "SHARED"
    OBVIOUS
  <2>2. /\ Head(queue[a]).from \in dir[a].sharers
        /\ ~Sent(inbox, GivesUp, a, Head(queue[a]).from)
        /\ ~(Head(queue[a]).type = "SH_REQ" /\ dir[a].state = "SHARED") =>
             IsOwner(a, Head(queue[a]).from)
        /\ queue[a] # <<>> /\ Head(queue[a]).waitForData
    BY <1>3, <1>6, <2>1, Zenon DEF LineInv, DataWait, HeadWaits
  <2>3. Head(queue[a]).from # s
    <3>1. Sent(inbox, GivesUp, a, s)
      BY <1>2, <1>3 DEF HomeTakes
    <3>2. QED
      BY <2>2, <3>1, Zenon
  <2>4. Head(queue[a]).type = "SH_REQ" /\ dir[a].state = "SHARED" /\ left # {}
    BY <1>10, <2>2, <2>3, Zenon DEF IsOwner
  <2>5. QED
    BY <1>4, <1>6, <1>8, <2>2, <2>3, <2>4, Zenon
<1>16. SafeLines'
  BY <1>3, <1>6, <1>7, <1>9, <1>11, <1>13, <1>14, <1>15, AnswerHandled, Zenon
<1>17. Answered(h, a, s, "INV_REP")
  <2>1. Pend(a)' = queue'[a] /\ SameRequests(queue'[a], queue[a])
    BY <1>1, <1>6, <1>7
  <2>2. QED
    BY <1>1, <1>3, <1>6, <1>14, <1>16, <2>1, Zenon DEF Answered
<1>18. /\ now => net'[h].data = "none"
       /\ queue[a] # <<>> /\ Head(queue[a]).type \in {"EX_REQ", "NULLIFY_REQ"} =>
            (now => dir'[a].state = "UNCACHED")
  <2>1. now => net'[h].data = "none"
    BY <1>1 DEF GoTo, IInv, TypeOK
  <2>2. dir'[a] = e
    BY <1>1, <1>3 DEF IInv, TypeOK
  <2>3. ASSUME queue[a] # <<>>, Head(queue[a]).type \in {"EX_REQ", "NULLIFY_REQ"}, now
        PROVE  e.state = "UNCACHED"
    BY <2>3 DEF InvRepResumes
  <2>4. QED
    BY <2>1, <2>2, <2>3
<1>19. /\ dir'[a].state = IF dir'[a].sharers = {} THEN "UNCACHED" ELSE dir[a].state
       /\ queue'[a] = queue[a]
  BY <1>1, <1>4
<1>20. SharerGone(h, a, s, now)
  BY <1>1, <1>4, <1>6, <1>8, <1>15, <1>17, <1>18, <1>19, Zenon DEF SharerGone
<1>21. QED
  BY <1>20

LEMMA TakeInvRepSafe == ASSUME IInv, SafeLines, NEW h \in Core, TakeInvRep(h) PROVE SafeLines'
<1> PICK a, s : a = Head(inbox[h]).addr /\ s = Head(inbox[h]).from
  OBVIOUS
<1>1. \E now \in BOOLEAN : SharerGone(h, a, s, now)
  BY TakeInvRepTakes
<1>2. QED
  BY <1>1 DEF SharerGone, Answered

\* It was the FLUSH_REP of the owner, or of a sharer an upgrade waits for.
FlushTaken(h, a, s, now) ==
  /\ Answered(h, a, s, "FLUSH_REP")
  /\ Parked(a)' <=> ~now
  /\ dir'[a].sharers = dir[a].sharers \ {s} /\ dir'[a].owner = NoCore
  /\ dir'[a].state = IF dir'[a].sharers = {} THEN "UNCACHED" ELSE dir[a].state
  /\ dir'[a].sharers # {} => /\ dir[a].state = "SHARED" /\ ~now
                             /\ queue[a] # <<>> /\ Head(queue[a]).type = "UPGRADE_REQ"
                             /\ Head(queue[a]).from \notin dir[a].sharers
  /\ ~HeadWaits(a)

\* A cache gives the line up with its data: the owner, or the sharer that an
\* upgrade of a cache without the line asked for it.
LEMMA TakeFlushRepTakes ==
  ASSUME IInv, SafeLines, NEW h \in Core, TakeFlushRep(h),
         NEW a, a = Head(inbox[h]).addr, NEW s, s = Head(inbox[h]).from
  PROVE  \E now \in BOOLEAN : FlushTaken(h, a, s, now)
<1> PICK m : m = Head(inbox[h]) /\ a = m.addr /\ s = m.from
  OBVIOUS
<1> PICK left : left = dir[a].sharers \ {s}
  OBVIOUS
<1>0. PICK e : e = [dir[a] EXCEPT !.sharers = left, !.owner = NoCore, !.forwarder = NoCore,
                                  !.state = IF left = {} THEN "UNCACHED" ELSE @]
  BY Zenon
<1> PICK now \in BOOLEAN : now <=> Waits(a) # "none" /\ ~(Waits(a) = "UPGRADE_REQ" /\ left # {})
  OBVIOUS
<1>1. /\ net[h].at = "recv" /\ inbox[h] # <<>> /\ m.type = "FLUSH_REP" /\ s \in dir[a].sharers
      /\ present' = Claimed(a) /\ dir' = [dir EXCEPT ![a] = e]
      /\ inbox' = ToDram(Rest(h), m, h) \/ inbox' = Rest(h)
      /\ llc' = llc /\ waiters' = waiters /\ replaced' = replaced
  BY <1>0, Zenon DEF TakeFlushRep, FlushRepIsExpected, Received, cacheVars
<1>2. /\ now => \E data \in {"none", m.data} : GoTo(h, "head", a, data)
      /\ ~now => net' = net
      /\ \/ queue' = queue
         \/ queue[a] # <<>> /\ queue' = [queue EXCEPT ![a][1].data = m.data]
  BY Zenon DEF TakeFlushRep, Waits
<1>3. m.type \in GivesUp /\ m.type \in FlushRep /\ AnswersOf(h, m, a, s)
  BY <1>1, Kinds DEF AnswersOf
<1>4. /\ a \in Addr /\ DirHome[a] = h /\ s \in Core /\ LineInv(a)
      /\ queue[a] \in Seq(Request)
      /\ HomeTakes(Rest(h), inbox, m.type, a, s)
      /\ \A c \in Core \ {s} : SameMail(Rest(h), inbox, a, c)
      /\ \A b \in Addr \ {a}, c \in Core : SameMail(Rest(h), inbox, b, c)
      /\ \A b \in Addr, c \in Core : SameReads(Rest(h), inbox, b, c)
  BY <1>3, AnswerOf
<1>5. m.data \in Data /\ InboxOK(Rest(h))
  BY <1>1, HeadOK, RestOK DEF IInv
<1>6. \A b \in Addr, c \in Core : SameMail(inbox', Rest(h), b, c) /\ SameReads(inbox', Rest(h), b, c)
  <2>1. CASE inbox' = ToDram(Rest(h), m, h)
    <3>1. /\ "DRAM_WRITE_REQ" \in MsgType /\ "DRAM_WRITE_REQ" \notin FromCache
          /\ "DRAM_WRITE_REQ" \notin ToCache
          /\ "DRAM_WRITE_REQ" \notin {"DRAM_READ_REQ", "DRAM_READ_REP"}
      BY Kinds DEF MsgType, DramMsg
    <3>2. inbox' = Deliver(Rest(h), Msg("DRAM_WRITE_REQ", a, h, m.data), {DramHome[a]})
      BY <2>1 DEF ToDram
    <3>3. Posted(inbox', Rest(h), "DRAM_WRITE_REQ", a, h, {DramHome[a]})
      BY <1>4, <1>5, <3>1, <3>2, DeliverPosts
    <3>4. QED
      BY <3>1, <3>3, PostedElsewhere, PostedNoRead
  <2>2. CASE inbox' = Rest(h)
    BY <2>2 DEF SameMail, SameMailAbout, SameReads
  <2>3. QED
    BY <1>1, <2>1, <2>2
<1>7. /\ HomeTakes(inbox', inbox, m.type, a, s)
      /\ \A c \in Core \ {s} : SameMail(inbox', inbox, a, c)
      /\ \A b \in Addr \ {a}, c \in Core : SameMail(inbox', inbox, b, c)
      /\ \A b \in Addr, c \in Core : SameReads(inbox', inbox, b, c)
  <2>1. HomeTakes(inbox', inbox, m.type, a, s)
    <3>1. \A T, U : SameMailAbout(inbox', Rest(h), a, s, T, U)
      BY <1>4, <1>6 DEF SameMail
    <3>2. QED
      BY <1>4, <3>1, Zenon DEF HomeTakes, SameMailAbout
  <2>2. \A b \in Addr, c \in Core : SameReads(inbox', inbox, b, c)
    BY <1>4, <1>6 DEF SameReads
  <2>3. QED
    BY <1>4, <1>6, <2>1, <2>2, SameMailTrans
<1>8. /\ dir'[a].sharers = left /\ dir'[a].owner = NoCore
      /\ left = {} => dir'[a].state = "UNCACHED"
      /\ left # {} => dir'[a].state = dir[a].state
      /\ \A b \in Addr \ {a} : dir'[b] = dir[b]
  <2>1. dir[a] \in DirEntry /\ dir \in [Addr -> DirEntry]
    BY <1>4 DEF IInv, TypeOK
  <2>2. dir'[a] = e /\ \A b \in Addr \ {a} : dir'[b] = dir[b]
    BY <1>1, <1>4, <2>1
  <2>3. e.sharers = left /\ e.owner = NoCore /\ e.state = IF left = {} THEN "UNCACHED" ELSE dir[a].state
    BY <1>0, <2>1, Zenon DEF DirEntry
  <2>4. QED
    BY <2>2, <2>3, Zenon
<1>9. Resumes(h, a, now)
  <2>1. ASSUME NEW data, GoTo(h, "head", a, data), now PROVE Resumes(h, a, now)
    BY <1>4, <2>1 DEF Resumes, GoTo, IInv, TypeOK
  <2>2. CASE ~now
    BY <1>2, <2>2 DEF Resumes
  <2>3. QED
    BY <1>2, <2>1, <2>2
<1>10. /\ Parked(a)' <=> ~now
       /\ Pend(a) = queue[a] /\ Pend(a)' = queue'[a] /\ Parked(a)
       /\ \A b \in Addr, k \in Core : Awaited(k, b)' <=> Awaited(k, b)
       /\ WorksOn(a)
  BY <1>1, <1>4, <1>9, Resumed
<1>11. SameRequests(queue'[a], queue[a]) /\ \A b \in Addr \ {a} : queue'[b] = queue[b]
  <2>1. CASE queue' = queue
    BY <2>1, SameQueue
  <2>2. CASE queue[a] # <<>> /\ queue' = [queue EXCEPT ![a][1].data = m.data]
    <3>1. Head(queue[a]) = queue[a][1] /\ Head(queue[a]) \in Request /\ 1 \in DOMAIN queue[a]
      BY <1>4, <2>2, EmptySeq, LenProperties, HeadTailProperties
    <3>2. PICK r : r = [Head(queue[a]) EXCEPT !.data = m.data]
      OBVIOUS
    <3>3. r \in Request /\ SameRequest(r, Head(queue[a]))
      BY <1>5, <3>1, <3>2, Zenon DEF Request, SameRequest
    <3>4. HeadBecomes(a, r)
      BY <2>2, <3>1, <3>2, Zenon DEF HeadBecomes
    <3>5. Noted(queue'[a], queue[a], r) /\ \A b \in Addr \ {a} : queue'[b] = queue[b]
      <4>1. r \in Request /\ r.type = Head(queue[a]).type /\ r.from = Head(queue[a]).from
        BY <3>3 DEF SameRequest
      <4>2. QED
        BY <1>4, <2>2, <3>4, <4>1, QueueNoted, Zenon
    <3>6. QED
      BY <2>2, <3>3, <3>5, Zenon DEF Noted, SameRequests, SameRequest
  <2>3. QED
    BY <1>2, <2>1, <2>2
<1>12. SameRequests(Pend(a)', Pend(a))
  BY <1>10, <1>11
<1>13. Sent(inbox, FlushRep, a, s) /\ Sent(inbox, GivesUp, a, s)
  BY <1>3, <1>4 DEF HomeTakes
<1>14. /\ ~Got(inbox, DirReply, a, s)
       /\ FlushLive(a, s) \/ IsOwner(a, s)
  BY <1>4, <1>13 DEF LineInv, PairInv, FlushAnswer
<1>15. PairInv(a, s)'
  BY <1>1, <1>3, <1>4, <1>7, <1>10, <1>12, <1>14, PairGone, Zenon DEF LineInv
<1>16. /\ dir[a].state \in Owned => dir[a].sharers = {s} /\ left = {}
       /\ left # {} => /\ dir[a].state = "SHARED" /\ FlushLive(a, s)
                       /\ queue[a] # <<>> /\ Head(queue[a]).type = "UPGRADE_REQ"
                       /\ ~now
  <2>1. dir[a].state \in Owned => dir[a].sharers = {s} /\ left = {}
    BY <1>1, <1>4, Zenon DEF LineInv, Entry
  <2>2. ASSUME left # {}
        PROVE  /\ dir[a].state = "SHARED" /\ FlushLive(a, s)
               /\ queue[a] # <<>> /\ Head(queue[a]).type = "UPGRADE_REQ"
    BY <1>10, <1>14, <2>1, <2>2, Zenon DEF IsOwner, FlushLive, Blocked
  <2>3. left # {} => ~now
    BY <2>2 DEF Waits
  <2>4. QED
    BY <2>1, <2>2, <2>3
<1>17. ASSUME NEW c \in Core \ {s} PROVE Outlives(a, c)
  <2>1. ~IsOwner(a, c) /\ ~IsOwner(a, c)'
    <3>1. c # NoCore
      BY CoreAssumption DEF NoCore
    <3>2. IsOwner(a, c) => c \in dir[a].sharers /\ dir[a].sharers = {s}
      BY <1>4, <1>16, Zenon DEF LineInv, Entry, IsOwner
    <3>3. QED
      BY <1>8, <3>1, <3>2 DEF IsOwner
  <2>2. c \in dir[a].sharers <=> c \in dir'[a].sharers
    BY <1>8
  <2>3. ~WbLive(a, c) /\ ~WbLive(a, c)'
    <3>1. CASE FlushLive(a, s)
      <4>1. queue[a] # <<>> /\ Head(queue[a]).type # "SH_REQ" /\ Head(queue'[a]).type # "SH_REQ"
        BY <1>10, <1>11, <3>1, Zenon DEF FlushLive, Blocked, SameRequests
      <4>2. QED
        BY <1>10, <4>1, Zenon DEF WbLive, Blocked
    <3>2. CASE IsOwner(a, s)
      <4>1. dir[a].state # "SHARED" /\ dir'[a].state = "UNCACHED"
        BY <1>8, <1>16, <3>2 DEF IsOwner, Owned
      <4>2. QED
        BY <2>1, <4>1 DEF WbLive
    <3>3. QED
      BY <1>14, <3>1, <3>2
  <2>4. FlushLive(a, c) => FlushLive(a, c)'
    <3>1. SUFFICES ASSUME FlushLive(a, c) PROVE FlushLive(a, c)'
      OBVIOUS
    <3>2. c \in dir[a].sharers /\ c \in dir'[a].sharers /\ left # {}
      BY <1>8, <2>2, <3>1, Zenon DEF FlushLive
    <3>3. /\ dir[a].state = "SHARED" /\ dir'[a].state = "SHARED" /\ Parked(a)'
          /\ queue[a] # <<>> /\ Head(queue[a]).type = "UPGRADE_REQ"
      BY <1>8, <1>10, <1>16, <3>2, Zenon
    <3>4. Head(queue[a]).from \notin dir[a].sharers /\ ~Head(queue[a]).waitForData
      BY <1>10, <3>1, <3>3, Zenon DEF FlushLive, Blocked, Owned
    <3>5. /\ queue'[a] # <<>> /\ Head(queue'[a]).type = "UPGRADE_REQ"
          /\ Head(queue'[a]).from \notin dir'[a].sharers /\ ~Head(queue'[a]).waitForData
      BY <1>8, <1>11, <3>3, <3>4, Zenon DEF SameRequests
    <3>6. QED
      BY <1>10, <3>2, <3>3, <3>5, Zenon DEF FlushLive, Blocked
  <2>5. QED
    BY <2>1, <2>2, <2>3, <2>4 DEF Outlives
<1>18. present \subseteq Claimed(a)
  BY DEF Claimed
<1>19. Entry(a)'
  BY <1>1, <1>4, <1>8, <1>16, <1>18, Zenon DEF LineInv, Entry, Owned
<1>20. OthersStay(a)
  BY <1>1, <1>7, <1>8, <1>11, <1>18, Zenon DEF OthersStay
<1>21. ~HeadWaits(a)
  <2>1. SUFFICES ASSUME HeadWaits(a) PROVE FALSE
    OBVIOUS
  <2>2. ~FlushLive(a, s)
    BY <2>1 DEF HeadWaits, FlushLive, Blocked
  <2>3. IsOwner(a, s) /\ dir[a].sharers = {s}
    BY <1>14, <1>16, <2>2, Zenon DEF IsOwner
  <2>4. /\ Head(Pend(a)).from \in dir[a].sharers
        /\ ~Sent(inbox, GivesUp, a, Head(Pend(a)).from)
    BY <1>4, <2>1, Zenon DEF LineInv, DataWait
  <2>5. QED
    BY <1>13, <2>3, <2>4
<1>22. SafeLines'
  BY <1>4, <1>7, <1>10, <1>12, <1>15, <1>17, <1>19, <1>20, <1>21, AnswerHandled, Zenon
<1>23. Answered(h, a, s, "FLUSH_REP")
  <2>1. HomeTakes(inbox', inbox, "FLUSH_REP", a, s)
    BY <1>1, <1>7
  <2>2. QED
    BY <1>1, <1>4, <1>7, <1>10, <1>11, <1>20, <1>22, <2>1, Zenon DEF Answered
<1>24. /\ dir'[a].state = IF dir'[a].sharers = {} THEN "UNCACHED" ELSE dir[a].state
       /\ dir'[a].sharers # {} => /\ dir[a].state = "SHARED" /\ ~now
                                  /\ queue[a] # <<>> /\ Head(queue[a]).type = "UPGRADE_REQ"
                                  /\ Head(queue[a]).from \notin dir[a].sharers
  <2>1. dir'[a].sharers # {} => /\ dir[a].state = "SHARED" /\ ~now /\ FlushLive(a, s)
                                /\ queue[a] # <<>> /\ Head(queue[a]).type = "UPGRADE_REQ"
    BY <1>8, <1>16
  <2>2. dir'[a].sharers # {} => Head(queue[a]).from \notin dir[a].sharers
    BY <1>10, <2>1 DEF FlushLive, Owned
  <2>3. QED
    BY <1>8, <2>1, <2>2
<1>25. FlushTaken(h, a, s, now)
  BY <1>8, <1>10, <1>21, <1>23, <1>24, Zenon DEF FlushTaken
<1>26. QED
  BY <1>25

LEMMA TakeFlushRepSafe == ASSUME IInv, SafeLines, NEW h \in Core, TakeFlushRep(h) PROVE SafeLines'
<1> PICK a, s : a = Head(inbox[h]).addr /\ s = Head(inbox[h]).from
  OBVIOUS
<1>1. \E now \in BOOLEAN : FlushTaken(h, a, s, now)
  BY TakeFlushRepTakes
<1>2. QED
  BY <1>1 DEF FlushTaken, Answered

\* It was the WB_REP of the cache the reader waits for.
WroteBack(h, a, s) ==
  /\ Answered(h, a, s, "WB_REP") /\ queue'[a] = queue[a] /\ WbLive(a, s)
  /\ dir'[a].sharers = dir[a].sharers /\ dir'[a].owner = NoCore /\ dir'[a].state = "SHARED"
  /\ s \in dir[a].sharers
  /\ ~HeadWaits(a)

\* The cache the reader waited for has written the line back and keeps a copy.
LEMMA TakeWbRepTakes ==
  ASSUME IInv, SafeLines, NEW h \in Core, TakeWbRep(h),
         NEW a, a = Head(inbox[h]).addr, NEW s, s = Head(inbox[h]).from
  PROVE  WroteBack(h, a, s)
<1> PICK m : m = Head(inbox[h]) /\ a = m.addr /\ s = m.from
  OBVIOUS
<1>1. /\ net[h].at = "recv" /\ inbox[h] # <<>> /\ m.type = "WB_REP" /\ s \in dir[a].sharers
      /\ present' = Claimed(a) /\ inbox' = Rest(h)
      /\ dir' = [dir EXCEPT ![a] = [dir[a] EXCEPT !.owner = NoCore, !.state = "SHARED"]]
      /\ GoTo(h, "head", a, m.data)
      /\ llc' = llc /\ waiters' = waiters /\ replaced' = replaced /\ queue' = queue
  BY DEF TakeWbRep, WbRepIsExpected, Received, cacheVars
<1>2. m.type \in WbRep /\ AnswersOf(h, m, a, s)
  BY <1>1, Kinds DEF AnswersOf
<1>3. /\ a \in Addr /\ DirHome[a] = h /\ s \in Core /\ LineInv(a)
      /\ HomeTakes(inbox', inbox, m.type, a, s)
      /\ \A c \in Core \ {s} : SameMail(inbox', inbox, a, c)
      /\ \A b \in Addr \ {a}, c \in Core : SameMail(inbox', inbox, b, c)
      /\ \A b \in Addr, c \in Core : SameReads(inbox', inbox, b, c)
  <2>1. inbox' = Rest(h)
    BY <1>1
  <2>2. QED
    BY <1>2, <2>1, AnswerOf
<1>4. /\ dir'[a].sharers = dir[a].sharers /\ dir'[a].state = "SHARED" /\ dir'[a].owner = NoCore
      /\ \A b \in Addr \ {a} : dir'[b] = dir[b]
  BY <1>1, <1>3 DEF IInv, TypeOK, DirEntry
<1>5. Resumes(h, a, TRUE)
  BY <1>1, <1>3 DEF Resumes, GoTo, IInv, TypeOK
<1>6. /\ ~Parked(a)'
      /\ Parked(a) /\ Pend(a) = queue[a] /\ Pend(a)' = queue[a]
      /\ \A b \in Addr, k \in Core : Awaited(k, b)' <=> Awaited(k, b)
      /\ WorksOn(a)
  BY <1>1, <1>3, <1>5, Resumed, Zenon
<1>7. SameRequests(Pend(a)', Pend(a))
  BY <1>6, SameQueue
<1>8. WbLive(a, s)
  <2>1. Sent(inbox, WbRep, a, s)
    BY <1>2, <1>3 DEF HomeTakes
  <2>2. QED
    BY <1>3, <2>1 DEF LineInv, PairInv, WbAnswer
<1>9. PairInv(a, s)'
  BY <1>1, <1>2, <1>3, <1>4, <1>6, <1>7, <1>8, OneLive, PairWroteBack, Zenon DEF LineInv
<1>10. ASSUME NEW c \in Core \ {s} PROVE Outlives(a, c)
  <2>1. ~IsOwner(a, c)
    BY <1>1, <1>3, Zenon DEF LineInv, Entry, IsOwner
  <2>2. ~WbLive(a, c)
    BY <1>8, <2>1 DEF WbLive, IsOwner, Owned
  <2>3. ~FlushLive(a, c) /\ ~WbLive(a, c)'
    BY <1>6, <1>8, OneLive DEF WbLive, Blocked
  <2>4. QED
    BY <1>4, <2>1, <2>2, <2>3 DEF Outlives
<1>11. present \subseteq Claimed(a)
  BY DEF Claimed
<1>12. Entry(a)'
  BY <1>1, <1>3, <1>4, <1>11, Zenon DEF LineInv, Entry, Owned
<1>13. OthersStay(a)
  BY <1>1, <1>3, <1>4, <1>11, Zenon DEF OthersStay
<1>14. ~HeadWaits(a)
  BY <1>8 DEF HeadWaits, WbLive, Blocked
<1>15. SafeLines'
  BY <1>3, <1>6, <1>7, <1>9, <1>10, <1>12, <1>13, <1>14, AnswerHandled
<1>16. Answered(h, a, s, "WB_REP")
  <2>1. Pend(a)' = queue'[a] /\ SameRequests(queue'[a], queue[a])
    BY <1>1, <1>6, <1>7
  <2>2. QED
    BY <1>1, <1>3, <1>6, <1>13, <1>15, <2>1, Zenon DEF Answered
<1>17. QED
  BY <1>1, <1>4, <1>8, <1>14, <1>16, Zenon DEF WroteBack

LEMMA TakeWbRepSafe == ASSUME IInv, SafeLines, NEW h \in Core, TakeWbRep(h) PROVE SafeLines'
<1> PICK a, s : a = Head(inbox[h]).addr /\ s = Head(inbox[h]).from
  OBVIOUS
<1>1. WroteBack(h, a, s)
  BY TakeWbRepTakes
<1>2. QED
  BY <1>1 DEF WroteBack, Answered

\* DRAM's answer for line a is sent on to f, whose request waits for it.
SendsOn(h, a, f, rep) ==
  /\ a \in Addr /\ f \in Core /\ f = Head(queue[a]).from
  /\ rep \in Grant /\ (rep = "SH_REP" => dir[a].state = "SHARED")
  /\ HeadWaits(a) /\ Head(queue[a]) \in Request /\ Head(queue[a]).type \in DemandReq
  /\ dir' = dir /\ llc' = llc
  /\ Pend(a) = queue[a] /\ queue[a] \in Seq(Request) /\ Pend(a)' = Tail(queue[a]) /\ ~HeadAt(a)'
  /\ GetsMail(inbox', inbox, rep, a, f) /\ \A c \in Core \ {f} : GetsMail(inbox', inbox, "none", a, c)
  /\ WorksOn(a) /\ OthersStay(a) /\ SafeLines'

LEMMA TakeDramRepSends ==
  ASSUME IInv, SafeLines, NEW h \in Core, TakeDramRep(h),
         NEW a, NEW f, a = Head(inbox[h]).addr, f = Head(queue[a]).from
  PROVE  \E rep \in Grant : SendsOn(h, a, f, rep)
<1> PICK m : m = Head(inbox[h])
  OBVIOUS
<1>1. PICK rep \in Grant :
        /\ inbox' = Deliver(Rest(h), Msg(rep, a, h, m.data), {f})
        /\ rep = "EX_REP" => ~(Head(queue[a]).type = "SH_REQ" /\ dir[a].state = "SHARED")
        /\ rep = "SH_REP" => dir[a].state = "SHARED"
  BY Kinds, Zenon DEF TakeDramRep
<1>2. /\ net[h].at = "recv" /\ inbox[h] # <<>> /\ m.type = "DRAM_READ_REP" /\ queue[a] # <<>>
      /\ GoTo(h, "next", a, "none")
      /\ llc' = llc /\ waiters' = waiters
      /\ dir' = dir /\ present' = present /\ replaced' = replaced /\ queue' = queue
  BY Zenon DEF TakeDramRep, DramRepIsExpected, Received, cacheVars, dirVars
<1>3. a \in Addr /\ DirHome[a] = h /\ m.data \in Data /\ m.from \in Core /\ InboxOK(Rest(h))
  BY <1>2, HeadOK, RestOK DEF IInv, MessagesTo
<1>4. /\ "DRAM_READ_REP" \notin FromCache /\ "DRAM_READ_REP" \notin ToCache
      /\ rep \in MsgType /\ rep \notin FromCache /\ rep \in DirReply /\ rep \notin UpgradeRep
      /\ rep \in ExGrantRep => rep = "EX_REP"
      /\ rep \notin {"DRAM_READ_REQ", "DRAM_READ_REP"}
  BY Kinds DEF MsgType, DirReply
<1>5. Taken(Rest(h), inbox, h, m)
  BY <1>2, RestTakes DEF IInv
<1>6. Posted(inbox', Rest(h), rep, a, h, {f})
  BY <1>1, <1>3, <1>4, DeliverPosts, Zenon
<1>7. \A b \in Addr, c \in Core : SameMail(Rest(h), inbox, b, c)
  BY <1>2, <1>4, <1>5, TakenElsewhere
<1>8. /\ net'[h].at = "next" /\ net'[h].addr = a /\ \A k \in Core \ {h} : net'[k] = net[k]
      /\ Parked(a) /\ Pend(a) = queue[a] /\ ~Parked(a)' /\ Pend(a)' = Tail(queue[a])
  <2>1. net'[h].at = "next" /\ net'[h].addr = a /\ \A k \in Core \ {h} : net'[k] = net[k]
    BY <1>2 DEF GoTo, IInv, TypeOK
  <2>2. QED
    BY <1>2, <1>3, <2>1 DEF Parked, Pend
<1>9. \A b \in Addr, k \in Core : Awaited(k, b)' <=> Awaited(k, b)
  <2>1. net[h].at \notin {"serve", "woken"} /\ net'[h].at \notin {"serve", "woken"}
    BY <1>2, <1>8
  <2>2. QED
    BY <1>2, <1>8, <2>1, NoWaiterServed
<1>10. LineInv(a)
  BY <1>3 DEF SafeLines
<1>11. /\ HeadWaits(a)
       /\ ~Read(inbox', "DRAM_READ_REP", a, DirHome[a])
       /\ ReadOnce(inbox', "DRAM_READ_REP", a, DirHome[a])
       /\ \A k \in Core : ~Read(inbox', "DRAM_READ_REQ", a, k)
       /\ ReadOnce(inbox', "DRAM_READ_REQ", a, DramHome[a])
  <2>1. DirHome[a] \in Core /\ DramHome[a] \in Core
    BY <1>3
  <2>2. \A k \in Core : \A x : TakenRead(Rest(h), inbox, h, m, a, k, x)
    BY <1>3, <1>5 DEF Taken
  <2>3. /\ Read(inbox, "DRAM_READ_REP", a, h)
        /\ ReadOnce(inbox, "DRAM_READ_REP", a, h) =>
             ~Read(Rest(h), "DRAM_READ_REP", a, h) /\ ReadOnce(Rest(h), "DRAM_READ_REP", a, h)
        /\ \A k \in Core : /\ Read(Rest(h), "DRAM_READ_REQ", a, k) <=> Read(inbox, "DRAM_READ_REQ", a, k)
                           /\ ReadOnce(Rest(h), "DRAM_READ_REQ", a, k) <=>
                                ReadOnce(inbox, "DRAM_READ_REQ", a, k)
    BY <1>2, <2>2 DEF TakenRead
  <2>4. \A k \in Core : SameReads(inbox', Rest(h), a, k)
    BY <1>3, <1>4, <1>6, PostedNoRead
  <2>5. QED
    BY <1>3, <1>10, <2>1, <2>3, <2>4, Zenon DEF LineInv, DramRequest, SameReads
<1>12. /\ f \in Core /\ Head(queue[a]).type \in DemandReq
       /\ f \in dir[a].sharers /\ llc[f][a] = "INVALID" /\ ~Sent(inbox, GivesUp, a, f)
       /\ rep = "EX_REP" => IsOwner(a, f)
  <2>1. f \in Core
    BY <1>2, <1>3, <1>8, PendOK
  <2>2. /\ Head(queue[a]).type \in DemandReq
        /\ f \in dir[a].sharers /\ llc[f][a] = "INVALID" /\ ~Sent(inbox, GivesUp, a, f)
        /\ ~(Head(queue[a]).type = "SH_REQ" /\ dir[a].state = "SHARED") => IsOwner(a, f)
    BY <1>8, <1>10, <1>11, Zenon DEF LineInv, DataWait
  <2>3. QED
    BY <1>1, <2>1, <2>2, Zenon
<1>13. \A c \in Core : ~WbLive(a, c) /\ ~FlushLive(a, c)
  BY <1>11, Zenon DEF HeadWaits, WbLive, FlushLive, Blocked
<1>14. GetsMail(inbox', inbox, rep, a, f) /\ \A c \in Core \ {f} : GetsMail(inbox', inbox, "none", a, c)
  <2>1. ASSUME NEW c \in Core
        PROVE  /\ c \in {f} => GetsMail(inbox', Rest(h), rep, a, c)
               /\ c \notin {f} => GetsMail(inbox', Rest(h), "none", a, c)
    BY <1>3, <1>4, <1>6, HomePosts, Zenon
  <2>2. ASSUME NEW c \in Core, NEW x, GetsMail(inbox', Rest(h), x, a, c), x \notin WbCmd
        PROVE  GetsMail(inbox', inbox, x, a, c)
    <3>1. \A T, U : SameMailAbout(Rest(h), inbox, a, c, T, U)
      BY <1>3, <1>7 DEF SameMail
    <3>2. QED
      BY <2>2, <3>1 DEF GetsMail, SameMailAbout
  <2>3. rep \notin WbCmd /\ "none" \notin WbCmd
    BY Kinds
  <2>4. QED
    BY <1>12, <2>1, <2>2, <2>3, Zenon
<1>15. Replies(a, f, rep)
  <2>1. dir' = dir /\ llc' = llc
    BY <1>2
  <2>2. rep \in ExGrantRep => IsOwner(a, f)'
    BY <1>4, <1>12, <2>1, Zenon DEF IsOwner
  <2>3. f \in dir'[a].sharers /\ dir[a].sharers \subseteq dir'[a].sharers
    BY <1>12, <2>1
  <2>4. QED
    BY <1>3, <1>4, <1>8, <1>9, <1>12, <1>14, <2>1, <2>2, <2>3, Zenon DEF Replies
<1>16. LineInv(a)'
  <2>1. Entry(a)'
    BY <1>2, <1>10, Zenon DEF LineInv, Entry
  <2>2. QED
    BY <1>2, <1>3, <1>8, <1>10, <1>11, <1>12, <1>13, <1>15, <2>1, LineAnswered, Zenon
<1>17. WorksOn(a)
  BY <1>2, <1>3, <1>8 DEF WorksOn
<1>18. OthersStay(a)
  <2>1. ASSUME NEW b \in Addr \ {a}, NEW c \in Core
        PROVE  SameMail(inbox', Rest(h), b, c) /\ SameReads(inbox', Rest(h), b, c)
    BY <1>6, PostedElsewhere, PostedNoRead
  <2>2. ASSUME NEW b \in Addr \ {a}, NEW c \in Core
        PROVE  SameReads(Rest(h), inbox, b, c)
    BY <1>5, TakenNoRead
  <2>3. ASSUME NEW b \in Addr \ {a}, NEW c \in Core
        PROVE  SameMail(inbox', inbox, b, c) /\ SameReads(inbox', inbox, b, c)
    BY <1>7, <2>1, <2>2, SameMailTrans DEF SameReads
  <2>4. QED
    BY <1>2, <2>3 DEF OthersStay
<1>19. SafeLines'
  BY <1>3, <1>16, <1>17, <1>18, OneLine
<1>20. ~HeadAt(a)'
  BY <1>3, <1>8 DEF HeadAt
<1>21. queue[a] \in Seq(Request) /\ Head(queue[a]) \in Request
  <2>1. queue[a] \in Seq(Request)
    BY <1>3 DEF IInv, TypeOK
  <2>2. QED
    BY <1>2, <2>1
<1>22. QED
  BY <1>1, <1>2, <1>3, <1>8, <1>11, <1>12, <1>14, <1>17, <1>18, <1>19, <1>20, <1>21 DEF SendsOn

LEMMA TakeDramRepSafe == ASSUME IInv, SafeLines, NEW h \in Core, TakeDramRep(h) PROVE SafeLines'
<1> SUFFICES ASSUME NEW a, NEW f, a = Head(inbox[h]).addr, f = Head(queue[a]).from PROVE SafeLines'
  OBVIOUS
<1>1. PICK rep \in Grant : SendsOn(h, a, f, rep)
  BY TakeDramRepSends
<1>2. QED
  BY <1>1 DEF SendsOn

-----------------------------------------------------------------------------
(* Replacing the entry of another line *)

\* A step that changes another line than the one a thread works on.
LEMMA AnotherLine ==
  ASSUME IInv, SafeLines, NEW v \in Addr, net' = net, OthersStay(v), LineInv(v)'
  PROVE  SafeLines'
<1>1. ASSUME NEW b \in Addr \ {v} PROVE LineInv(b)'
  <2>1. (Parked(b)' <=> Parked(b)) /\ Pend(b)' = Pend(b)
    BY DEF Parked, Pend, OthersStay
  <2>2. SameLine(b)
    BY <2>1, SameQueue DEF SameLine, OthersStay
  <2>3. \A k \in Core : SamePair(b, k)
    BY DEF SamePair, Awaited, OthersStay
  <2>4. \A k \in Core : SameReads(inbox', inbox, b, k)
    BY DEF OthersStay
  <2>5. QED
    BY <2>2, <2>3, <2>4, LineSame DEF SafeLines
<1>2. QED
  BY <1>1 DEF SafeLines

\* The entry of line v, which no request is served for, goes: at once if nobody
\* has the line, else the caches that have it are told to give it up.
Replaces(v) ==
  /\ v \in Addr /\ net' = net /\ llc' = llc
  /\ Parked(v)' /\ Pend(v) = <<>>
  /\ OthersStay(v) /\ SafeLines'
  /\ \/ /\ dir[v].state = "UNCACHED" /\ dir'[v].state = "UNCACHED" /\ dir'[v].sharers = {}
        /\ inbox' = inbox /\ Pend(v)' = <<>>
     \/ /\ dir' = dir
        /\ Pend(v)' # <<>> /\ Head(Pend(v)').type = "NULLIFY_REQ" /\ ~Head(Pend(v)').waitForData
        /\ \A c : ~Queued(Pend(v)', DemandReq, c)
        /\ \A c \in Core : \E got \in {"INV_REQ", "FLUSH_REQ", "none"} :
             /\ GetsMail(inbox', inbox, got, v, c)
             /\ got = "INV_REQ" => dir[v].state = "SHARED" /\ c \in dir[v].sharers

LEMMA AllocateReplaces ==
  ASSUME IInv, SafeLines, NEW h \in Core, Allocate(h) PROVE \E v \in Addr : Replaces(v)
<1> PICK a : a = net[h].addr
  OBVIOUS
<1>1. /\ net[h].at = "head" /\ a \notin present \cup replaced
      /\ llc' = llc /\ waiters' = waiters /\ net' = net
  BY DEF Allocate, cacheVars
<1>2. a \in Addr /\ DirHome[a] = h /\ queue[a] # <<>> /\ Head(queue[a]).from \in Core
  BY <1>1, AtWork
<1>3. PICK v \in Victims(a), f \in {Head(queue[a]).from} :
        /\ present' = (present \ {v}) \cup {a}
        /\ IF dir[v].state = "UNCACHED"
           THEN /\ \E e \in NewEntries : dir' = [dir EXCEPT ![v] = e]
                /\ UNCHANGED <<replaced, queue, inbox>>
           ELSE /\ replaced' = replaced \cup {v}
                /\ queue' = [queue EXCEPT ![v] = <<NewRequest("NULLIFY_REQ", f)>>]
                /\ inbox' = Deliver(inbox, Msg(NullifyType(v), v, h, "none"), NullifyTo(v))
                /\ UNCHANGED dir
  BY DEF Allocate
<1>4. v \in Addr /\ DirHome[v] = h /\ v # a /\ queue[v] = <<>>
  BY <1>1, <1>2 DEF Victims, SetOf
<1>5. /\ LineInv(v) /\ Parked(v) /\ Parked(v)'
      /\ Pend(v) = <<>> /\ Pend(v)' = queue'[v]
  BY <1>1, <1>2, <1>4 DEF SafeLines, Parked, Pend
<1>6. ~HeadWaits(v) /\ \A c \in Core : ~WbLive(v, c) /\ ~FlushLive(v, c)
  BY <1>5 DEF HeadWaits, WbLive, FlushLive, Blocked
<1>7. \A c \in Core : Awaited(c, v)' <=> Awaited(c, v)
  BY <1>1 DEF Awaited
<1>8. \A b \in Addr \ {v} : b \in present \cup replaced /\ replaced \subseteq replaced' =>
                              b \in present' \cup replaced'
  BY <1>3
<1>9. CASE dir[v].state = "UNCACHED"
  <2>1. queue' = queue /\ inbox' = inbox /\ replaced' = replaced
    BY <1>3, <1>9
  <2>2. PICK e \in NewEntries : dir' = [dir EXCEPT ![v] = e]
    BY <1>3, <1>9
  <2>3. /\ dir'[v].state = "UNCACHED" /\ dir'[v].sharers = {}
        /\ \A b \in Addr \ {v} : dir'[b] = dir[b]
    <3>1. e.state = "UNCACHED" /\ e.sharers = {}
      BY <2>2 DEF NewEntries
    <3>2. QED
      BY <1>4, <2>2, <3>1 DEF IInv, TypeOK
  <2>4. /\ \A b \in Addr, c \in Core : SameMail(inbox', inbox, b, c) /\ SameReads(inbox', inbox, b, c)
        /\ \A c \in Core : GetsMail(inbox', inbox, "none", v, c)
    <3>1. "none" \notin ToCache /\ "none" \notin WbCmd
      BY Kinds
    <3>2. QED
      BY <2>1, <3>1 DEF SameMail, SameMailAbout, SameReads, GetsMail
  <2>5. ASSUME NEW c \in Core PROVE PairInv(v, c)'
    <3>1. /\ "none" \notin DirReply /\ "none" \notin WbCmd /\ "none" \notin FlushCmd
      BY Kinds
    <3>2. SameAsked(v, c)
      BY <1>4, <1>5, <2>1 DEF SameAsked
    <3>3. dir[v].sharers = {} /\ ~IsOwner(v, c) /\ dir[v].state # "MODIFIED"
      BY <1>5, <1>9 DEF LineInv, Entry, IsOwner, Owned
    <3>4. PairInv(v, c) /\ llc'[c][v] = llc[c][v]
      BY <1>1, <1>5 DEF LineInv
    <3>5. QED
      BY <1>4, <1>6, <1>7, <2>4, <3>1, <3>2, <3>3, <3>4, PairCommanded
  <2>6. Entry(v)' /\ DataWait(v)' /\ DramRequest(v)'
    <3>1. Pend(v)' = Pend(v)
      BY <1>4, <1>5, <2>1
    <3>2. ~HeadWaits(v)'
      BY <1>5, <3>1 DEF HeadWaits
    <3>3. DataWait(v)'
      BY <1>5, <3>1, <3>2 DEF LineInv, DataWait
    <3>4. DramRequest(v)'
      BY <1>4, <1>5, <1>6, <2>4, <3>2, ReadsStay
    <3>5. QED
      BY <2>3, <3>3, <3>4 DEF Entry, Owned
  <2>7. OthersStay(v)
    BY <1>1, <1>8, <2>1, <2>3, <2>4 DEF OthersStay
  <2>8. SafeLines'
    BY <1>1, <1>4, <2>5, <2>6, <2>7, AnotherLine DEF LineInv
  <2>9. Replaces(v)
    BY <1>1, <1>4, <1>5, <1>9, <2>1, <2>3, <2>7, <2>8 DEF Replaces
  <2>10. QED
    BY <1>4, <2>9
<1>10. CASE dir[v].state # "UNCACHED"
  <2>1. /\ replaced' = replaced \cup {v} /\ dir' = dir
        /\ queue' = [queue EXCEPT ![v] = <<NewRequest("NULLIFY_REQ", f)>>]
        /\ inbox' = Deliver(inbox, Msg(NullifyType(v), v, h, "none"), NullifyTo(v))
    BY <1>3, <1>10
  <2> PICK r : r = NewRequest("NULLIFY_REQ", f)
    OBVIOUS
  <2>2. r \in Request /\ r.type = "NULLIFY_REQ" /\ ~r.waitForData
    BY <1>2, <1>3 DEF NewRequest, Request, Data
  <2>3. queue'[v] = <<r>> /\ \A b \in Addr \ {v} : queue'[b] = queue[b]
    BY <1>4, <2>1 DEF IInv, TypeOK
  <2>4. Pend(v)' # <<>> /\ Head(Pend(v)') = r
    BY <1>5, <2>3
  <2>5. /\ \A T, c : Queued(Pend(v)', T, c) <=> r \in Asked(T, c)
        /\ \A c : QueuedOnce(Pend(v)', c)
        /\ OnlyHeadStarved(Pend(v)')
    <3>1. DOMAIN <<r>> = 1 .. 1 /\ <<r>>[1] = r /\ 1 \in 1 .. 1 /\ \A i \in 1 .. 1 : i = 1
      OBVIOUS
    <3>2. \A M, N : /\ Has(<<r>>, M) <=> r \in M
                    /\ NotThen(<<r>>, M, N)
      <4> SUFFICES ASSUME NEW M, NEW N
                   PROVE  (Has(<<r>>, M) <=> r \in M) /\ NotThen(<<r>>, M, N)
        OBVIOUS
      <4>1. Has(<<r>>, M) <=> r \in M
        BY <3>1 DEF Has
      <4>2. NotThen(<<r>>, M, N)
        BY <3>1 DEF NotThen
      <4>3. QED
        BY <4>1, <4>2
    <3>3. QED
      BY <1>5, <2>3, <3>2 DEF Queued, QueuedOnce, OnlyHeadStarved
  <2>6. \A c : SameAsked(v, c)
    <3>1. \A T \in {DemandReq, LineReq, UpgradeReq} : \A c : r \notin Asked(T, c)
      BY <2>2, Kinds DEF Asked
    <3>2. \A T, c : ~Queued(Pend(v), T, c)
      BY <1>5, EmptyHas DEF Queued
    <3>3. QED
      BY <2>5, <3>1, <3>2 DEF SameAsked
  <2>7. PICK type : type = NullifyType(v)
    OBVIOUS
  <2>8. /\ type = "INV_REQ" \/ (type = "FLUSH_REQ" /\ dir[v].state \in Owned /\ NullifyTo(v) = {dir[v].owner})
        /\ type = "INV_REQ" => dir[v].state = "SHARED" /\ NullifyTo(v) = dir[v].sharers
    <3>1. dir[v].state \in DirState
      BY <1>4 DEF IInv, TypeOK, DirEntry
    <3>2. QED
      BY <1>10, <2>7, <3>1 DEF NullifyType, NullifyTo, DirState, Owned
  <2>9. /\ type \in MsgType /\ type \notin FromCache /\ type \notin DirReply /\ type \notin WbCmd
        /\ type \notin {"DRAM_READ_REQ", "DRAM_READ_REP"} /\ "none" \in Data
    BY <2>8, Kinds DEF MsgType, DirCommand, Data
  <2>10. Posted(inbox', inbox, type, v, h, NullifyTo(v))
    BY <1>4, <2>1, <2>7, <2>9, DeliverPosts DEF IInv
  <2>11. ASSUME NEW c \in Core PROVE PairInv(v, c)'
    <3>1. PICK got \in {type, "none"} : /\ GetsMail(inbox', inbox, got, v, c)
                                        /\ got = "none" \/ c \in NullifyTo(v)
      BY <1>4, <2>9, <2>10, HomePosts
    <3>2. got \notin DirReply /\ got \notin WbCmd
      BY <2>9, <3>1, Kinds
    <3>3. got \in FlushCmd => FlushLive(v, c)'
      <4>1. SUFFICES ASSUME got \in FlushCmd PROVE FlushLive(v, c)'
        OBVIOUS
      <4>2. dir[v].state \in Owned /\ c = dir[v].owner
        BY <2>8, <3>1, <4>1, Kinds
      <4>3. c \in dir[v].sharers
        BY <1>5, <4>2 DEF LineInv, Entry
      <4>4. Blocked(v, {"EX_REQ", "UPGRADE_REQ", "NULLIFY_REQ"})'
        BY <1>5, <2>2, <2>4 DEF Blocked
      <4>5. QED
        BY <2>1, <4>2, <4>3, <4>4 DEF FlushLive
    <3>4. PairInv(v, c) /\ llc'[c][v] = llc[c][v] /\ dir'[v] = dir[v]
      BY <1>1, <1>5, <2>1 DEF LineInv
    <3>5. IsOwner(v, c) => IsOwner(v, c)'
      BY <2>1 DEF IsOwner
    <3>6. QED
      BY <1>4, <1>6, <1>7, <2>6, <3>1, <3>2, <3>3, <3>4, <3>5, PairCommanded
  <2>12. \A b \in Addr, c \in Core : SameReads(inbox', inbox, b, c)
    BY <2>9, <2>10, PostedNoRead
  <2>13. Entry(v)' /\ DataWait(v)' /\ DramRequest(v)'
    <3>1. ~HeadWaits(v)'
      BY <2>2, <2>4 DEF HeadWaits
    <3>2. DataWait(v)'
      BY <2>5, <3>1 DEF DataWait
    <3>3. DramRequest(v)'
      BY <1>4, <1>5, <1>6, <2>12, <3>1, ReadsStay
    <3>4. Entry(v)'
      BY <1>5, <2>1 DEF LineInv, Entry
    <3>5. QED
      BY <3>2, <3>3, <3>4
  <2>14. OthersStay(v)
    <3>1. \A b \in Addr \ {v}, c \in Core : SameMail(inbox', inbox, b, c)
      BY <2>10, PostedElsewhere
    <3>2. QED
      BY <1>1, <1>8, <2>1, <2>3, <2>12, <3>1 DEF OthersStay
  <2>15. SafeLines'
    BY <1>1, <1>4, <2>11, <2>13, <2>14, AnotherLine DEF LineInv
  <2>16. \A c : ~Queued(Pend(v)', DemandReq, c)
    BY <2>2, <2>5 DEF Asked, DemandReq
  <2>17. ASSUME NEW c \in Core
         PROVE  \E got \in {"INV_REQ", "FLUSH_REQ", "none"} :
                  /\ GetsMail(inbox', inbox, got, v, c)
                  /\ got = "INV_REQ" => dir[v].state = "SHARED" /\ c \in dir[v].sharers
    <3>1. PICK got \in {type, "none"} : /\ GetsMail(inbox', inbox, got, v, c)
                                        /\ got = "none" \/ c \in NullifyTo(v)
      BY <1>4, <2>9, <2>10, HomePosts
    <3>2. got \in {"INV_REQ", "FLUSH_REQ", "none"}
      BY <2>8, <3>1
    <3>3. got = "INV_REQ" => dir[v].state = "SHARED" /\ c \in dir[v].sharers
      BY <2>8, <3>1
    <3>4. QED
      BY <3>1, <3>2, <3>3
  <2>18. Replaces(v)
    <3>1. v \in Addr /\ net' = net /\ llc' = llc /\ dir' = dir
      BY <1>1, <1>4, <2>1
    <3>2. Pend(v)' # <<>> /\ Head(Pend(v)').type = "NULLIFY_REQ" /\ ~Head(Pend(v)').waitForData
      BY <2>2, <2>4
    <3>3. QED
      BY <1>5, <2>14, <2>15, <2>16, <2>17, <3>1, <3>2 DEF Replaces
  <2>19. QED
    BY <1>4, <2>18
<1>11. QED
  BY <1>9, <1>10

LEMMA AllocateSafe == ASSUME IInv, SafeLines, NEW h \in Core, Allocate(h) PROVE SafeLines'
<1>1. PICK v \in Addr : Replaces(v)
  BY AllocateReplaces
<1>2. QED
  BY <1>1 DEF Replaces

-----------------------------------------------------------------------------
(* The invariant holds in every state *)

\* At first no cache has a line, and no message or request is about one.
LEMMA InitSafe == Init => SafeLines
<1> SUFFICES ASSUME Init, NEW a \in Addr PROVE LineInv(a)
  BY DEF SafeLines
<1>1. /\ \A c \in Core : inbox[c] = <<>> /\ llc[c][a] = "INVALID" /\ waiters[c][a] = <<>>
      /\ queue[a] = <<>> /\ Pend(a) = <<>>
      /\ dir[a].state = "UNCACHED" /\ dir[a].sharers = {}
  BY DEF Init, Pend, NewEntries
<1>2. /\ \A M, N : ~Has(<<>>, M) /\ NotThen(<<>>, M, N)
      /\ \A M, N, O : NotThenThen(<<>>, M, N, O)
  BY EmptyHas
<1>3. ASSUME NEW c \in Core PROVE PairInv(a, c)
  <2>1. /\ \A T : ~Sent(inbox, T, a, c) /\ ~Got(inbox, T, a, c) /\ ~Queued(Pend(a), T, c)
        /\ \A T : ~Outstanding(T, a, c)
    BY <1>1, <1>2 DEF Sent, Got, Queued, Outstanding
  <2>2. /\ \A T, U : SentNotThen(inbox, T, U, a, c) /\ GotNotThen(inbox, T, U, a, c)
        /\ OneWbAfterGrant(inbox, a, c) /\ QueuedOnce(Pend(a), c)
    BY <1>1, <1>2 DEF SentNotThen, GotNotThen, OneWbAfterGrant, QueuedOnce
  <2>3. ~Awaited(c, a)
    BY <1>1 DEF Awaited
  <2>4. OneRequest(a, c) /\ StateFits(a, c) /\ Known(a, c) /\ GivenUp(a, c)
    BY <1>1, <2>1, <2>2, <2>3 DEF OneRequest, StateFits, Known, GivenUp
  <2>5. FlushAnswer(a, c) /\ Ownership(a, c) /\ WbAnswer(a, c)
    BY <1>1, <2>1, <2>2 DEF FlushAnswer, Ownership, WbAnswer
  <2>6. WbCommand(a, c) /\ FlushCommand(a, c)
    BY <1>1, <2>1, <2>2 DEF WbCommand, FlushCommand
  <2>7. QED
    BY <2>4, <2>5, <2>6 DEF PairInv
<1>4. Entry(a)
  BY <1>1 DEF Entry, Owned
<1>5. DataWait(a)
  BY <1>1, <1>2 DEF DataWait, HeadWaits, OnlyHeadStarved
<1>6. DramRequest(a)
  BY <1>1, <1>2 DEF DramRequest, Read, ReadOnce
<1>7. QED
  BY <1>3, <1>4, <1>5, <1>6 DEF LineInv

\* Every step of the system keeps the invariant.
LEMMA NextSafe == IInv /\ SafeLines /\ [Next]_vars => SafeLines'
<1> SUFFICES ASSUME IInv, SafeLines, [Next]_vars PROVE SafeLines'
  OBVIOUS
<1>1. ASSUME NEW c \in Core, CacheMessage(c) PROVE SafeLines'
  BY <1>1, FillSafe, FinishUpgradeSafe, IgnoreCommandSafe, InvalidateSafe, FlushSafe,
     WriteBackSafe DEF CacheMessage
<1>2. ASSUME NEW c \in Core, ServeWaiters(c) PROVE SafeLines'
  BY <1>2, ServeByUpgradeSafe, WakeSafe, RemoveWaiterSafe, AllServedSafe DEF ServeWaiters
<1>3. ASSUME NEW c \in Core, DirectoryMessage(c) PROVE SafeLines'
  BY <1>3, TakeRequestSafe, TakeInvRepSafe, TakeFlushRepSafe, TakeWbRepSafe, TakeDramRepSafe
     DEF DirectoryMessage
<1>4. ASSUME NEW c \in Core, ProcessRequest(c) PROVE SafeLines'
  BY <1>4, CommandsSafe, GrantsSafe, ShShareSafe, UpgradeGrantSafe,
     UpgradeInvalidateSafe, AllocateSafe, NullifiedSafe, NextRequestSafe
     DEF ProcessRequest
<1>5. ASSUME NEW c \in Core, DramMessage(c) PROVE SafeLines'
  BY <1>5, DramReadSafe, DramWriteSafe DEF DramMessage
<1>6. ASSUME NEW t \in Thread, NEW a \in Addr, Access(t, a) PROVE SafeLines'
  BY <1>6, WriteHitSafe, MissSafe DEF Access
<1>7. ASSUME NEW c \in Core, NEW a \in Addr, Evict(c, a) PROVE SafeLines'
  BY <1>7, EvictSafe
<1>8. CASE UNCHANGED vars
  <2>1. /\ llc' = llc /\ waiters' = waiters /\ dir' = dir /\ present' = present
        /\ replaced' = replaced /\ queue' = queue /\ inbox' = inbox /\ net' = net
    BY <1>8 DEF vars
  <2>2. \A b \in Addr : SameLine(b)
    <3>1. \A b \in Addr : Pend(b)' = Pend(b) /\ (Parked(b)' <=> Parked(b))
      BY <2>1 DEF Pend, Parked
    <3>2. QED
      BY <2>1, <3>1, SameQueue DEF SameLine
  <2>3. \A b \in Addr, k \in Core : Awaited(k, b)' <=> Awaited(k, b)
    BY <2>1 DEF Awaited
  <2>4. QED
    BY <2>1, <2>2, <2>3, NothingChanges
<1>9. QED
  BY <1>1, <1>2, <1>3, <1>4, <1>5, <1>6, <1>7, <1>8 DEF Next, NetStep

\* Every request, answer and command finds the line as its sender left it: the
\* invariant of the protocol, for every line and every cache.
THEOREM ProtocolInvariant == Spec => [](IInv /\ SafeLines)
<1>1. Init => IInv /\ SafeLines
  BY InitIInv, InitSafe
<1>2. IInv /\ SafeLines /\ [Next]_vars => (IInv /\ SafeLines)'
  BY NextIInv, NextSafe
<1>3. QED
  BY <1>1, <1>2, PTL DEF Spec

-----------------------------------------------------------------------------
(* What follows from it *)

\* The directory never forgets a copy, and never takes a line that a cache may
\* write for one that is shared: the entry is there for as long as a cache has
\* the line, whatever evictions, commands and replacements cross.
THEOREM DirectoryKnows == Spec => []DirectoryCoversCaches
<1>1. IInv /\ SafeLines => DirectoryCoversCaches
  <2> SUFFICES ASSUME SafeLines, NEW a \in Addr, NEW c \in Core
               PROVE  /\ llc[c][a] # "INVALID" => a \in present \cup replaced /\ c \in dir[a].sharers
                      /\ llc[c][a] \in {"EXCLUSIVE", "MODIFIED"} =>
                           dir[a].state \in Owned /\ dir[a].owner = c
    BY DEF DirectoryCoversCaches
  <2>1. Known(a, c) /\ Ownership(a, c) /\ Entry(a)
    BY DEF SafeLines, LineInv, PairInv
  <2>2. QED
    BY <2>1 DEF Known, Ownership, Entry, IsOwner
<1>2. QED
  BY ProtocolInvariant, <1>1, PTL

\* Two caches of which one may write, or one beside a reader, would both own the
\* line.
LEMMA SafeIsSingle == IInv /\ SafeLines => SingleWriter
<1> SUFFICES ASSUME SafeLines, NEW a \in Addr, NEW c \in Core, NEW k \in Core,
                    llc[c][a] \in {"EXCLUSIVE", "MODIFIED"}, k # c
             PROVE  llc[k][a] = "INVALID"
  BY DEF SingleWriter
<1>1. Ownership(a, c) /\ Known(a, k) /\ Entry(a)
  BY DEF SafeLines, LineInv, PairInv
<1>2. dir[a].sharers = {c}
  BY <1>1 DEF Ownership, Entry, IsOwner
<1>3. QED
  BY <1>1, <1>2 DEF Known

\* A cache that may write a line without asking is the only one that has it.
THEOREM OneWriter == Spec => []SingleWriter
  BY ProtocolInvariant, SafeIsSingle, PTL

\* A set of at most one element has none or one.
LEMMA AtMostOne ==
  ASSUME NEW I, \A i, j \in I : i = j
  PROVE  /\ I = {} => Cardinality(I) = 0
         /\ I # {} => Cardinality(I) = 1
<1>1. I = {} => Cardinality(I) = 0
  BY FS_EmptySet
<1>2. I # {} => \E i : I = {i}
  OBVIOUS
<1>3. QED
  BY <1>1, <1>2, FS_Singleton

\* The elements of a sequence that are in M, when none comes after another.
LEMMA CountOne ==
  ASSUME NEW S, NEW s \in Seq(S), NEW M, NotThen(s, M, M), NEW I, I = {i \in DOMAIN s : s[i] \in M}
  PROVE  /\ Has(s, M) => Cardinality(I) = 1
         /\ ~Has(s, M) => Cardinality(I) = 0
<1>1. DOMAIN s \subseteq Int
  BY LenProperties
<1>2. \A i, j \in I : i = j
  BY <1>1 DEF NotThen
<1>3. Has(s, M) <=> I # {}
  BY DEF Has
<1>4. QED
  BY <1>2, <1>3, AtMostOne

\* The same of a queue whose head has been answered.
LEMMA CountOneInTail ==
  ASSUME NEW S, NEW s \in Seq(S), s # <<>>, NEW M, NotThen(Tail(s), M, M),
         NEW I, I = {i \in DOMAIN s : s[i] \in M /\ i # 1}
  PROVE  /\ Has(Tail(s), M) => Cardinality(I) = 1
         /\ ~Has(Tail(s), M) => Cardinality(I) = 0
<1>1. /\ Len(s) \in Nat \ {0} /\ DOMAIN s = 1 .. Len(s)
      /\ DOMAIN Tail(s) = 1 .. Len(s) - 1
      /\ \A i \in 1 .. Len(s) - 1 : i + 1 \in 1 .. Len(s) /\ Tail(s)[i] = s[i + 1]
      /\ \A i \in 1 .. Len(s) : i = 1 \/ (i - 1 \in 1 .. Len(s) - 1 /\ Tail(s)[i - 1] = s[i])
  BY TailElements
<1>2. \A i \in I : i \in Int /\ i - 1 \in DOMAIN Tail(s) /\ Tail(s)[i - 1] \in M
  BY <1>1
<1>3. \A i, j \in I : i = j
  <2>1. ASSUME NEW i \in I, NEW j \in I, i < j PROVE FALSE
    <3>1. i - 1 < j - 1
      BY <1>2, <2>1
    <3>2. QED
      BY <1>2, <3>1 DEF NotThen
  <2>2. QED
    BY <1>2, <2>1
<1>4. Has(Tail(s), M) <=> I # {}
  <2>1. ASSUME NEW i \in DOMAIN Tail(s), Tail(s)[i] \in M PROVE i + 1 \in I
    BY <1>1, <2>1
  <2>2. QED
    BY <1>2, <2>1 DEF Has
<1>5. QED
  BY <1>3, <1>4, AtMostOne

\* A miss has exactly one request under way until its reply is taken, so no
\* reply goes to a cache that does not wait for it and none is lost.
THEOREM OneRequestUnderway == Spec => []OneRequestPerMiss
<1>1. IInv /\ SafeLines => OneRequestPerMiss
  <2> SUFFICES ASSUME IInv, SafeLines, NEW c \in Core, NEW a \in Addr
               PROVE  Underway(c, a) = IF Awaited(c, a) THEN 1 ELSE 0
    BY DEF OneRequestPerMiss
  <2> PICK h \in Core : h = DirHome[a]
    OBVIOUS
  <2> DEFINE sent == {i \in DOMAIN inbox[h] : /\ inbox[h][i].type \in DemandReq
                                              /\ inbox[h][i].addr = a /\ inbox[h][i].from = c}
             queued == {i \in DOMAIN queue[a] : /\ queue[a][i].type \in DemandReq
                                                /\ queue[a][i].from = c
                                                /\ ~(i = 1 /\ net[h].at = "next" /\ net[h].addr = a)}
             answered == {i \in DOMAIN inbox[c] : inbox[c][i].type \in DirReply
                                                  /\ inbox[c][i].addr = a}
  <2>1. OneRequest(a, c)
    BY DEF SafeLines, LineInv, PairInv
  <2>2. /\ inbox[h] \in Seq(Message) /\ inbox[c] \in Seq(Message) /\ queue[a] \in Seq(Request)
    BY DEF IInv, InboxOK, TypeOK
  <2>3. /\ \A i \in DOMAIN inbox[h] : inbox[h][i] \in Message
        /\ \A i \in DOMAIN inbox[c] : inbox[c][i] \in Message
        /\ \A i \in DOMAIN queue[a] : queue[a][i] \in Request
    BY <2>2, ElementOfSeq, LenProperties
  <2>4. /\ Sent(inbox, DemandReq, a, c) => Cardinality(sent) = 1
        /\ ~Sent(inbox, DemandReq, a, c) => Cardinality(sent) = 0
    <3>1. PICK M : M = Mail(DemandReq \cap FromCache, a, {c})
      OBVIOUS
    <3>2. sent = {i \in DOMAIN inbox[h] : inbox[h][i] \in M}
      BY <2>3, <3>1 DEF Mail, FromCache
    <3>3. NotThen(inbox[h], M, M) /\ (Sent(inbox, DemandReq, a, c) <=> Has(inbox[h], M))
      BY <2>1, <3>1 DEF OneRequest, SentNotThen, Sent
    <3>4. QED
      BY <2>2, <3>2, <3>3, CountOne
  <2>5. /\ Got(inbox, DirReply, a, c) => Cardinality(answered) = 1
        /\ ~Got(inbox, DirReply, a, c) => Cardinality(answered) = 0
    <3>1. PICK M : M = Mail(DirReply \cap ToCache, a, Core)
      OBVIOUS
    <3>2. answered = {i \in DOMAIN inbox[c] : inbox[c][i] \in M}
      BY <2>3, <3>1 DEF Mail, ToCache, Message
    <3>3. NotThen(inbox[c], M, M) /\ (Got(inbox, DirReply, a, c) <=> Has(inbox[c], M))
      BY <2>1, <3>1 DEF OneRequest, GotNotThen, Got
    <3>4. QED
      BY <2>2, <3>2, <3>3, CountOne
  <2>6. /\ Queued(Pend(a), DemandReq, c) => Cardinality(queued) = 1
        /\ ~Queued(Pend(a), DemandReq, c) => Cardinality(queued) = 0
    <3>1. PICK M : M = Asked(DemandReq, c)
      OBVIOUS
    <3>2. NotThen(Pend(a), M, M) /\ (Queued(Pend(a), DemandReq, c) <=> Has(Pend(a), M))
      BY <2>1, <3>1 DEF OneRequest, QueuedOnce, Queued
    <3>3. \A i \in DOMAIN queue[a] : queue[a][i].type \in DemandReq /\ queue[a][i].from = c <=>
                                       queue[a][i] \in M
      BY <2>3, <3>1 DEF Asked
    <3>4. CASE net[h].at = "next" /\ net[h].addr = a
      <4>1. queue[a] # <<>> /\ Pend(a) = Tail(queue[a])
        BY <3>4 DEF IInv, NetOK, Pend
      <4>2. queued = {i \in DOMAIN queue[a] : queue[a][i] \in M /\ i # 1}
        BY <3>3, <3>4
      <4>3. QED
        BY <2>2, <3>2, <4>1, <4>2, CountOneInTail
    <3>5. CASE ~(net[h].at = "next" /\ net[h].addr = a)
      <4>1. Pend(a) = queue[a]
        BY <3>5 DEF Pend
      <4>2. queued = {i \in DOMAIN queue[a] : queue[a][i] \in M}
        BY <3>3, <3>5
      <4>3. QED
        BY <2>2, <3>2, <4>1, <4>2, CountOne
    <3>6. QED
      BY <3>4, <3>5
  <2>7. Underway(c, a) = Cardinality(sent) + Cardinality(queued) + Cardinality(answered)
    BY DEF Underway
  <2> HIDE DEF sent, queued, answered
  <2>8. QED
    BY <2>1, <2>4, <2>5, <2>6, <2>7 DEF OneRequest, Outstanding
<1>2. QED
  BY ProtocolInvariant, <1>1, PTL

-----------------------------------------------------------------------------
(***************************************************************************)
(* The protocol of Coherence implements CoherentLines, for every number of *)
(* caches, lines and threads and every order of messages.  A cache takes a *)
(* permission when a reply is installed: that no other cache has one which *)
(* excludes it is what SafeLines is for, and that somebody waits for it is *)
(* in the sequences of waiters.  They are also why an access that was      *)
(* served is over once and for all: WaitersOK.                             *)
(***************************************************************************)

HIDE MapsAssumption

\* What the caches may do, and the accesses that wait: the variables of
\* CoherentLines.
Perm == [c \in Core |-> [a \in Addr |-> Permission(llc[c][a])]]
Accesses == UNION {PendingAt(c, a) : c \in Core, a \in Addr}

\* The waiters of line a at cache c, but for one that was woken.
Asleep(c, a) == {j \in DOMAIN waiters[c][a] : ~(j = 1 /\ net[c].at = "woken" /\ net[c].addr = a)}

WaitOf(c, a, i) == [thread |-> waiters[c][a][i].thread, line |-> a,
                    exclusive |-> waiters[c][a][i].exclusive]

\* A thread that waits does so once, at the cache that serves it.
WaitersOK ==
  \A c \in Core, a \in Addr : \A i \in Asleep(c, a) :
    /\ LLCOf[waiters[c][a][i].thread] = c
    /\ waiters[c][a][i].thread \in waiting
    /\ \A b \in Addr : \A j \in Asleep(c, b) :
         waiters[c][b][j].thread = waiters[c][a][i].thread => b = a /\ j = i

-----------------------------------------------------------------------------
(* Accesses that wait *)

\* Every waiter that sleeps is an access that waits, and there are no others; ...
LEMMA AccessesAre ==
  ASSUME NEW r
  PROVE  r \in Accesses <=> \E c \in Core, a \in Addr : \E i \in Asleep(c, a) : r = WaitOf(c, a, i)
<1>1. ASSUME NEW c \in Core, NEW a \in Addr
      PROVE  r \in PendingAt(c, a) <=> \E i \in Asleep(c, a) : r = WaitOf(c, a, i)
  BY DEF PendingAt, Asleep, WaitOf
<1>2. r \in Accesses <=> \E c \in Core, a \in Addr : r \in PendingAt(c, a)
  BY DEF Accesses
<1>3. QED
  BY <1>1, <1>2

\* ... the same after a step.
LEMMA AccessesWillBe ==
  ASSUME NEW r
  PROVE  r \in Accesses' <=> \E c \in Core, a \in Addr : \E i \in Asleep(c, a)' : r = WaitOf(c, a, i)'
<1>1. ASSUME NEW c \in Core, NEW a \in Addr
      PROVE  r \in PendingAt(c, a)' <=> \E i \in Asleep(c, a)' : r = WaitOf(c, a, i)'
  BY DEF PendingAt, Asleep, WaitOf
<1>2. r \in Accesses' <=> \E c \in Core, a \in Addr : r \in PendingAt(c, a)'
  BY DEF Accesses
<1>3. QED
  BY <1>1, <1>2

\* No waiter was woken or joined: the same accesses wait.
LEMMA NobodyMoves ==
  ASSUME WaitersOK, waiters' = waiters, waiting' = waiting,
         \A c \in Core, a \in Addr : Asleep(c, a)' = Asleep(c, a)
  PROVE  WaitersOK' /\ Accesses' = Accesses
<1>1. WaitersOK'
  BY DEF WaitersOK
<1>2. \A r : r \in Accesses' <=> r \in Accesses
  BY AccessesAre, AccessesWillBe DEF WaitOf
<1>3. QED
  BY <1>1, <1>2

\* A network thread that neither has woken nor wakes a waiter.
LEMMA Moves ==
  ASSUME IInv, waiters' = waiters, NEW h \in Core, NEW at, NEW a, NEW data, GoTo(h, at, a, data),
         net[h].at # "woken", at # "woken"
  PROVE  \A c \in Core, b \in Addr : Asleep(c, b)' = Asleep(c, b)
<1> SUFFICES ASSUME NEW c \in Core, NEW b \in Addr PROVE Asleep(c, b)' = Asleep(c, b)
  OBVIOUS
<1>1. net'[c] = IF c = h THEN [at |-> at, addr |-> a, data |-> data] ELSE net[c]
  BY DEF GoTo, IInv, TypeOK
<1>2. (net'[c].at = "woken" /\ net'[c].addr = b) <=> (net[c].at = "woken" /\ net[c].addr = b)
  BY <1>1
<1>3. QED
  BY <1>2 DEF Asleep

\* The network threads go on with something else, or their data was aged.
LEMMA Quiet ==
  ASSUME IInv, WaitersOK, waiters' = waiters, waiting' = waiting,
         \/ \A c \in Core : net'[c].at = net[c].at /\ net'[c].addr = net[c].addr
         \/ \E h \in Core : /\ net[h].at # "woken"
                            /\ \E at, a, data : at # "woken" /\ GoTo(h, at, a, data)
  PROVE  WaitersOK' /\ Accesses' = Accesses
<1>1. \A c \in Core, b \in Addr : Asleep(c, b)' = Asleep(c, b)
  <2>1. CASE \A c \in Core : net'[c].at = net[c].at /\ net'[c].addr = net[c].addr
    BY <2>1 DEF Asleep
  <2>2. CASE \E h \in Core : /\ net[h].at # "woken"
                             /\ \E at, a, data : at # "woken" /\ GoTo(h, at, a, data)
    BY <2>2, Moves
  <2>3. QED
    BY <2>1, <2>2
<1>2. QED
  BY <1>1, NobodyMoves

-----------------------------------------------------------------------------
(* Permissions *)

\* The permissions, cache by cache and line by line.
LEMMA PermIs ==
  ASSUME NEW c \in Core, NEW a \in Addr
  PROVE  Perm[c][a] = Permission(llc[c][a]) /\ Perm'[c][a] = Permission(llc'[c][a])
  BY DEF Perm

\* A line changes its state in one cache: so does its permission, ...
LEMMA PermChanges ==
  ASSUME IInv, NEW c \in Core, NEW a \in Addr, NEW state, llc' = [llc EXCEPT ![c][a] = state]
  PROVE  Perm' = [Perm EXCEPT ![c][a] = Permission(state)]
<1>1. \A k \in Core, b \in Addr : llc'[k][b] = IF k = c /\ b = a THEN state ELSE llc[k][b]
  BY DEF IInv, TypeOK
<1>2. \A k \in Core, b \in Addr :
        [Perm EXCEPT ![c][a] = Permission(state)][k][b] =
          IF k = c /\ b = a THEN Permission(state) ELSE Perm[k][b]
  BY DEF Perm
<1>3. \A k \in Core, b \in Addr : Perm'[k][b] = [Perm EXCEPT ![c][a] = Permission(state)][k][b]
  BY <1>1, <1>2, PermIs
<1>4. Perm' \in [Core -> [Addr -> {Permission(llc'[k][b]) : k \in Core, b \in Addr}]]
  BY DEF Perm
<1>5. QED
  BY <1>3 DEF Perm

\* ... unless the new state is worth the same.
LEMMA PermStays ==
  ASSUME IInv, NEW c \in Core, NEW a \in Addr, NEW state, llc' = [llc EXCEPT ![c][a] = state],
         Permission(state) = Permission(llc[c][a])
  PROVE  Perm' = Perm
<1>1. \A k \in Core, b \in Addr : llc'[k][b] = IF k = c /\ b = a THEN state ELSE llc[k][b]
  BY DEF IInv, TypeOK
<1>2. \A k \in Core, b \in Addr : Permission(llc'[k][b]) = Permission(llc[k][b])
  BY <1>1
<1>3. QED
  BY <1>2 DEF Perm

-----------------------------------------------------------------------------
(* The steps of CoherentLines, in terms of Perm and Accesses *)

Stutters == Accesses' = Accesses /\ Perm' = Perm

\* No access and no permission changed: CoherentLines sees nothing.
LEMMA LinesStutter == ASSUME Stutters PROVE UNCHANGED Lines!vars
  BY DEF Stutters, Lines!vars, Accesses, Perm

\* A new access waits, of a thread that did not.
LEMMA LinesAsk ==
  ASSUME NEW t \in Thread, NEW a \in Addr, NEW exclusive \in BOOLEAN, NEW r,
         r = [thread |-> t, line |-> a, exclusive |-> exclusive],
         \A q \in Accesses : q.thread # t, Accesses' = Accesses \cup {r}, Perm' = Perm
  PROVE  Lines!Next
<1>1. r \in Lines!Pending /\ r.thread = t
  BY DEF Lines!Pending
<1>2. \A q \in Accesses : q.thread # r.thread
  BY <1>1
<1>3. Lines!Ask(r)
  <2>1. ASSUME NEW q \in UNION {PendingAt(k, b) : k \in Core, b \in Addr}
        PROVE  q.thread # r.thread
    <3>1. q \in Accesses
      BY DEF Accesses
    <3>2. QED
      BY <1>2, <3>1
  <2>2. Accesses = UNION {PendingAt(k, b) : k \in Core, b \in Addr}
    BY DEF Accesses
  <2>3. Accesses' = (UNION {PendingAt(k, b) : k \in Core, b \in Addr})'
    BY DEF Accesses
  <2>4. (UNION {PendingAt(k, b) : k \in Core, b \in Addr})' =
         (UNION {PendingAt(k, b) : k \in Core, b \in Addr}) \cup {r}
    BY <2>2, <2>3
  <2>5. QED
    BY <2>1, <2>4 DEF Lines!Ask, Perm
<1>4. QED
  BY <1>1, <1>3 DEF Lines!Next

\* A cache that an access waits at gets a permission that no other one excludes.
LEMMA LinesGrant ==
  ASSUME NEW c \in Core, NEW a \in Addr, NEW p \in {"read", "write"},
         Perm[c][a] = "none" \/ (Perm[c][a] = "read" /\ p = "write"),
         \E r \in Accesses : LLCOf[r.thread] = c /\ r.line = a,
         \A k \in Core \ {c} : Perm[k][a] = "none" \/ (p = "read" /\ Perm[k][a] = "read"),
         Perm' = [Perm EXCEPT ![c][a] = p], Accesses' = Accesses
  PROVE  Lines!Next
<1>1. <<Perm[c][a], p>> \in Lines!Weaker
  BY DEF Lines!Weaker
<1>2. \A k \in Core \ {c} : Perm[k][a] \in IF p = "read" THEN {"none", "read"} ELSE {"none"}
  OBVIOUS
<1>3. Lines!Grant(c, a, p)
  BY <1>1, <1>2 DEF Lines!Grant, Accesses, Perm
<1>4. p \in Lines!Permission
  BY DEF Lines!Permission
<1>5. QED
  BY <1>3, <1>4 DEF Lines!Next

\* A cache gives up a permission or a part of it.
LEMMA LinesYield ==
  ASSUME NEW c \in Core, NEW a \in Addr, NEW p \in {"none", "read"},
         Perm[c][a] = "write" \/ (Perm[c][a] = "read" /\ p = "none"),
         Perm' = [Perm EXCEPT ![c][a] = p], Accesses' = Accesses
  PROVE  Lines!Next
<1>1. <<p, Perm[c][a]>> \in Lines!Weaker
  BY DEF Lines!Weaker
<1>2. Lines!Yield(c, a, p)
  BY <1>1 DEF Lines!Yield, Accesses, Perm
<1>3. p \in Lines!Permission
  BY DEF Lines!Permission
<1>4. QED
  BY <1>2, <1>3 DEF Lines!Next

\* An access is over, at a cache that has the permission for it.
LEMMA LinesFinish ==
  ASSUME NEW r \in Accesses, NEW c, NEW a, c = LLCOf[r.thread], a = r.line,
         IF r.exclusive THEN Perm[c][a] = "write" ELSE Perm[c][a] # "none",
         Accesses' = Accesses \ {r}, Perm' = Perm
  PROVE  Lines!Next
<1>1. Lines!Suffices(Perm[c][a], r.exclusive)
  BY DEF Lines!Suffices
<1>2. Lines!Finish(r)
  BY <1>1 DEF Lines!Finish, Accesses, Perm
<1>3. r \in UNION {PendingAt(k, b) : k \in Core, b \in Addr}
  BY DEF Accesses
<1>4. QED
  BY <1>2, <1>3 DEF Lines!Next

-----------------------------------------------------------------------------
(* Steps that neither wake nor add a waiter, and change no permission *)

\* The directories and DRAM do not touch the caches.
LEMMA ElsewhereStutters ==
  ASSUME IInv, WaitersOK, UNCHANGED cacheVars,
         \/ net' = net
         \/ \E h \in Core : /\ net[h].at # "woken"
                            /\ \E at, a, data : at # "woken" /\ GoTo(h, at, a, data)
  PROVE  WaitersOK' /\ Stutters
<1>1. llc' = llc /\ waiters' = waiters /\ waiting' = waiting
  BY DEF cacheVars
<1>2. Perm' = Perm
  BY <1>1 DEF Perm
<1>3. QED
  BY <1>1, <1>2, Quiet DEF Stutters

\* A directory that sends a command is done, ...
LEMMA CommandMoves ==
  ASSUME NEW h \in Core, net[h].at = "head", NEW type, NEW to, Command(h, type, to)
  PROVE  /\ UNCHANGED cacheVars
         /\ net[h].at # "woken" /\ \E at, a, data : at # "woken" /\ GoTo(h, at, a, data)
  BY DEF Command, Done

\* ... and one that retrieves data is done or has answered the request.
LEMMA RetrieveMoves ==
  ASSUME NEW h \in Core, net[h].at = "head", NEW rep, NEW to, NEW data, NEW e,
         Retrieve(h, rep, to, data, e)
  PROVE  /\ UNCHANGED cacheVars
         /\ net[h].at # "woken" /\ \E at, a, d : at # "woken" /\ GoTo(h, at, a, d)
<1>1. GoTo(h, "next", net[h].addr, "none") \/ GoTo(h, "recv", NoAddr, "none")
  BY DEF Retrieve, Done
<1>2. QED
  BY <1>1 DEF Retrieve

\* So no step of a directory or of DRAM shows.
LEMMA DirectoryStutters ==
  ASSUME IInv, WaitersOK, NEW h \in Core, DirectoryMessage(h) \/ ProcessRequest(h) \/ DramMessage(h)
  PROVE  WaitersOK' /\ Stutters
<1> DEFINE OK == /\ UNCHANGED cacheVars
                 /\ \/ net' = net
                    \/ /\ net[h].at # "woken"
                       /\ \E at, a, data : at # "woken" /\ GoTo(h, at, a, data)
<1>1. ASSUME DirectoryMessage(h) PROVE OK
  <2>1. CASE TakeRequest(h)
    BY <2>1 DEF TakeRequest, Received
  <2>2. CASE TakeInvRep(h)
    BY <2>2 DEF TakeInvRep, Received
  <2>3. CASE TakeFlushRep(h)
    BY <2>3 DEF TakeFlushRep, Received
  <2>4. CASE TakeWbRep(h)
    BY <2>4 DEF TakeWbRep, Received
  <2>5. CASE TakeDramRep(h)
    BY <2>5 DEF TakeDramRep, Received
  <2>6. QED
    BY <1>1, <2>1, <2>2, <2>3, <2>4, <2>5 DEF DirectoryMessage
<1>2. ASSUME ProcessRequest(h) PROVE OK
  <2>1. CASE ExFlush(h) \/ ExInvalidate(h) \/ ShWriteBack(h) \/ ShMakeRoom(h) \/ UpgradeFlush(h)
    BY <2>1, CommandMoves DEF ExFlush, ExInvalidate, ShWriteBack, ShMakeRoom, UpgradeFlush, Processing
  <2>2. CASE ExGrant(h) \/ ShShare(h) \/ ShFirst(h) \/ UpgradeAsExclusive(h)
    BY <2>2, RetrieveMoves DEF ExGrant, ShShare, ShFirst, UpgradeAsExclusive, Processing
  <2>3. CASE UpgradeGrant(h)
    BY <2>3 DEF UpgradeGrant, Processing
  <2>4. CASE UpgradeInvalidate(h)
    BY <2>4 DEF UpgradeInvalidate, Processing, Done
  <2>5. CASE Allocate(h)
    BY <2>5 DEF Allocate
  <2>6. CASE Nullified(h)
    BY <2>6 DEF Nullified, Processing
  <2>7. CASE NextRequest(h)
    BY <2>7 DEF NextRequest, Done
  <2>8. QED
    BY <1>2, <2>1, <2>2, <2>3, <2>4, <2>5, <2>6, <2>7 DEF ProcessRequest
<1>3. ASSUME DramMessage(h) PROVE OK
  BY <1>3 DEF DramMessage, DramRead, DramWrite
<1>4. QED
  BY <1>1, <1>2, <1>3, ElsewhereStutters

-----------------------------------------------------------------------------
(* Steps of the caches *)

\* A reply is installed: the cache gets a permission that no other cache's
\* excludes, and that the first waiter asked for.
LEMMA InstalledGrants ==
  ASSUME IInv, WaitersOK, SingleWriter', NEW c \in Core, NEW a \in Addr,
         net[c].at = "recv", waiters[c][a] # <<>>, GoTo(c, "serve", a, "none"),
         waiters' = waiters, waiting' = waiting,
         NEW state \in {"SHARED", "EXCLUSIVE", "MODIFIED"},
         llc' = [llc EXCEPT ![c][a] = state],
         \/ llc[c][a] = "INVALID"
         \/ llc[c][a] = "SHARED_UPGRADING" /\ state = "MODIFIED"
  PROVE  WaitersOK' /\ Lines!Next
<1>1. WaitersOK' /\ Accesses' = Accesses
  BY Quiet
<1>2. Perm' = [Perm EXCEPT ![c][a] = Permission(state)]
  BY PermChanges
<1>3. \A k \in Core : llc'[k][a] = IF k = c THEN state ELSE llc[k][a]
  BY DEF IInv, TypeOK
<1>4. \A k \in Core : llc[k][a] \in CacheState
  BY DEF IInv, TypeOK
<1>5. \A k \in Core \ {c} :
        /\ llc[k][a] \notin {"EXCLUSIVE", "MODIFIED"}
        /\ state # "SHARED" => llc[k][a] = "INVALID"
  <2>1. \A k \in Core \ {c} : /\ llc'[k][a] \in {"EXCLUSIVE", "MODIFIED"} => llc'[c][a] = "INVALID"
                              /\ llc'[c][a] \in {"EXCLUSIVE", "MODIFIED"} => llc'[k][a] = "INVALID"
    BY DEF SingleWriter
  <2>2. QED
    BY <1>3, <2>1
<1>6. \A k \in Core \ {c} : \/ Perm[k][a] = "none"
                            \/ Permission(state) = "read" /\ Perm[k][a] = "read"
  BY <1>4, <1>5, PermIs DEF Permission, CacheState
<1>7. Permission(state) \in {"read", "write"}
  BY DEF Permission
<1>8. Perm[c][a] = "none" \/ (Perm[c][a] = "read" /\ Permission(state) = "write")
  BY PermIs DEF Permission
<1>9. \E r \in Accesses : LLCOf[r.thread] = c /\ r.line = a
  <2>1. 1 \in Asleep(c, a)
    <3>1. waiters[c][a] \in Seq(Waiter)
      BY DEF IInv, TypeOK
    <3>2. 1 \in DOMAIN waiters[c][a]
      BY <3>1
    <3>3. QED
      BY <3>2 DEF Asleep
  <2>2. WaitOf(c, a, 1) \in Accesses
    BY <2>1, AccessesAre
  <2>3. LLCOf[WaitOf(c, a, 1).thread] = c /\ WaitOf(c, a, 1).line = a
    BY <2>1 DEF WaitersOK, WaitOf
  <2>4. QED
    BY <2>2, <2>3
<1>10. Lines!Next
  BY <1>1, <1>2, <1>6, <1>7, <1>8, <1>9, LinesGrant
<1>11. QED
  BY <1>1, <1>10

\* A reply brings the line or the right to write it.
LEMMA FillGrants ==
  ASSUME IInv, WaitersOK, SingleWriter', NEW c \in Core, Fill(c) \/ FinishUpgrade(c)
  PROVE  WaitersOK' /\ Lines!Next
<1> DEFINE a == Head(inbox[c]).addr
<1>1. /\ net[c].at = "recv" /\ inbox[c] # <<>> /\ waiters[c][a] # <<>>
      /\ GoTo(c, "serve", a, "none") /\ waiters' = waiters /\ waiting' = waiting
  BY DEF Fill, FinishUpgrade, Received
<1>2. a \in Addr
  BY <1>1, TakenOK
<1>3. CASE Fill(c)
  <2>1. PICK state \in {"EXCLUSIVE", "SHARED"} :
          llc[c][a] = "INVALID" /\ llc' = [llc EXCEPT ![c][a] = state]
    BY <1>3 DEF Fill
  <2> HIDE DEF a
  <2>2. QED
    BY <1>1, <1>2, <2>1, InstalledGrants
<1>4. CASE FinishUpgrade(c)
  <2>1. llc[c][a] = "SHARED_UPGRADING" /\ llc' = [llc EXCEPT ![c][a] = "MODIFIED"]
    BY <1>4 DEF FinishUpgrade
  <2> HIDE DEF a
  <2>2. QED
    BY <1>1, <1>2, <2>1, InstalledGrants
<1>5. QED
  BY <1>3, <1>4

\* A cache gives up what it may do with a line, all of it or the right to write.
LEMMA GivingUpYields ==
  ASSUME IInv, WaitersOK, NEW c \in Core, NEW a \in Addr, NEW state \in {"INVALID", "SHARED"},
         llc' = [llc EXCEPT ![c][a] = state], llc[c][a] # "INVALID",
         UNCHANGED <<waiters, waiting, net>>
  PROVE  WaitersOK' /\ (Lines!Next \/ Stutters)
<1>1. WaitersOK' /\ Accesses' = Accesses
  BY Quiet
<1>2. Perm' = [Perm EXCEPT ![c][a] = Permission(state)]
  BY PermChanges
<1>3. Perm[c][a] \in {"read", "write"} /\ Perm[c][a] = Permission(llc[c][a])
  BY PermIs DEF Permission
<1>4. Permission(state) = IF state = "INVALID" THEN "none" ELSE "read"
  BY DEF Permission
<1>5. CASE Permission(state) = Permission(llc[c][a])
  BY <1>1, <1>5, PermStays DEF Stutters
<1>6. CASE Permission(state) # Permission(llc[c][a])
  <2>1. Perm[c][a] = "write" \/ (Perm[c][a] = "read" /\ Permission(state) = "none")
    BY <1>3, <1>4, <1>6
  <2>2. Permission(state) \in {"none", "read"}
    BY <1>4
  <2>3. Lines!Next
    BY <1>1, <1>2, <2>1, <2>2, LinesYield
  <2>4. QED
    BY <1>1, <2>3
<1>7. QED
  BY <1>5, <1>6

\* A command takes the line, the right to write it, or nothing.
LEMMA CommandsYield ==
  ASSUME IInv, WaitersOK, NEW c \in Core,
         Invalidate(c) \/ Flush(c) \/ WriteBack(c) \/ IgnoreCommand(c)
  PROVE  WaitersOK' /\ (Lines!Next \/ Stutters)
<1> DEFINE a == Head(inbox[c]).addr
<1>1. inbox[c] # <<>> /\ UNCHANGED <<waiters, waiting, net>>
  BY DEF Invalidate, Flush, WriteBack, IgnoreCommand, Received, cacheVars
<1>2. a \in Addr
  BY <1>1, TakenOK
<1>3. \/ llc' = llc
      \/ /\ llc[c][a] # "INVALID"
         /\ \E state \in {"INVALID", "SHARED"} : llc' = [llc EXCEPT ![c][a] = state]
  BY DEF Invalidate, Flush, WriteBack, IgnoreCommand, Drop, cacheVars
<1> HIDE DEF a
<1>4. CASE llc' = llc
  BY <1>1, <1>4, Quiet DEF Stutters, Perm
<1>5. QED
  BY <1>1, <1>2, <1>3, <1>4, GivingUpYields

\* A line that is evicted is given up.
LEMMA EvictYields ==
  ASSUME IInv, WaitersOK, NEW c \in Core, NEW a \in Addr, Evict(c, a)
  PROVE  WaitersOK' /\ (Lines!Next \/ Stutters)
<1>1. /\ llc' = [llc EXCEPT ![c][a] = "INVALID"] /\ llc[c][a] # "INVALID"
      /\ UNCHANGED <<waiters, waiting, net>>
  BY DEF Evict, Readable
<1>2. QED
  BY <1>1, GivingUpYields

\* A write that hits needs no other permission than the cache has.
LEMMA WriteHitStutters ==
  ASSUME IInv, WaitersOK, NEW t \in Thread, NEW a \in Addr, WriteHit(t, a)
  PROVE  WaitersOK' /\ Stutters
<1> PICK c \in Core : c = LLCOf[t]
  BY AccessOK
<1>1. /\ llc' = [llc EXCEPT ![c][a] = "MODIFIED"] /\ llc[c][a] \in {"EXCLUSIVE", "MODIFIED"}
      /\ waiters' = waiters /\ waiting' = waiting /\ net' = NetWrittenAt(a)
  BY DEF WriteHit
<1>2. Permission("MODIFIED") = Permission(llc[c][a])
  BY <1>1 DEF Permission
<1>3. Perm' = Perm
  BY <1>1, <1>2, PermStays
<1>4. \A k \in Core : net'[k].at = net[k].at /\ net'[k].addr = net[k].addr
  BY <1>1, AgedNet
<1>5. QED
  BY <1>1, <1>3, <1>4, Quiet DEF Stutters

-----------------------------------------------------------------------------
(* Steps that add, wake or remove a waiter *)

\* An access that misses waits from now on, once: its thread does not wait yet.
LEMMA MissAsks ==
  ASSUME IInv, WaitersOK, NEW t \in Thread, NEW a \in Addr, NEW exclusive \in BOOLEAN,
         Miss(t, a, exclusive)
  PROVE  WaitersOK' /\ Lines!Next
<1> PICK c \in Core : c = LLCOf[t]
  BY AccessOK
<1> DEFINE w == [thread |-> t, exclusive |-> exclusive]
           r == [thread |-> t, line |-> a, exclusive |-> exclusive]
<1> PICK n : n = Len(waiters[c][a]) + 1
  OBVIOUS
<1>1. /\ t \notin waiting /\ waiting' = waiting \cup {t}
      /\ waiters' = [waiters EXCEPT ![c][a] = Append(waiters[c][a], w)]
      /\ net' = net
  BY DEF Miss, Misses, MayAccess
<1>2. /\ waiters[c][a] \in Seq(Waiter)
      /\ n \in Nat \ {0} /\ DOMAIN waiters[c][a] = 1 .. n - 1
      /\ DOMAIN Append(waiters[c][a], w) = 1 .. n
      /\ \A i \in 1 .. n - 1 : Append(waiters[c][a], w)[i] = waiters[c][a][i]
      /\ Append(waiters[c][a], w)[n] = w
      /\ 1 .. n = (1 .. n - 1) \cup {n} /\ n \notin 1 .. n - 1
  <2>1. waiters[c][a] \in Seq(Waiter)
    BY DEF IInv, TypeOK
  <2>2. n \in Nat \ {0} /\ DOMAIN waiters[c][a] = 1 .. n - 1
    BY <2>1
  <2>3. /\ DOMAIN Append(waiters[c][a], w) = 1 .. n
        /\ \A i \in 1 .. n - 1 : Append(waiters[c][a], w)[i] = waiters[c][a][i]
        /\ Append(waiters[c][a], w)[n] = w
    BY <2>1
  <2>4. 1 .. n = (1 .. n - 1) \cup {n} /\ n \notin 1 .. n - 1
    BY <2>2
  <2>5. QED
    BY <2>1, <2>2, <2>3, <2>4
<1>3. \A k \in Core, b \in Addr :
        waiters'[k][b] = IF k = c /\ b = a THEN Append(waiters[c][a], w) ELSE waiters[k][b]
  BY <1>1 DEF IInv, TypeOK
<1>4. ~(n = 1 /\ net[c].at = "woken" /\ net[c].addr = a)
  BY <1>2 DEF IInv, NetOK
<1> HIDE DEF w
<1>5. \A k \in Core, b \in Addr :
        Asleep(k, b)' = IF k = c /\ b = a THEN Asleep(k, b) \cup {n} ELSE Asleep(k, b)
  <2> SUFFICES ASSUME NEW k \in Core, NEW b \in Addr
               PROVE  Asleep(k, b)' = IF k = c /\ b = a THEN Asleep(k, b) \cup {n} ELSE Asleep(k, b)
    OBVIOUS
  <2>1. CASE k = c /\ b = a
    <3>1. DOMAIN waiters'[k][b] = DOMAIN waiters[k][b] \cup {n}
      BY <1>2, <1>3, <2>1
    <3>2. QED
      BY <1>1, <1>4, <2>1, <3>1 DEF Asleep
  <2>2. CASE ~(k = c /\ b = a)
    BY <1>1, <1>3, <2>2 DEF Asleep
  <2>3. QED
    BY <2>1, <2>2
<1>6. \A k \in Core, b \in Addr : \A i \in Asleep(k, b) : waiters'[k][b][i] = waiters[k][b][i]
  <2>1. ASSUME NEW k \in Core, NEW b \in Addr, NEW i \in Asleep(k, b)
        PROVE  waiters'[k][b][i] = waiters[k][b][i]
    <3>1. i \in DOMAIN waiters[k][b]
      BY DEF Asleep
    <3>2. CASE k = c /\ b = a
      BY <1>2, <1>3, <3>1, <3>2
    <3>3. CASE ~(k = c /\ b = a)
      BY <1>3, <3>3
    <3>4. QED
      BY <3>2, <3>3
  <2>2. QED
    BY <2>1
<1>7. waiters'[c][a][n] = w /\ n \notin Asleep(c, a)
  <2>1. n \notin Asleep(c, a)
    <3>1. n \notin DOMAIN waiters[c][a]
      BY <1>2
    <3>2. QED
      BY <3>1 DEF Asleep
  <2>2. QED
    BY <1>2, <1>3, <2>1
<1>8. w.thread = t /\ w.exclusive = exclusive
  BY DEF w
<1>9. \A k \in Core, b \in Addr : \A i \in Asleep(k, b) : waiters[k][b][i].thread # t
  BY <1>1 DEF WaitersOK
<1>10. WaitersOK'
  <2>1. ASSUME NEW k \in Core, NEW b \in Addr, NEW i \in Asleep(k, b)'
        PROVE  /\ LLCOf[waiters'[k][b][i].thread] = k
               /\ waiters'[k][b][i].thread \in waiting'
               /\ \A d \in Addr : \A j \in Asleep(k, d)' :
                    waiters'[k][d][j].thread = waiters'[k][b][i].thread => d = b /\ j = i
    <3>1. CASE i \in Asleep(k, b)
      <4>1. waiters'[k][b][i] = waiters[k][b][i]
        BY <1>6, <3>1
      <4>2. ASSUME NEW d \in Addr, NEW j \in Asleep(k, d)',
                   waiters'[k][d][j].thread = waiters'[k][b][i].thread
            PROVE  d = b /\ j = i
        <5>1. j \in Asleep(k, d)
          BY <1>5, <1>7, <1>8, <1>9, <3>1, <4>1, <4>2
        <5>2. QED
          BY <1>6, <3>1, <4>1, <4>2, <5>1 DEF WaitersOK
      <4>3. LLCOf[waiters[k][b][i].thread] = k /\ waiters[k][b][i].thread \in waiting
        BY <3>1 DEF WaitersOK
      <4>4. waiting \subseteq waiting'
        BY <1>1
      <4>5. QED
        BY <4>1, <4>2, <4>3, <4>4
    <3>2. CASE i \notin Asleep(k, b)
      <4>1. k = c /\ b = a /\ i = n /\ waiters'[k][b][i].thread = t
        BY <1>5, <1>7, <1>8, <3>2
      <4>2. ASSUME NEW d \in Addr, NEW j \in Asleep(k, d)', waiters'[k][d][j].thread = t
            PROVE  d = b /\ j = i
        <5>1. j \notin Asleep(k, d)
          BY <1>6, <1>9, <4>2
        <5>2. QED
          BY <1>5, <4>1, <4>2, <5>1
      <4>3. \A d \in Addr : \A j \in Asleep(k, d)' :
              waiters'[k][d][j].thread = waiters'[k][b][i].thread => d = b /\ j = i
        BY <4>1, <4>2
      <4>4. LLCOf[waiters'[k][b][i].thread] = k
        BY <4>1
      <4>5. waiters'[k][b][i].thread \in waiting'
        BY <1>1, <4>1
      <4>6. QED
        BY <4>3, <4>4, <4>5
    <3>3. QED
      BY <3>1, <3>2
  <2>2. QED
    BY <2>1 DEF WaitersOK
<1>11. r = WaitOf(c, a, n)'
  BY <1>7, <1>8 DEF WaitOf
<1>12. \A k \in Core, b \in Addr : \A i \in Asleep(k, b) : WaitOf(k, b, i)' = WaitOf(k, b, i)
  BY <1>6 DEF WaitOf
<1> HIDE DEF r
<1>13. Accesses' = Accesses \cup {r}
  <2>1. ASSUME NEW q \in Accesses' PROVE q \in Accesses \cup {r}
    <3>1. PICK k \in Core, b \in Addr : \E i \in Asleep(k, b)' : q = WaitOf(k, b, i)'
      BY AccessesWillBe
    <3>2. PICK i \in Asleep(k, b)' : q = WaitOf(k, b, i)'
      BY <3>1
    <3>3. CASE i \in Asleep(k, b)
      <4>1. q = WaitOf(k, b, i)
        BY <1>12, <3>2, <3>3
      <4>2. QED
        BY <3>3, <4>1, AccessesAre
    <3>4. CASE i \notin Asleep(k, b)
      BY <1>5, <1>11, <3>2, <3>4
    <3>5. QED
      BY <3>3, <3>4
  <2>2. r \in Accesses'
    <3>1. n \in Asleep(c, a)'
      BY <1>5
    <3>2. QED
      BY <1>11, <3>1, AccessesWillBe
  <2>3. ASSUME NEW q \in Accesses PROVE q \in Accesses'
    <3>1. PICK k \in Core, b \in Addr : \E i \in Asleep(k, b) : q = WaitOf(k, b, i)
      BY AccessesAre
    <3>2. PICK i \in Asleep(k, b) : q = WaitOf(k, b, i)
      BY <3>1
    <3>3. i \in Asleep(k, b)' /\ q = WaitOf(k, b, i)'
      BY <1>5, <1>12, <3>2
    <3>4. QED
      BY <3>3, AccessesWillBe
  <2>4. QED
    BY <2>1, <2>2, <2>3
<1>14. \A q \in Accesses : q.thread # t
  BY <1>9, AccessesAre DEF WaitOf
<1>15. Perm' = Perm
  <2>1. CASE llc' = llc
    BY <2>1 DEF Perm
  <2>2. CASE llc' # llc
    <3>1. llc[c][a] = "SHARED" /\ llc' = [llc EXCEPT ![c][a] = "SHARED_UPGRADING"]
      BY <2>2 DEF Miss, RequestFor
    <3>2. Permission("SHARED_UPGRADING") = Permission(llc[c][a])
      BY <3>1 DEF Permission
    <3>3. QED
      BY <3>1, <3>2, PermStays
  <2>3. QED
    BY <2>1, <2>2
<1>16. Lines!Next
  BY <1>13, <1>14, <1>15, LinesAsk DEF r
<1>17. QED
  BY <1>10, <1>16

\* The waiter that wakes waits no longer, nowhere: it is over only when the cache
\* of its thread may do what it asked for.
LEMMA WakeFinishes ==
  ASSUME IInv, WaitersOK, NEW c \in Core, Wake(c)
  PROVE  WaitersOK' /\ Lines!Next
<1> PICK a : a = net[c].addr
  OBVIOUS
<1>1. /\ net[c].at = "serve" /\ waiters[c][a] # <<>>
      /\ Permitted(c, a, Head(waiters[c][a]).exclusive)
      /\ waiting' = waiting \ {Head(waiters[c][a]).thread} /\ waiters' = waiters
      /\ \/ net' = [NetWrittenAt(a) EXCEPT ![c].at = "woken"]
         \/ GoTo(c, "woken", a, "none")
      /\ \/ llc' = llc
         \/ Head(waiters[c][a]).exclusive /\ llc' = [llc EXCEPT ![c][a] = "MODIFIED"]
  BY DEF Wake, Serving
<1>2. a \in Addr
  BY <1>1, Served
<1>3. waiters[c][a] \in Seq(Waiter)
  BY <1>2 DEF IInv, TypeOK
<1>4. /\ 1 \in DOMAIN waiters[c][a] /\ Head(waiters[c][a]) = waiters[c][a][1]
      /\ waiters[c][a][1] \in Waiter
  BY <1>1, <1>3
<1>5. \A k \in Core : /\ k # c => net'[k].at = net[k].at /\ net'[k].addr = net[k].addr
                      /\ net'[c].at = "woken" /\ net'[c].addr = a
  <2>1. CASE GoTo(c, "woken", a, "none")
    <3>1. /\ net' = [net EXCEPT ![c] = [at |-> "woken", addr |-> a, data |-> "none"]]
          /\ net \in [Core -> NetState]
      BY <2>1 DEF GoTo, IInv, TypeOK, NetTypeOK
    <3>2. \A k \in Core : k # c => net'[k] = net[k]
      BY <3>1
    <3>3. net'[c] = [at |-> "woken", addr |-> a, data |-> "none"]
      BY <3>1
    <3>4. QED
      BY <3>2, <3>3
  <2>2. CASE net' = [NetWrittenAt(a) EXCEPT ![c].at = "woken"]
    <3>1. NetWrittenAt(a) \in [Core -> NetState]
      BY <1>2, AgedNet DEF NetWrittenAt
    <3>2. \A k \in Core : NetWrittenAt(a)[k].at = net[k].at /\ NetWrittenAt(a)[k].addr = net[k].addr
      BY <1>2, AgedNet
    <3>3. net'[c] = [NetWrittenAt(a)[c] EXCEPT !.at = "woken"]
          /\ \A k \in Core : k # c => net'[k] = NetWrittenAt(a)[k]
      BY <2>2, <3>1
    <3>4. NetWrittenAt(a)[c] \in NetState
      BY <3>1
    <3>5. net'[c].at = "woken" /\ net'[c].addr = NetWrittenAt(a)[c].addr
      BY <3>3, <3>4 DEF NetState
    <3>6. QED
      BY <3>2, <3>3, <3>5
  <2>3. QED
    BY <1>1, <2>1, <2>2
<1>6. /\ 1 \in Asleep(c, a)
      /\ \A k \in Core, b \in Addr :
           Asleep(k, b)' = IF k = c /\ b = a THEN Asleep(k, b) \ {1} ELSE Asleep(k, b)
  <2>1. 1 \in Asleep(c, a)
    BY <1>1, <1>4 DEF Asleep
  <2>2. ASSUME NEW k \in Core, NEW b \in Addr
        PROVE  Asleep(k, b)' = IF k = c /\ b = a THEN Asleep(k, b) \ {1} ELSE Asleep(k, b)
    <3>1. CASE k # c
      BY <1>1, <1>5, <3>1 DEF Asleep
    <3>2. CASE k = c
      <4>1. Asleep(k, b) = DOMAIN waiters[k][b]
        BY <1>1, <3>2 DEF Asleep
      <4>2. Asleep(k, b)' = {j \in DOMAIN waiters[k][b] : ~(j = 1 /\ b = a)}
        BY <1>1, <1>5, <3>2 DEF Asleep
      <4>3. QED
        BY <3>2, <4>1, <4>2
    <3>3. QED
      BY <3>1, <3>2
  <2>3. QED
    BY <2>1, <2>2
<1> PICK t : t = waiters[c][a][1].thread
  OBVIOUS
<1>7. LLCOf[t] = c /\ waiting' = waiting \ {t}
  <2>1. waiting' = waiting \ {t}
    BY <1>1, <1>4
  <2>2. 1 \in Asleep(c, a)
    BY <1>6
  <2>3. \A i \in Asleep(c, a) : LLCOf[waiters[c][a][i].thread] = c
    BY <1>2 DEF WaitersOK
  <2>4. QED
    BY <2>1, <2>2, <2>3
<1>8. \A k \in Core, b \in Addr : \A i \in Asleep(k, b) :
        waiters[k][b][i].thread = t => k = c /\ b = a /\ i = 1
  BY <1>2, <1>6, <1>7 DEF WaitersOK
<1>9. \A k \in Core, b \in Addr : \A i \in Asleep(k, b)' :
        i \in Asleep(k, b) /\ waiters[k][b][i].thread # t
  BY <1>6, <1>8
<1>10. WaitersOK'
  <2>1. ASSUME NEW k \in Core, NEW b \in Addr, NEW i \in Asleep(k, b)'
        PROVE  /\ LLCOf[waiters[k][b][i].thread] = k
               /\ waiters[k][b][i].thread \in waiting'
               /\ \A d \in Addr : \A j \in Asleep(k, d)' :
                    waiters[k][d][j].thread = waiters[k][b][i].thread => d = b /\ j = i
    <3>1. i \in Asleep(k, b) /\ waiters[k][b][i].thread # t
      BY <1>9
    <3>2. /\ LLCOf[waiters[k][b][i].thread] = k /\ waiters[k][b][i].thread \in waiting
          /\ \A d \in Addr : \A j \in Asleep(k, d) :
               waiters[k][d][j].thread = waiters[k][b][i].thread => d = b /\ j = i
      BY <3>1 DEF WaitersOK
    <3>3. QED
      BY <1>7, <1>9, <3>1, <3>2
  <2>2. waiters' = waiters
    BY <1>1
  <2>3. QED
    BY <2>1, <2>2 DEF WaitersOK
<1> PICK r : r = WaitOf(c, a, 1)
  OBVIOUS
<1>11. r \in Accesses
  BY <1>2, <1>6, AccessesAre
<1>12. r.thread = t /\ r.line = a /\ r.exclusive = Head(waiters[c][a]).exclusive
  BY <1>4 DEF WaitOf
<1>13. \A k, b, i : WaitOf(k, b, i)' = WaitOf(k, b, i) /\ WaitOf(k, b, i).thread = waiters[k][b][i].thread
  BY <1>1 DEF WaitOf
<1>14. Accesses' = Accesses \ {r}
  <2>1. ASSUME NEW q \in Accesses' PROVE q \in Accesses \ {r}
    <3>1. PICK k \in Core, b \in Addr : \E i \in Asleep(k, b)' : q = WaitOf(k, b, i)'
      BY AccessesWillBe
    <3>2. PICK i \in Asleep(k, b)' : q = WaitOf(k, b, i)'
      BY <3>1
    <3>3. i \in Asleep(k, b) /\ q = WaitOf(k, b, i) /\ q.thread # t
      BY <1>9, <1>13, <3>2
    <3>4. q \in Accesses
      BY <3>3, AccessesAre
    <3>5. QED
      BY <1>12, <3>3, <3>4
  <2>2. ASSUME NEW q \in Accesses, q # r PROVE q \in Accesses'
    <3>1. PICK k \in Core, b \in Addr : \E i \in Asleep(k, b) : q = WaitOf(k, b, i)
      BY AccessesAre
    <3>2. PICK i \in Asleep(k, b) : q = WaitOf(k, b, i)
      BY <3>1
    <3>3. ~(k = c /\ b = a /\ i = 1)
      BY <2>2, <3>2
    <3>4. i \in Asleep(k, b)' /\ q = WaitOf(k, b, i)'
      BY <1>6, <1>13, <3>2, <3>3
    <3>5. QED
      BY <3>4, AccessesWillBe
  <2>3. QED
    BY <2>1, <2>2
<1>15. Perm' = Perm
  <2>1. CASE llc' = llc
    BY <2>1 DEF Perm
  <2>2. CASE Head(waiters[c][a]).exclusive /\ llc' = [llc EXCEPT ![c][a] = "MODIFIED"]
    <3>1. llc[c][a] \in {"EXCLUSIVE", "MODIFIED"}
      BY <1>1, <2>2 DEF Permitted
    <3>2. Permission("MODIFIED") = Permission(llc[c][a])
      BY <3>1 DEF Permission
    <3>3. QED
      BY <1>2, <2>2, <3>2, PermStays
  <2>3. QED
    BY <1>1, <2>1, <2>2
<1>16. IF r.exclusive THEN Perm[c][a] = "write" ELSE Perm[c][a] # "none"
  <2>1. Perm[c][a] = Permission(llc[c][a])
    BY <1>2, PermIs
  <2>2. CASE r.exclusive
    BY <1>1, <1>12, <2>1, <2>2 DEF Permitted, Permission
  <2>3. CASE ~r.exclusive
    BY <1>1, <1>12, <2>1, <2>3 DEF Permitted, Permission, Readable
  <2>4. QED
    BY <2>2, <2>3
<1>17. Lines!Next
  BY <1>7, <1>11, <1>12, <1>14, <1>15, <1>16, LinesFinish
<1>18. QED
  BY <1>10, <1>17

\* The waiter that was woken leaves the line: those behind it move up.
LEMMA RemoveWaiterStutters ==
  ASSUME IInv, WaitersOK, NEW c \in Core, RemoveWaiter(c)
  PROVE  WaitersOK' /\ Stutters
<1> PICK a : a = net[c].addr
  OBVIOUS
<1>1. /\ net[c].at = "woken" /\ waiters' = [waiters EXCEPT ![c][a] = Tail(waiters[c][a])]
      /\ GoTo(c, "serve", a, "none") /\ llc' = llc /\ waiting' = waiting
  BY DEF RemoveWaiter, Serving
<1>2. a \in Addr /\ waiters[c][a] \in Seq(Waiter) /\ waiters[c][a] # <<>>
  BY <1>1, Served DEF IInv, NetOK
<1>3. /\ \A k \in Core : k # c => net'[k] = net[k]
      /\ net'[c].at = "serve"
  BY <1>1 DEF GoTo, IInv, TypeOK
<1>4. \A k \in Core, b \in Addr :
        waiters'[k][b] = IF k = c /\ b = a THEN Tail(waiters[c][a]) ELSE waiters[k][b]
  BY <1>1, <1>2 DEF IInv, TypeOK
<1>5. \A k \in Core, b \in Addr : ~(k = c /\ b = a) => Asleep(k, b)' = Asleep(k, b)
  <2> SUFFICES ASSUME NEW k \in Core, NEW b \in Addr, ~(k = c /\ b = a)
               PROVE  Asleep(k, b)' = Asleep(k, b)
    OBVIOUS
  <2>1. CASE k # c
    BY <1>3, <1>4, <2>1 DEF Asleep
  <2>2. CASE k = c
    <3>1. Asleep(k, b) = DOMAIN waiters[k][b]
      BY <2>2 DEF Asleep
    <3>2. Asleep(k, b)' = DOMAIN waiters[k][b]
      BY <1>3, <1>4, <2>2 DEF Asleep
    <3>3. QED
      BY <3>1, <3>2
  <2>3. QED
    BY <2>1, <2>2
<1>6. /\ \A i \in Asleep(c, a)' :
           i + 1 \in Asleep(c, a) /\ waiters'[c][a][i] = waiters[c][a][i + 1] /\ i \in Int
      /\ \A i \in Asleep(c, a) :
           i - 1 \in Asleep(c, a)' /\ waiters'[c][a][i - 1] = waiters[c][a][i]
  <2>1. /\ Len(waiters[c][a]) \in Nat \ {0} /\ DOMAIN waiters[c][a] = 1 .. Len(waiters[c][a])
        /\ DOMAIN Tail(waiters[c][a]) = 1 .. Len(waiters[c][a]) - 1
        /\ \A i \in 1 .. Len(waiters[c][a]) - 1 :
             i + 1 \in 1 .. Len(waiters[c][a]) /\ Tail(waiters[c][a])[i] = waiters[c][a][i + 1]
        /\ \A i \in 1 .. Len(waiters[c][a]) : \/ i = 1
             \/ /\ i - 1 \in 1 .. Len(waiters[c][a]) - 1
                /\ Tail(waiters[c][a])[i - 1] = waiters[c][a][i]
    BY <1>2, TailElements
  <2>2. Asleep(c, a) = {j \in DOMAIN waiters[c][a] : j # 1}
    BY <1>1 DEF Asleep
  <2>3. Asleep(c, a)' = DOMAIN Tail(waiters[c][a])
    BY <1>2, <1>3, <1>4 DEF Asleep
  <2>4. waiters'[c][a] = Tail(waiters[c][a])
    BY <1>2, <1>4
  <2>5. ASSUME NEW i \in Asleep(c, a)'
        PROVE  i + 1 \in Asleep(c, a) /\ waiters'[c][a][i] = waiters[c][a][i + 1] /\ i \in Int
    <3>1. i \in 1 .. Len(waiters[c][a]) - 1
      BY <2>1, <2>3
    <3>2. i + 1 # 1 /\ i \in Int
      BY <3>1
    <3>3. QED
      BY <2>1, <2>2, <2>4, <3>1, <3>2
  <2>6. ASSUME NEW i \in Asleep(c, a)
        PROVE  i - 1 \in Asleep(c, a)' /\ waiters'[c][a][i - 1] = waiters[c][a][i]
    BY <2>1, <2>2, <2>3, <2>4
  <2>7. QED
    BY <2>5, <2>6
\* Where each waiter was before.
<1> DEFINE Was(k, b, i) == IF k = c /\ b = a THEN i + 1 ELSE i
           IsNow(k, b, i) == IF k = c /\ b = a THEN i - 1 ELSE i
<1>7. \A k \in Core, b \in Addr : \A i \in Asleep(k, b)' :
        Was(k, b, i) \in Asleep(k, b) /\ waiters'[k][b][i] = waiters[k][b][Was(k, b, i)]
  BY <1>4, <1>5, <1>6
<1>8. \A k \in Core, b \in Addr : \A i \in Asleep(k, b) :
        IsNow(k, b, i) \in Asleep(k, b)' /\ waiters'[k][b][IsNow(k, b, i)] = waiters[k][b][i]
  BY <1>4, <1>5, <1>6
<1>9. \A k \in Core, b \in Addr : \A i, j \in Asleep(k, b)' : Was(k, b, i) = Was(k, b, j) => i = j
  BY <1>6
<1> HIDE DEF Was, IsNow
<1>10. WaitersOK'
  <2>1. ASSUME NEW k \in Core, NEW b \in Addr, NEW i \in Asleep(k, b)'
        PROVE  /\ LLCOf[waiters'[k][b][i].thread] = k
               /\ waiters'[k][b][i].thread \in waiting'
               /\ \A d \in Addr : \A j \in Asleep(k, d)' :
                    waiters'[k][d][j].thread = waiters'[k][b][i].thread => d = b /\ j = i
    <3>1. /\ LLCOf[waiters[k][b][Was(k, b, i)].thread] = k
          /\ waiters[k][b][Was(k, b, i)].thread \in waiting
          /\ \A d \in Addr : \A j \in Asleep(k, d) :
               waiters[k][d][j].thread = waiters[k][b][Was(k, b, i)].thread => d = b /\ j = Was(k, b, i)
      BY <1>7 DEF WaitersOK
    <3>2. waiters'[k][b][i] = waiters[k][b][Was(k, b, i)]
      BY <1>7
    <3>3. ASSUME NEW d \in Addr, NEW j \in Asleep(k, d)',
                 waiters'[k][d][j].thread = waiters'[k][b][i].thread
          PROVE  d = b /\ j = i
      <4>1. /\ Was(k, d, j) \in Asleep(k, d)
            /\ waiters[k][d][Was(k, d, j)].thread = waiters[k][b][Was(k, b, i)].thread
        BY <1>7, <3>2, <3>3
      <4>2. d = b /\ Was(k, d, j) = Was(k, b, i)
        BY <3>1, <4>1
      <4>3. QED
        BY <1>9, <3>3, <4>2
    <3>4. waiting' = waiting
      BY <1>1
    <3>5. LLCOf[waiters'[k][b][i].thread] = k /\ waiters'[k][b][i].thread \in waiting'
      BY <3>1, <3>2, <3>4
    <3>6. QED
      BY <3>3, <3>5
  <2>2. QED
    BY <2>1 DEF WaitersOK
<1>11. Accesses' = Accesses
  <2>1. ASSUME NEW q \in Accesses' PROVE q \in Accesses
    <3>1. PICK k \in Core, b \in Addr : \E i \in Asleep(k, b)' : q = WaitOf(k, b, i)'
      BY AccessesWillBe
    <3>2. PICK i \in Asleep(k, b)' : q = WaitOf(k, b, i)'
      BY <3>1
    <3>3. q = WaitOf(k, b, Was(k, b, i)) /\ Was(k, b, i) \in Asleep(k, b)
      BY <1>7, <3>2 DEF WaitOf
    <3>4. QED
      BY <3>3, AccessesAre
  <2>2. ASSUME NEW q \in Accesses PROVE q \in Accesses'
    <3>1. PICK k \in Core, b \in Addr : \E i \in Asleep(k, b) : q = WaitOf(k, b, i)
      BY AccessesAre
    <3>2. PICK i \in Asleep(k, b) : q = WaitOf(k, b, i)
      BY <3>1
    <3>3. PICK j \in Asleep(k, b)' : waiters'[k][b][j] = waiters[k][b][i]
      BY <1>8
    <3>4. q = WaitOf(k, b, j)'
      BY <3>2, <3>3 DEF WaitOf
    <3>5. QED
      BY <3>4, AccessesWillBe
  <2>3. QED
    BY <2>1, <2>2
<1>12. QED
  BY <1>1, <1>10, <1>11 DEF Stutters, Perm

\* An upgrade on behalf of the first waiter, which waits on; and the end of the loop.
LEMMA ServingStutters ==
  ASSUME IInv, WaitersOK, NEW c \in Core, ServeByUpgrade(c) \/ AllServed(c)
  PROVE  WaitersOK' /\ Stutters
<1> PICK a : a = net[c].addr
  OBVIOUS
<1>1. /\ net[c].at = "serve" /\ GoTo(c, "recv", NoAddr, "none")
      /\ waiters' = waiters /\ waiting' = waiting
  BY DEF ServeByUpgrade, AllServed, Serving, Done, cacheVars
<1>2. WaitersOK' /\ Accesses' = Accesses
  BY <1>1, Quiet
<1>3. CASE AllServed(c)
  BY <1>2, <1>3 DEF AllServed, cacheVars, Stutters, Perm
<1>4. CASE ServeByUpgrade(c)
  <2>1. llc[c][a] = "SHARED" /\ llc' = [llc EXCEPT ![c][a] = "SHARED_UPGRADING"]
    BY <1>4 DEF ServeByUpgrade
  <2>2. a \in Addr
    BY <1>1, Served
  <2>3. Permission("SHARED_UPGRADING") = Permission(llc[c][a])
    BY <2>1 DEF Permission
  <2>4. QED
    BY <1>2, <2>1, <2>2, <2>3, PermStays DEF Stutters
<1>5. QED
  BY <1>3, <1>4

-----------------------------------------------------------------------------
(* The refinement *)

\* At first nobody waits ...
LEMMA InitWaiters == Init => WaitersOK
  BY DEF Init, WaitersOK, Asleep

\* ... and no cache has a line.
LEMMA InitLines == Init => Lines!Init
<1> SUFFICES ASSUME Init PROVE Lines!Init
  OBVIOUS
<1>1. [c \in Core |-> [a \in Addr |-> Permission(llc[c][a])]] = [c \in Core |-> [a \in Addr |-> "none"]]
  BY DEF Init, Permission
<1>2. \A c \in Core, a \in Addr : PendingAt(c, a) = {}
  BY DEF Init, PendingAt
<1>3. (UNION {PendingAt(c, a) : c \in Core, a \in Addr}) = {}
  BY <1>2
<1>4. QED
  BY <1>1, <1>3 DEF Lines!Init

\* Every step is a step of CoherentLines or none.
LEMMA NextLines ==
  IInv /\ SafeLines /\ WaitersOK /\ [Next]_vars => WaitersOK' /\ [Lines!Next]_(Lines!vars)
<1> SUFFICES ASSUME IInv, SafeLines, WaitersOK, [Next]_vars
             PROVE  WaitersOK' /\ (Lines!Next \/ Stutters)
  BY LinesStutter
<1>1. SingleWriter'
  <2>1. IInv' /\ SafeLines'
    BY NextIInv, NextSafe
  <2>2. QED
    BY <2>1, SafeIsSingle, PTL
<1>2. ASSUME NEW c \in Core, CacheMessage(c) PROVE WaitersOK' /\ (Lines!Next \/ Stutters)
  BY <1>1, <1>2, FillGrants, CommandsYield DEF CacheMessage
<1>3. ASSUME NEW c \in Core, ServeWaiters(c) PROVE WaitersOK' /\ (Lines!Next \/ Stutters)
  BY <1>3, ServingStutters, WakeFinishes, RemoveWaiterStutters DEF ServeWaiters
<1>4. ASSUME NEW c \in Core, DirectoryMessage(c) \/ ProcessRequest(c) \/ DramMessage(c)
      PROVE  WaitersOK' /\ (Lines!Next \/ Stutters)
  BY <1>4, DirectoryStutters
<1>5. ASSUME NEW t \in Thread, NEW a \in Addr, Access(t, a)
      PROVE  WaitersOK' /\ (Lines!Next \/ Stutters)
  BY <1>5, WriteHitStutters, MissAsks DEF Access
<1>6. ASSUME NEW c \in Core, NEW a \in Addr, Evict(c, a)
      PROVE  WaitersOK' /\ (Lines!Next \/ Stutters)
  BY <1>6, EvictYields
<1>7. CASE UNCHANGED vars
  BY <1>7, Quiet DEF vars, Stutters, Perm
<1>8. QED
  BY <1>2, <1>3, <1>4, <1>5, <1>6, <1>7 DEF Next, NetStep

\* The protocol, whatever its messages do on the way, hands out permissions on
\* lines as coherence promises: one to write or several to read, only for an
\* access that waits, which is over only when the permission is there.
THEOREM ProtocolIsCoherent == Spec => ImplementsCoherentLines
<1>1. Init => WaitersOK /\ Lines!Init
  BY InitWaiters, InitLines
<1>2. QED
  BY ProtocolInvariant, <1>1, NextLines, PTL DEF Spec, ImplementsCoherentLines, Lines!Spec

=============================================================================
