--------------------------------- MODULE Tlb ---------------------------------
(***************************************************************************)
(* The translations of the core whose memory manager the TLBs look into    *)
(* (the static TLB::m_manager of parametric_dram_directory_msi/tlb.cc): a  *)
(* DTLB and an ITLB above an STLB, which takes what they evict, and        *)
(* Victima, which keeps what the STLB evicts as lines of the data caches.  *)
(*                                                                         *)
(* A TLB is a list of entries, latest use first (CacheSet shows its sets   *)
(* to be that), with one set; tags are page numbers, of pages of either    *)
(* size, and are compared without the size.  Of the caches only the type   *)
(* of a line matters; what they evict and what data they read is up to     *)
(* them.  Pages of Ratio small ones and lines of Group translations stand  *)
(* for those of 512 and 8.                                                 *)
(***************************************************************************)
EXTENDS Integers, Sequences, SequencesExt

CONSTANTS Addr,            \* numbers of small pages of the address space
          Large,           \* those that lie in large pages
          Ratio, Group,
          L1Entries, L2Entries,
          OnWalk           \* perf_model/victima/victimize_on_ptw

ASSUME TlbAssumption ==
  /\ Addr \subseteq Nat /\ Large \subseteq Addr
  /\ \A a, b \in Addr : a \div Ratio = b \div Ratio => (a \in Large <=> b \in Large)
  /\ L1Entries > 0 /\ L2Entries > 0 /\ OnWalk \in BOOLEAN

VARIABLES l1,        \* m_cache of dtlb ("d") and itlb ("i")
          stlb,
          cached     \* type of each line: "none", "data", "tlb" (TLB_ENTRY)

tlbVars == <<l1, stlb, cached>>

SmallPage == "4KB"
LargePage == "2MB"
Tag(a, size) == IF size = SmallPage THEN a ELSE a \div Ratio

\* init_walk_functional
PageSize(a) == IF a \in Large THEN LargePage ELSE SmallPage
Page(a) == [tag |-> Tag(a, PageSize(a)), size |-> PageSize(a)]
Entry == {Page(a) : a \in Addr}
BaseAddress(e) == IF e.size = SmallPage THEN e.tag ELSE e.tag * Ratio

\* The line of a translation: address >> (page_size - 3) without the offset.
LineOf(e) == e.tag \div Group
Line == {LineOf(e) : e \in Entry}

TlbTypeOK ==
  /\ \A f \in {"d", "i"} : l1[f] \in Seq(Entry) /\ Len(l1[f]) <= L1Entries
  /\ \A f \in {"d", "i"} : \A i, j \in DOMAIN l1[f] : i # j => l1[f][i] # l1[f][j]
  /\ stlb \in Seq(Entry) /\ Len(stlb) <= L2Entries
  /\ cached \in [Line -> {"none", "data", "tlb"}]

TlbInit ==
  /\ l1 = [f \in {"d", "i"} |-> <<>>]
  /\ stlb = <<>>
  /\ cached = [l \in Line |-> "none"]

\* accessSingleLineTLB: where a tag is found, first for small pages, then for large
\* ones.
Found(tlb, a) ==
  LET at(size) == {i \in DOMAIN tlb : tlb[i].tag = Tag(a, size)}
  IN IF at(SmallPage) # {} THEN at(SmallPage) ELSE at(LargePage)

Used(tlb, i) == <<tlb[i]>> \o RemoveAt(tlb, i)

\* insertSingleLineTLB: what falls out, if anything does, and its address.
Inserted(tlb, entries, a) ==
  <<Page(a)>> \o IF Len(tlb) < entries THEN tlb ELSE Front(tlb)

\* The address is made with the size of the page that comes.
EvictedAtOtherSize(tlb, entries, a) ==
  IF Len(tlb) < entries THEN {}
  ELSE {BaseAddress([Last(tlb) EXCEPT !.size = PageSize(a)])}

EvictedAt(tlb, entries, a) ==
  IF Len(tlb) < entries THEN {} ELSE {BaseAddress(Last(tlb))}

Fetched(lines) == [l \in Line |-> IF l \in lines /\ cached[l] = "none" THEN "tlb" ELSE cached[l]]

\* allocate: a new entry of a first level TLB moves an old one to the STLB, and one
\* of the STLB to the caches, unless they have its line already.
Allocate(f, a, second, lines) ==
  LET evicted == EvictedAt(l1[f], L1Entries, a)
      victims == UNION {EvictedAt(second, L2Entries, b) : b \in evicted}
  IN /\ l1' = [l1 EXCEPT ![f] = Inserted(@, L1Entries, a)]
     /\ stlb' = IF evicted = {} THEN second
                ELSE Inserted(second, L2Entries, CHOOSE b \in evicted : TRUE)
     /\ cached' = [l \in Line |-> IF lines[l] = "none" /\ \E v \in victims : LineOf(Page(v)) = l
                                  THEN "tlb" ELSE lines[l]]

HitFirst(f, a) ==
  \E i \in Found(l1[f], a) :
    /\ l1' = [l1 EXCEPT ![f] = Used(@, i)]
    /\ UNCHANGED <<stlb, cached>>

\* The search of the caches is left out only by a DTLB that counts; an ITLB, or a
\* DTLB while the counters are off, searches them although the STLB did or had a hit.
Searches(f, count) == f = "i" \/ ~count

HitSecond(f, a, count) ==
  /\ Found(l1[f], a) = {}
  /\ \E i \in Found(stlb, a) :
       LET l == LineOf(Page(a))
           used == Used(stlb, i)
       IN IF Searches(f, count) /\ cached[l] = "tlb"
          THEN stlb' = used /\ UNCHANGED <<l1, cached>>
          ELSE Allocate(f, a, used, IF Searches(f, count) /\ OnWalk THEN Fetched({l}) ELSE cached)

\* What the STLB finds in the caches, also by the search the ITLB does after it.
\* With OnWalk the STLB has just put the line there.
Miss(f, a, count) ==
  /\ Found(l1[f], a) = {} /\ Found(stlb, a) = {}
  /\ LET l == LineOf(Page(a))
         fetched == IF OnWalk THEN Fetched({l}) ELSE cached
     IN IF Searches(f, count) /\ fetched[l] = "tlb"
        THEN cached' = fetched /\ UNCHANGED <<l1, stlb>>
        ELSE Allocate(f, a, stlb, fetched)

Lookup(f, a, count) == HitFirst(f, a) \/ HitSecond(f, a, count) \/ Miss(f, a, count)

\* The caches drop a line, and read data: an address may be that of such a line.
EvictLine(l) ==
  /\ cached[l] # "none"
  /\ cached' = [cached EXCEPT ![l] = "none"]
  /\ UNCHANGED <<l1, stlb>>

ReadData(l) ==
  /\ cached[l] # "data"
  /\ cached' = [cached EXCEPT ![l] = "data"]
  /\ UNCHANGED <<l1, stlb>>

TlbNext ==
  \/ \E f \in {"d", "i"}, a \in Addr, count \in BOOLEAN : Lookup(f, a, count)
  \/ \E l \in Line : EvictLine(l) \/ ReadData(l)

TlbSpec == TlbInit /\ [][TlbNext]_tlbVars
-----------------------------------------------------------------------------
\* Where the translation of a page is.  A line read as data is in the caches, but
\* they are not told that it holds translations (see README).
InTlbs(e) == e \in ToSet(l1["d"]) \cup ToSet(l1["i"]) \cup ToSet(stlb)
Kept(e) == InTlbs(e) \/ cached[LineOf(e)] # "none"

\* The point of a victim hierarchy: whatever a lookup pushes out of one level, of
\* pages of whatever size, is found in the next; only the caches forget.
LookupsForgetNothing ==
  [][(\A l \in Line : cached[l] # "none" => cached'[l] # "none")
       => \A e \in Entry : Kept(e) => Kept(e)']_tlbVars
=============================================================================
