------------------------------ MODULE CacheSet ------------------------------
(***************************************************************************)
(* One set of a cache with LRU replacement (cache/cache_set.cc,            *)
(* cache_set_lru.cc), with or without query-based selection: a tag and an  *)
(* age per way.  The caller (cache_cntlr.cc) holds the set's lock, inserts *)
(* only what is absent, and marks a line SHARED_UPGRADING while it waits   *)
(* for an upgrade, as many of one set as there are threads to wait.        *)
(***************************************************************************)
EXTENDS Integers, FiniteSets, FiniteSetsExt, SequencesExt

CONSTANTS Ways,           \* m_associativity
          Block,          \* tags of lines that fall into the set
          NoBlock,        \* tag ~0
          Attempts,       \* m_num_attempts; 1 is plain LRU
          MaxUpgrading    \* bound: lines of the set waiting for upgrades

ASSUME CacheSetAssumption ==
  /\ Ways \in Nat /\ Attempts \in Nat \ {0} /\ MaxUpgrading \in Nat
  /\ MaxUpgrading + 2 <= Ways /\ Attempts + MaxUpgrading <= Ways
  /\ NoBlock \notin Block

VARIABLES tags,        \* m_cache_block_info_array[i]->m_tag
          bits,        \* m_lru_bits: 0 is the way used last
          upgrading    \* ways whose state is SHARED_UPGRADING

setVars == <<tags, bits, upgrading>>

Way == 0 .. Ways - 1

\* The ages are always a permutation, so that one way is the oldest.
CacheSetTypeOK ==
  /\ tags \in [Way -> Block \cup {NoBlock}]
  /\ bits \in [Way -> Way] /\ {bits[w] : w \in Way} = Way
  /\ upgrading \subseteq {w \in Way : tags[w] # NoBlock}

CacheSetInit ==
  /\ tags = [w \in Way |-> NoBlock]
  /\ bits = [w \in Way |-> w]
  /\ upgrading = {}

\* find: the last way that has the tag, -1 for NULL.
Find(t) == Max({-1} \cup {w \in Way : tags[w] = t})

\* The other ways get older even when they are older already.
AgeAll(age, used) == [w \in Way |-> IF w = used THEN 0 ELSE age[w] + 1]

MoveToMRU(age, used) ==
  [w \in Way |-> IF w = used THEN 0 ELSE IF age[w] < age[used] THEN age[w] + 1 ELSE age[w]]

OldestOfAll(age) == CHOOSE w \in Way : age[w] = Ways - 1

\* The way with the highest age above 0 that is not upgrading; 0 if there is none.
Oldest(age) ==
  LET candidates == {w \in Way \ upgrading : age[w] > 0}
  IN IF candidates = {} THEN 0
     ELSE CHOOSE w \in candidates : \A v \in candidates : age[v] <= age[w]

\* The ages after k attempts: each time the oldest line was found in a cache below
\* (isInLowerLevelCache) and saved.  A line that is not found is chosen, so that
\* further attempts change nothing.
Queried(below) ==
  LET after[k \in 0 .. Attempts - 1] ==
        IF k = 0 THEN bits
        ELSE LET age == after[k - 1]
             IN IF tags[Oldest(age)] \in below THEN MoveToMRU(age, Oldest(age)) ELSE age
  IN after[Attempts - 1]

Invalid == {w \in Way : tags[w] = NoBlock}

\* getReplacementIndex, and what insert does with the way it returns.
Insert(t, below) ==
  /\ Find(t) = -1
  /\ LET age == IF Invalid # {} THEN bits ELSE Queried(below)
         index == IF Invalid # {} THEN Min(Invalid) ELSE Oldest(age)
     IN /\ bits' = MoveToMRU(age, index)
        /\ tags' = [tags EXCEPT ![index] = t]
        /\ upgrading' = upgrading \ {index}

\* read_line and write_line with update_replacement.
AccessLine(t) ==
  /\ Find(t) # -1
  /\ bits' = MoveToMRU(bits, Find(t))
  /\ UNCHANGED <<tags, upgrading>>

Invalidate(t) ==
  /\ Find(t) # -1
  /\ tags' = [tags EXCEPT ![Find(t)] = NoBlock]
  /\ upgrading' = upgrading \ {Find(t)}
  /\ UNCHANGED bits

\* The controller sets the state before an upgrade and after it.
SetUpgrading(t) ==
  /\ Find(t) # -1 /\ Cardinality(upgrading) < MaxUpgrading
  /\ upgrading' = upgrading \cup {Find(t)}
  /\ UNCHANGED <<tags, bits>>

SetShared(t) ==
  /\ Find(t) \in upgrading
  /\ upgrading' = upgrading \ {Find(t)}
  /\ UNCHANGED <<tags, bits>>

CacheSetNext ==
  \E t \in Block :
    \/ AccessLine(t) \/ Invalidate(t) \/ SetUpgrading(t) \/ SetShared(t)
    \/ \E below \in SUBSET Block : Insert(t, below)

CacheSetSpec == CacheSetInit /\ [][CacheSetNext]_setVars
-----------------------------------------------------------------------------
\* The ages, the holes that invalidations leave and the queries keep the lines in
\* the order of their use: what makes room is the line unused for longest that is
\* neither waiting for an upgrade nor kept by a query (getReplacementIndex).
ByAge == SelectSeq([k \in 1 .. Ways |-> CHOOSE w \in Way : bits[w] = k - 1],
                   LAMBDA w : w \notin Invalid)

Recency == INSTANCE RecencyList
             WITH Size <- Ways, Line <- Block,
                  list <- [i \in DOMAIN ByAge |-> tags[ByAge[i]]],
                  pinned <- {tags[w] : w \in upgrading}
ImplementsRecencyList == Recency!Spec
=============================================================================
