# Verification of the Victima/Sniper simulator

TLA+ models of the concurrent and stateful core of the simulator in `src/sniper`:
the memory system (coherence protocol, private caches, set locks, replacement,
TLBs), the threads that execute in it (thread manager, scheduler, barrier of
simulated time), the synchronisation it offers to simulated applications (mutexes,
conditions, barriers, futexes), and the primitives its host threads use (semaphore,
mailbox). They are model-checked with TLC and, where section 5 says so, proved with
TLAPS for all values of the constants. Paths are relative to `src/sniper/common`
unless they start with `src/`; `.../` is `core/memory_subsystem/`, and a file of the
memory system is named without its directory where that is clear.

## 1. The system

Sniper simulates a multicore. Each simulated core has a *user thread*, which runs
the simulated program and calls the memory system synchronously, and a *network
thread* (`SimThread`/`CoreThread`), which takes the messages of the core's inbox.
Both run the same `CacheCntlr` objects and hand control to each other with
semaphores. Simulated threads are host threads that the thread manager, the
scheduler and the barrier of simulated time stop and resume. This repository
(Victima) adds address translation: TLBs, page walkers, page tables in the
simulated memory, TLB blocks in the data caches, and page-walk prefetches through
the directory and the NUCA cache.

| Component | State | Operations | Interacts with | Hard part; what makes it correct | Module |
|---|---|---|---|---|---|
| Cache set lock (`misc/setlock.cc`) | one mutex per sharing core | acquire/release shared and exclusive, upgrade, downgrade | cache controllers | taken mutex by mutex; exclusion, no circular wait | SetLock |
| Last-level cache controllers (`cache_cntlr.cc`) | line states, waiters per line | access, miss, insert/evict, 3 replies, 3 commands | directory (messages), user threads (semaphores) | commands crossing evictions, several waiters per line; one writer, every access served | Coherence |
| Tag directories (`dram_directory_cntlr.cc`) | entries, replaced entries, request queue per line | requests, replies of caches and DRAM, replacement, nullification | caches and DRAM (messages) | an answer may mean several things; covers every copy, answers every request once | Coherence |
| Directory entries (`directory_schemes/`) | state, sharers, owner, forwarder | add/remove sharer, pick one | directory | limited number of sharers | Coherence |
| DRAM controllers (`dram/`) | data | read, write | directory | order of writes and reads | Coherence |
| Messages (`memory_manager.cc`, `transport/`, `network/`) | inbox per core | send, receive, dispatch | all | no message lost, reordered or stranded | Coherence, Mailbox |
| Private cache levels (`cache_cntlr.cc`) | lines per level, set lock | hit, fill, back-invalidation, write-back, upgrade | last level | network thread against user threads; inclusion, dirty data | CacheStack |
| Cache sets (`cache_set.cc`, `cache_set_lru.cc`) | tags, ages | find, insert, update, choose | controllers | never a line being upgraded | CacheSet |
| NUCA cache, page-walk prefetch (`nuca_cache.cc`) | lines, pending prefetches | read, write, evict, prefetch | directory | drops written data, answers a prefetch twice | none |
| Semaphore, condition variable, barrier (`misc/`) | counter, futex word | wait, signal, broadcast | everything | a wake-up between release and sleep; none lost | Semaphore, Mailbox |
| Barrier server (`system/barrier_sync_server.cc`) | clocks, who waits, release list | synchronize, stall/exit/migrate hooks, advance | thread manager | rounds end while threads are still being released | Threads |
| Thread manager (`system/thread_manager.cc`) | thread states, wait reasons | create, start, exit, stall, resume, join, move | all of `system/` | a resume before the wait; none lost | Threads |
| Schedulers (`scheduler/`) | who runs where, affinity | periodic, create, stall, exit, yield | thread manager | no thread on two cores, none forgotten | Threads |
| Sync server (`system/sync_server.cc`) | owners, queues | lock, unlock, wait, signal, broadcast, barrier | thread manager | hand-over to a thread that does not run | SyncServer |
| Futex server (`system/syscall_server.cc`) | queues per word, sleepers | WAIT, WAKE, WAKE_OP, CMP_REQUEUE, sleep, periodic | thread manager | a store between read and wait; a timeout against a wake-up | SimFutex |
| TLBs, Victima (`tlb.cc`, `cache.cc`) | translations per level | lookup, allocate, evict into a cache | page walker, caches | translation that is gone | Tlb |
| Page tables and walkers, allocators | tables, free lists | walk, allocate, free | memory manager | sequential algorithms | none |
| Performance and network models, DVFS, sampling, hooks, trace front end, scripting, statistics, McPAT, SIFT, decoder, scripts | | | | timing arithmetic, I/O, third-party code | none |

`PROJECT.json` lists all of them with their status, and the hazards at their lines.

## 2. Modules

    abstract specification        detailed module            composed for TLC in   proofs
    SharedExclusiveLock  <=====   SetLock           \
    CountingSemaphore    <=====   Semaphore          >       MCPrimitives          Primitives_proofs
    MessageQueue         <=====   Mailbox           /
    CoherentLines        <=====   Coherence                  MCCoherence           Coherence_proofs, CoherenceSafety_proofs,
                                                                                   CoherenceAssertions_proofs,
                                                                                   CoherenceProgress_proofs,
                                                                                   CoherenceQuiet_proofs
                                  CacheStack                 MCData (+ Coherence)
                                  Threads                    MCThreads
    Monitors             <=====   SyncServer        \                              SyncServer_proofs
                                  Tlb                >       MCMachine
    RecencyList          <=====   CacheSet          /
                                  SimFutex                   MCFutex               SimFutex_proofs

An arrow is a refinement that TLC checks (`Implements...`, an `INSTANCE` with a
refinement mapping). MCPrimitives, MCMachine and MCData put components side by side
that share no state; a behaviour exercises the one that a variable (`primitive`,
`subject`) names, so their state spaces add up and do not multiply.

### The memory system

**SetLock** — one mutex per sharing core (`holder`), and for each thread what it is
doing (`pc`) and which mutex its loop is at (`at`). One action per mutex operation, so
that `acquire_exclusive`, `release_exclusive`, `upgrade` and `downgrade` interleave
with everything. Users: the user thread of each sharing core, and network threads,
which may pass the whole stack to a user thread ("Pass stack lock through to user
thread", `cache_cntlr.cc:2421`). **SharedExclusiveLock** is what it promises.

**Coherence** — all last-level caches, tag directories and DRAM controllers together.

* `llc`, `copy`: state and data of a line in a cache. `waiters`: `m_directory_waiters`;
  `waiting`: threads asleep on their semaphore.
* `dir`, `present`, `replaced`: the directory cache, which lines have an entry, and
  `m_replaced_directory_entry_list`. `queue`: `m_dram_directory_req_queue_list`.
* `inbox`: one queue per core (`SmTransport::SmNode`; that it is one is what Mailbox
  shows). `net`: what the network thread is doing. A handler of the code that continues
  with another request (`processInvRep` -> `processShReq` -> `processNextReq` -> ...) is
  a sequence of steps of one network thread (`head`, `next`), which takes no other
  message until it is done; so is the loop over the waiters (`serve`, `woken`), during
  which user threads run where the code gives up the stack lock.
* Actions carry the names of what they model: `Miss` is `initiateDirectoryAccess`,
  `Fill`, `FinishUpgrade`, `Invalidate`, `Flush`, `WriteBack` the handlers of the cache,
  `TakeRequest`, `TakeInvRep`, `TakeFlushRep`, `TakeWbRep`, `TakeDramRep` those of the
  directory, and `Ex*`, `Sh*`, `Upgrade*`, `Allocate`, `Nullified` the branches of
  `processExReq`, `processShReq`, `processUpgradeReq` and of entry replacement.
* An assertion of the code is a guard, so a thread stops there, and `AssertionsHold`
  says that none fails, in the configurations of the runs and, as is proved, in many
  others (section 7 has one in which one does). Without that invariant the guards would hide failures.

Abstractions, all of data: a line's contents are "current" (last value written) or
"stale", followed only with `TrackData`. A buffer nobody filled, or that was freed
(`Arbitrary`), may hold either. Read hits change no state and are left out. `Evict`
stands for the insertion of a line outside `Addr` into a full set. Time, and the
replacement policy among legal victims of a cache, are left out; a directory set
replaces any entry with fewest sharers, since its round-robin pointer is not modelled.
**CoherentLines** is what coherence promises: permissions, one to write or several to
read, given to a cache only for an access that waits, and an access that ends only with
the permission it needs.

**CacheStack** — the levels above and including one last-level cache, as a tree
(`Lower`: `m_next_cache_cntlr`). `stack` holds state and data of each line in each
cache; operations on it are functions from one value to the next, composed as the code
composes calls: `Update` is `updateCacheBlock` with its recursion to the levels above,
`WriteBlock` `writeCacheBlock`, `InsertBlock`, `EvictLine` and `GiveUpAbove`
`insertCacheBlock` with its back-invalidations, `CopyFromNext` `copyDataFromNextLevel`,
`Answer` and `Answers` `processShmemReqFromPrevCache`, level by level. `FirstLevelHit`, `FirstLevelMiss`, `FillFromStack` and
`AskDirectory` are the parts of `processMemOpFromCore` between which the lock is given
up: what was seen before may have changed when the thread goes on. `missing` is
`m_directory_waiters`; `ServeWaiter`, `UpgradeForWaiter` and `DequeueWaiter` are the
network thread's loop over it, with the upgrade for a writer behind readers. Of the
directory there is what it may send: replies to the request under way, and commands
(`InvReq`, `FlushReq`, `WbReq`), which Coherence justifies. The lines are those of one
set of the first level, and whoever goes below it holds the stack lock, which is what
SetLock shows to be exclusive: hence a call under it is one step. An assertion that
fails sets `stack.failed`. `READ_EX` is the first half of an atomic pair, which keeps
the lock.

**CacheSet** — one set with LRU replacement: `tags`, `bits` (`m_lru_bits`) and which
ways are SHARED_UPGRADING, with query-based selection (`Attempts` > 1), whose answers
(`below`) are arbitrary. It implements **RecencyList**, lines in the order of their last
use.

**Tlb** — DTLB, ITLB and STLB as lists with the latest use first (which CacheSet shows a
set to be), and `cached`, the type of each line of translations in the data caches.
`Lookup` is `TLB::lookup` with `allocate`, page by page size: `HitFirst`, `HitSecond`,
`Miss`. The caches may drop a line, or read it as data, any time. Tags are compared
without the page size, as in the code. A line that was read as data stays untagged when
the STLB evicts into it (section 7, `tlb.cc:558`); `Kept` counts it as holding the
translation, which in the simulated memory it does. The model is of the core whose
memory manager is `TLB::m_manager`.

### Threads and synchronisation

**Threads** — thread manager, pinned scheduler, barrier server, sleepers, and the host
thread of each simulated one. All of them run under one lock and call each other through
hooks while they hold it, so what the lock protects is one record, `sim`, and a handler
maps it to the set of records it may leave; between two handlers anything interleaves.
`sim.place` is where the host thread is: `run` (executing), `barrier` and `parked`
(waiting on a condition), `check` (about to re-read its core), `blocked` (in a system
call of the kernel), and so on. Names are the code's: `Reschedule`, `SchedulerPeriodic`,
`IsBarrierReached`, `BarrierRelease`, `DoRelease`, `StallAsync`, `ResumeAsync`,
`OnThreadStart`, `OnThreadExit`. Time is counted in barrier quanta relative to the next
barrier. Affinity masks hold one core; fast-forward, SMT groups and `m_disable` are off.

**SyncServer** — `SimMutex`, `SimCond`, `SimBarrier` with FIFO queues; a call is one step
up to `stallThread`, and its return another, so a mutex belongs to a thread long before
that thread knows. It implements **Monitors**. The application is a legal one (header of
the module). That a resumed thread does run is what Threads shows.

**SimFutex** — `SYS_futex` and sleep: the futex word is read in one step (`FutexRead`) and
the call made in another, between which others store. `FutexPeriodic` is
`HOOK_PERIODIC`. The application keeps the protocol of futexes: who changes a word then
wakes its waiters (`owes`). Bitsets are left out; `FUTEX_WAKE_BITSET` wakes anybody in
the code too (section 7).

**Semaphore** (`misc/semaphore.cc`) and **Mailbox** (`transport/smtransport.cc` with
`misc/cond.cc`) — at the level of futex calls: the store to the futex word, `FUTEX_WAKE`,
the release of the lock and `FUTEX_WAIT` are steps of their own, and a wait may be
interrupted. They implement **CountingSemaphore** and **MessageQueue**.

## 3. Runs

| Run | What it shows | Result (distinct states) |
|---|---|---|
| `primitives` | set lock, 3 sharers and a network thread: exclusion, no circular wait, refinement. Semaphore, 3 threads, 3 signals: no lost wake-up, every permit is handed out. Mailbox, 2 senders of which one is the receiver, 2 messages each: none lost, doubled, reordered, stranded | holds, 5,496 |
| `shared_cache` | 2 threads behind one last-level cache, a third behind its own, one line, MSI, evictions: one request per miss, every access served, refinement of CoherentLines | holds, 40,591 |
| `mesif_forwarding` | 3 MESIF caches, evictions: one writer, no assertion fails, no request is forgotten | holds, 672,490 |
| `directory_replacement` | 3 lines, 2 directory entries with 1 sharer each, MESI: assertions, the directory knows all copies, nothing forgotten | holds, 207,024 |
| `data` | reads return the last write in the protocol (MSI, no evictions); 2 cores with L1 and L2 above a shared L3, 3 lines, all levels evict: assertions, inclusion, the last write is kept | holds, 201,473 |
| `threads` | 3 threads, 3 cores, 1 host core, all calls: assertions, one thread per core, no resume or release is lost, time waits for whoever runs | holds, 197,389 |
| `thread_progress` | 3 threads on 2 cores that sleep and move: who waits for time goes on | holds, 5,667 |
| `machine` | 3 threads, 2 mutexes, a condition, a barrier: refinement of Monitors, queues, lockers are served. TLBs of 1 and 2 entries, 5 pages of two sizes: lookups forget nothing. A set of 3 ways, 4 lines: refinement of RecencyList | holds, 10,891 |
| `futexes` | 3 threads, 2 words, timeouts: queues and stalls agree, no store is missed, timeouts are true and fire | holds, 267,288 |
| `write_back_lost`, `saved_data`, `stale_read` | what the code, its comments or assertions claim | violated, section 6 |

Each property of a passing run has a mutant in `PROJECT.json`: a definition of the model
changed as a plausible bug would change the code, which the run then finds.

*Bounds, coherence.* One line is enough for the protocol of a line: lines interact only
through directory entries, and `directory_replacement` has three of them competing for
two. Two caches produce every crossing of one command with one eviction. The third is
needed for an upgrade that loses its copy while two requests are queued before it, and
for a forwarder that is neither requester nor owner. More caches add more invalidations
of the same kind. A thread has one access outstanding, as in the code, which bounds
queues and inboxes. All directories and DRAM controllers are at core 0, as with the
default `locations = dram`, so that their messages share an inbox, and its order, with
those of the cache of core 0 but not with those of the others. In
`directory_replacement` the program is restricted (`ThreeLines`): both threads share one
line and write others, so that a directory set never fills (section 7).

*Bounds, caches.* Two cores give every pair of one that writes and one that reads or
evicts; three levels are needed for a line that is dirty at the top while it leaves the
bottom; one way in the L1 and two below, for three lines, make every level evict. The
lines are symmetric, and so are the two cores. `Ways` 3 with `MaxUpgrading` 1 leaves two candidates besides the
upgrading way, so that a query (`Attempts` 2) can change the choice. `Ratio` and `Group`
2 stand for 512 small pages per large one and 8 translations per line: an address that is
computed with the wrong size, or a line that is shared by two translations, differs in
the same way.

*Bounds, threads.* Three threads on three cores, of which one host core lets one run at a
time (`HostCores` 1), so that the list to be released is never trivial; a thread may
overshoot a quantum (`MaxLag` 1) and sleep for one (`MaxSleep` 1). `thread_progress` has
fewer cores than threads, so that scheduling matters, and only the calls that take
threads off their cores (`Operation`). Threads other than the first one are symmetric in
`threads`, which has no liveness property; no run with one has symmetry.
`MaxSignals` and `MaxSends` end behaviours of the semaphore and the mailbox: three
signals meet every arrangement of three waiters; two messages of each sender overtake
each other if anything can. `MaxTime` stops the clock of the futex server after
its first barrier, and `Timeouts` lie before and after it.

*Deadlock* is checked in all runs of Coherence and CacheStack, where the program goes on
for ever. In the others the system may rightly stop, so `CHECK_DEADLOCK` is off: waiters
outlast the signals, nobody sends any more, an application waits for a signal that never
comes, threads end. What must not stop there is said by liveness (`LockersAreServed`,
`TimeoutsFire`, `TimeBringsProgress`, the refinements of CountingSemaphore and
MessageQueue) and by invariants (`EveryStallHasAWaker`, `NoLostWakeup`, ...).

## 4. Fairness

* *Coherence*: weak fairness of each network thread (`NetStep`): an OS thread whose loop
  blocks only on its inbox and on a user thread that has just been woken and needs
  nothing else. The threads of the program and evictions have none: liveness is "whoever
  waits is served", not "someone accesses".
* *Semaphore*, *Mailbox*: weak fairness of what a thread does without waiting for
  anything (`FUTEX_WAIT`, `FUTEX_WAKE`), strong fairness of steps that need a mutex
  others may take in between (`Enter`, `Recheck`, `Look`, ...): a pthread mutex, held for
  a few instructions, is had in the end. None of calls, sends and interrupts.
* *Threads*: weak fairness of a host thread that can go on (`Start`, `Check`,
  `UnblockAgain`), strong fairness of `Sync`, since a thread that executes instructions
  reaches the next barrier though it may yield or be moved before. None of what an
  application or the kernel may never do.
* *SyncServer*: a resumed thread returns from its call (weak; Threads). That a thread
  which holds a mutex gives it up in the end (strong, `GivesUp`) is a property of the
  application and not of the simulator: without it no queue of a mutex moves.
* *SimFutex*: barriers go on while a timeout is pending (strong: calls take the lock in
  between), and a call that has begun is finished.
* *SetLock*, *CacheStack*, *Tlb*, *CacheSet* have safety properties only; the mutexes of
  a set lock are not fair, and a thread may starve.

## 5. Proofs

All theorems are about the specifications that TLC runs, `Spec => []...` or a refinement,
for every value of the constants, from the assumptions named in the modules (types and
finiteness of the constants only, unless said).

* `Primitives_proofs`, of SetLock — `TypeCorrect`, `StackExclusion`, `SomebodyGoesOn`,
  `LockRefines`. Exclusion is not inductive, as the state that matters is halfway
  through a loop: `Holds` says which mutexes a thread has at each point (*acquiring*: those below `at`; *releasing*: those not below; *downgrading*:
  those not below, and its own). Two threads that both owned the stack would hold mutex 0.
  `NoCircularWait` needs the converse, `Owned` (whoever has a mutex is at a point where it
  should have it): a blocked thread waits for one that is blocked further on or not at
  all, and the one furthest on is not blocked. `LockRefines` is the complete refinement of
  SharedExclusiveLock, one lemma for each kind of step.
  Assumes at least one sharer, and that network threads are no sharers.
* of Semaphore — `SemaphoreSafe`: `NoLostWakeup` and `ResetIsJustified` (a thread
  about to sleep on a zero futex word does so for want of a permit). The invariant counts:
  `numWaiting` is the number of threads between taking the lock and leaving, and permits
  are no more than wake-ups under way; the proof is one of cardinalities, action by
  action. Assumes finitely many threads. `SemaphoreCounts` is the safety part of the
  refinement of CountingSemaphore.
* of Mailbox — `MailboxSafe`: `NoMessageStuck`, which is inductive only together
  with what the two locks guarantee at each place; and `MailboxIsQueue`: every step is a
  step of MessageQueue or changes none of its variables.
* `Coherence_proofs` — `TypeCorrect`, `DirectoriesWorkApart`. The type invariant is not
  inductive: a directory puts `Head(queue).from` into entries and messages, and nothing in
  a handler says that the queue is not empty. `IInv` adds what makes it so: requests,
  answers and data reach only the home of their line, commands and reads come only from it
  (`MessagesTo`, `InboxOK`), so only one network thread works on a queue (`NetOK`). The
  same fact is why the queues need no lock, which is `DirectoriesWorkApart`. One lemma per
  action; `CommandStep`, `RetrieveStep`, `AnswerTaken`, `AnsweredStep` hold what several
  share.
* `SyncServer_proofs` — `SyncSafe`: `StalledAreQueued` and `HeldIsOwned` (a mutex is owned
  by whoever the application thinks holds it, or by who was resumed to take it). Neither
  is inductive alone: that an owner is never in the queue of his mutex needs the order in
  which a legal application takes mutexes and waits.
* `SyncIsMonitors`, in the same module — the complete refinement of Monitors. `Where` reads
  off a thread's queue what it waits for and the other way round, and follows from the
  invariant of SyncSafe; `Unmoved` says that whoever stays in a queue waits for what it
  waited for, so that each action has to account only for the threads it moves.
* `CoherenceSafety_proofs` — the safety of the protocol, for any number of caches, lines
  and threads, any of the three protocols, any directory size and any evictions:
  `OneWriter` (`SingleWriter`), `DirectoryKnows` (`DirectoryCoversCaches`) and
  `OneRequestUnderway` (`OneRequestPerMiss`). None is inductive: what a handler does is
  right only because of what is under way. `SafeLines`, with `IInv`, is
  (`ProtocolInvariant`). For a line and a cache it says
  that one request is outstanding exactly when somebody waits (`OneRequest`), and fits
  the state of the cache (`StateFits`); that the directory knows of every copy which
  exists, is on its way or was given up without its word having come (`Known`,
  `GivenUp`); that who may write is the owner (`Ownership`); and what a command or its
  answer finds: a WB_REQ or FLUSH_REQ that nobody waits for any more (`WbLive`,
  `FlushLive`) finds the line gone, and no reply that would bring the line back overtakes
  it (`WbCommand`, `FlushCommand`, `WbAnswer`, `FlushAnswer`). Of the orders of messages
  only those between one cache and the home of one line matter; `Has`, `NotThen` and
  `NotThenThen` describe them, and `Posted` and `Taken` say once and for all what sending
  and receiving change. One lemma per action. TLC checked the invariant on the instances
  of the runs before it was proved.
* `ProtocolIsCoherent`, in the same module — the complete refinement of
  CoherentLines. The steps of the directories and of DRAM are stutters; a reply that is
  installed is a `Grant`, which the others' permissions allow by `SingleWriter` of the
  next state. `WaitersOK` adds that a thread sleeps in one queue, once, at the cache that
  serves it, so that `Wake` ends one access and no other.
* `CoherenceAssertions_proofs` — `AssertionsNeverFail` and `AssertionsHoldWithRoom`
  (`AssertionsHold`). An assertion says that a message or a request finds what its sender
  left. `SafeLines` says that of what would give two caches the same line; `AssertedLines`
  adds the rest. Of a line and a cache: an INV_REQ that nobody waits for any more finds
  the line gone, and nothing that brings it back overtakes it (`InvCommand`); a cache that
  waits for an upgrade keeps its copy until a command that is waited for takes it
  (`UpgradeKept`); a sharer without the line is about to get it or has said that it is
  gone (`Justified`); an owner's state is what the directory thinks (`OwnerState`). Of a
  line: whom the loop over its waiters serves, who waits and what the head of its queue
  asks for fit the states there (`ServiceFits`, `WaitFits`, `HeadFits`), and the
  directory's state fits its sharers (`SharersFit`). `NoForwarding` says that only MESIF
  has a forwarder.
  Both theorems assume `RoomForSharers`: an entry has room for every cache or for one. In
  between, the assertion of line 943 does fail (section 7). `AssertionsNeverFail` speaks of
  states in which a request that has to replace an entry finds one (`VictimsExist`);
  where it does not, the assertion of `dram_directory_cntlr.cc:403` is the one that fails,
  and the ticket it names is still open. `AssertionsHoldWithRoom` needs no such condition,
  since with an entry for every line (`SetsHaveRoom`) nothing is replaced: a request
  claims its entry when it is queued. `mesif_forwarding` satisfies the hypotheses of the
  second theorem, `directory_replacement` those of the first and, with its three lines,
  `VictimsExist` in every state.
* `CoherenceProgress_proofs`, `CoherenceQuiet_proofs` — `NothingIsForgotten`
  (`NothingForgotten`), the safety half of "every access is served": the protocol does not
  come to rest with work undone. Its invariant `Progressing` adds to `AssertedLines` what
  each request at the head of a queue still waits for, and who will bring it. A command
  that is waited for reaches the cache while it has the line, behind the reply that brings
  it, or is answered (`CommandStands`); what the head waits for has not happened yet
  (`StillWaits`); a request that waits for DRAM has its read or the answer under way
  (`DramLives`); only the head was sent to a forwarder, and the forwarder has the line
  (`TailForwards`, `ForwarderFits`); data is never missing where a line is kept or sent,
  so that a reader goes on with what a write-back brings (`DataThere`); and each thread
  that waits is a waiter of some cache (`ThreadsWait`). When no message is left, a request
  at the head waits for a sharer that has the line (`Justified`) and was sent a command,
  and that command would have to be under way. `CoherenceProgress_proofs` holds the steps
  of a line, `CoherenceQuiet_proofs` the rest and the theorem. It assumes
  `RoomForSharers`, as the two before do. A thread stopped at an assertion is not idle:
  the theorem says nothing of such a state, and `AssertionsHoldWithRoom` says where there
  is none. That every access is served in the end (`EveryAccessServed`) takes fairness and
  stays with TLC.
* `SimFutex_proofs` — `FutexTypes`, `StalledOnce` (`BlockedAreQueued`), `StoresAreSeen`
  (`NoStoreIsMissed`), `TimedOutInTime` (`TimeoutsAreTrue`). Their invariant adds
  `CallsOK`: what each thread that is between reading a word and making its call has read.
  The attempt to prove `NoStoreIsMissed` as it stood before showed it false with four
  threads: a waiter that was requeued to another word and back sleeps at a word that has
  changed, as it should. Hence the history variable `moved`: who waits at a word it was
  requeued to.

Checked with TLC only: liveness (out of reach of the provers here), with it the liveness
part of CountingSemaphore and MessageQueue. Of Coherence `ReadableIsCurrent`, true
without evictions only (section 6). Threads, whose handlers are RECURSIVE operators;
CacheStack, whose operations are folds over the levels and children of a cache, that is,
induction over data; Tlb; CacheSet with its refinement of RecencyList.

## 6. Disagreements between the code and what it says

1. `write_back_lost` — `processWbRepFromL2Cache` (`dram_directory_cntlr.cc:1339`) makes a
   MODIFIED line SHARED without writing its data to DRAM; when the sharers drop the line
   the write is lost, against "MODIFIED data is about to get lost!".
2. `saved_data` — "store the data that was FLUSHed" (`dram_directory_cntlr.cc:1284`) keeps
   a pointer into a message that the memory manager frees before the data is used.
3. `stale_read` — a core that reads a line which is MODIFIED in a shared cache gets it
   MODIFIED itself (`cache_cntlr.cc:1032`) while its siblings have it SHARED: its next
   write invalidates nobody, and another core goes on reading its old copy.

Each is a run that must find the violation, so that a repair of the code (and of the
model with it) shows. Because of the first, the protocol part of `data` is without
evictions; because of the third, CacheStack has no property that reads are current.

## 7. Known defects without a run

Found while the models were written, by reading or by checking a larger instance. A
passing run stays clear of each where the text says how.

*Directory and caches*
* `dram_directory_cntlr.cc:1020` — with fewer hardware sharers than caches a reader goes on
  after any INV_REP; a sharer still to be invalidated can then upgrade, and the assertion
  "Ooops" (line 943) fails. Three caches with two sharers reach it.
* `dram_directory_cntlr.cc:403` — all entries of a directory set have requests queued and
  another line of the set is requested: "Cannot find a directory entry to be replaced".
* `cache_cntlr.cc:2613` — MESIF: a WB_REQ at a forwarder that waits for an upgrade is
  answered with a buffer nobody filled. `mesif_forwarding` takes the step without data.
* `cache_cntlr.cc:1402` — an L2 below two L1s (instructions and data, in the
  configurations) that holds a line EXCLUSIVE invalidates it on a write without telling
  the other L1. In `data` each L2 has one L1: there is no instruction cache.
* `cache_cntlr.cc:2502` — `processUpgradeRepFromDramDirectory` makes the copies of all
  levels above MODIFIED, although "should invalidate all except the ones from the core
  that initiated" says the comment; the waiter that asked is served right after it and
  the others lose theirs then, which is why `LevelsAgree` is about states outside the
  loop over the waiters.
* `cache_cntlr.cc:2291` — `acquireStackLock(true)` in the write-through path passes `true`
  as the address: it locks the set of address 1. Write-through is not modelled.
* `dram_directory_cntlr.cc:1396` — with a NUCA cache only page-table blocks are written
  back (the braces of an `if` went with the debug output); `:1368` reads `eviction`, which
  `NucaCache::write` leaves unset on a hit; `:172` — two page-walk prefetches of one line
  are both answered, the second from an empty queue.
* `cache_set_lru.cc:41` — if every way but the one used last is upgrading, way 0 is
  replaced, upgrading or not (`MaxUpgrading` excludes it).

*Translation*
* `tlb.cc:222-224` — an ITLB, and a DTLB while statistics are off, search the data caches
  after a hit in the STLB as well, and return without filling the first level; the comment
  speaks of a miss.
* `tlb.cc:33` — `m_manager` is static: the TLBs of all cores look into the caches of the
  core constructed last.
* `tlb.cc:558` — a line of translations already cached as data is not marked as a TLB
  entry when the STLB evicts into it, so the search does not find it.
* `tlb.cc:231`, `:546` — `getNucaCache()` is dereferenced before it is tested.
* `cache.cc:381` — tags are compared without the page size: a large page hits the entry
  of the small page with the same number.
* An ITLB and a DTLB that evict the same page insert it into the STLB twice.
* `buddy_allocator.cc:74`, `:145` — `bytes/1024*4` for the number of 4 KB pages.

*Threads*
* `barrier_sync_server.cc:249` — on four cores with one host core, `sched_setaffinity` moves
  threads that are still to be released, and "some threads haven't even restarted?" fails.
* `thread_manager.cc:353` — the comment promises that time advances for sleepers when all
  threads are stalled; `onThreadExit` (line 148) and `stallThread_async` do not do it.
* `thread_manager.cc:355`, `barrier_sync_server.cc:279` — the last thread that runs blocks
  in the kernel: "Application has deadlocked", although the call will end.
* `thread_manager.cc:141` — who joins a thread that is still INITIALIZING is forgotten as
  its waiter when that thread starts, and not resumed when it ends (`join early`);
  `thread_manager.cc:156` — a thread whose trace ends inside a blocking call has no core,
  which is asserted there (`exit`). Neither is among the operations of a run.

*Synchronisation*
* `sync_server.cc:222` — trylock of a mutex the caller owns takes the path of `lock`, since
  `isLocked` (line 28) is false for the owner. Legal applications do not do it.
* `sync_server.cc:164` — a barrier for zero threads never opens; `barrierInit` accepts it.
* `syscall_server.cc:88` — `FUTEX_WAKE_BITSET` ignores its mask (the test names
  `FUTEX_WAIT_BITSET`).
* `FUTEX_CMP_REQUEUE` requeues without the limit `val2` and returns only those it woke.
* `syscall_server.cc:343` — `getNextTimeout` keeps the last sleeper, not the first.
* `cond.cc` — "Restart futex_wait if it was interrupted": `syscall()` returns -1, never
  `-EINTR`, so the loop never repeats. The mailbox looks again and does not mind.
* `barrier.cc:19` — `m_leaving` is written without a lock, and an interrupted wait leaves
  the barrier. Nobody uses this class.

## 8. Not modelled

* NUCA cache and page-walk prefetch: the code does not keep what its comments intend on
  every path (section 7), so there is nothing to hold a model to but the defects.
* Page tables, page walkers, their caches, Utopia, POM-TLB, ULB: latencies and random
  tables of one core. Tlb takes the size of a page from them. Allocators: sequential,
  and freed by nothing but the random fill at the start.
* Write-through, pass-through, perfect and non-coherent caches, prefetchers, direct DRAM
  access of single-core simulations, replacement other than LRU: choices that the default
  configuration does not take. Any line a prefetcher brings is a line a read may bring.
* Schedulers other than the pinned one, fast-forward, SMT groups, `spawnThread`'s wait,
  masks of several cores.
* Time: latencies, contention, queue models, DRAM timing, core and network models. Only
  the order of events is modelled, and the barrier's quanta.
* Configuration, statistics, logging, scripting, hooks of users, trace pipes, Pin tools,
  SIFT, the decoder, McPAT and containers: I/O, generated or third-party code. They are
  most of the repository's lines, and no property of concurrency is about them.
