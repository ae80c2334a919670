-------------------------- MODULE CatapultCacheProofs --------------------------
(* Proofs about CatapultCache, for every sequence of sub-caches, set of       *)
(* transactions and number of calls.                                          *)
EXTENDS CatapultCache, TLAPS

-----------------------------------------------------------------------------
(* The inductive invariant.                                                   *)

Reads(t, l) == t \in lock[l].readers
Writes(t, l) == t \in lock[l].writers

(* The lock itself: a writer is alone.                                        *)
Exclusive ==
    \A l \in Locks : \A t, u \in Threads :
        Writes(t, l) => ~Reads(u, l) /\ (Writes(u, l) => u = t)

(* Loops over the sub-caches start with the first one.                        *)
ViewerIndex == pc["viewer"] # "subViews" => idx["viewer"] = 1
UpdaterIndex == pc["updater"] # "tryLock" => idx["updater"] = 1
HarvesterIndex == pc["harvester"] \notin {"detachSubs", "lockDelta"} => idx["harvester"] = 1
SyncIndex ==
    pc["sync"] \notin {"createDelta", "promote", "commit", "detachSubs", "lockDelta"} => idx["sync"] = 1

(* The label of a failed lock is never reached.                               *)
NotNull == \A t \in Threads : pc[t] # "null"

(* Where the sync consumer is in a commit: the sub-caches are being written,  *)
(* all is written but the storage, the unconfirmed state is being replaced.   *)
Writing == {"promote", "commit", "dependent"}
Rebasing == {"detach", "detachSubs", "detached", "lockDelta", "locked", "reapply"}
Outdating == {"promote", "commit", "dependent", "release", "storage", "removeAll"}

InHarvest == {"detachSubs", "detached", "lockDelta", "locked", "select", "selecting", "commit"}

(* The updater has locked the delta of the i-th sub-cache.                    *)
UpdaterLocked(i) ==
    pc["updater"] = "apply" \/ (pc["updater"] = "tryLock" /\ i < idx["updater"])

(* Which locks a thread holds, by where it is.                                *)
ViewerHolds == pc["viewer"] \in {"subViews", "viewing"} => Reads("viewer", "height")

UpdaterHolds ==
    /\ pc["updater"] \in {"tryLock", "addAll", "apply"} => Writes("updater", "ut")
    /\ \A i \in DOMAIN SubCaches : UpdaterLocked(i) => Reads("updater", SubCaches[i])

HarvesterHolds == pc["harvester"] \in InHarvest => Reads("harvester", "height")

SyncHolds ==
    /\ pc["sync"] \in Writing => Writes("sync", "height")
    /\ pc["sync"] \in Rebasing => Writes("sync", "ut")

Placed ==
    /\ ViewerIndex /\ UpdaterIndex /\ HarvesterIndex /\ SyncIndex
    /\ ViewerHolds /\ UpdaterHolds /\ HarvesterHolds /\ SyncHolds

(* The commit has written the i-th sub-cache and not yet the storage.         *)
Written(i) ==
    \/ pc["sync"] \in {"dependent", "release", "storage"}
    \/ pc["sync"] \in {"promote", "commit"} /\ i < idx["sync"]

(* A call has not written the storage.                                        *)
BeforeStorage == pc["sync"] \notin Rebasing \cup {"idle", "removeAll"}

(* What the cache holds, by where the commit is.                              *)
Contents ==
    /\ \A s \in Subs : m_commitCounter[s] = m_cache[s]
    /\ \A i \in DOMAIN SubCaches : m_cache[SubCaches[i]] = IF Written(i) THEN chain + 1 ELSE chain
    /\ m_pDependentState = IF pc["sync"] \in {"release", "storage"} THEN chain + 1 ELSE chain
    /\ m_height = heights[m_pDependentState]
    /\ pc["sync"] \in Writing \cup {"height", "heightModifier"} => m_pDependentStateDelta = chain + 1

(* There is a height for every content.                                       *)
Bounded ==
    /\ chain <= calls["sync"] /\ calls["sync"] <= MaxCommits
    /\ BeforeStorage => chain < calls["sync"]

(* The unconfirmed state is based on one commit, the last one unless a commit *)
(* has yet to replace it, and a sub-cache locked by the updater is the one it *)
(* is based on.                                                               *)
Based ==
    /\ \A s \in Subs : unconfirmed.base[s] = unconfirmed.dependent
                       /\ unconfirmed.commits[s] = unconfirmed.dependent
    /\ unconfirmed.height = heights[unconfirmed.dependent]
    /\ unconfirmed.dependent =
           IF pc["sync"] \in {"removeAll", "detach", "detachSubs", "detached"} THEN chain - 1 ELSE chain
    /\ \A i \in DOMAIN SubCaches : UpdaterLocked(i) => m_cache[SubCaches[i]] = unconfirmed.dependent
    /\ pc["updater"] = "addAll" => pc["sync"] \in Outdating

(* What is applied to the unconfirmed state and what counts as valid.         *)
Applied ==
    /\ pc["sync"] \notin Rebasing =>
          \A tx \in Txs : unconfirmed.applied[tx] = IF m_transactionsCache[tx] = "valid" THEN 1 ELSE 0
    /\ pc["sync"] \in Rebasing => \A tx \in Txs : m_transactionsCache[tx] = "absent"
    /\ pc["sync"] \in {"lockDelta", "locked", "reapply"} => \A tx \in Txs : unconfirmed.applied[tx] = 0
    /\ pc["sync"] \in {"detachSubs", "detached"} => \A tx \in Txs : delta["sync"].applied[tx] = 0
    /\ pc["sync"] \notin Outdating => \A tx \in Txs : m_transactionsCache[tx] # "unvalidated"

(* A detached delta in the making, and until its maker is done with it, is    *)
(* what the cache holds.                                                      *)
Copied(t, i) ==
    \/ pc[t] = "detachSubs" /\ i < idx[t]
    \/ pc[t] \in {"detached", "lockDelta", "locked", "select", "selecting"}
    \/ t = "harvester" /\ pc[t] = "commit"

Fresh(t) ==
    /\ \A i \in DOMAIN SubCaches :
          Copied(t, i) => /\ delta[t].base[SubCaches[i]] = m_cache[SubCaches[i]]
                          /\ delta[t].commits[SubCaches[i]] = m_cache[SubCaches[i]]
    /\ pc[t] \in InHarvest /\ (t = "sync" => pc[t] # "commit") => delta[t].height = m_height
    /\ Copied(t, 1) /\ pc[t] \notin {"detachSubs", "detached"} => delta[t].dependent = m_pDependentState

IInv ==
    /\ TypeOK /\ Exclusive /\ Placed /\ NotNull /\ Contents /\ Bounded /\ Based /\ Applied
    /\ Fresh("sync") /\ Fresh("harvester")

-----------------------------------------------------------------------------
(* The locks.                                                                 *)

LockOK == lock \in [Locks -> LockStates(Threads)]

(* A step of t changes nothing for the other threads.                         *)
LockFrame(t) ==
    \A u \in Threads : \A k \in Locks :
        u # t => (u \in lock'[k].readers <=> u \in lock[k].readers)
                 /\ (u \in lock'[k].writers <=> u \in lock[k].writers)

(* The names of the sub-caches are locks of their own, distinct from the      *)
(* others and from each other.                                                *)
LEMMA SubFacts ==
    /\ \A i \in DOMAIN SubCaches : SubCaches[i] \in Subs
    /\ \A s \in Subs : \E i \in DOMAIN SubCaches : s = SubCaches[i]
    /\ \A i, j \in DOMAIN SubCaches : SubCaches[i] = SubCaches[j] => i = j
    /\ Subs \subseteq Locks /\ {"storage", "height", "ut"} \subseteq Locks
    /\ \A s \in Subs : s \notin {"storage", "height", "ut"}
    /\ Len(SubCaches) \in Nat /\ Len(SubCaches) >= 1 /\ DOMAIN SubCaches = 1 .. Len(SubCaches)
  <1>1. /\ \A i \in DOMAIN SubCaches : SubCaches[i] \in Subs
        /\ \A s \in Subs : \E i \in DOMAIN SubCaches : s = SubCaches[i]
    BY DEF Subs, Range
  <1>2. \A i, j \in DOMAIN SubCaches : SubCaches[i] = SubCaches[j] => i = j
    BY CacheAssumption
  <1>3. Subs \subseteq Locks /\ {"storage", "height", "ut"} \subseteq Locks
    BY DEF Locks
  <1>4. \A s \in Subs : s \notin {"storage", "height", "ut"}
    BY CacheAssumption DEF Subs
  <1>5. Len(SubCaches) \in Nat /\ Len(SubCaches) >= 1 /\ DOMAIN SubCaches = 1 .. Len(SubCaches)
    BY CacheAssumption
  <1>6. QED
    BY <1>1, <1>2, <1>3, <1>4, <1>5

(* Entering as a reader: no writer was inside.                                *)
LEMMA AcquireReaderFacts ==
    ASSUME LockOK, Exclusive, NEW t \in Threads, NEW l \in Locks, acquireReader(t, l)
    PROVE  /\ LockOK' /\ Exclusive' /\ LockFrame(t)
           /\ t \in lock'[l].readers
           /\ \A k \in Locks : t \in lock[k].readers => t \in lock'[k].readers
           /\ \A k \in Locks : t \in lock'[k].writers <=> t \in lock[k].writers
           /\ lock[l].writers = {}
  BY DEF LockOK, Exclusive, LockFrame, acquireReader, canEnterReader, enterReader, LockStates, Reads, Writes

(* Announcing a writer changes nothing for those inside.                      *)
LEMMA AnnounceFacts ==
    ASSUME LockOK, Exclusive, NEW t \in Threads, NEW l \in Locks,
           lock' = [lock EXCEPT ![l] = announceWriter(@, t)]
    PROVE  /\ LockOK' /\ Exclusive' /\ LockFrame(t)
           /\ \A k \in Locks : t \in lock'[k].readers <=> t \in lock[k].readers
           /\ \A k \in Locks : t \in lock'[k].writers <=> t \in lock[k].writers
  BY DEF LockOK, Exclusive, LockFrame, announceWriter, LockStates, Reads, Writes

(* Entering as a writer: nobody was inside.                                   *)
LEMMA AcquireWriterFacts ==
    ASSUME LockOK, Exclusive, NEW t \in Threads, NEW l \in Locks, acquireWriter(t, l)
    PROVE  /\ LockOK' /\ Exclusive' /\ LockFrame(t)
           /\ t \in lock'[l].writers
           /\ \A k \in Locks : t \in lock[k].writers => t \in lock'[k].writers
           /\ \A k \in Locks : t \in lock'[k].readers <=> t \in lock[k].readers
           /\ lock[l].readers = {} /\ lock[l].writers = {}
  BY DEF LockOK, Exclusive, LockFrame, acquireWriter, canEnterWriter, enterWriter, LockStates, Reads, Writes

(* Leaving some locks.                                                        *)
LEMMA ReleaseFacts ==
    ASSUME LockOK, Exclusive, NEW t \in Threads, NEW ls, release(t, ls)
    PROVE  /\ LockOK' /\ Exclusive' /\ LockFrame(t)
           /\ \A k \in Locks : k \notin ls => lock'[k] = lock[k]
  BY DEF LockOK, Exclusive, LockFrame, release, leaveWriter, leaveReader, LockStates, Reads, Writes

(* Promotion gives up the reader.                                             *)
LEMMA PromoteFacts ==
    ASSUME LockOK, Exclusive, NEW t \in Threads, NEW l \in Locks,
           lock' = [lock EXCEPT ![l] = promote(@, t)]
    PROVE  /\ LockOK' /\ Exclusive' /\ LockFrame(t)
           /\ \A k \in Locks : k # l => lock'[k] = lock[k]
  BY DEF LockOK, Exclusive, LockFrame, promote, LockStates, Reads, Writes

(* A promoted writer gets in alone and is a reader again.                     *)
LEMMA CommitLockFacts ==
    ASSUME LockOK, Exclusive, NEW t \in Threads, NEW l \in Locks,
           canEnterWriter(lock[l]), lock' = [lock EXCEPT ![l] = demote(enterWriter(@, t), t)]
    PROVE  /\ LockOK' /\ Exclusive' /\ LockFrame(t)
           /\ \A k \in Locks : k # l => lock'[k] = lock[k]
           /\ lock[l].readers = {}
  BY DEF LockOK, Exclusive, LockFrame, demote, enterWriter, canEnterWriter, LockStates, Reads, Writes

LEMMA UnchangedLockFacts ==
    ASSUME LockOK, Exclusive, NEW t \in Threads, lock' = lock
    PROVE  LockOK' /\ Exclusive' /\ LockFrame(t)
  BY DEF LockOK, Exclusive, LockFrame, Reads, Writes

-----------------------------------------------------------------------------
(* Control: where the threads are, and type correctness of what they do.      *)

ControlOK ==
    /\ pc \in [Threads -> Labels]
    /\ idx \in [Threads -> DOMAIN SubCaches]
    /\ calls \in [Threads -> Nat]

(* A step of t moves no other thread.                                         *)
ControlFrame(t) ==
    \A u \in Threads : u # t => pc'[u] = pc[u] /\ idx'[u] = idx[u] /\ calls'[u] = calls[u]

LEMMA GotoFacts ==
    ASSUME pc \in [Threads -> Labels], NEW t \in Threads, NEW label \in Labels, goto(t, label)
    PROVE  pc' \in [Threads -> Labels] /\ pc'[t] = label /\ \A u \in Threads : u # t => pc'[u] = pc[u]
  BY DEF goto

LEMMA LoopFacts ==
    ASSUME ControlOK, NEW t \in Threads, NEW label \in Labels, loopOr(t, label)
    PROVE  /\ pc' \in [Threads -> Labels] /\ idx' \in [Threads -> DOMAIN SubCaches]
           /\ \A u \in Threads : u # t => pc'[u] = pc[u] /\ idx'[u] = idx[u]
           /\ \/ idx[t] = Len(SubCaches) /\ idx'[t] = 1 /\ pc'[t] = label
              \/ idx[t] < Len(SubCaches) /\ idx'[t] = idx[t] + 1 /\ pc'[t] = pc[t]
  <1>1. Len(SubCaches) \in Nat /\ Len(SubCaches) >= 1 /\ DOMAIN SubCaches = 1 .. Len(SubCaches)
    BY SubFacts
  <1>2. CASE idx[t] = Len(SubCaches)
    BY <1>1, <1>2 DEF ControlOK, loopOr, goto
  <1>3. CASE idx[t] # Len(SubCaches)
    BY <1>1, <1>3 DEF ControlOK, loopOr, goto
  <1>4. QED
    BY <1>2, <1>3

LEMMA SubOfThread ==
    ASSUME ControlOK, NEW t \in Threads
    PROVE  sub(t) \in Subs /\ sub(t) \in Locks
  BY SubFacts DEF ControlOK, sub

(* What a step of each thread leaves alone, and what it does to the locks.    *)
StepFrame(t) == ControlOK' /\ ControlFrame(t) /\ LockOK' /\ Exclusive' /\ LockFrame(t)

LEMMA GotoFrame ==
    ASSUME ControlOK, NEW t \in Threads, NEW label \in Labels, goto(t, label), UNCHANGED <<idx, calls>>
    PROVE  ControlOK' /\ ControlFrame(t) /\ pc'[t] = label /\ idx'[t] = idx[t]
  BY GotoFacts DEF ControlOK, ControlFrame

LEMMA BeginFrame ==
    ASSUME ControlOK, NEW t \in Threads, NEW bound, begin(t, bound),
           NEW label \in Labels, goto(t, label), UNCHANGED idx
    PROVE  /\ ControlOK' /\ ControlFrame(t) /\ pc'[t] = label /\ idx'[t] = idx[t]
           /\ pc[t] = "idle" /\ calls[t] < bound /\ calls'[t] = calls[t] + 1
  BY GotoFacts DEF ControlOK, ControlFrame, begin

LEMMA LoopFrame ==
    ASSUME ControlOK, NEW t \in Threads, NEW label \in Labels, loopOr(t, label), UNCHANGED calls
    PROVE  /\ ControlOK' /\ ControlFrame(t)
           /\ \/ idx[t] = Len(SubCaches) /\ idx'[t] = 1 /\ pc'[t] = label
              \/ idx[t] < Len(SubCaches) /\ idx'[t] = idx[t] + 1 /\ pc'[t] = pc[t]
  BY LoopFacts DEF ControlOK, ControlFrame

LEMMA ThreadNames == "sync" \in Threads /\ "updater" \in Threads /\ "harvester" \in Threads /\ "viewer" \in Threads
  BY DEF Threads

DataOK ==
    /\ m_cache \in [Subs -> Nat]
    /\ m_commitCounter \in [Subs -> Nat]
    /\ {m_height, m_pDependentState, m_pDependentStateDelta, chain} \subseteq Nat
    /\ heights \in [0 .. MaxCommits -> Nat]
    /\ m_transactionsCache \in [Txs -> {"absent", "unvalidated", "valid"}]
    /\ unconfirmed \in Deltas
    /\ delta \in [{"sync", "harvester"} -> Deltas]
    /\ local \in [{"sync", "harvester"} -> Locals]

LEMMA TypeParts == (TypeOK => ControlOK /\ LockOK /\ DataOK) /\ (ControlOK' /\ LockOK' /\ DataOK' => TypeOK')
  BY Zenon DEF TypeOK, ControlOK, LockOK, DataOK

-----------------------------------------------------------------------------
(* What a step leaves alone because it is of another thread.                  *)

LEMMA OtherPlaces ==
    ASSUME Placed, NEW t \in Threads, ControlFrame(t), LockFrame(t)
    PROVE  /\ t # "viewer" => ViewerIndex' /\ ViewerHolds'
           /\ t # "updater" => UpdaterIndex' /\ UpdaterHolds'
           /\ t # "harvester" => HarvesterIndex' /\ HarvesterHolds'
           /\ t # "sync" => SyncIndex' /\ SyncHolds'
  <1> USE ThreadNames, SubFacts DEF Placed, ControlFrame, LockFrame, Reads, Writes
  <1>1. t # "viewer" => ViewerIndex' /\ ViewerHolds'
    BY DEF ViewerIndex, ViewerHolds
  <1>2. t # "updater" => UpdaterIndex' /\ UpdaterHolds'
    BY DEF UpdaterIndex, UpdaterHolds, UpdaterLocked
  <1>3. t # "harvester" => HarvesterIndex' /\ HarvesterHolds'
    BY DEF HarvesterIndex, HarvesterHolds
  <1>4. t # "sync" => SyncIndex' /\ SyncHolds'
    BY DEF SyncIndex, SyncHolds
  <1>5. QED
    BY <1>1, <1>2, <1>3, <1>4

LEMMA OtherNotNull ==
    ASSUME NotNull, NEW t \in Threads, ControlFrame(t), pc'[t] # "null"
    PROVE  NotNull'
  BY DEF NotNull, ControlFrame

LEMMA CommitUnmoved ==
    ASSUME Contents, Bounded, Fresh("sync"), NEW t \in Threads, t # "sync", ControlFrame(t),
           UNCHANGED <<cacheVars, chain, heights>>, delta'["sync"] = delta["sync"]
    PROVE  Contents' /\ Bounded' /\ Fresh("sync")'
  <1>1. pc'["sync"] = pc["sync"] /\ idx'["sync"] = idx["sync"] /\ calls'["sync"] = calls["sync"]
    BY ThreadNames DEF ControlFrame
  <1>2. Contents'
    BY <1>1 DEF Contents, Written, cacheVars
  <1>3. Bounded'
    BY <1>1 DEF Bounded, BeforeStorage
  <1>4. Fresh("sync")'
    BY <1>1 DEF Fresh, Copied, cacheVars
  <1>5. QED
    BY <1>2, <1>3, <1>4

LEMMA HarvestUnmoved ==
    ASSUME Fresh("harvester"), NEW t \in Threads, t # "harvester", ControlFrame(t),
           UNCHANGED <<m_cache, m_height, m_pDependentState>>, delta'["harvester"] = delta["harvester"]
    PROVE  Fresh("harvester")'
  <1>1. pc'["harvester"] = pc["harvester"] /\ idx'["harvester"] = idx["harvester"]
    BY ThreadNames DEF ControlFrame
  <1>2. QED
    BY <1>1 DEF Fresh, Copied

LEMMA UnconfirmedUnmoved ==
    ASSUME Based, Applied, NEW t \in Threads, t \notin {"sync", "updater"}, ControlFrame(t),
           UNCHANGED <<cacheVars, chain, heights, utVars>>, delta'["sync"] = delta["sync"]
    PROVE  Based' /\ Applied'
  <1>1. pc'["sync"] = pc["sync"] /\ pc'["updater"] = pc["updater"] /\ idx'["updater"] = idx["updater"]
    BY ThreadNames DEF ControlFrame
  <1>2. Based'
    BY <1>1 DEF Based, UpdaterLocked, cacheVars, utVars
  <1>3. Applied'
    BY <1>1 DEF Applied, utVars
  <1>4. QED
    BY <1>2, <1>3

-----------------------------------------------------------------------------
(* What a step of each thread does to its place and its locks.                *)

LEMMA ViewerPlace ==
    ASSUME ControlOK, LockOK, Exclusive, ViewerIndex, ViewerHolds, ViewerStep
    PROVE  /\ StepFrame("viewer") /\ UNCHANGED <<cacheVars, chain, heights, utVars, delta, local>>
           /\ ViewerIndex' /\ ViewerHolds' /\ pc'["viewer"] # "null"
  <1> USE ThreadNames, SubFacts DEF ViewerIndex, ViewerHolds, Reads
  <1>1. CASE CreateViewHeight
    <2>1. acquireReader("viewer", "height") /\ goto("viewer", "subViews") /\ begin("viewer", MaxViews)
          /\ UNCHANGED <<cacheVars, chain, heights, utVars, delta, local>> /\ UNCHANGED idx
      BY <1>1, Zenon DEF CreateViewHeight
    <2>2. LockOK' /\ Exclusive' /\ LockFrame("viewer") /\ "viewer" \in lock'["height"].readers
      BY <2>1, AcquireReaderFacts, Zenon
    <2>3. ControlOK' /\ ControlFrame("viewer") /\ pc'["viewer"] = "subViews"
      BY <2>1, BeginFrame DEF Labels
    <2>4. QED
      BY <2>1, <2>2, <2>3 DEF StepFrame
  <1>2. CASE CreateSubView
    <2>1. acquireReader("viewer", sub("viewer")) /\ loopOr("viewer", "viewing") /\ pc["viewer"] = "subViews"
          /\ UNCHANGED <<cacheVars, chain, heights, utVars, delta, local>> /\ UNCHANGED calls
      BY <1>2 DEF CreateSubView
    <2>2. LockOK' /\ Exclusive' /\ LockFrame("viewer") /\ "viewer" \in lock'["height"].readers
      BY <2>1, AcquireReaderFacts, SubOfThread, Zenon
    <2>3. /\ ControlOK' /\ ControlFrame("viewer")
          /\ (pc'["viewer"] = "viewing" /\ idx'["viewer"] = 1) \/ pc'["viewer"] = "subViews"
      BY <2>1, LoopFrame DEF Labels
    <2>4. QED
      BY <2>1, <2>2, <2>3 DEF StepFrame
  <1>3. CASE ReleaseView
    <2>1. release("viewer", Subs \cup {"height"}) /\ goto("viewer", "idle") /\ pc["viewer"] = "viewing"
          /\ UNCHANGED <<cacheVars, chain, heights, utVars, delta, local>> /\ UNCHANGED <<idx, calls>>
      BY <1>3, Zenon DEF ReleaseView
    <2>2. LockOK' /\ Exclusive' /\ LockFrame("viewer")
      BY <2>1, ReleaseFacts
    <2>3. ControlOK' /\ ControlFrame("viewer") /\ pc'["viewer"] = "idle" /\ idx'["viewer"] = idx["viewer"]
      BY <2>1, GotoFrame DEF Labels
    <2>4. QED
      BY <2>1, <2>2, <2>3 DEF StepFrame
  <1>4. QED
    BY <1>1, <1>2, <1>3, Zenon DEF ViewerStep

LEMMA ViewerPreserves == IInv /\ ViewerStep => IInv'
  <1> SUFFICES ASSUME IInv, ViewerStep PROVE IInv'
    OBVIOUS
  <1>1. ControlOK /\ LockOK /\ DataOK
    BY TypeParts DEF IInv
  <1>2. /\ StepFrame("viewer") /\ UNCHANGED <<cacheVars, chain, heights, utVars, delta, local>>
        /\ ViewerIndex' /\ ViewerHolds' /\ pc'["viewer"] # "null"
    BY <1>1, ViewerPlace DEF IInv, Placed
  <1>3. DataOK'
    BY <1>1, <1>2 DEF DataOK, cacheVars, utVars
  <1>4. TypeOK' /\ Exclusive'
    BY <1>2, <1>3, TypeParts DEF StepFrame
  <1>5. Placed'
    BY <1>2, OtherPlaces, ThreadNames DEF IInv, StepFrame, Placed
  <1>6. NotNull'
    BY <1>2, OtherNotNull, ThreadNames DEF IInv, StepFrame
  <1>7. Contents' /\ Bounded' /\ Fresh("sync")'
    BY <1>2, CommitUnmoved, ThreadNames DEF IInv, StepFrame
  <1>8. Fresh("harvester")'
    BY <1>2, HarvestUnmoved, ThreadNames DEF IInv, StepFrame, cacheVars
  <1>9. Based' /\ Applied'
    BY <1>2, UnconfirmedUnmoved, ThreadNames DEF IInv, StepFrame
  <1>10. QED
    BY <1>4, <1>5, <1>6, <1>7, <1>8, <1>9 DEF IInv

-----------------------------------------------------------------------------
(* The transaction dispatcher.                                                *)

(* A step of the updater preserves the invariant if it takes care of its own  *)
(* place and of the unconfirmed transactions.                                 *)
LEMMA UpdaterPreservesRest ==
    ASSUME IInv, StepFrame("updater"), UNCHANGED <<cacheVars, chain, heights, delta, local>>,
           m_transactionsCache' \in [Txs -> {"absent", "unvalidated", "valid"}], unconfirmed' \in Deltas,
           UpdaterIndex', UpdaterHolds', pc'["updater"] # "null", Based', Applied'
    PROVE  IInv'
  <1>1. DataOK'
    BY TypeParts DEF IInv, DataOK, cacheVars
  <1>2. TypeOK' /\ Exclusive'
    BY <1>1, TypeParts DEF StepFrame
  <1>3. Placed'
    BY OtherPlaces, ThreadNames DEF IInv, StepFrame, Placed
  <1>4. NotNull'
    BY OtherNotNull, ThreadNames DEF IInv, StepFrame
  <1>5. Contents' /\ Bounded' /\ Fresh("sync")'
    BY CommitUnmoved, ThreadNames DEF IInv, StepFrame
  <1>6. Fresh("harvester")'
    BY HarvestUnmoved, ThreadNames DEF IInv, StepFrame, cacheVars
  <1>7. QED
    BY <1>2, <1>3, <1>4, <1>5, <1>6, ZenonT(30) DEF IInv

(* Steps that leave the unconfirmed transactions alone.                       *)
LEMMA UpdaterKeepsBased ==
    ASSUME Based, Applied, ControlFrame("updater"), UNCHANGED <<cacheVars, chain, heights, utVars, delta>>,
           \A i \in DOMAIN SubCaches :
               UpdaterLocked(i)' => UpdaterLocked(i) \/ m_cache[SubCaches[i]] = unconfirmed.dependent,
           pc'["updater"] = "addAll" => pc["sync"] \in Outdating
    PROVE  Based' /\ Applied'
  <1>1. pc'["sync"] = pc["sync"]
    BY ThreadNames DEF ControlFrame
  <1>2. Based'
    BY <1>1 DEF Based, cacheVars, utVars
  <1>3. Applied'
    BY <1>1, Zenon DEF Applied, utVars
  <1>4. QED
    BY <1>2, <1>3, SMTT(30)

LEMMA UpdateBeginPreserves == IInv /\ UpdateBegin => IInv'
  <1> SUFFICES ASSUME IInv, UpdateBegin PROVE IInv'
    OBVIOUS
  <1> USE ThreadNames, SubFacts
  <1>1. ControlOK /\ LockOK /\ DataOK /\ Exclusive /\ UpdaterIndex /\ UpdaterHolds /\ Based /\ Applied
    BY TypeParts DEF IInv, Placed
  <1>2. /\ begin("updater", MaxUpdates) /\ lock' = [lock EXCEPT !["ut"] = announceWriter(@, "updater")]
        /\ goto("updater", "modifier")
        /\ UNCHANGED <<cacheVars, chain, heights, utVars, delta, local>> /\ UNCHANGED idx
    BY DEF UpdateBegin
  <1>3. LockOK' /\ Exclusive' /\ LockFrame("updater")
    BY <1>1, <1>2, AnnounceFacts, Zenon
  <1>4. /\ ControlOK' /\ ControlFrame("updater") /\ pc["updater"] = "idle" /\ pc'["updater"] = "modifier"
        /\ idx'["updater"] = idx["updater"]
    BY <1>1, <1>2, BeginFrame DEF Labels
  <1>5. UpdaterIndex' /\ UpdaterHolds' /\ \A i \in DOMAIN SubCaches : ~UpdaterLocked(i)'
    BY <1>1, <1>4 DEF UpdaterIndex, UpdaterHolds, UpdaterLocked
  <1>6. Based' /\ Applied'
    BY <1>1, <1>2, <1>4, <1>5, UpdaterKeepsBased, Zenon
  <1>7. QED
    BY <1>1, <1>2, <1>3, <1>4, <1>5, <1>6, UpdaterPreservesRest, ZenonT(30) DEF StepFrame, DataOK, utVars

LEMMA UpdateModifierPreserves == IInv /\ UpdateModifier => IInv'
  <1> SUFFICES ASSUME IInv, UpdateModifier PROVE IInv'
    OBVIOUS
  <1> USE ThreadNames, SubFacts
  <1>1. ControlOK /\ LockOK /\ DataOK /\ Exclusive /\ UpdaterIndex /\ UpdaterHolds /\ Based /\ Applied
    BY TypeParts DEF IInv, Placed
  <1>2. /\ pc["updater"] = "modifier" /\ acquireWriter("updater", "ut") /\ goto("updater", "tryLock")
        /\ UNCHANGED <<cacheVars, chain, heights, utVars, delta, local>> /\ UNCHANGED <<idx, calls>>
    BY DEF UpdateModifier
  <1>3. LockOK' /\ Exclusive' /\ LockFrame("updater") /\ "updater" \in lock'["ut"].writers
    BY <1>1, <1>2, AcquireWriterFacts, Zenon
  <1>4. /\ ControlOK' /\ ControlFrame("updater") /\ pc'["updater"] = "tryLock" /\ idx'["updater"] = 1
    BY <1>1, <1>2, GotoFrame DEF Labels, UpdaterIndex
  <1>5. UpdaterIndex' /\ UpdaterHolds' /\ \A i \in DOMAIN SubCaches : ~UpdaterLocked(i)'
    BY <1>3, <1>4, SMTT(30) DEF UpdaterIndex, UpdaterHolds, UpdaterLocked, Writes
  <1>6. Based' /\ Applied'
    BY <1>1, <1>2, <1>4, <1>5, UpdaterKeepsBased
  <1>7. QED
    BY <1>1, <1>2, <1>3, <1>4, <1>5, <1>6, UpdaterPreservesRest, Zenon DEF StepFrame, DataOK, utVars

(* The updater is inside as a writer, so the sync consumer is not replacing   *)
(* the unconfirmed state.                                                     *)
LEMMA UpdaterExcludesRebase ==
    ASSUME Exclusive, UpdaterHolds, SyncHolds, pc["updater"] \in {"tryLock", "addAll", "apply"}
    PROVE  pc["sync"] \notin Rebasing
  BY ThreadNames, SubFacts DEF Exclusive, UpdaterHolds, SyncHolds

LEMMA UpdateTryLockPreserves == IInv /\ UpdateTryLock => IInv'
  <1> SUFFICES ASSUME IInv, UpdateTryLock PROVE IInv'
    OBVIOUS
  <1> USE ThreadNames
  <1>1. /\ ControlOK /\ LockOK /\ DataOK /\ Exclusive /\ UpdaterIndex /\ UpdaterHolds /\ SyncHolds
        /\ Based /\ Applied /\ Contents
    BY TypeParts DEF IInv, Placed
  <1>2. /\ pc["updater"] = "tryLock"
        /\ UNCHANGED <<cacheVars, chain, heights, utVars, delta, local>> /\ UNCHANGED calls
    BY DEF UpdateTryLock
  <1>3. idx["updater"] \in DOMAIN SubCaches /\ sub("updater") = SubCaches[idx["updater"]]
        /\ sub("updater") \in Subs /\ sub("updater") \in Locks
    BY <1>1, SubOfThread DEF ControlOK, sub
  <1>4. "updater" \in lock["ut"].writers
    BY <1>1, <1>2, Zenon DEF UpdaterHolds, Writes
  <1>5. CASE isOutdated(unconfirmed, sub("updater"))
    <2>1. /\ release("updater", Subs) /\ goto("updater", "addAll") /\ idx' = [idx EXCEPT !["updater"] = 1]
      BY <1>5, Zenon DEF UpdateTryLock
    <2>2. LockOK' /\ Exclusive' /\ LockFrame("updater") /\ lock'["ut"] = lock["ut"]
      BY <1>1, <2>1, ReleaseFacts, SubFacts, Zenon
    <2>3. 1 \in DOMAIN SubCaches
      BY SubFacts, SMTT(30)
    <2>4. /\ ControlOK' /\ ControlFrame("updater") /\ pc'["updater"] = "addAll" /\ idx'["updater"] = 1
      BY <1>1, <1>2, <2>1, <2>3, GotoFacts DEF Labels, ControlOK, ControlFrame
    <2>5. UpdaterIndex' /\ UpdaterHolds' /\ \A i \in DOMAIN SubCaches : ~UpdaterLocked(i)'
      BY <1>4, <2>2, <2>4 DEF UpdaterIndex, UpdaterHolds, UpdaterLocked, Writes
    <2>6. pc["sync"] \notin Rebasing
      BY <1>1, <1>2, UpdaterExcludesRebase, Zenon
    <2>7. m_cache[sub("updater")] # unconfirmed.dependent
      BY <1>1, <1>3, <1>5, Zenon DEF isOutdated, Based, Contents
    <2>8. pc["sync"] \in Outdating
      BY <1>1, <1>3, <2>6, <2>7, Zenon DEF Based, Contents, Written, Outdating, Rebasing
    <2>9. Based' /\ Applied'
      BY <1>1, <1>2, <2>4, <2>5, <2>8, UpdaterKeepsBased, Zenon
    <2>10. QED
      BY <1>1, <1>2, <2>2, <2>4, <2>5, <2>9, UpdaterPreservesRest, Zenon DEF StepFrame, DataOK, utVars
  <1>6. CASE ~isOutdated(unconfirmed, sub("updater"))
    <2>1. /\ acquireReader("updater", sub("updater")) /\ loopOr("updater", "apply")
      BY <1>6, Zenon DEF UpdateTryLock
    <2>2. /\ LockOK' /\ Exclusive' /\ LockFrame("updater") /\ "updater" \in lock'["ut"].writers
          /\ "updater" \in lock'[sub("updater")].readers
          /\ \A k \in Locks : "updater" \in lock[k].readers => "updater" \in lock'[k].readers
      BY <1>1, <1>3, <1>4, <2>1, AcquireReaderFacts, SubFacts, Zenon
    <2>3. /\ ControlOK' /\ ControlFrame("updater")
          /\ \/ idx["updater"] = Len(SubCaches) /\ idx'["updater"] = 1 /\ pc'["updater"] = "apply"
             \/ /\ idx["updater"] < Len(SubCaches) /\ idx'["updater"] = idx["updater"] + 1
                /\ pc'["updater"] = "tryLock"
      BY <1>1, <1>2, <2>1, LoopFrame, Zenon DEF Labels
    <2>4. \A i \in DOMAIN SubCaches : UpdaterLocked(i)' => UpdaterLocked(i) \/ i = idx["updater"]
      BY <1>2, <1>3, <2>3, SubFacts DEF UpdaterLocked
    <2>5. \A i \in DOMAIN SubCaches : UpdaterLocked(i)' => Reads("updater", SubCaches[i])'
      BY <1>1, <1>3, <2>2, <2>4, SubFacts, Zenon DEF UpdaterHolds, Reads
    <2>6. UpdaterIndex' /\ UpdaterHolds' /\ pc'["updater"] \notin {"null", "addAll"}
      BY <2>2, <2>3, <2>5, Zenon DEF UpdaterIndex, UpdaterHolds, Writes
    <2>7. m_cache[sub("updater")] = unconfirmed.dependent
      BY <1>1, <1>3, <1>6, Zenon DEF isOutdated, Based, Contents
    <2>8. Based' /\ Applied'
      BY <1>1, <1>2, <1>3, <2>3, <2>4, <2>6, <2>7, UpdaterKeepsBased, Zenon
    <2>9. QED
      BY <1>1, <1>2, <2>2, <2>3, <2>6, <2>8, UpdaterPreservesRest DEF StepFrame, DataOK, utVars
  <1>7. QED
    BY <1>5, <1>6

LEMMA UpdateAddAllPreserves == IInv /\ (\E txs \in SUBSET Txs : UpdateAddAll(txs)) => IInv'
  <1> SUFFICES ASSUME IInv, NEW txs \in SUBSET Txs, UpdateAddAll(txs) PROVE IInv'
    OBVIOUS
  <1> USE ThreadNames
  <1>1. /\ ControlOK /\ LockOK /\ DataOK /\ Exclusive /\ UpdaterIndex /\ UpdaterHolds /\ SyncHolds
        /\ Based /\ Applied
    BY TypeParts DEF IInv, Placed
  <1>2. /\ pc["updater"] = "addAll" /\ release("updater", {"ut"}) /\ goto("updater", "idle")
        /\ m_transactionsCache' = [tx \in Txs |->
               IF tx \in txs /\ m_transactionsCache[tx] = "absent" THEN "unvalidated"
               ELSE m_transactionsCache[tx]]
        /\ UNCHANGED <<cacheVars, chain, heights, delta, local>> /\ UNCHANGED <<idx, calls>>
        /\ UNCHANGED unconfirmed
    BY DEF UpdateAddAll
  <1>3. LockOK' /\ Exclusive' /\ LockFrame("updater")
    BY <1>1, <1>2, ReleaseFacts, Zenon
  <1>4. /\ ControlOK' /\ ControlFrame("updater") /\ pc'["updater"] = "idle" /\ idx'["updater"] = 1
    BY <1>1, <1>2, GotoFrame DEF Labels, UpdaterIndex
  <1>5. UpdaterIndex' /\ UpdaterHolds' /\ \A i \in DOMAIN SubCaches : ~UpdaterLocked(i)'
    BY <1>4, Zenon DEF UpdaterIndex, UpdaterHolds, UpdaterLocked
  <1>6. pc["sync"] \notin Rebasing /\ pc["sync"] \in Outdating /\ pc'["sync"] = pc["sync"]
    BY <1>1, <1>2, <1>4, UpdaterExcludesRebase, Zenon DEF Based, ControlFrame
  <1>7. Based'
    BY <1>1, <1>2, <1>4, <1>5, <1>6, Zenon DEF Based, cacheVars
  <1>8. /\ m_transactionsCache' \in [Txs -> {"absent", "unvalidated", "valid"}]
        /\ \A tx \in Txs : m_transactionsCache'[tx] = "valid" <=> m_transactionsCache[tx] = "valid"
    BY <1>1, <1>2, ZenonT(30) DEF DataOK
  <1>9. Applied'
    BY <1>1, <1>2, <1>6, <1>8 DEF Applied, Rebasing, Outdating
  <1>10. QED
    BY <1>1, <1>2, <1>3, <1>4, <1>5, <1>7, <1>8, <1>9, UpdaterPreservesRest, Zenon DEF StepFrame, DataOK

LEMMA ApplyFacts ==
    ASSUME unconfirmed \in Deltas, NEW txs \in SUBSET Txs,
           unconfirmed' = [unconfirmed EXCEPT !.applied =
               [tx \in Txs |-> IF tx \in txs THEN @[tx] + 1 ELSE @[tx]]]
    PROVE  /\ unconfirmed' \in Deltas /\ unconfirmed'.base = unconfirmed.base
           /\ unconfirmed'.commits = unconfirmed.commits /\ unconfirmed'.dependent = unconfirmed.dependent
           /\ unconfirmed'.height = unconfirmed.height
           /\ \A tx \in Txs : unconfirmed'.applied[tx] =
                  IF tx \in txs THEN unconfirmed.applied[tx] + 1 ELSE unconfirmed.applied[tx]
  <1> DEFINE applied ==
        [tx \in Txs |-> IF tx \in txs THEN unconfirmed.applied[tx] + 1 ELSE unconfirmed.applied[tx]]
  <1>1. unconfirmed.applied \in [Txs -> Nat]
    BY DEF Deltas
  <1>2. applied \in [Txs -> Nat]
    BY <1>1
  <1>3. \A tx \in Txs : applied[tx] =
            IF tx \in txs THEN unconfirmed.applied[tx] + 1 ELSE unconfirmed.applied[tx]
    OBVIOUS
  <1>4. unconfirmed' = [unconfirmed EXCEPT !.applied = applied]
    BY Zenon
  <1> HIDE DEF applied
  <1>5. QED
    BY <1>2, <1>3, <1>4 DEF Deltas

LEMMA UpdateApplyPreserves == IInv /\ (\E txs \in SUBSET Txs : UpdateApply(txs)) => IInv'
  <1> SUFFICES ASSUME IInv, NEW txs \in SUBSET Txs, UpdateApply(txs) PROVE IInv'
    OBVIOUS
  <1> USE ThreadNames
  <1>1. /\ ControlOK /\ LockOK /\ DataOK /\ Exclusive /\ UpdaterIndex /\ UpdaterHolds /\ SyncHolds
        /\ Based /\ Applied
    BY TypeParts DEF IInv, Placed
  <1>2. /\ pc["updater"] = "apply" /\ release("updater", Subs \cup {"ut"}) /\ goto("updater", "idle")
        /\ UNCHANGED <<cacheVars, chain, heights, delta, local>> /\ UNCHANGED <<idx, calls>>
    BY DEF UpdateApply
  <1>3. /\ \A tx \in txs : m_transactionsCache[tx] = "absent"
        /\ m_transactionsCache' = [tx \in Txs |-> IF tx \in txs THEN "valid" ELSE m_transactionsCache[tx]]
        /\ unconfirmed' = [unconfirmed EXCEPT !.applied =
               [tx \in Txs |-> IF tx \in txs THEN @[tx] + 1 ELSE @[tx]]]
    BY DEF UpdateApply
  <1>4. LockOK' /\ Exclusive' /\ LockFrame("updater")
    BY <1>1, <1>2, ReleaseFacts
  <1>5. /\ ControlOK' /\ ControlFrame("updater") /\ pc'["updater"] = "idle" /\ idx'["updater"] = 1
    BY <1>1, <1>2, GotoFrame DEF Labels, UpdaterIndex
  <1>6. UpdaterIndex' /\ UpdaterHolds' /\ \A i \in DOMAIN SubCaches : ~UpdaterLocked(i)'
    BY <1>5 DEF UpdaterIndex, UpdaterHolds, UpdaterLocked
  <1>7. pc["sync"] \notin Rebasing /\ pc'["sync"] = pc["sync"]
    BY <1>1, <1>2, <1>5, UpdaterExcludesRebase DEF ControlFrame
  <1>8. /\ m_transactionsCache' \in [Txs -> {"absent", "unvalidated", "valid"}]
        /\ \A tx \in Txs : m_transactionsCache'[tx] = IF tx \in txs THEN "valid" ELSE m_transactionsCache[tx]
    BY <1>1, <1>3 DEF DataOK
  <1>9. /\ unconfirmed' \in Deltas /\ unconfirmed'.base = unconfirmed.base
        /\ unconfirmed'.commits = unconfirmed.commits /\ unconfirmed'.dependent = unconfirmed.dependent
        /\ unconfirmed'.height = unconfirmed.height
        /\ \A tx \in Txs : unconfirmed'.applied[tx] =
               IF tx \in txs THEN unconfirmed.applied[tx] + 1 ELSE unconfirmed.applied[tx]
    BY <1>1, <1>3, ApplyFacts, Zenon DEF DataOK
  <1>10. Based'
    BY <1>1, <1>2, <1>5, <1>6, <1>7, <1>9, ZenonT(30) DEF Based, cacheVars
  <1>11. \A tx \in Txs : unconfirmed'.applied[tx] = IF m_transactionsCache'[tx] = "valid" THEN 1 ELSE 0
    BY <1>1, <1>3, <1>7, <1>8, <1>9 DEF Applied
  <1>12. \A tx \in Txs : m_transactionsCache'[tx] = "unvalidated" => m_transactionsCache[tx] = "unvalidated"
    BY <1>8, Zenon
  <1>13. Applied'
    BY <1>1, <1>7, <1>11, <1>12 DEF Applied, Rebasing, Outdating
  <1>14. QED
    BY <1>1, <1>2, <1>4, <1>5, <1>6, <1>8, <1>9, <1>10, <1>13, UpdaterPreservesRest, Zenon DEF StepFrame

LEMMA UpdaterPreserves == IInv /\ UpdaterStep => IInv'
  BY UpdateBeginPreserves, UpdateModifierPreserves, UpdateTryLockPreserves, UpdateAddAllPreserves,
     UpdateApplyPreserves DEF UpdaterStep

-----------------------------------------------------------------------------
(* Making a detached delta, by the harvester or by the sync consumer.         *)

Detachers == {"sync", "harvester"}

(* What such a step does to the thread that makes the delta, and to the delta. *)
DetachResult(t) ==
    /\ StepFrame(t) /\ Fresh(t)'
    /\ UNCHANGED <<cacheVars, chain, heights, local>> /\ UNCHANGED <<m_transactionsCache, calls>>
    /\ delta' \in [{"sync", "harvester"} -> Deltas]
    /\ \A u \in Detachers : u # t => delta'[u] = delta[u]
    /\ \/ /\ pc[t] = "detach" /\ pc'[t] = "detachSubs" /\ unconfirmed' = unconfirmed
          /\ t \in lock'["height"].readers /\ \A tx \in Txs : delta'[t].applied[tx] = 0
       \/ /\ pc[t] = "detachSubs" /\ pc'[t] \in {"detachSubs", "detached"} /\ unconfirmed' = unconfirmed
          /\ delta'[t].applied = delta[t].applied
       \/ /\ pc[t] = "detached" /\ pc'[t] = "lockDelta" /\ delta'[t].applied = delta[t].applied
          /\ unconfirmed' = IF t = "sync" THEN delta'[t] ELSE unconfirmed
       \/ pc[t] = "lockDelta" /\ pc'[t] \in {"lockDelta", "locked"} /\ UNCHANGED <<unconfirmed, delta>>
    /\ pc'[t] \notin {"detachSubs", "lockDelta"} => idx'[t] = 1
    /\ \A k \in Locks : t \in lock[k].readers => t \in lock'[k].readers
    /\ \A k \in Locks : t \in lock[k].writers => t \in lock'[k].writers

LEMMA EmptyDeltaFacts ==
    /\ EmptyDelta \in Deltas /\ NoLocals \in Locals /\ \A tx \in Txs : EmptyDelta.applied[tx] = 0
    /\ \A h \in Nat : [EmptyDelta EXCEPT !.height = h] \in Deltas
                      /\ [EmptyDelta EXCEPT !.height = h].height = h
                      /\ [EmptyDelta EXCEPT !.height = h].applied = EmptyDelta.applied
  BY DEF EmptyDelta, Deltas, NoLocals, Locals

(* In both threads a detach starts with the first sub-cache.                  *)
LEMMA DetachIndex ==
    ASSUME Placed, NEW t \in Detachers, pc[t] \in {"detach", "detached"}
    PROVE  idx[t] = 1
  BY DEF Placed, HarvesterIndex, SyncIndex, Detachers

LEMMA DetachHeightResult ==
    ASSUME IInv, NEW t \in Detachers, DetachHeight(t)
    PROVE  DetachResult(t)
  <1>1. ControlOK /\ LockOK /\ DataOK /\ Exclusive /\ t \in Threads /\ "height" \in Locks /\ "detachSubs" \in Labels
    BY TypeParts, SubFacts DEF IInv, Detachers, Threads, Labels
  <1>2. /\ pc[t] = "detach" /\ acquireReader(t, "height") /\ goto(t, "detachSubs")
        /\ UNCHANGED <<cacheVars, chain, heights, local>> /\ UNCHANGED <<m_transactionsCache, calls>>
        /\ UNCHANGED <<idx, calls>> /\ UNCHANGED unconfirmed
        /\ delta' = [delta EXCEPT ![t] = [EmptyDelta EXCEPT !.height = m_height]]
    BY DEF DetachHeight, utVars
  <1>3. /\ LockOK' /\ Exclusive' /\ LockFrame(t) /\ t \in lock'["height"].readers
        /\ \A k \in Locks : t \in lock[k].readers => t \in lock'[k].readers
        /\ \A k \in Locks : t \in lock[k].writers => t \in lock'[k].writers
    BY <1>1, <1>2, AcquireReaderFacts
  <1>4. ControlOK' /\ ControlFrame(t) /\ pc'[t] = "detachSubs" /\ idx'[t] = idx[t]
    BY <1>1, <1>2, GotoFrame
  <1>5. idx'[t] = 1
    BY <1>2, <1>4, DetachIndex DEF IInv
  <1>6. /\ delta' \in [{"sync", "harvester"} -> Deltas] /\ \A u \in Detachers : u # t => delta'[u] = delta[u]
        /\ delta'[t].height = m_height /\ \A tx \in Txs : delta'[t].applied[tx] = 0
    BY <1>1, <1>2, EmptyDeltaFacts, Zenon DEF DataOK, Detachers
  <1>7. Fresh(t)'
    <2>1. \A i \in DOMAIN SubCaches : ~Copied(t, i)'
      BY <1>4, <1>5, SubFacts DEF Copied
    <2>2. 1 \in DOMAIN SubCaches /\ m_height' = m_height
      BY <1>2, SubFacts DEF cacheVars
    <2>3. QED
      BY <1>4, <1>6, <2>1, <2>2 DEF Fresh
  <1>8. QED
    BY <1>2, <1>3, <1>4, <1>5, <1>6, <1>7 DEF DetachResult, StepFrame

LEMMA CreateDetachedDeltaResult ==
    ASSUME IInv, NEW t \in Detachers, createDetachedDelta(t)
    PROVE  DetachResult(t)
  <1>1. ControlOK /\ LockOK /\ DataOK /\ Exclusive /\ Contents /\ t \in Threads /\ "detached" \in Labels /\ Fresh(t)
    BY TypeParts, SubFacts DEF IInv, Detachers, Threads, Labels
  <1>2. /\ pc[t] = "detachSubs" /\ loopOr(t, "detached") /\ UNCHANGED lock /\ UNCHANGED unconfirmed
        /\ UNCHANGED <<cacheVars, chain, heights, local>> /\ UNCHANGED <<m_transactionsCache, calls>>
        /\ UNCHANGED calls
        /\ delta' = [delta EXCEPT ![t].base[sub(t)] = m_cache[sub(t)],
                                  ![t].commits[sub(t)] = m_commitCounter[sub(t)]]
    BY DEF createDetachedDelta, utVars
  <1>3. LockOK' /\ Exclusive' /\ LockFrame(t)
    BY <1>1, <1>2, UnchangedLockFacts
  <1>4. /\ ControlOK' /\ ControlFrame(t)
        /\ \/ idx[t] = Len(SubCaches) /\ idx'[t] = 1 /\ pc'[t] = "detached"
           \/ idx[t] < Len(SubCaches) /\ idx'[t] = idx[t] + 1 /\ pc'[t] = "detachSubs"
    BY <1>1, <1>2, LoopFrame, Zenon
  <1>5. sub(t) \in Subs /\ idx[t] \in DOMAIN SubCaches /\ sub(t) = SubCaches[idx[t]]
        /\ m_commitCounter[sub(t)] = m_cache[sub(t)]
    BY <1>1, SubOfThread DEF ControlOK, sub, Contents
  <1>6. /\ delta' \in [{"sync", "harvester"} -> Deltas] /\ \A u \in Detachers : u # t => delta'[u] = delta[u]
        /\ delta'[t].height = delta[t].height /\ delta'[t].applied = delta[t].applied
        /\ \A s \in Subs : /\ delta'[t].base[s] = IF s = sub(t) THEN m_cache[s] ELSE delta[t].base[s]
                           /\ delta'[t].commits[s] = IF s = sub(t) THEN m_cache[s] ELSE delta[t].commits[s]
    BY <1>1, <1>2, <1>5, ZenonT(30) DEF DataOK, Detachers, Deltas
  <1>7. Fresh(t)'
    <2>1. \A i \in DOMAIN SubCaches : Copied(t, i)' => Copied(t, i) \/ i = idx[t]
      BY <1>2, <1>4, <1>5, SubFacts DEF Copied
    <2>2. UNCHANGED m_cache /\ UNCHANGED m_height
      BY <1>2 DEF cacheVars
    <2>3. \A i \in DOMAIN SubCaches :
             Copied(t, i)' => /\ delta'[t].base[SubCaches[i]] = m_cache[SubCaches[i]]
                              /\ delta'[t].commits[SubCaches[i]] = m_cache[SubCaches[i]]
      BY <1>1, <1>5, <1>6, <2>1, SubFacts, ZenonT(30) DEF Fresh
    <2>4. delta'[t].height = m_height
      BY <1>1, <1>2, <1>6 DEF Fresh, InHarvest
    <2>5. QED
      BY <1>4, <2>2, <2>3, <2>4 DEF Fresh
  <1>8. QED
    BY <1>2, <1>3, <1>4, <1>6, <1>7, Zenon DEF DetachResult, StepFrame

LEMMA DetachDependentStateResult ==
    ASSUME IInv, NEW t \in Detachers, DetachDependentState(t)
    PROVE  DetachResult(t)
  <1>1. ControlOK /\ LockOK /\ DataOK /\ Exclusive /\ t \in Threads /\ "lockDelta" \in Labels /\ Fresh(t)
    BY TypeParts, SubFacts DEF IInv, Detachers, Threads, Labels
  <1>2. /\ pc[t] = "detached" /\ goto(t, "lockDelta") /\ UNCHANGED lock
        /\ UNCHANGED <<cacheVars, chain, heights, local>> /\ UNCHANGED <<m_transactionsCache, calls>>
        /\ UNCHANGED <<idx, calls>>
        /\ delta' = [delta EXCEPT ![t].dependent = m_pDependentState]
        /\ unconfirmed' = IF t = "sync" THEN delta'[t] ELSE unconfirmed
    BY DEF DetachDependentState
  <1>3. LockOK' /\ Exclusive' /\ LockFrame(t)
    BY <1>1, <1>2, UnchangedLockFacts
  <1>4. ControlOK' /\ ControlFrame(t) /\ pc'[t] = "lockDelta"
    BY <1>1, <1>2, GotoFrame
  <1>5. /\ delta' \in [{"sync", "harvester"} -> Deltas] /\ \A u \in Detachers : u # t => delta'[u] = delta[u]
        /\ delta'[t].height = delta[t].height /\ delta'[t].applied = delta[t].applied
        /\ delta'[t].base = delta[t].base /\ delta'[t].commits = delta[t].commits
        /\ delta'[t].dependent = m_pDependentState
    BY <1>1, <1>2, Zenon DEF DataOK, Detachers, Deltas
  <1>6. Fresh(t)'
    <2>1. UNCHANGED m_cache /\ UNCHANGED m_height /\ UNCHANGED m_pDependentState
      BY <1>2 DEF cacheVars
    <2>2. \A i \in DOMAIN SubCaches : Copied(t, i)
      BY <1>2 DEF Copied
    <2>3. delta[t].height = m_height
      BY <1>1, <1>2 DEF Fresh, InHarvest
    <2>4. QED
      BY <1>1, <1>4, <1>5, <2>1, <2>2, <2>3, ZenonT(30) DEF Fresh
  <1>7. QED
    BY <1>2, <1>3, <1>4, <1>5, <1>6, Zenon DEF DetachResult, StepFrame

LEMMA LockDeltaResult ==
    ASSUME IInv, NEW t \in Detachers, LockDelta(t)
    PROVE  DetachResult(t)
  <1>1. ControlOK /\ LockOK /\ DataOK /\ Exclusive /\ Contents /\ t \in Threads /\ "locked" \in Labels /\ Fresh(t)
    BY TypeParts, SubFacts, Zenon DEF IInv, Detachers, Threads, Labels
  <1>2. /\ pc[t] = "lockDelta" /\ acquireReader(t, sub(t))
        /\ UNCHANGED <<cacheVars, chain, heights, local>> /\ UNCHANGED <<m_transactionsCache, calls>>
        /\ UNCHANGED calls /\ UNCHANGED <<unconfirmed, delta>>
    BY DEF LockDelta, utVars
  <1>3. sub(t) \in Subs /\ sub(t) \in Locks /\ idx[t] \in DOMAIN SubCaches /\ sub(t) = SubCaches[idx[t]]
    BY <1>1, SubOfThread, ZenonT(30) DEF ControlOK, sub
  <1>4. ~isOutdated(delta[t], sub(t))
    <2>1. Copied(t, idx[t])
      BY <1>2, Zenon DEF Copied
    <2>2. QED
      BY <1>1, <1>3, <2>1, ZenonT(30) DEF Fresh, Contents, isOutdated
  <1>5. loopOr(t, "locked")
    BY <1>4, Zenon DEF LockDelta
  <1>6. /\ LockOK' /\ Exclusive' /\ LockFrame(t)
        /\ \A k \in Locks : t \in lock[k].readers => t \in lock'[k].readers
        /\ \A k \in Locks : t \in lock[k].writers => t \in lock'[k].writers
    BY <1>1, <1>2, <1>3, AcquireReaderFacts, ZenonT(30)
  <1>7. /\ ControlOK' /\ ControlFrame(t)
        /\ (pc'[t] = "lockDelta" \/ (pc'[t] = "locked" /\ idx'[t] = 1))
    BY <1>1, <1>2, <1>5, LoopFrame, Zenon
  <1>8. \A i \in DOMAIN SubCaches : Copied(t, i)
    BY <1>2 DEF Copied
  <1>9. Fresh(t)'
    BY <1>1, <1>2, <1>7, <1>8, SubFacts, ZenonT(30) DEF Fresh, Copied, InHarvest, cacheVars
  <1>10. delta' \in [{"sync", "harvester"} -> Deltas]
    BY <1>1, <1>2, Zenon DEF DataOK
  <1>11. QED
    BY <1>2, <1>6, <1>7, <1>9, <1>10, Zenon DEF DetachResult, StepFrame

LEMMA DetachFacts ==
    ASSUME IInv, NEW t \in Detachers, Detach(t)
    PROVE  DetachResult(t)
  BY DetachHeightResult, CreateDetachedDeltaResult, DetachDependentStateResult, LockDeltaResult, Zenon DEF Detach

-----------------------------------------------------------------------------
(* The harvester.                                                             *)

LEMMA HarvesterPreservesRest ==
    ASSUME IInv, StepFrame("harvester"), UNCHANGED <<cacheVars, chain, heights, utVars>>,
           delta' \in [{"sync", "harvester"} -> Deltas], local' \in [{"sync", "harvester"} -> Locals],
           delta'["sync"] = delta["sync"],
           HarvesterIndex', HarvesterHolds', pc'["harvester"] # "null", Fresh("harvester")'
    PROVE  IInv'
  <1>1. DataOK'
    BY TypeParts, Zenon DEF IInv, DataOK, cacheVars, utVars
  <1>2. TypeOK' /\ Exclusive'
    BY <1>1, TypeParts, Zenon DEF StepFrame
  <1>3. Placed'
    BY OtherPlaces, ThreadNames DEF IInv, StepFrame, Placed
  <1>4. NotNull'
    BY OtherNotNull, ThreadNames DEF IInv, StepFrame
  <1>5. Contents' /\ Bounded' /\ Fresh("sync")'
    BY CommitUnmoved, ThreadNames DEF IInv, StepFrame
  <1>6. Based' /\ Applied'
    BY UnconfirmedUnmoved, ThreadNames, ZenonT(30) DEF IInv, StepFrame
  <1>7. QED
    BY <1>2, <1>3, <1>4, <1>5, <1>6, Zenon DEF IInv

(* Outside of the part where it has a delta the harvester holds nothing.      *)
LEMMA HarvesterOutside ==
    ASSUME pc'["harvester"] \in {"idle", "hit", "detach", "importance"}, idx'["harvester"] = 1
    PROVE  HarvesterIndex' /\ HarvesterHolds' /\ pc'["harvester"] # "null" /\ Fresh("harvester")'
  <1>1. HarvesterIndex' /\ HarvesterHolds' /\ pc'["harvester"] # "null"
    BY DEF HarvesterIndex, HarvesterHolds, InHarvest
  <1>2. \A i : ~Copied("harvester", i)'
    BY DEF Copied
  <1>3. QED
    BY <1>1, <1>2 DEF Fresh, InHarvest

LEMMA ForgetFacts ==
    ASSUME DataOK, NEW t \in Detachers, forget(t)
    PROVE  /\ delta' \in [{"sync", "harvester"} -> Deltas] /\ local' \in [{"sync", "harvester"} -> Locals]
           /\ \A u \in Detachers : u # t => delta'[u] = delta[u]
  BY EmptyDeltaFacts DEF DataOK, Detachers, forget

LEMMA DetacherNames == "sync" \in Detachers /\ "harvester" \in Detachers
  BY DEF Detachers

LEMMA HarvestLastBlockPreserves == IInv /\ HarvestLastBlock => IInv'
  <1> SUFFICES ASSUME IInv, HarvestLastBlock PROVE IInv'
    OBVIOUS
  <1> USE ThreadNames
  <1>1. ControlOK /\ LockOK /\ DataOK /\ Exclusive /\ HarvesterIndex
    BY TypeParts DEF IInv, Placed
  <1>2. /\ begin("harvester", MaxHarvests) /\ goto("harvester", "hit")
        /\ local' = [local EXCEPT !["harvester"].lastBlock = chain]
        /\ UNCHANGED <<cacheVars, chain, heights, utVars>> /\ UNCHANGED lock /\ UNCHANGED delta /\ UNCHANGED idx
    BY DEF HarvestLastBlock
  <1>3. LockOK' /\ Exclusive' /\ LockFrame("harvester")
    BY <1>1, <1>2, UnchangedLockFacts
  <1>4. ControlOK' /\ ControlFrame("harvester") /\ pc'["harvester"] = "hit" /\ idx'["harvester"] = 1
    BY <1>1, <1>2, BeginFrame DEF Labels, HarvesterIndex
  <1>5. local' \in [{"sync", "harvester"} -> Locals] /\ delta' \in [{"sync", "harvester"} -> Deltas]
    BY <1>1, <1>2, ZenonT(30) DEF DataOK, Locals
  <1>6. QED
    BY <1>2, <1>3, <1>4, <1>5, HarvesterOutside, HarvesterPreservesRest DEF StepFrame

LEMMA HarvestHitPreserves == IInv /\ HarvestHit => IInv'
  <1> SUFFICES ASSUME IInv, HarvestHit PROVE IInv'
    OBVIOUS
  <1> USE ThreadNames
  <1>1. ControlOK /\ LockOK /\ DataOK /\ Exclusive /\ HarvesterIndex
    BY TypeParts DEF IInv, Placed
  <1>2. /\ pc["harvester"] = "hit" /\ UNCHANGED <<cacheVars, chain, heights, utVars>>
        /\ UNCHANGED lock /\ UNCHANGED <<idx, calls>>
    BY DEF HarvestHit
  <1>3. LockOK' /\ Exclusive' /\ LockFrame("harvester")
    BY <1>1, <1>2, UnchangedLockFacts, Zenon
  <1>4. CASE goto("harvester", "detach") /\ UNCHANGED <<delta, local>>
    <2>1. ControlOK' /\ ControlFrame("harvester") /\ pc'["harvester"] = "detach" /\ idx'["harvester"] = 1
      BY <1>1, <1>2, <1>4, GotoFrame, Zenon DEF Labels, HarvesterIndex
    <2>2. local' \in [{"sync", "harvester"} -> Locals] /\ delta' \in [{"sync", "harvester"} -> Deltas]
          /\ delta'["sync"] = delta["sync"]
      BY <1>1, <1>4, Zenon DEF DataOK
    <2>3. QED
      BY <1>2, <1>3, <2>1, <2>2, HarvesterOutside, HarvesterPreservesRest, Zenon DEF StepFrame
  <1>5. CASE goto("harvester", "idle") /\ forget("harvester")
    <2>1. ControlOK' /\ ControlFrame("harvester") /\ pc'["harvester"] = "idle" /\ idx'["harvester"] = 1
      BY <1>1, <1>2, <1>5, GotoFrame DEF Labels, HarvesterIndex
    <2>2. local' \in [{"sync", "harvester"} -> Locals] /\ delta' \in [{"sync", "harvester"} -> Deltas]
          /\ delta'["sync"] = delta["sync"]
      BY <1>1, <1>5, ForgetFacts, DetacherNames, Zenon
    <2>3. QED
      BY <1>2, <1>3, <2>1, <2>2, HarvesterOutside, HarvesterPreservesRest, Zenon DEF StepFrame
  <1>6. QED
    BY <1>4, <1>5 DEF HarvestHit

LEMMA HarvestDetachPreserves == IInv /\ Detach("harvester") => IInv'
  <1> SUFFICES ASSUME IInv, Detach("harvester") PROVE IInv'
    OBVIOUS
  <1>1. DetachResult("harvester")
    BY DetachFacts, DetacherNames, Zenon
  <1>2. UNCHANGED utVars /\ local' \in [{"sync", "harvester"} -> Locals] /\ delta'["sync"] = delta["sync"]
    BY <1>1, TypeParts, DetacherNames, Zenon DEF DetachResult, utVars, IInv, DataOK
  <1>3. HarvesterIndex' /\ pc'["harvester"] # "null"
    BY <1>1, ZenonT(30) DEF DetachResult, HarvesterIndex
  <1>4. HarvesterHolds'
    BY <1>1, SubFacts, ZenonT(30) DEF IInv, Placed, DetachResult, HarvesterHolds, InHarvest, Reads
  <1>5. QED
    BY <1>1, <1>2, <1>3, <1>4, HarvesterPreservesRest DEF DetachResult

(* Steps between the lock of the delta and its end.                           *)
LEMMA HarvesterKeepsDelta ==
    ASSUME Fresh("harvester"), UNCHANGED <<cacheVars, delta>>,
           pc["harvester"] \in {"locked", "select", "selecting", "commit"},
           pc'["harvester"] \in {"locked", "select", "selecting", "commit"}
    PROVE  Fresh("harvester")'
  <1>1. \A i \in DOMAIN SubCaches : Copied("harvester", i) /\ Copied("harvester", i)'
    BY DEF Copied
  <1>2. Copied("harvester", 1) /\ Copied("harvester", 1)' /\ pc["harvester"] \in InHarvest
    BY ZenonT(30) DEF Copied, InHarvest
  <1>3. QED
    BY <1>1, <1>2 DEF Fresh, cacheVars

LEMMA HarvestCheckHeightPreserves == IInv /\ HarvestCheckHeight => IInv'
  <1> SUFFICES ASSUME IInv, HarvestCheckHeight PROVE IInv'
    OBVIOUS
  <1> USE ThreadNames
  <1>1. ControlOK /\ LockOK /\ DataOK /\ Exclusive /\ HarvesterIndex /\ HarvesterHolds /\ Fresh("harvester")
    BY TypeParts, Zenon DEF IInv, Placed
  <1>2. /\ pc["harvester"] = "locked" /\ UNCHANGED <<cacheVars, chain, heights, utVars>>
        /\ UNCHANGED <<idx, calls>>
    BY DEF HarvestCheckHeight
  <1>3. CASE goto("harvester", "select") /\ UNCHANGED <<lock, delta, local>>
    <2>1. LockOK' /\ Exclusive' /\ LockFrame("harvester")
      BY <1>1, <1>3, UnchangedLockFacts, Zenon
    <2>2. ControlOK' /\ ControlFrame("harvester") /\ pc'["harvester"] = "select" /\ idx'["harvester"] = 1
      BY <1>1, <1>2, <1>3, GotoFrame, Zenon DEF Labels, HarvesterIndex
    <2>3. local' \in [{"sync", "harvester"} -> Locals] /\ delta' \in [{"sync", "harvester"} -> Deltas]
          /\ delta'["sync"] = delta["sync"]
      BY <1>1, <1>3, Zenon DEF DataOK
    <2>4. HarvesterIndex' /\ HarvesterHolds' /\ pc'["harvester"] # "null"
      BY <1>1, <1>2, <1>3, <2>2 DEF HarvesterIndex, HarvesterHolds, InHarvest, Reads
    <2>5. Fresh("harvester")'
      BY <1>1, <1>2, <1>3, <2>2, HarvesterKeepsDelta, Zenon
    <2>6. QED
      BY <1>2, <2>1, <2>2, <2>3, <2>4, <2>5, HarvesterPreservesRest DEF StepFrame
  <1>4. CASE release("harvester", cacheLocks) /\ goto("harvester", "idle") /\ forget("harvester")
    <2>1. LockOK' /\ Exclusive' /\ LockFrame("harvester")
      BY <1>1, <1>4, ReleaseFacts, Zenon
    <2>2. ControlOK' /\ ControlFrame("harvester") /\ pc'["harvester"] = "idle" /\ idx'["harvester"] = 1
      BY <1>1, <1>2, <1>4, GotoFrame DEF Labels, HarvesterIndex
    <2>3. local' \in [{"sync", "harvester"} -> Locals] /\ delta' \in [{"sync", "harvester"} -> Deltas]
          /\ delta'["sync"] = delta["sync"]
      BY <1>1, <1>4, ForgetFacts, DetacherNames, ZenonT(30)
    <2>4. QED
      BY <1>2, <2>1, <2>2, <2>3, HarvesterOutside, HarvesterPreservesRest, Zenon DEF StepFrame
  <1>5. QED
    BY <1>3, <1>4 DEF HarvestCheckHeight

LEMMA HarvestSelectPreserves == IInv /\ (HarvestSelect \/ HarvestSelected) => IInv'
  <1> SUFFICES ASSUME IInv, HarvestSelect \/ HarvestSelected PROVE IInv'
    OBVIOUS
  <1> USE ThreadNames
  <1>1. ControlOK /\ LockOK /\ DataOK /\ Exclusive /\ HarvesterIndex /\ HarvesterHolds /\ Fresh("harvester")
    BY TypeParts DEF IInv, Placed
  <1>2. UNCHANGED <<cacheVars, chain, heights, utVars, delta, local>> /\ UNCHANGED <<idx, calls>>
    BY Zenon DEF HarvestSelect, HarvestSelected
  <1>3. /\ LockOK' /\ Exclusive' /\ LockFrame("harvester") /\ ControlOK' /\ ControlFrame("harvester")
        /\ pc["harvester"] \in {"select", "selecting"} /\ pc'["harvester"] \in {"selecting", "commit"}
        /\ idx'["harvester"] = idx["harvester"]
        /\ "harvester" \in lock["height"].readers => "harvester" \in lock'["height"].readers
    <2>1. CASE HarvestSelect
      <3>1. pc["harvester"] = "select" /\ acquireReader("harvester", "ut") /\ goto("harvester", "selecting")
        BY <2>1, Zenon DEF HarvestSelect
      <3>2. LockOK' /\ Exclusive' /\ LockFrame("harvester")
            /\ \A k \in Locks : "harvester" \in lock[k].readers => "harvester" \in lock'[k].readers
        BY <1>1, <3>1, AcquireReaderFacts, SubFacts, Zenon
      <3>3. ControlOK' /\ ControlFrame("harvester") /\ pc'["harvester"] = "selecting"
            /\ idx'["harvester"] = idx["harvester"]
        BY <1>1, <1>2, <3>1, GotoFrame, Zenon DEF Labels
      <3>4. QED
        BY <3>1, <3>2, <3>3, SubFacts
    <2>2. CASE HarvestSelected
      <3>1. pc["harvester"] = "selecting" /\ release("harvester", {"ut"}) /\ goto("harvester", "commit")
        BY <2>2, Zenon DEF HarvestSelected
      <3>2. LockOK' /\ Exclusive' /\ LockFrame("harvester") /\ lock'["height"] = lock["height"]
        BY <1>1, <3>1, ReleaseFacts, SubFacts
      <3>3. ControlOK' /\ ControlFrame("harvester") /\ pc'["harvester"] = "commit"
            /\ idx'["harvester"] = idx["harvester"]
        BY <1>1, <1>2, <3>1, GotoFrame, Zenon DEF Labels
      <3>4. QED
        BY <3>1, <3>2, <3>3
    <2>3. QED
      BY <2>1, <2>2, ZenonT(30)
  <1>4. local' \in [{"sync", "harvester"} -> Locals] /\ delta' \in [{"sync", "harvester"} -> Deltas]
        /\ delta'["sync"] = delta["sync"]
    BY <1>1, <1>2 DEF DataOK
  <1>5. HarvesterIndex' /\ HarvesterHolds' /\ pc'["harvester"] # "null"
    BY <1>1, <1>3, Zenon DEF HarvesterIndex, HarvesterHolds, InHarvest, Reads
  <1>6. Fresh("harvester")'
    BY <1>1, <1>2, <1>3, HarvesterKeepsDelta, Zenon
  <1>7. QED
    BY <1>2, <1>3, <1>4, <1>5, <1>6, HarvesterPreservesRest DEF StepFrame

LEMMA HarvestCommitPreserves == IInv /\ HarvestCommit => IInv'
  <1> SUFFICES ASSUME IInv, HarvestCommit PROVE IInv'
    OBVIOUS
  <1> USE ThreadNames
  <1>1. ControlOK /\ LockOK /\ DataOK /\ Exclusive /\ HarvesterIndex
    BY TypeParts DEF IInv, Placed
  <1>2. /\ pc["harvester"] = "commit" /\ release("harvester", cacheLocks) /\ forget("harvester")
        /\ goto("harvester", "importance") \/ goto("harvester", "idle")
        /\ UNCHANGED <<cacheVars, chain, heights, utVars>> /\ UNCHANGED <<idx, calls>>
    BY Zenon DEF HarvestCommit
  <1>3. LockOK' /\ Exclusive' /\ LockFrame("harvester")
    BY <1>1, <1>2, ReleaseFacts, Zenon
  <1>4. \A label \in {"importance", "idle"} : goto("harvester", label) =>
            ControlOK' /\ ControlFrame("harvester") /\ pc'["harvester"] = label /\ idx'["harvester"] = 1
    BY <1>1, <1>2, GotoFrame, ZenonT(30) DEF Labels, HarvesterIndex
  <1>5. /\ ControlOK' /\ ControlFrame("harvester") /\ pc'["harvester"] \in {"importance", "idle"}
        /\ idx'["harvester"] = 1
    BY <1>2, <1>4
  <1>6. local' \in [{"sync", "harvester"} -> Locals] /\ delta' \in [{"sync", "harvester"} -> Deltas]
        /\ delta'["sync"] = delta["sync"]
    BY <1>1, <1>2, ForgetFacts, DetacherNames, Zenon
  <1>7. QED
    BY <1>2, <1>3, <1>5, <1>6, HarvesterOutside, HarvesterPreservesRest, Zenon DEF StepFrame

LEMMA HarvestImportanceHashPreserves == IInv /\ HarvestImportanceHash => IInv'
  <1> SUFFICES ASSUME IInv, HarvestImportanceHash PROVE IInv'
    OBVIOUS
  <1> USE ThreadNames
  <1>1. ControlOK /\ LockOK /\ DataOK /\ Exclusive /\ HarvesterIndex
    BY TypeParts DEF IInv, Placed
  <1>2. /\ pc["harvester"] = "importance" /\ goto("harvester", "idle") /\ UNCHANGED lock
        /\ UNCHANGED <<cacheVars, chain, heights, utVars>> /\ UNCHANGED <<delta, local>> /\ UNCHANGED <<idx, calls>>
    BY DEF HarvestImportanceHash
  <1>3. LockOK' /\ Exclusive' /\ LockFrame("harvester")
    BY <1>1, <1>2, UnchangedLockFacts, Zenon
  <1>4. ControlOK' /\ ControlFrame("harvester") /\ pc'["harvester"] = "idle" /\ idx'["harvester"] = 1
    BY <1>1, <1>2, GotoFrame, Zenon DEF Labels, HarvesterIndex
  <1>5. local' \in [{"sync", "harvester"} -> Locals] /\ delta' \in [{"sync", "harvester"} -> Deltas]
        /\ delta'["sync"] = delta["sync"]
    BY <1>1, <1>2 DEF DataOK
  <1>6. QED
    BY <1>2, <1>3, <1>4, <1>5, HarvesterOutside, HarvesterPreservesRest, Zenon DEF StepFrame

LEMMA HarvesterPreserves == IInv /\ HarvesterStep => IInv'
  BY HarvestLastBlockPreserves, HarvestHitPreserves, HarvestDetachPreserves, HarvestCheckHeightPreserves,
     HarvestSelectPreserves, HarvestCommitPreserves, HarvestImportanceHashPreserves DEF HarvesterStep

-----------------------------------------------------------------------------
(* The sync consumer.                                                         *)

LEMMA SyncPreservesRest ==
    ASSUME IInv, StepFrame("sync"), DataOK', SyncIndex', SyncHolds', pc'["sync"] # "null",
           Contents', Bounded', Based', Applied', Fresh("sync")', Fresh("harvester")'
    PROVE  IInv'
  <1>1. TypeOK' /\ Exclusive'
    BY TypeParts, Zenon DEF StepFrame
  <1>2. Placed'
    BY OtherPlaces, ThreadNames DEF IInv, StepFrame, Placed
  <1>3. NotNull'
    BY OtherNotNull, ThreadNames DEF IInv, StepFrame
  <1>4. QED
    BY <1>1, <1>2, <1>3 DEF IInv

LEMMA UpdaterUnmoved ==
    ASSUME ControlFrame("sync")
    PROVE  pc'["updater"] = pc["updater"] /\ \A i \in DOMAIN SubCaches : UpdaterLocked(i)' <=> UpdaterLocked(i)
  <1>1. pc'["updater"] = pc["updater"] /\ idx'["updater"] = idx["updater"]
    BY ThreadNames, ZenonT(30) DEF ControlFrame
  <1>2. QED
    BY <1>1 DEF UpdaterLocked

(* Where the sync consumer makes no delta.                                    *)
Plain ==
    {"idle", "createDelta", "preprocess", "process", "save", "height", "heightModifier", "promote",
     "commit", "dependent", "release", "storage", "removeAll", "reapply"}

LEMMA PlainFresh ==
    ASSUME pc'["sync"] \in Plain
    PROVE  Fresh("sync")' /\ pc'["sync"] # "null"
  <1>1. \A i : ~Copied("sync", i)'
    BY Zenon DEF Copied, Plain
  <1>2. QED
    BY <1>1 DEF Fresh, InHarvest, Plain

(* Steps that change nothing but where the consumer is.                       *)
Quiet == Plain \ {"removeAll", "reapply"}

LEMMA SyncQuietPreserves ==
    ASSUME IInv, StepFrame("sync"), SyncIndex', SyncHolds',
           UNCHANGED <<m_cache, m_commitCounter, m_height, m_pDependentState, chain, heights>>, UNCHANGED utVars,
           m_pDependentStateDelta' \in Nat, delta'["harvester"] = delta["harvester"],
           delta' \in [{"sync", "harvester"} -> Deltas], local' \in [{"sync", "harvester"} -> Locals],
           pc["sync"] \in Quiet, pc'["sync"] \in Quiet,
           \A i \in DOMAIN SubCaches : Written(i)' <=> Written(i),
           pc'["sync"] \in {"release", "storage"} <=> pc["sync"] \in {"release", "storage"},
           pc["sync"] \in Outdating => pc'["sync"] \in Outdating,
           pc'["sync"] \in Writing \cup {"height", "heightModifier"} => m_pDependentStateDelta' = chain + 1,
           Bounded'
    PROVE  IInv'
  <1>1. /\ DataOK /\ Contents /\ Based /\ Applied /\ Fresh("harvester")
        /\ ControlFrame("sync")
    BY TypeParts, Zenon DEF IInv, StepFrame
  <1>2. DataOK'
    BY <1>1, Zenon DEF DataOK, utVars
  <1>3. Contents'
    BY <1>1, Zenon DEF Contents
  <1>4. Based'
    BY <1>1, UpdaterUnmoved, ZenonT(30) DEF Based, utVars, Quiet, Plain
  <1>5. Applied'
    BY <1>1, SMTT(30) DEF Applied, utVars, Quiet, Plain, Rebasing, Outdating
  <1>6. Fresh("sync")' /\ pc'["sync"] # "null"
    BY PlainFresh, SMTT(30) DEF Quiet
  <1>7. Fresh("harvester")'
    BY <1>1, HarvestUnmoved, ThreadNames
  <1>8. QED
    BY <1>2, <1>3, <1>4, <1>5, <1>6, <1>7, SyncPreservesRest, Zenon

LEMMA BoundedFrame ==
    ASSUME Bounded, BeforeStorage' => BeforeStorage, UNCHANGED chain, calls'["sync"] = calls["sync"]
    PROVE  Bounded'
  BY ZenonT(30) DEF Bounded

LEMMA SyncPreprocessPreserves == IInv /\ SyncPreprocess => IInv'
  <1> SUFFICES ASSUME IInv, SyncPreprocess PROVE IInv'
    OBVIOUS
  <1> USE ThreadNames
  <1>1. ControlOK /\ LockOK /\ DataOK /\ Exclusive /\ SyncIndex /\ SyncHolds /\ Bounded
    BY TypeParts DEF IInv, Placed
  <1>2. /\ begin("sync", MaxCommits) /\ acquireReader("sync", "storage") /\ goto("sync", "createDelta")
        /\ UNCHANGED cacheVars /\ UNCHANGED <<chain, heights>> /\ UNCHANGED utVars
        /\ UNCHANGED <<delta, local>> /\ UNCHANGED idx
    BY Zenon DEF SyncPreprocess
  <1>3. LockOK' /\ Exclusive' /\ LockFrame("sync")
    BY <1>1, <1>2, AcquireReaderFacts, SubFacts, Zenon
  <1>4. /\ ControlOK' /\ ControlFrame("sync") /\ pc["sync"] = "idle" /\ pc'["sync"] = "createDelta"
        /\ calls["sync"] < MaxCommits /\ calls'["sync"] = calls["sync"] + 1
    BY <1>1, <1>2, BeginFrame DEF Labels
  <1>5. SyncIndex' /\ SyncHolds'
    BY <1>4 DEF SyncIndex, SyncHolds, Writing, Rebasing
  <1>6. Bounded'
    <2>1. chain \in Nat /\ calls["sync"] \in Nat /\ MaxCommits \in Nat
      BY <1>1, CacheAssumption DEF DataOK, ControlOK
    <2>2. QED
      BY <1>1, <1>2, <1>4, <2>1 DEF Bounded
  <1>7. \A i \in DOMAIN SubCaches : Written(i)' <=> Written(i)
    BY <1>4, Zenon DEF Written
  <1>8. QED
    BY <1>1, <1>2, <1>3, <1>4, <1>5, <1>6, <1>7, SyncQuietPreserves, ZenonT(30)
       DEF StepFrame, DataOK, cacheVars, Quiet, Plain, Outdating, Writing

LEMMA SyncCreateDeltaPreserves == IInv /\ SyncCreateDelta => IInv'
  <1> SUFFICES ASSUME IInv, SyncCreateDelta PROVE IInv'
    OBVIOUS
  <1> USE ThreadNames
  <1>1. ControlOK /\ LockOK /\ DataOK /\ Exclusive /\ SyncIndex /\ SyncHolds /\ Bounded
    BY TypeParts DEF IInv, Placed
  <1>2. /\ pc["sync"] = "createDelta" /\ acquireReader("sync", sub("sync")) /\ loopOr("sync", "preprocess")
        /\ UNCHANGED cacheVars /\ UNCHANGED <<chain, heights>> /\ UNCHANGED utVars
        /\ UNCHANGED <<delta, local>> /\ UNCHANGED calls
    BY Zenon DEF SyncCreateDelta
  <1>3. LockOK' /\ Exclusive' /\ LockFrame("sync")
    BY <1>1, <1>2, AcquireReaderFacts, SubOfThread, ZenonT(30)
  <1>4. /\ ControlOK' /\ ControlFrame("sync")
        /\ pc'["sync"] = "createDelta" \/ (pc'["sync"] = "preprocess" /\ idx'["sync"] = 1)
    BY <1>1, <1>2, LoopFrame DEF Labels
  <1>5. SyncIndex' /\ SyncHolds'
    BY <1>4 DEF SyncIndex, SyncHolds, Writing, Rebasing
  <1>6. Bounded'
    BY <1>1, <1>2, BoundedFrame DEF BeforeStorage, Rebasing
  <1>7. \A i \in DOMAIN SubCaches : Written(i)' <=> Written(i)
    BY <1>2, <1>4 DEF Written
  <1>8. QED
    BY <1>1, <1>2, <1>3, <1>4, <1>5, <1>6, <1>7, SyncQuietPreserves, Zenon
       DEF StepFrame, DataOK, cacheVars, Quiet, Plain, Outdating, Writing

LEMMA LocalFacts ==
    ASSUME local \in [{"sync", "harvester"} -> Locals], NEW txs \in SUBSET Txs
    PROVE  /\ [local EXCEPT !["sync"].reverted = txs] \in [{"sync", "harvester"} -> Locals]
           /\ [local EXCEPT !["sync"].confirmed = txs] \in [{"sync", "harvester"} -> Locals]
           /\ [local EXCEPT !["sync"].original = txs] \in [{"sync", "harvester"} -> Locals]
  <1>1. local["sync"] \in Locals
    OBVIOUS
  <1>2. \A l \in Locals : /\ [l EXCEPT !.reverted = txs] \in Locals
                          /\ [l EXCEPT !.confirmed = txs] \in Locals
                          /\ [l EXCEPT !.original = txs] \in Locals
    BY DEF Locals
  <1>3. QED
    BY <1>1, <1>2

LEMMA SyncUnwindPreserves == IInv /\ (\E txs \in SUBSET Txs : SyncUnwind(txs)) => IInv'
  <1> SUFFICES ASSUME IInv, NEW txs \in SUBSET Txs, SyncUnwind(txs) PROVE IInv'
    OBVIOUS
  <1> USE ThreadNames
  <1>1. ControlOK /\ LockOK /\ DataOK /\ Exclusive /\ SyncIndex /\ SyncHolds /\ Bounded
    BY TypeParts DEF IInv, Placed
  <1>2. /\ pc["sync"] = "preprocess" /\ release("sync", {"storage"}) /\ goto("sync", "process")
        /\ m_pDependentStateDelta' = m_pDependentState
        /\ local' = [local EXCEPT !["sync"].reverted = txs]
        /\ UNCHANGED <<m_cache, m_commitCounter, m_height, m_pDependentState, chain, heights>>
        /\ UNCHANGED utVars /\ UNCHANGED delta /\ UNCHANGED <<idx, calls>>
    BY DEF SyncUnwind
  <1>3. LockOK' /\ Exclusive' /\ LockFrame("sync")
    BY <1>1, <1>2, ReleaseFacts
  <1>4. ControlOK' /\ ControlFrame("sync") /\ pc'["sync"] = "process" /\ idx'["sync"] = 1
    BY <1>1, <1>2, GotoFrame DEF Labels, SyncIndex
  <1>5. SyncIndex' /\ SyncHolds'
    BY <1>4 DEF SyncIndex, SyncHolds, Writing, Rebasing
  <1>6. Bounded'
    BY <1>1, <1>2, BoundedFrame DEF BeforeStorage, Rebasing
  <1>7. \A i \in DOMAIN SubCaches : Written(i)' <=> Written(i)
    BY <1>2, <1>4 DEF Written
  <1>8. local' \in [{"sync", "harvester"} -> Locals]
    BY <1>1, <1>2, LocalFacts, Zenon DEF DataOK
  <1>9. QED
    BY <1>1, <1>2, <1>3, <1>4, <1>5, <1>6, <1>7, <1>8, SyncQuietPreserves, ZenonT(30)
       DEF StepFrame, DataOK, Quiet, Plain, Outdating, Writing

LEMMA SyncAbortPreserves == IInv /\ SyncAbort => IInv'
  <1> SUFFICES ASSUME IInv, SyncAbort PROVE IInv'
    OBVIOUS
  <1> USE ThreadNames
  <1>1. ControlOK /\ LockOK /\ DataOK /\ Exclusive /\ SyncIndex /\ SyncHolds /\ Bounded
    BY TypeParts DEF IInv, Placed
  <1>2. /\ pc["sync"] \in {"preprocess", "process"} \/ (pc["sync"] = "createDelta" /\ idx["sync"] = 1)
        /\ release("sync", Subs \cup {"storage"}) /\ goto("sync", "idle") /\ forget("sync")
        /\ UNCHANGED cacheVars /\ UNCHANGED <<chain, heights>> /\ UNCHANGED utVars /\ UNCHANGED <<idx, calls>>
    BY Zenon DEF SyncAbort
  <1>3. LockOK' /\ Exclusive' /\ LockFrame("sync")
    BY <1>1, <1>2, ReleaseFacts, Zenon
  <1>4. ControlOK' /\ ControlFrame("sync") /\ pc'["sync"] = "idle" /\ idx'["sync"] = idx["sync"]
    BY <1>1, <1>2, GotoFrame, Zenon DEF Labels
  <1>5. SyncIndex' /\ SyncHolds'
    BY <1>1, <1>2, <1>4, Zenon DEF SyncIndex, SyncHolds, Writing, Rebasing
  <1>6. Bounded'
    BY <1>1, <1>2, <1>4, BoundedFrame DEF BeforeStorage, Rebasing
  <1>7. \A i \in DOMAIN SubCaches : Written(i)' <=> Written(i)
    BY <1>2, <1>4, Zenon DEF Written
  <1>8. /\ delta' \in [{"sync", "harvester"} -> Deltas] /\ local' \in [{"sync", "harvester"} -> Locals]
        /\ delta'["harvester"] = delta["harvester"]
    BY <1>1, <1>2, ForgetFacts, DetacherNames
  <1>9. QED
    BY <1>1, <1>2, <1>3, <1>4, <1>5, <1>6, <1>7, <1>8, SyncQuietPreserves, Zenon
       DEF StepFrame, DataOK, cacheVars, Quiet, Plain, Outdating, Writing

LEMMA SyncProcessPreserves == IInv /\ (\E txs \in SUBSET Txs : SyncProcess(txs)) => IInv'
  <1> SUFFICES ASSUME IInv, NEW txs \in SUBSET Txs, SyncProcess(txs) PROVE IInv'
    OBVIOUS
  <1> USE ThreadNames
  <1>1. ControlOK /\ LockOK /\ DataOK /\ Exclusive /\ SyncIndex /\ SyncHolds /\ Bounded
    BY TypeParts DEF IInv, Placed
  <1>2. /\ pc["sync"] = "process" /\ goto("sync", "save")
        /\ lock' = [lock EXCEPT !["storage"] = announceWriter(@, "sync")]
        /\ local' = [local EXCEPT !["sync"].confirmed = txs]
        /\ UNCHANGED cacheVars /\ UNCHANGED <<chain, heights>> /\ UNCHANGED utVars
        /\ UNCHANGED delta /\ UNCHANGED <<idx, calls>>
    BY DEF SyncProcess
  <1>3. LockOK' /\ Exclusive' /\ LockFrame("sync")
    BY <1>1, <1>2, AnnounceFacts, SubFacts, Zenon
  <1>4. ControlOK' /\ ControlFrame("sync") /\ pc'["sync"] = "save" /\ idx'["sync"] = 1
    BY <1>1, <1>2, GotoFrame DEF Labels, SyncIndex
  <1>5. SyncIndex' /\ SyncHolds'
    BY <1>4 DEF SyncIndex, SyncHolds, Writing, Rebasing
  <1>6. Bounded'
    BY <1>1, <1>2, BoundedFrame DEF BeforeStorage, Rebasing
  <1>7. \A i \in DOMAIN SubCaches : Written(i)' <=> Written(i)
    BY <1>2, <1>4 DEF Written
  <1>8. local' \in [{"sync", "harvester"} -> Locals]
    BY <1>1, <1>2, LocalFacts, Zenon DEF DataOK
  <1>9. QED
    BY <1>1, <1>2, <1>3, <1>4, <1>5, <1>6, <1>7, <1>8, SyncQuietPreserves, ZenonT(30)
       DEF StepFrame, DataOK, cacheVars, Quiet, Plain, Outdating, Writing

LEMMA SyncHeightModifierPreserves == IInv /\ SyncHeightModifier => IInv'
  <1> SUFFICES ASSUME IInv, SyncHeightModifier PROVE IInv'
    OBVIOUS
  <1> USE ThreadNames
  <1>1. ControlOK /\ LockOK /\ DataOK /\ Exclusive /\ SyncIndex /\ SyncHolds /\ Bounded /\ Contents
    BY TypeParts DEF IInv, Placed
  <1>2. /\ pc["sync"] = "height" /\ goto("sync", "heightModifier")
        /\ lock' = [lock EXCEPT !["height"] = announceWriter(@, "sync")]
        /\ UNCHANGED cacheVars /\ UNCHANGED <<chain, heights>> /\ UNCHANGED utVars
        /\ UNCHANGED <<delta, local>> /\ UNCHANGED <<idx, calls>>
    BY DEF SyncHeightModifier
  <1>3. LockOK' /\ Exclusive' /\ LockFrame("sync")
    BY <1>1, <1>2, AnnounceFacts, SubFacts, Zenon
  <1>4. ControlOK' /\ ControlFrame("sync") /\ pc'["sync"] = "heightModifier" /\ idx'["sync"] = 1
    BY <1>1, <1>2, GotoFrame DEF Labels, SyncIndex
  <1>5. SyncIndex' /\ SyncHolds'
    BY <1>4 DEF SyncIndex, SyncHolds, Writing, Rebasing
  <1>6. Bounded'
    BY <1>1, <1>2, BoundedFrame DEF BeforeStorage, Rebasing
  <1>7. \A i \in DOMAIN SubCaches : Written(i)' <=> Written(i)
    BY <1>2, <1>4, Zenon DEF Written
  <1>8. m_pDependentStateDelta' = chain + 1 /\ m_pDependentStateDelta' \in Nat
    BY <1>1, <1>2, Zenon DEF Contents, cacheVars, DataOK
  <1>9. QED
    BY <1>1, <1>2, <1>3, <1>4, <1>5, <1>6, <1>7, <1>8, SyncQuietPreserves, Zenon
       DEF StepFrame, DataOK, cacheVars, Quiet, Plain, Outdating

LEMMA SyncCommitCachePreserves == IInv /\ SyncCommitCache => IInv'
  <1> SUFFICES ASSUME IInv, SyncCommitCache PROVE IInv'
    OBVIOUS
  <1> USE ThreadNames
  <1>1. ControlOK /\ LockOK /\ DataOK /\ Exclusive /\ SyncIndex /\ SyncHolds /\ Bounded /\ Contents
    BY TypeParts DEF IInv, Placed
  <1>2. /\ pc["sync"] = "heightModifier" /\ acquireWriter("sync", "height") /\ goto("sync", "promote")
        /\ UNCHANGED cacheVars /\ UNCHANGED <<chain, heights>> /\ UNCHANGED utVars
        /\ UNCHANGED <<delta, local>> /\ UNCHANGED <<idx, calls>>
    BY ZenonT(30) DEF SyncCommitCache
  <1>3. LockOK' /\ Exclusive' /\ LockFrame("sync") /\ "sync" \in lock'["height"].writers
    BY <1>1, <1>2, AcquireWriterFacts, SubFacts
  <1>4. ControlOK' /\ ControlFrame("sync") /\ pc'["sync"] = "promote" /\ idx'["sync"] = 1
    BY <1>1, <1>2, GotoFrame, ZenonT(30) DEF Labels, SyncIndex
  <1>5. SyncIndex' /\ SyncHolds'
    BY <1>3, <1>4 DEF SyncIndex, SyncHolds, Writing, Rebasing, Writes
  <1>6. Bounded'
    BY <1>1, <1>2, BoundedFrame, Zenon DEF BeforeStorage, Rebasing
  <1>7. \A i \in DOMAIN SubCaches : Written(i)' <=> Written(i)
    BY <1>2, <1>4, SubFacts DEF Written
  <1>8. m_pDependentStateDelta' = chain + 1 /\ m_pDependentStateDelta' \in Nat
    BY <1>1, <1>2, Zenon DEF Contents, cacheVars, DataOK
  <1>9. QED
    BY <1>1, <1>2, <1>3, <1>4, <1>5, <1>6, <1>7, <1>8, SyncQuietPreserves, Zenon
       DEF StepFrame, DataOK, cacheVars, Quiet, Plain, Outdating

LEMMA SyncPromotePreserves == IInv /\ SyncPromote => IInv'
  <1> SUFFICES ASSUME IInv, SyncPromote PROVE IInv'
    OBVIOUS
  <1> USE ThreadNames
  <1>1. ControlOK /\ LockOK /\ DataOK /\ Exclusive /\ SyncIndex /\ SyncHolds /\ Bounded /\ Contents
    BY TypeParts DEF IInv, Placed
  <1>2. /\ pc["sync"] = "promote" /\ goto("sync", "commit")
        /\ lock' = [lock EXCEPT ![sub("sync")] = promote(@, "sync")]
        /\ UNCHANGED cacheVars /\ UNCHANGED <<chain, heights>> /\ UNCHANGED utVars
        /\ UNCHANGED <<delta, local>> /\ UNCHANGED <<idx, calls>>
    BY DEF SyncPromote
  <1>3. LockOK' /\ Exclusive' /\ LockFrame("sync") /\ lock'["height"] = lock["height"]
    <2>1. sub("sync") \in Locks /\ sub("sync") # "height" /\ "height" \in Locks
      BY <1>1, SubFacts, SubOfThread, Zenon
    <2>2. QED
      BY <1>1, <1>2, <2>1, PromoteFacts, Zenon
  <1>4. ControlOK' /\ ControlFrame("sync") /\ pc'["sync"] = "commit" /\ idx'["sync"] = idx["sync"]
    BY <1>1, <1>2, GotoFrame, Zenon DEF Labels
  <1>5. SyncIndex' /\ SyncHolds'
    BY <1>1, <1>2, <1>3, <1>4, Zenon DEF SyncIndex, SyncHolds, Writing, Rebasing, Writes
  <1>6. Bounded'
    BY <1>1, <1>2, BoundedFrame, Zenon DEF BeforeStorage, Rebasing
  <1>7. \A i \in DOMAIN SubCaches : Written(i)' <=> Written(i)
    BY <1>2, <1>4, Zenon DEF Written
  <1>8. m_pDependentStateDelta' = chain + 1 /\ m_pDependentStateDelta' \in Nat
    BY <1>1, <1>2, Zenon DEF Contents, cacheVars, DataOK, Writing
  <1>9. QED
    BY <1>1, <1>2, <1>3, <1>4, <1>5, <1>6, <1>7, <1>8, SyncQuietPreserves, Zenon
       DEF StepFrame, DataOK, cacheVars, Quiet, Plain, Outdating

LEMMA SyncReleaseDeltaPreserves == IInv /\ SyncReleaseDelta => IInv'
  <1> SUFFICES ASSUME IInv, SyncReleaseDelta PROVE IInv'
    OBVIOUS
  <1> USE ThreadNames
  <1>1. ControlOK /\ LockOK /\ DataOK /\ Exclusive /\ SyncIndex /\ SyncHolds /\ Bounded
    BY TypeParts DEF IInv, Placed
  <1>2. /\ pc["sync"] = "release" /\ goto("sync", "storage") /\ release("sync", Subs)
        /\ UNCHANGED cacheVars /\ UNCHANGED <<chain, heights>> /\ UNCHANGED utVars
        /\ UNCHANGED <<delta, local>> /\ UNCHANGED <<idx, calls>>
    BY Zenon DEF SyncReleaseDelta
  <1>3. LockOK' /\ Exclusive' /\ LockFrame("sync")
    BY <1>1, <1>2, ReleaseFacts, Zenon
  <1>4. ControlOK' /\ ControlFrame("sync") /\ pc'["sync"] = "storage" /\ idx'["sync"] = 1
    BY <1>1, <1>2, GotoFrame DEF Labels, SyncIndex
  <1>5. SyncIndex' /\ SyncHolds'
    BY <1>4 DEF SyncIndex, SyncHolds, Writing, Rebasing
  <1>6. Bounded'
    BY <1>1, <1>2, BoundedFrame DEF BeforeStorage, Rebasing
  <1>7. \A i \in DOMAIN SubCaches : Written(i)' <=> Written(i)
    BY <1>2, <1>4, Zenon DEF Written
  <1>8. QED
    BY <1>1, <1>2, <1>3, <1>4, <1>5, <1>6, <1>7, SyncQuietPreserves, Zenon
       DEF StepFrame, DataOK, cacheVars, Quiet, Plain, Outdating, Writing

(* Saving the blocks decides the height of the contents to come, not of those *)
(* that are there.                                                            *)
LEMMA SyncSaveBlocksPreserves ==
    IInv /\ (\E height \in {m_height, m_height + 1} : SyncSaveBlocks(height)) => IInv'
  <1> SUFFICES ASSUME IInv, NEW height \in {m_height, m_height + 1}, SyncSaveBlocks(height) PROVE IInv'
    OBVIOUS
  <1> USE ThreadNames
  <1>1. /\ ControlOK /\ LockOK /\ DataOK /\ Exclusive /\ SyncIndex /\ SyncHolds /\ Bounded /\ Contents
        /\ Based /\ Applied /\ Fresh("harvester")
    BY TypeParts DEF IInv, Placed
  <1>2. /\ pc["sync"] = "save" /\ acquireWriter("sync", "storage") /\ goto("sync", "height")
        /\ heights' = [n \in DOMAIN heights |-> IF n > chain THEN height ELSE heights[n]]
        /\ m_pDependentStateDelta' = chain + 1
        /\ UNCHANGED <<m_cache, m_commitCounter, m_height, m_pDependentState, chain>>
        /\ UNCHANGED utVars /\ UNCHANGED <<delta, local>> /\ UNCHANGED <<idx, calls>>
    BY Zenon DEF SyncSaveBlocks
  <1>3. LockOK' /\ Exclusive' /\ LockFrame("sync")
    BY <1>1, <1>2, AcquireWriterFacts, SubFacts, ZenonT(30)
  <1>4. ControlOK' /\ ControlFrame("sync") /\ pc'["sync"] = "height" /\ idx'["sync"] = 1
    BY <1>1, <1>2, GotoFrame DEF Labels, SyncIndex
  <1>5. SyncIndex' /\ SyncHolds'
    BY <1>4, Zenon DEF SyncIndex, SyncHolds, Writing, Rebasing
  <1>6. Bounded'
    BY <1>1, <1>2, BoundedFrame DEF BeforeStorage, Rebasing
  <1>7. chain \in Nat /\ MaxCommits \in Nat /\ chain <= MaxCommits /\ height \in Nat
    <2>1. chain \in Nat /\ calls["sync"] \in Nat /\ MaxCommits \in Nat /\ m_height \in Nat
      BY <1>1, CacheAssumption, Zenon DEF DataOK, ControlOK
    <2>2. QED
      BY <1>1, <2>1 DEF Bounded
  <1>8. heights' \in [0 .. MaxCommits -> Nat] /\ heights'[chain] = heights[chain]
    BY <1>1, <1>2, <1>7 DEF DataOK
  <1>9. m_pDependentState = chain /\ unconfirmed.dependent = chain
    BY <1>1, <1>2, Zenon DEF Contents, Based
  <1>10. DataOK'
    BY <1>1, <1>2, <1>7, <1>8, SMTT(30) DEF DataOK, utVars
  <1>11. Contents'
    BY <1>1, <1>2, <1>4, <1>8, <1>9 DEF Contents, Written
  <1>12. Based'
    BY <1>1, <1>2, <1>4, <1>8, <1>9, UpdaterUnmoved, ZenonT(30) DEF Based, utVars, Outdating
  <1>13. Applied'
    BY <1>1, <1>2, <1>4, Zenon DEF Applied, utVars, Rebasing, Outdating
  <1>14. Fresh("sync")' /\ pc'["sync"] # "null"
    BY <1>4, PlainFresh, Zenon DEF Plain
  <1>15. Fresh("harvester")'
    BY <1>1, <1>2, <1>4, HarvestUnmoved
  <1>16. QED
    BY <1>3, <1>4, <1>5, <1>6, <1>10, <1>11, <1>12, <1>13, <1>14, <1>15, SyncPreservesRest, ZenonT(30) DEF StepFrame

(* While the sync consumer writes, the harvester has no delta.                *)
LEMMA WritingExcludesHarvest ==
    ASSUME Exclusive, HarvesterHolds, SyncHolds, pc["sync"] \in Writing, ControlFrame("sync")
    PROVE  Fresh("harvester")'
  <1>1. pc["harvester"] \notin InHarvest
    BY ThreadNames, SubFacts DEF Exclusive, HarvesterHolds, SyncHolds
  <1>2. CASE pc["harvester"] \in {"select", "selecting", "commit", "locked", "lockDelta", "detached", "detachSubs"}
    BY <1>1, <1>2, ZenonT(30) DEF InHarvest
  <1>3. CASE pc["harvester"] \notin {"select", "selecting", "commit", "locked", "lockDelta", "detached", "detachSubs"}
    <2>1. pc'["harvester"] = pc["harvester"]
      BY ThreadNames DEF ControlFrame
    <2>2. \A i : ~Copied("harvester", i)'
      BY <1>3, <2>1, Zenon DEF Copied
    <2>3. QED
      BY <1>1, <2>1, <2>2 DEF Fresh
  <1>4. QED
    BY <1>2, <1>3, Zenon

LEMMA SyncCommitSubPreserves == IInv /\ SyncCommitSub => IInv'
  <1> SUFFICES ASSUME IInv, SyncCommitSub PROVE IInv'
    OBVIOUS
  <1> USE ThreadNames
  <1>1. /\ ControlOK /\ LockOK /\ DataOK /\ Exclusive /\ SyncIndex /\ SyncHolds /\ Bounded /\ Contents
        /\ Based /\ Applied /\ Fresh("harvester") /\ UpdaterHolds /\ HarvesterHolds
    BY TypeParts, Zenon DEF IInv, Placed
  <1>2. /\ pc["sync"] = "commit" /\ canEnterWriter(lock[sub("sync")])
        /\ lock' = [lock EXCEPT ![sub("sync")] = demote(enterWriter(@, "sync"), "sync")]
        /\ UNCHANGED <<m_height, m_pDependentState, m_pDependentStateDelta, chain, heights>>
        /\ UNCHANGED utVars /\ UNCHANGED <<delta, local>> /\ UNCHANGED calls
    BY Zenon DEF SyncCommitSub
  <1>3. /\ m_cache' = [m_cache EXCEPT ![sub("sync")] = chain + 1]
        /\ m_commitCounter' = [m_commitCounter EXCEPT ![sub("sync")] = @ + 1]
    BY ZenonT(30) DEF SyncCommitSub
  <1>4. sub("sync") \in Subs /\ sub("sync") \in Locks /\ idx["sync"] \in DOMAIN SubCaches
        /\ sub("sync") = SubCaches[idx["sync"]]
    BY <1>1, SubOfThread DEF ControlOK, sub
  <1>5. LockOK' /\ Exclusive' /\ LockFrame("sync") /\ lock'["height"] = lock["height"]
        /\ lock[sub("sync")].readers = {}
    <2>1. /\ LockOK' /\ Exclusive' /\ LockFrame("sync") /\ lock[sub("sync")].readers = {}
          /\ \A k \in Locks : k # sub("sync") => lock'[k] = lock[k]
      BY <1>1, <1>2, <1>4, CommitLockFacts, Zenon
    <2>2. "height" \in Locks /\ "height" # sub("sync")
      BY <1>4, SubFacts, Zenon
    <2> QED
      BY <2>1, <2>2, Zenon
  <1>6. /\ ControlOK' /\ ControlFrame("sync")
        /\ \/ idx["sync"] = Len(SubCaches) /\ idx'["sync"] = 1 /\ pc'["sync"] = "dependent"
           \/ idx["sync"] < Len(SubCaches) /\ idx'["sync"] = idx["sync"] + 1 /\ pc'["sync"] = "promote"
    <2>1. Len(SubCaches) \in Nat /\ Len(SubCaches) >= 1 /\ DOMAIN SubCaches = 1 .. Len(SubCaches)
      BY SubFacts
    <2>2. "dependent" \in Labels /\ "promote" \in Labels
      BY Zenon DEF Labels
    <2>3. CASE idx["sync"] = Len(SubCaches)
      <3>1. idx' = [idx EXCEPT !["sync"] = 1] /\ goto("sync", "dependent")
        BY <2>3 DEF SyncCommitSub
      <3>2. QED
        BY <1>1, <1>2, <2>1, <2>2, <2>3, <3>1, GotoFacts, SMTT(30) DEF ControlOK, ControlFrame
    <2>4. CASE idx["sync"] # Len(SubCaches)
      <3>1. idx' = [idx EXCEPT !["sync"] = @ + 1] /\ goto("sync", "promote")
        BY <2>4, Zenon DEF SyncCommitSub
      <3>2. idx["sync"] \in 1 .. Len(SubCaches) /\ idx["sync"] < Len(SubCaches)
        BY <1>1, <1>2, <2>1, <2>4 DEF ControlOK
      <3>3. idx["sync"] + 1 \in DOMAIN SubCaches
        BY <2>1, <3>2
      <3>4. idx' \in [Threads -> DOMAIN SubCaches] /\ idx'["sync"] = idx["sync"] + 1
            /\ \A u \in Threads : u # "sync" => idx'[u] = idx[u]
        BY <1>1, <1>2, <3>1, <3>3, Zenon DEF ControlOK
      <3>5. pc' \in [Threads -> Labels] /\ pc'["sync"] = "promote"
            /\ \A u \in Threads : u # "sync" => pc'[u] = pc[u]
        BY <1>1, <1>2, <2>2, <3>1, GotoFacts, Zenon DEF ControlOK
      <3>6. calls' = calls
        BY <1>2, Zenon
      <3>7. QED
        BY <1>1, <1>2, <3>2, <3>4, <3>5, <3>6, Zenon DEF ControlOK, ControlFrame
    <2>5. QED
      BY <2>3, <2>4
  <1>7. SyncIndex' /\ SyncHolds'
    BY <1>1, <1>2, <1>5, <1>6, Zenon DEF SyncIndex, SyncHolds, Writing, Rebasing, Writes
  <1>8. Bounded'
    BY <1>1, <1>2, BoundedFrame, ZenonT(30) DEF BeforeStorage, Rebasing
  <1>9. m_cache[sub("sync")] = chain /\ m_commitCounter[sub("sync")] = chain /\ chain \in Nat
    BY <1>1, <1>2, <1>4, SubFacts, SMTT(30) DEF Contents, Written, DataOK
  <1>10. /\ m_cache' \in [Subs -> Nat] /\ m_commitCounter' \in [Subs -> Nat]
         /\ \A s \in Subs : m_cache'[s] = IF s = sub("sync") THEN chain + 1 ELSE m_cache[s]
         /\ \A s \in Subs : m_commitCounter'[s] = m_cache'[s]
    <2>1. m_cache \in [Subs -> Nat] /\ m_commitCounter \in [Subs -> Nat]
          /\ \A s \in Subs : m_commitCounter[s] = m_cache[s]
      BY <1>1, Zenon DEF DataOK, Contents
    <2> QED
      BY <1>3, <1>4, <1>9, <2>1
  <1>11. DataOK'
    BY <1>1, <1>2, <1>10, Zenon DEF DataOK, utVars
  <1>12. Contents'
    <2>1. \A i \in DOMAIN SubCaches : Written(i)' <=> Written(i) \/ i = idx["sync"]
      BY <1>2, <1>4, <1>6, SubFacts DEF Written
    <2>2. \A i \in DOMAIN SubCaches : m_cache'[SubCaches[i]] = IF Written(i)' THEN chain + 1 ELSE chain
      BY <1>1, <1>4, <1>10, <2>1, SubFacts, ZenonT(30) DEF Contents
    <2>3. m_pDependentState = chain /\ m_height = heights[m_pDependentState] /\ m_pDependentStateDelta = chain + 1
      BY <1>1, <1>2, Zenon DEF Contents, Writing
    <2>4. QED
      BY <1>2, <1>6, <1>10, <2>2, <2>3, ZenonT(30) DEF Contents
  <1>13. Based'
    <2>1. \A i \in DOMAIN SubCaches : UpdaterLocked(i) => SubCaches[i] # sub("sync")
      BY <1>1, <1>5, ZenonT(30) DEF UpdaterHolds, Reads
    <2>2. \A i \in DOMAIN SubCaches : UpdaterLocked(i)' => m_cache'[SubCaches[i]] = unconfirmed.dependent
      BY <1>1, <1>6, <1>10, <2>1, UpdaterUnmoved, SubFacts DEF Based
    <2>3. QED
      BY <1>1, <1>2, <1>6, <2>2, UpdaterUnmoved, ZenonT(30) DEF Based, utVars, Outdating
  <1>14. Applied'
    BY <1>1, <1>2, <1>6, Zenon DEF Applied, utVars, Rebasing, Outdating
  <1>15. Fresh("sync")' /\ pc'["sync"] # "null"
    BY <1>6, PlainFresh, ZenonT(30) DEF Plain
  <1>16. Fresh("harvester")'
    BY <1>1, <1>2, <1>6, WritingExcludesHarvest DEF Writing
  <1>17. QED
    BY <1>5, <1>6, <1>7, <1>8, <1>11, <1>12, <1>13, <1>14, <1>15, <1>16, SyncPreservesRest, ZenonT(30) DEF StepFrame

LEMMA SyncCommitHeightPreserves == IInv /\ SyncCommitHeight => IInv'
  <1> SUFFICES ASSUME IInv, SyncCommitHeight PROVE IInv'
    OBVIOUS
  <1> USE ThreadNames
  <1>1. /\ ControlOK /\ LockOK /\ DataOK /\ Exclusive /\ SyncIndex /\ SyncHolds /\ Bounded /\ Contents
        /\ Based /\ Applied /\ Fresh("harvester") /\ HarvesterHolds
    BY TypeParts DEF IInv, Placed
  <1>2. /\ pc["sync"] = "dependent" /\ release("sync", {"height"}) /\ goto("sync", "release")
        /\ m_pDependentState' = m_pDependentStateDelta /\ m_height' = heights[chain + 1]
        /\ UNCHANGED <<m_cache, m_commitCounter, m_pDependentStateDelta, chain, heights>>
        /\ UNCHANGED utVars /\ UNCHANGED <<delta, local>> /\ UNCHANGED <<idx, calls>>
    BY Zenon DEF SyncCommitHeight
  <1>3. LockOK' /\ Exclusive' /\ LockFrame("sync")
    BY <1>1, <1>2, ReleaseFacts, ZenonT(30)
  <1>4. ControlOK' /\ ControlFrame("sync") /\ pc'["sync"] = "release" /\ idx'["sync"] = 1
    BY <1>1, <1>2, GotoFrame DEF Labels, SyncIndex
  <1>5. SyncIndex' /\ SyncHolds'
    BY <1>4 DEF SyncIndex, SyncHolds, Writing, Rebasing
  <1>6. Bounded'
    BY <1>1, <1>2, BoundedFrame DEF BeforeStorage, Rebasing
  <1>7. m_pDependentStateDelta = chain + 1 /\ chain + 1 \in 0 .. MaxCommits
    <2>1. chain \in Nat /\ calls["sync"] \in Nat /\ MaxCommits \in Nat
      BY <1>1, CacheAssumption, Zenon DEF DataOK, ControlOK
    <2>2. chain < calls["sync"] /\ calls["sync"] <= MaxCommits
      BY <1>1, <1>2, Zenon DEF Bounded, BeforeStorage, Rebasing
    <2>3. m_pDependentStateDelta = chain + 1
      BY <1>1, <1>2, Zenon DEF Contents, Writing
    <2>4. QED
      BY <2>1, <2>2, <2>3
  <1>8. DataOK'
    BY <1>1, <1>2, <1>7, SMTT(30) DEF DataOK, utVars
  <1>9. Contents'
    BY <1>1, <1>2, <1>4, <1>7 DEF Contents, Written, Writing
  <1>10. Based'
    BY <1>1, <1>2, <1>4, UpdaterUnmoved, ZenonT(30) DEF Based, utVars, Outdating
  <1>11. Applied'
    BY <1>1, <1>2, <1>4 DEF Applied, utVars, Rebasing, Outdating
  <1>12. Fresh("sync")' /\ pc'["sync"] # "null"
    BY <1>4, PlainFresh, Zenon DEF Plain
  <1>13. Fresh("harvester")'
    BY <1>1, <1>2, <1>4, WritingExcludesHarvest, Zenon DEF Writing
  <1>14. QED
    BY <1>3, <1>4, <1>5, <1>6, <1>8, <1>9, <1>10, <1>11, <1>12, <1>13, SyncPreservesRest, Zenon DEF StepFrame

LEMMA SyncCommitStoragePreserves == IInv /\ SyncCommitStorage => IInv'
  <1> SUFFICES ASSUME IInv, SyncCommitStorage PROVE IInv'
    OBVIOUS
  <1> USE ThreadNames
  <1>1. /\ ControlOK /\ LockOK /\ DataOK /\ Exclusive /\ SyncIndex /\ SyncHolds /\ Bounded /\ Contents
        /\ Based /\ Applied /\ Fresh("harvester")
    BY TypeParts, ZenonT(30) DEF IInv, Placed
  <1>2. /\ pc["sync"] = "storage" /\ chain' = chain + 1 /\ goto("sync", "removeAll")
        /\ lock' = [lock EXCEPT !["ut"] = announceWriter(@, "sync")]
        /\ UNCHANGED cacheVars /\ UNCHANGED heights
        /\ UNCHANGED utVars /\ UNCHANGED <<delta, local>> /\ UNCHANGED <<idx, calls>>
    BY DEF SyncCommitStorage
  <1>3. LockOK' /\ Exclusive' /\ LockFrame("sync")
    BY <1>1, <1>2, AnnounceFacts, SubFacts, Zenon
  <1>4. ControlOK' /\ ControlFrame("sync") /\ pc'["sync"] = "removeAll" /\ idx'["sync"] = 1
    BY <1>1, <1>2, GotoFrame DEF Labels, SyncIndex
  <1>5. SyncIndex' /\ SyncHolds'
    BY <1>4, Zenon DEF SyncIndex, SyncHolds, Writing, Rebasing
  <1>6. chain \in Nat /\ calls["sync"] \in Nat /\ MaxCommits \in Nat
    BY <1>1, CacheAssumption, Zenon DEF DataOK, ControlOK
  <1>7. Bounded'
    <2>1. chain < calls["sync"] /\ calls["sync"] <= MaxCommits
      BY <1>1, <1>2 DEF Bounded, BeforeStorage, Rebasing
    <2>2. ~BeforeStorage'
      BY <1>4, Zenon DEF BeforeStorage
    <2>3. QED
      BY <1>2, <1>6, <2>1, <2>2 DEF Bounded
  <1>8. DataOK'
    BY <1>1, <1>2, <1>6 DEF DataOK, utVars, cacheVars
  <1>9. Contents'
    BY <1>1, <1>2, <1>4, <1>6, Zenon DEF Contents, Written, Writing, cacheVars
  <1>10. Based'
    <2>1. unconfirmed.dependent = chain' - 1
      <3>1. unconfirmed.dependent = chain
        BY <1>1, <1>2, Zenon DEF Based
      <3> QED
        BY <1>2, <1>6, <3>1
    <2>2. QED
      BY <1>1, <1>2, <1>4, <2>1, UpdaterUnmoved, Zenon DEF Based, utVars, Outdating, cacheVars
  <1>11. Applied'
    BY <1>1, <1>2, <1>4, Zenon DEF Applied, utVars, Rebasing, Outdating
  <1>12. Fresh("sync")' /\ pc'["sync"] # "null"
    BY <1>4, PlainFresh, Zenon DEF Plain
  <1>13. Fresh("harvester")'
    BY <1>1, <1>2, <1>4, HarvestUnmoved, Zenon DEF cacheVars
  <1>14. QED
    BY <1>3, <1>4, <1>5, <1>7, <1>8, <1>9, <1>10, <1>11, <1>12, <1>13, SyncPreservesRest, ZenonT(30) DEF StepFrame

LEMMA SyncRemoveAllPreserves == IInv /\ SyncRemoveAll => IInv'
  <1> SUFFICES ASSUME IInv, SyncRemoveAll PROVE IInv'
    OBVIOUS
  <1> USE ThreadNames
  <1>1. /\ ControlOK /\ LockOK /\ DataOK /\ Exclusive /\ SyncIndex /\ SyncHolds /\ Bounded /\ Contents
        /\ Based /\ Applied /\ Fresh("harvester") /\ UpdaterHolds
    BY TypeParts DEF IInv, Placed
  <1>2. /\ pc["sync"] = "removeAll" /\ acquireWriter("sync", "ut") /\ goto("sync", "detach")
        /\ m_transactionsCache' = [tx \in Txs |-> "absent"]
        /\ local' = [local EXCEPT !["sync"].original = {tx \in Txs : m_transactionsCache[tx] # "absent"}]
        /\ UNCHANGED cacheVars /\ UNCHANGED <<chain, heights>>
        /\ UNCHANGED unconfirmed /\ UNCHANGED delta /\ UNCHANGED <<idx, calls>>
    BY DEF SyncRemoveAll
  <1>3. LockOK' /\ Exclusive' /\ LockFrame("sync") /\ "sync" \in lock'["ut"].writers /\ lock["ut"].writers = {}
    BY <1>1, <1>2, AcquireWriterFacts, SubFacts
  <1>4. ControlOK' /\ ControlFrame("sync") /\ pc'["sync"] = "detach" /\ idx'["sync"] = 1
    BY <1>1, <1>2, GotoFrame, ZenonT(30) DEF Labels, SyncIndex
  <1>5. SyncIndex' /\ SyncHolds' /\ pc'["sync"] # "null"
    BY <1>3, <1>4 DEF SyncIndex, SyncHolds, Writing, Rebasing, Writes
  <1>6. Bounded'
    BY <1>1, <1>2, <1>4, BoundedFrame DEF BeforeStorage, Rebasing
  <1>7. DataOK'
    <2>1. local' \in [{"sync", "harvester"} -> Locals]
      BY <1>1, <1>2, LocalFacts, Zenon DEF DataOK
    <2>2. QED
      BY <1>1, <1>2, <2>1 DEF DataOK, cacheVars
  <1>8. Contents'
    BY <1>1, <1>2, <1>4, Zenon DEF Contents, Written, Writing, cacheVars
  <1>9. pc["updater"] \notin {"tryLock", "addAll", "apply"}
    BY <1>1, <1>3 DEF UpdaterHolds, Writes
  <1>10. Based'
    <2>1. \A i \in DOMAIN SubCaches : ~UpdaterLocked(i)
      BY <1>9 DEF UpdaterLocked
    <2>2. QED
      BY <1>1, <1>2, <1>4, <1>9, <2>1, UpdaterUnmoved, ZenonT(30) DEF Based, cacheVars
  <1>11. Applied'
    BY <1>2, <1>4, Zenon DEF Applied, Rebasing, Outdating
  <1>12. Fresh("sync")'
    <2>1. \A i : ~Copied("sync", i)'
      BY <1>4 DEF Copied
    <2>2. QED
      BY <1>4, <2>1, Zenon DEF Fresh, InHarvest
  <1>13. Fresh("harvester")'
    BY <1>1, <1>2, <1>4, HarvestUnmoved, Zenon DEF cacheVars
  <1>14. QED
    BY <1>3, <1>4, <1>5, <1>6, <1>7, <1>8, <1>10, <1>11, <1>12, <1>13, SyncPreservesRest, ZenonT(30) DEF StepFrame

(* The unconfirmed state is replaced by the detached delta, which is what the *)
(* cache holds.                                                               *)
LEMMA SyncDetachPreserves == IInv /\ Detach("sync") => IInv'
  <1> SUFFICES ASSUME IInv, Detach("sync") PROVE IInv'
    BY Zenon
  <1> USE ThreadNames
  <1>1. /\ ControlOK /\ LockOK /\ DataOK /\ Exclusive /\ SyncIndex /\ SyncHolds /\ Bounded /\ Contents
        /\ Based /\ Applied /\ Fresh("harvester") /\ UpdaterHolds
    BY TypeParts DEF IInv, Placed
  <1>2. DetachResult("sync")
    BY DetachFacts, DetacherNames, Zenon
  <1>3. /\ StepFrame("sync") /\ ControlFrame("sync") /\ Fresh("sync")'
        /\ UNCHANGED cacheVars /\ UNCHANGED <<chain, heights, local>> /\ UNCHANGED <<m_transactionsCache, calls>>
        /\ delta' \in [{"sync", "harvester"} -> Deltas] /\ delta'["harvester"] = delta["harvester"]
    BY <1>2, DetacherNames, Zenon DEF DetachResult, StepFrame
  <1>4. /\ pc["sync"] \in {"detach", "detachSubs", "detached", "lockDelta"}
        /\ pc'["sync"] \in {"detachSubs", "detached", "lockDelta", "locked"}
    BY <1>2, Zenon DEF DetachResult
  <1>5. SyncIndex' /\ SyncHolds' /\ pc'["sync"] # "null"
    BY <1>1, <1>2, <1>4, SubFacts, Zenon DEF DetachResult, SyncIndex, SyncHolds, Writing, Rebasing, Writes
  <1>6. Bounded'
    BY <1>1, <1>3, <1>4, BoundedFrame, ZenonT(30) DEF BeforeStorage, Rebasing
  <1>7. DataOK'
    BY <1>1, <1>2, <1>3 DEF DataOK, cacheVars, DetachResult
  <1>8. Contents'
    BY <1>1, <1>3, <1>4, Zenon DEF Contents, Written, Writing, cacheVars
  <1>9. pc["updater"] \notin {"tryLock", "addAll", "apply"}
    BY <1>1, <1>4, UpdaterExcludesRebase, Zenon DEF Rebasing
  <1>10. pc'["updater"] # "addAll" /\ \A i \in DOMAIN SubCaches : ~UpdaterLocked(i)'
    BY <1>3, <1>9, UpdaterUnmoved, Zenon DEF UpdaterLocked
  <1>11. CASE pc["sync"] # "detached"
    <2>1. unconfirmed' = unconfirmed
      BY <1>2, <1>11, Zenon DEF DetachResult
    <2>2. pc["sync"] = "lockDelta" <=> pc'["sync"] \in {"lockDelta", "locked"}
      BY <1>2, <1>11, Zenon DEF DetachResult
    <2>3. Based'
      BY <1>1, <1>3, <1>4, <1>10, <2>1, <2>2, Zenon DEF Based
    <2>4. Applied'
      BY <1>1, <1>2, <1>3, <1>4, <2>1, <2>2, ZenonT(30) DEF Applied, DetachResult, Rebasing, Outdating
    <2>5. QED
      BY <2>3, <2>4, <1>1, <1>3, <1>4, <1>5, <1>6, <1>7, <1>8, HarvestUnmoved, SyncPreservesRest, ZenonT(30) DEF cacheVars
  <1>12. CASE pc["sync"] = "detached"
    <2>1. pc'["sync"] = "lockDelta" /\ unconfirmed' = delta'["sync"] /\ delta'["sync"].applied = delta["sync"].applied
      BY <1>2, <1>12, Zenon DEF DetachResult
    <2>2. \A i \in DOMAIN SubCaches : m_cache[SubCaches[i]] = chain
      BY <1>1, <1>12, Zenon DEF Contents, Written
    <2>3. m_pDependentState = chain /\ m_height = heights[chain]
      BY <1>1, <1>12, Zenon DEF Contents
    <2>4. /\ \A i \in DOMAIN SubCaches : Copied("sync", i)'
          /\ Copied("sync", 1)'
      BY <2>1, Zenon DEF Copied
    <2>5. /\ \A i \in DOMAIN SubCaches : /\ delta'["sync"].base[SubCaches[i]] = chain
                                         /\ delta'["sync"].commits[SubCaches[i]] = chain
          /\ delta'["sync"].height = heights[chain] /\ delta'["sync"].dependent = chain
      BY <1>3, <2>1, <2>2, <2>3, <2>4, Zenon DEF Fresh, InHarvest, cacheVars
    <2>6. Based'
      <3>1. \A s \in Subs : delta'["sync"].base[s] = chain /\ delta'["sync"].commits[s] = chain
        BY <2>5, SubFacts
      <3>2. \A s \in Subs : unconfirmed'.base[s] = unconfirmed'.dependent /\ unconfirmed'.commits[s] = unconfirmed'.dependent
        BY <2>1, <2>5, <3>1, Zenon
      <3>3. unconfirmed'.dependent = chain /\ unconfirmed'.height = heights[unconfirmed'.dependent]
        BY <2>1, <2>5, Zenon
      <3> QED
        BY <1>3, <1>10, <2>1, <3>2, <3>3, ZenonT(30) DEF Based
    <2>7. Applied'
      BY <1>1, <1>3, <1>12, <2>1, Zenon DEF Applied, Rebasing, Outdating
    <2>8. QED
      BY <2>6, <2>7, <1>1, <1>3, <1>4, <1>5, <1>6, <1>7, <1>8, HarvestUnmoved, SyncPreservesRest, Zenon DEF cacheVars
  <1>13. QED
    BY <1>11, <1>12

LEMMA SyncRebasedPreserves == IInv /\ SyncRebased => IInv'
  <1> SUFFICES ASSUME IInv, SyncRebased PROVE IInv'
    OBVIOUS
  <1> USE ThreadNames
  <1>1. /\ ControlOK /\ LockOK /\ DataOK /\ Exclusive /\ SyncIndex /\ SyncHolds /\ Bounded /\ Contents
        /\ Based /\ Applied /\ Fresh("harvester")
    BY TypeParts DEF IInv, Placed
  <1>2. /\ pc["sync"] = "locked" /\ release("sync", {"height"}) /\ goto("sync", "reapply")
        /\ UNCHANGED cacheVars /\ UNCHANGED <<chain, heights>> /\ UNCHANGED utVars
        /\ UNCHANGED <<delta, local>> /\ UNCHANGED <<idx, calls>>
    BY Zenon DEF SyncRebased
  <1>3. LockOK' /\ Exclusive' /\ LockFrame("sync") /\ lock'["ut"] = lock["ut"]
    <2>1. LockOK' /\ Exclusive' /\ LockFrame("sync") /\ \A k \in Locks : k \notin {"height"} => lock'[k] = lock[k]
      BY <1>1, <1>2, ReleaseFacts, Zenon
    <2>2. "ut" \in Locks
      BY SubFacts, Zenon
    <2> QED
      BY <2>1, <2>2
  <1>4. ControlOK' /\ ControlFrame("sync") /\ pc'["sync"] = "reapply" /\ idx'["sync"] = 1
    BY <1>1, <1>2, GotoFrame, Zenon DEF Labels, SyncIndex
  <1>5. SyncIndex' /\ SyncHolds'
    BY <1>1, <1>2, <1>3, <1>4, Zenon DEF SyncIndex, SyncHolds, Writing, Rebasing, Writes
  <1>6. Bounded'
    BY <1>1, <1>2, <1>4, BoundedFrame, Zenon DEF BeforeStorage, Rebasing
  <1>7. DataOK'
    BY <1>1, <1>2, Zenon DEF DataOK, cacheVars, utVars
  <1>8. Contents'
    BY <1>1, <1>2, <1>4, ZenonT(30) DEF Contents, Written, Writing, cacheVars
  <1>9. Based'
    BY <1>1, <1>2, <1>4, UpdaterUnmoved, ZenonT(30) DEF Based, cacheVars, utVars, Outdating
  <1>10. Applied'
    BY <1>1, <1>2, <1>4 DEF Applied, utVars, Rebasing, Outdating
  <1>11. Fresh("sync")' /\ pc'["sync"] # "null"
    BY <1>4, PlainFresh, Zenon DEF Plain
  <1>12. Fresh("harvester")'
    BY <1>1, <1>2, <1>4, HarvestUnmoved, Zenon DEF cacheVars
  <1>13. QED
    BY <1>3, <1>4, <1>5, <1>6, <1>7, <1>8, <1>9, <1>10, <1>11, <1>12, SyncPreservesRest, Zenon DEF StepFrame

LEMMA SyncReapplyPreserves == IInv /\ (\E txs \in SUBSET Txs : SyncReapply(txs)) => IInv'
  <1> SUFFICES ASSUME IInv, NEW txs \in SUBSET Txs, SyncReapply(txs) PROVE IInv'
    OBVIOUS
  <1> USE ThreadNames
  <1>1. /\ ControlOK /\ LockOK /\ DataOK /\ Exclusive /\ SyncIndex /\ SyncHolds /\ Bounded /\ Contents
        /\ Based /\ Applied /\ Fresh("harvester") /\ UpdaterHolds
    BY TypeParts DEF IInv, Placed
  <1>2. /\ pc["sync"] = "reapply" /\ release("sync", Subs \cup {"ut", "storage"}) /\ goto("sync", "idle")
        /\ forget("sync")
        /\ m_transactionsCache' = [tx \in Txs |-> IF tx \in txs THEN "valid" ELSE "absent"]
        /\ unconfirmed' = [unconfirmed EXCEPT !.applied =
               [tx \in Txs |-> IF tx \in txs THEN @[tx] + 1 ELSE @[tx]]]
        /\ UNCHANGED cacheVars /\ UNCHANGED <<chain, heights>> /\ UNCHANGED <<idx, calls>>
    BY DEF SyncReapply
  <1>3. LockOK' /\ Exclusive' /\ LockFrame("sync")
    BY <1>1, <1>2, ReleaseFacts
  <1>4. ControlOK' /\ ControlFrame("sync") /\ pc'["sync"] = "idle" /\ idx'["sync"] = 1
    BY <1>1, <1>2, GotoFrame, Zenon DEF Labels, SyncIndex
  <1>5. SyncIndex' /\ SyncHolds'
    BY <1>4 DEF SyncIndex, SyncHolds, Writing, Rebasing
  <1>6. Bounded'
    BY <1>1, <1>2, <1>4, BoundedFrame DEF BeforeStorage, Rebasing
  <1>7. /\ delta' \in [{"sync", "harvester"} -> Deltas] /\ local' \in [{"sync", "harvester"} -> Locals]
        /\ delta'["harvester"] = delta["harvester"]
    BY <1>1, <1>2, ForgetFacts, DetacherNames
  <1>8. /\ unconfirmed' \in Deltas /\ unconfirmed'.base = unconfirmed.base
        /\ unconfirmed'.commits = unconfirmed.commits /\ unconfirmed'.dependent = unconfirmed.dependent
        /\ unconfirmed'.height = unconfirmed.height
        /\ \A tx \in Txs : unconfirmed'.applied[tx] =
               IF tx \in txs THEN unconfirmed.applied[tx] + 1 ELSE unconfirmed.applied[tx]
    BY <1>1, <1>2, ApplyFacts, Zenon DEF DataOK
  <1>9. DataOK'
    BY <1>1, <1>2, <1>7, <1>8 DEF DataOK, cacheVars
  <1>10. Contents'
    BY <1>1, <1>2, <1>4 DEF Contents, Written, Writing, cacheVars
  <1>11. pc["updater"] \notin {"tryLock", "addAll", "apply"}
    BY <1>1, <1>2, UpdaterExcludesRebase DEF Rebasing
  <1>12. Based'
    <2>1. \A i \in DOMAIN SubCaches : ~UpdaterLocked(i)
      BY <1>11, Zenon DEF UpdaterLocked
    <2>2. QED
      BY <1>1, <1>2, <1>4, <1>8, <1>11, <2>1, UpdaterUnmoved, Zenon DEF Based, cacheVars
  <1>13. Applied'
    <2>1. \A tx \in Txs : unconfirmed.applied[tx] = 0
      BY <1>1, <1>2 DEF Applied
    <2>2. \A tx \in Txs : unconfirmed'.applied[tx] = IF m_transactionsCache'[tx] = "valid" THEN 1 ELSE 0
      BY <1>2, <1>8, <2>1
    <2>3. \A tx \in Txs : m_transactionsCache'[tx] # "unvalidated"
      BY <1>2
    <2>4. QED
      BY <1>4, <2>2, <2>3, Zenon DEF Applied, Rebasing, Outdating
  <1>14. Fresh("sync")' /\ pc'["sync"] # "null"
    BY <1>4, PlainFresh DEF Plain
  <1>15. Fresh("harvester")'
    BY <1>1, <1>2, <1>4, <1>7, HarvestUnmoved, Zenon DEF cacheVars
  <1>16. QED
    BY <1>3, <1>4, <1>5, <1>6, <1>9, <1>10, <1>12, <1>13, <1>14, <1>15, SyncPreservesRest, ZenonT(30) DEF StepFrame

LEMMA SyncPreserves == IInv /\ SyncStep => IInv'
  BY SyncPreprocessPreserves, SyncCreateDeltaPreserves, SyncAbortPreserves, SyncUnwindPreserves,
     SyncProcessPreserves, SyncReapplyPreserves, SyncSaveBlocksPreserves, SyncHeightModifierPreserves,
     SyncCommitCachePreserves, SyncPromotePreserves, SyncCommitSubPreserves, SyncCommitHeightPreserves,
     SyncReleaseDeltaPreserves, SyncCommitStoragePreserves, SyncRemoveAllPreserves, SyncDetachPreserves,
     SyncRebasedPreserves, ZenonT(30) DEF SyncStep

-----------------------------------------------------------------------------
(* The invariant holds, and what follows from it.                             *)

LEMMA InitIInv == Init => IInv
  <1> SUFFICES ASSUME Init PROVE IInv
    BY Zenon
  <1> USE ThreadNames
  <1>1. pc \in [Threads -> {"idle"}] /\ idx \in [Threads -> {1}] /\ calls \in [Threads -> {0}]
    BY Zenon DEF Init
  <1>2. 1 \in DOMAIN SubCaches /\ MaxCommits \in Nat
    BY SubFacts, CacheAssumption
  <1>3. ControlOK
    BY <1>1, <1>2 DEF ControlOK, Labels
  <1>4. lock \in [Locks -> {Free}] /\ Free \in LockStates(Threads) /\ Free.writers = {} /\ Free.readers = {}
    BY Zenon DEF Init, LockStates, Free
  <1>5. LockOK /\ Exclusive
    BY <1>4 DEF LockOK, Exclusive, Reads, Writes
  <1>6. DataOK
    BY <1>2, EmptyDeltaFacts DEF Init, DataOK
  <1>7. TypeOK
    BY <1>3, <1>5, <1>6, Zenon DEF TypeOK, ControlOK, LockOK, DataOK
  <1>8. Placed
    BY <1>1 DEF Placed, ViewerIndex, UpdaterIndex, HarvesterIndex, SyncIndex, ViewerHolds, UpdaterHolds,
                HarvesterHolds, SyncHolds, UpdaterLocked, InHarvest, Writing, Rebasing
  <1>9. NotNull
    BY <1>1, Zenon DEF NotNull
  <1>10. Contents
    BY <1>1, <1>2, SubFacts, SMTT(30) DEF Init, Contents, Written, Writing
  <1>11. Bounded
    BY <1>1, <1>2, SMTT(30) DEF Init, Bounded, BeforeStorage
  <1>12. Based
    BY <1>1, <1>2, SubFacts DEF Init, Based, UpdaterLocked, EmptyDelta
  <1>13. Applied
    BY <1>1, EmptyDeltaFacts, Zenon DEF Init, Applied, Rebasing
  <1>14. Fresh("sync") /\ Fresh("harvester")
    <2>1. \A t \in Detachers : pc[t] = "idle"
      BY <1>1 DEF Detachers, Threads
    <2>2. \A t \in Detachers : \A i : ~Copied(t, i)
      BY <2>1, Zenon DEF Copied
    <2>3. QED
      BY <2>1, <2>2, DetacherNames, Zenon DEF Fresh, InHarvest
  <1>15. QED
    BY <1>5, <1>7, <1>8, <1>9, <1>10, <1>11, <1>12, <1>13, <1>14, Zenon DEF IInv

LEMMA StutterIInv == IInv /\ UNCHANGED vars => IInv'
  <1> SUFFICES ASSUME IInv, UNCHANGED vars PROVE IInv'
    OBVIOUS
  <1>1. ControlOK /\ LockOK /\ DataOK /\ Exclusive
    BY TypeParts DEF IInv
  <1>2. /\ UNCHANGED lock /\ UNCHANGED cacheVars /\ UNCHANGED <<chain, heights>> /\ UNCHANGED utVars
        /\ UNCHANGED <<delta, local>> /\ UNCHANGED <<pc, idx, calls>>
    BY Zenon DEF vars
  <1>3. LockOK' /\ Exclusive' /\ LockFrame("viewer")
    BY <1>1, <1>2, UnchangedLockFacts, ThreadNames, Zenon
  <1>4. ControlOK' /\ ControlFrame("viewer") /\ pc'["viewer"] # "null"
    BY <1>1, <1>2, ThreadNames, Zenon DEF ControlOK, ControlFrame, IInv, NotNull
  <1>5. DataOK'
    BY <1>1, <1>2, Zenon DEF DataOK, cacheVars, utVars
  <1>6. TypeOK'
    BY <1>3, <1>4, <1>5, TypeParts, Zenon
  <1>7. ViewerIndex' /\ ViewerHolds'
    BY <1>2, Zenon DEF IInv, Placed, ViewerIndex, ViewerHolds, Reads
  <1>8. Placed'
    BY <1>3, <1>4, <1>7, OtherPlaces, ThreadNames, Zenon DEF IInv, Placed
  <1>9. NotNull'
    BY <1>4, OtherNotNull, ThreadNames, Zenon DEF IInv
  <1>10. Contents' /\ Bounded' /\ Fresh("sync")'
    BY <1>2, <1>4, CommitUnmoved, ThreadNames, Zenon DEF IInv
  <1>11. Fresh("harvester")'
    BY <1>2, <1>4, HarvestUnmoved, ThreadNames, Zenon DEF IInv, cacheVars
  <1>12. Based' /\ Applied'
    BY <1>2, <1>4, UnconfirmedUnmoved, ThreadNames, Zenon DEF IInv
  <1>13. QED
    BY <1>3, <1>6, <1>8, <1>9, <1>10, <1>11, <1>12, Zenon DEF IInv

LEMMA NextIInv == IInv /\ [Next]_vars => IInv'
  BY ViewerPreserves, UpdaterPreserves, HarvesterPreserves, SyncPreserves, StutterIInv DEF Next

(* The locks, the places of the threads, the contents of the cache and of the *)
(* deltas stay related as IInv says, whatever the threads interleave.         *)
THEOREM InvariantHolds == Spec => []IInv
  BY InitIInv, NextIInv, PTL DEF Spec

(* While a thread reads the height, all of the cache is of one commit.        *)
LEMMA ReadersSeeOneCommit ==
    ASSUME IInv, NEW t \in Threads, Reads(t, "height")
    PROVE  (\A s \in Subs : m_cache[s] = m_pDependentState) /\ m_height = heights[m_pDependentState]
  <1>1. Exclusive /\ SyncHolds /\ Contents
    BY Zenon DEF IInv, Placed
  <1>2. pc["sync"] \notin Writing
    BY <1>1, ThreadNames, SubFacts, ZenonT(30) DEF Exclusive, SyncHolds
  <1>3. \A i \in DOMAIN SubCaches : m_cache[SubCaches[i]] = m_pDependentState
    BY <1>1, <1>2 DEF Contents, Written, Writing
  <1>4. QED
    BY <1>1, <1>3, SubFacts DEF Contents

(* createView: a complete view is of one commit as long as it is held.        *)
THEOREM ViewsAreConsistent == Spec => []ViewConsistent
  <1>1. IInv => ViewConsistent
    BY ReadersSeeOneCommit, ThreadNames, Zenon DEF IInv, Placed, ViewerHolds, ViewConsistent
  <1>2. QED
    BY <1>1, InvariantHolds, PTL

(* Detached deltas: what the updater, the update after a block and the        *)
(* harvester apply transactions to is based on one commit, the one in the     *)
(* cache.                                                                     *)
THEOREM DeltasAreConsistent == Spec => []DeltaConsistent
  <1>1. IInv => DeltaConsistent
    <2> SUFFICES ASSUME IInv PROVE DeltaConsistent
      OBVIOUS
    <2>1. Contents /\ Based /\ HarvesterHolds /\ Fresh("harvester")
      BY Zenon DEF IInv, Placed
    <2>2. ASSUME pc["updater"] = "apply" PROVE consistent(unconfirmed)
      <3>1. \A i \in DOMAIN SubCaches : m_cache[SubCaches[i]] = unconfirmed.dependent
        BY <2>1, <2>2, ZenonT(30) DEF Based, UpdaterLocked
      <3>2. QED
        <4>1. \A s \in Subs : m_cache[s] = unconfirmed.dependent
          BY <3>1, SubFacts
        <4>2. QED
          BY <2>1, <4>1, ZenonT(30) DEF Based, consistent
    <2>3. ASSUME pc["sync"] = "reapply" PROVE consistent(unconfirmed)
      <3>1. \A i \in DOMAIN SubCaches : m_cache[SubCaches[i]] = unconfirmed.dependent
        BY <2>1, <2>3, Zenon DEF Based, Contents, Written
      <3>2. QED
        BY <2>1, <3>1, SubFacts DEF Based, consistent
    <2>4. ASSUME pc["harvester"] \in {"locked", "select", "selecting", "commit"}
          PROVE  consistent(delta["harvester"])
      <3>1. Reads("harvester", "height")
        BY <2>1, <2>4, Zenon DEF HarvesterHolds, InHarvest
      <3>2. (\A s \in Subs : m_cache[s] = m_pDependentState) /\ m_height = heights[m_pDependentState]
        BY <3>1, ReadersSeeOneCommit, ThreadNames
      <3>3. \A i : Copied("harvester", i)
        BY <2>4, Zenon DEF Copied
      <3>4. \A i \in DOMAIN SubCaches : delta["harvester"].base[SubCaches[i]] = m_cache[SubCaches[i]]
        BY <2>1, <3>3, ZenonT(30) DEF Fresh
      <3>5. delta["harvester"].height = m_height /\ delta["harvester"].dependent = m_pDependentState
        BY <2>1, <2>4, <3>3 DEF Fresh, InHarvest
      <3>6. QED
        BY <3>2, <3>4, <3>5, SubFacts DEF consistent
    <2>5. QED
      BY <2>2, <2>3, <2>4 DEF DeltaConsistent
  <1>2. QED
    BY <1>1, InvariantHolds, PTL

(* The pointer that the harvester and rebaseAndLock dereference after tryLock *)
(* is never null.                                                             *)
THEOREM DeltasAreLockable == Spec => []DeltaLockable
  <1>1. IInv => DeltaLockable
    BY Zenon DEF IInv, NotNull, DeltaLockable
  <1>2. QED
    BY <1>1, InvariantHolds, PTL

(* UtUpdater: valid transactions are applied exactly once.                    *)
THEOREM UnconfirmedIsExact == Spec => []UnconfirmedExact
  <1>1. IInv => UnconfirmedExact
    <2>1. IInv /\ lock["ut"].writers = {} => pc["sync"] \notin Rebasing
      BY Zenon DEF IInv, Placed, SyncHolds, Writes
    <2>2. QED
      BY <2>1, Zenon DEF IInv, Applied, UnconfirmedExact
  <1>2. QED
    BY <1>1, InvariantHolds, PTL

(* UtUpdater and rebaseAndLock: outside of a commit the unconfirmed state is  *)
(* that of the last commit, and nothing waits to be validated.                *)
THEOREM UnconfirmedIsCurrent == Spec => []UnconfirmedCurrent
  <1>1. IInv => UnconfirmedCurrent
    <2> SUFFICES ASSUME IInv, ~committing PROVE UnconfirmedCurrent
      BY DEF UnconfirmedCurrent
    <2>1. Contents /\ Based /\ Applied
      BY ZenonT(30) DEF IInv
    <2>2. \A i \in DOMAIN SubCaches : m_cache[SubCaches[i]] = unconfirmed.dependent
      <3>1. \A i \in DOMAIN SubCaches : ~Written(i)
        BY ZenonT(30) DEF Written, committing
      <3>2. unconfirmed.dependent = chain
        BY <2>1 DEF Based, committing
      <3>3. \A i \in DOMAIN SubCaches : m_cache[SubCaches[i]] = IF Written(i) THEN chain + 1 ELSE chain
        BY <2>1, Zenon DEF Contents
      <3>4. QED
        BY <3>1, <3>2, <3>3
    <2>3. \A s \in Subs : unconfirmed.base[s] = m_cache[s] /\ ~isOutdated(unconfirmed, s)
      <3>1. \A s \in Subs : m_cache[s] = unconfirmed.dependent
        BY <2>2, SubFacts, SMTT(30)
      <3>2. QED
        BY <2>1, <3>1, Zenon DEF Based, Contents, isOutdated
    <2>4. \A tx \in Txs : m_transactionsCache[tx] # "unvalidated"
      BY <2>1 DEF Applied, committing, Outdating
    <2>5. QED
      BY <2>3, <2>4, ZenonT(30) DEF UnconfirmedCurrent
  <1>2. QED
    BY <1>1, InvariantHolds, PTL
=============================================================================
