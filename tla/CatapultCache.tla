---------------------------- MODULE CatapultCache ----------------------------
(***************************************************************************)
(* The state cache and the threads that share it: the block sync consumer   *)
(* ("sync"), the only one that commits; the transaction dispatcher          *)
(* ("updater"), which applies new transactions to an unconfirmed copy of    *)
(* the state; the harvester; and a reader of complete views ("viewer").     *)
(*                                                                          *)
(* The cache is a sequence of sub-caches, each behind its own reader/writer *)
(* lock, with a lock on the height around them all.  Storage and            *)
(* unconfirmed transactions have a lock each.  A commit promotes the locks  *)
(* of the sub-caches one after the other.  Detached deltas hold no lock and *)
(* find out with a commit counter whether they are outdated.                *)
(*                                                                          *)
(* The n-th commit writes the content n everywhere; heights[n] is the       *)
(* height of that chain.  Guards of one scope are released in one step.     *)
(***************************************************************************)
EXTENDS Integers, Sequences, Functions, LockState

CONSTANTS
    SubCaches,           \* m_subCaches: a sequence of names
    Txs,                 \* transactions
    MaxCommits, MaxUpdates, MaxHarvests, MaxViews    \* bounds on the calls

ASSUME CacheAssumption ==
    /\ SubCaches \in Seq(STRING) /\ SubCaches # <<>>
    /\ \A i, j \in DOMAIN SubCaches : i # j => SubCaches[i] # SubCaches[j]
    /\ Range(SubCaches) \cap {"storage", "height", "ut"} = {}
    /\ {MaxCommits, MaxUpdates, MaxHarvests, MaxViews} \subseteq Nat

Threads == {"sync", "updater", "harvester", "viewer"}
Subs == Range(SubCaches)
Locks == Subs \cup {"storage", "height", "ut"}

VARIABLES
    lock,                \* every SpinReaderWriterLock
    m_cache,             \* content of each sub-cache
    m_commitCounter,     \* of each sub-cache
    m_height,            \* CacheHeight
    m_pDependentState,
    m_pDependentStateDelta,
    chain,               \* content of the block storage
    heights,             \* history: the height of each content
    m_transactionsCache, \* each transaction: "absent", "unvalidated" or "valid"
    unconfirmed,         \* m_pLockableUnconfirmedCatapultCache
    delta,               \* the detached delta the sync consumer or the harvester made
    local,               \* of the sync consumer and of the harvester
    pc,
    idx,                 \* position of a thread in a loop over the sub-caches
    calls                \* number of calls each thread has begun

cacheVars == <<m_cache, m_commitCounter, m_height, m_pDependentState, m_pDependentStateDelta>>
utVars == <<m_transactionsCache, unconfirmed>>
vars == <<lock, cacheVars, chain, heights, utVars, delta, local, pc, idx, calls>>

(* A detached delta: what it was based on, and how often each transaction   *)
(* has been applied to it.                                                  *)
EmptyDelta ==
    [base |-> [s \in Subs |-> 0], commits |-> [s \in Subs |-> 0], dependent |-> 0, height |-> 1,
     applied |-> [tx \in Txs |-> 0]]

Locals ==
    [lastBlock : Nat, confirmed : SUBSET Txs, reverted : SUBSET Txs, original : SUBSET Txs]

NoLocals == [lastBlock |-> 0, confirmed |-> {}, reverted |-> {}, original |-> {}]

Init ==
    /\ lock = [l \in Locks |-> Free]
    /\ m_cache = [s \in Subs |-> 0]
    /\ m_commitCounter = [s \in Subs |-> 0]
    /\ m_height = 1
    /\ m_pDependentState = 0
    /\ m_pDependentStateDelta = 0
    /\ chain = 0
    /\ heights = [n \in 0 .. MaxCommits |-> 1]
    /\ m_transactionsCache = [tx \in Txs |-> "absent"]
    /\ unconfirmed = EmptyDelta
    /\ delta = [t \in {"sync", "harvester"} |-> EmptyDelta]
    /\ local = [t \in {"sync", "harvester"} |-> NoLocals]
    /\ pc = [t \in Threads |-> "idle"]
    /\ idx = [t \in Threads |-> 1]
    /\ calls = [t \in Threads |-> 0]

-----------------------------------------------------------------------------
(* Guards.                                                                  *)

goto(t, label) == pc' = [pc EXCEPT ![t] = label]

acquireReader(t, l) ==
    /\ canEnterReader(lock[l])
    /\ lock' = [lock EXCEPT ![l] = enterReader(@, t)]

acquireWriter(t, l) ==
    /\ t \in lock[l].waiting
    /\ canEnterWriter(lock[l])
    /\ lock' = [lock EXCEPT ![l] = enterWriter(@, t)]

(* The destructors of the guards t holds on the locks ls.                   *)
release(t, ls) ==
    lock' = [l \in Locks |-> IF l \in ls THEN leaveWriter(leaveReader(lock[l], t), t) ELSE lock[l]]

sub(t) == SubCaches[idx[t]]

(* The loop over the sub-caches continues at the same label, or ends.       *)
loopOr(t, label) ==
    IF idx[t] = Len(SubCaches)
    THEN idx' = [idx EXCEPT ![t] = 1] /\ goto(t, label)
    ELSE idx' = [idx EXCEPT ![t] = @ + 1] /\ UNCHANGED pc

(* The delta and the locals of a call end with its scope.                   *)
forget(t) ==
    /\ delta' = [delta EXCEPT ![t] = EmptyDelta]
    /\ local' = [local EXCEPT ![t] = NoLocals]

begin(t, bound) ==
    /\ pc[t] = "idle"
    /\ calls[t] < bound
    /\ calls' = [calls EXCEPT ![t] = @ + 1]

-----------------------------------------------------------------------------
(* CatapultCache::createView, by the viewer.                                *)

MutantCreateViewHeight ==
    /\ begin("viewer", MaxViews)
    /\ goto("viewer", "subViews")
    /\ UNCHANGED <<lock, cacheVars, chain, heights, utVars, delta, local, idx>>

CreateViewHeight ==
    /\ begin("viewer", MaxViews)
    /\ acquireReader("viewer", "height")
    /\ goto("viewer", "subViews")
    /\ UNCHANGED <<cacheVars, chain, heights, utVars, delta, local, idx>>

CreateSubView ==
    /\ pc["viewer"] = "subViews"
    /\ acquireReader("viewer", sub("viewer"))
    /\ loopOr("viewer", "viewing")
    /\ UNCHANGED <<cacheVars, chain, heights, utVars, delta, local, calls>>

ReleaseView ==
    /\ pc["viewer"] = "viewing"
    /\ release("viewer", Subs \cup {"height"})
    /\ goto("viewer", "idle")
    /\ UNCHANGED <<cacheVars, chain, heights, utVars, delta, local, idx, calls>>

-----------------------------------------------------------------------------
(* A detachable delta, made by the harvester and by rebaseAndLock: under    *)
(* the height lock each sub-cache is locked while its delta is made, and    *)
(* the dependent state is copied.  Then the delta is locked; the callers    *)
(* dereference it without looking whether that failed ("null").             *)

MutantDetachHeight(t) ==
    /\ pc[t] = "detach"
    /\ delta' = [delta EXCEPT ![t] = [EmptyDelta EXCEPT !.height = m_height]]
    /\ goto(t, "detachSubs")
    /\ UNCHANGED <<lock, cacheVars, chain, heights, utVars, local, idx, calls>>

DetachHeight(t) ==
    /\ pc[t] = "detach"
    /\ acquireReader(t, "height")
    /\ delta' = [delta EXCEPT ![t] = [EmptyDelta EXCEPT !.height = m_height]]
    /\ goto(t, "detachSubs")
    /\ UNCHANGED <<cacheVars, chain, heights, utVars, local, idx, calls>>

createDetachedDelta(t) ==
    /\ pc[t] = "detachSubs"
    /\ canEnterReader(lock[sub(t)])
    /\ delta' = [delta EXCEPT ![t].base[sub(t)] = m_cache[sub(t)],
                              ![t].commits[sub(t)] = m_commitCounter[sub(t)]]
    /\ loopOr(t, "detached")
    /\ UNCHANGED <<lock, cacheVars, chain, heights, utVars, local, calls>>

MutantDetachDependentState(t) ==
    /\ pc[t] = "detached"
    /\ delta' = [delta EXCEPT ![t].dependent = m_pDependentState, ![t].applied = unconfirmed.applied]
    /\ unconfirmed' = IF t = "sync" THEN delta'[t] ELSE unconfirmed
    /\ goto(t, "lockDelta")
    /\ UNCHANGED <<lock, cacheVars, chain, heights, m_transactionsCache, local, idx, calls>>

DetachDependentState(t) ==
    /\ pc[t] = "detached"
    /\ delta' = [delta EXCEPT ![t].dependent = m_pDependentState]
    /\ unconfirmed' = IF t = "sync" THEN delta'[t] ELSE unconfirmed
    /\ goto(t, "lockDelta")
    /\ UNCHANGED <<lock, cacheVars, chain, heights, m_transactionsCache, local, idx, calls>>

MutantIsOutdated(d, s) == FALSE

(* LockableCacheDelta::tryLock                                              *)
isOutdated(d, s) == d.commits[s] # m_commitCounter[s]

LockDelta(t) ==
    /\ pc[t] = "lockDelta"
    /\ acquireReader(t, sub(t))
    /\ IF isOutdated(delta[t], sub(t))
       THEN goto(t, "null") /\ UNCHANGED idx
       ELSE loopOr(t, "locked")
    /\ UNCHANGED <<cacheVars, chain, heights, utVars, delta, local, calls>>

-----------------------------------------------------------------------------
(* UtUpdater::update(utInfos), by the transaction dispatcher.               *)

UpdateBegin ==
    /\ begin("updater", MaxUpdates)
    /\ lock' = [lock EXCEPT !["ut"] = announceWriter(@, "updater")]
    /\ goto("updater", "modifier")
    /\ UNCHANGED <<cacheVars, chain, heights, utVars, delta, local, idx>>

UpdateModifier ==
    /\ pc["updater"] = "modifier"
    /\ acquireWriter("updater", "ut")
    /\ goto("updater", "tryLock")
    /\ UNCHANGED <<cacheVars, chain, heights, utVars, delta, local, idx, calls>>

(* getAndTryLock: an outdated sub-cache gives up the ones already locked.   *)
UpdateTryLock ==
    /\ pc["updater"] = "tryLock"
    /\ canEnterReader(lock[sub("updater")])
    /\ IF isOutdated(unconfirmed, sub("updater"))
       THEN release("updater", Subs) /\ goto("updater", "addAll")
            /\ idx' = [idx EXCEPT !["updater"] = 1]
       ELSE acquireReader("updater", sub("updater")) /\ loopOr("updater", "apply")
    /\ UNCHANGED <<cacheVars, chain, heights, utVars, delta, local, calls>>

(* "just add all to the cache and they will be validated later"             *)
UpdateAddAll(txs) ==
    /\ pc["updater"] = "addAll"
    /\ m_transactionsCache' = [tx \in Txs |->
           IF tx \in txs /\ m_transactionsCache[tx] = "absent" THEN "unvalidated"
           ELSE m_transactionsCache[tx]]
    /\ release("updater", {"ut"})
    /\ goto("updater", "idle")
    /\ UNCHANGED <<cacheVars, chain, heights, unconfirmed, delta, local, idx, calls>>

(* apply: a transaction that is new to the cache is added and observed, and *)
(* undone and removed again when it is invalid.                             *)
UpdateApply(valid) ==
    /\ pc["updater"] = "apply"
    /\ \A tx \in valid : m_transactionsCache[tx] = "absent"
    /\ m_transactionsCache' = [tx \in Txs |-> IF tx \in valid THEN "valid" ELSE m_transactionsCache[tx]]
    /\ unconfirmed' = [unconfirmed EXCEPT !.applied =
           [tx \in Txs |-> IF tx \in valid THEN @[tx] + 1 ELSE @[tx]]]
    /\ release("updater", Subs \cup {"ut"})
    /\ goto("updater", "idle")
    /\ UNCHANGED <<cacheVars, chain, heights, delta, local, idx, calls>>

-----------------------------------------------------------------------------
(* ScheduledHarvesterTask::harvest and the block generator.                 *)

HarvestLastBlock ==
    /\ begin("harvester", MaxHarvests)
    /\ canEnterReader(lock["storage"])
    /\ local' = [local EXCEPT !["harvester"].lastBlock = chain]
    /\ goto("harvester", "hit")
    /\ UNCHANGED <<lock, cacheVars, chain, heights, utVars, delta, idx>>

(* Difficulty and hit are calculated from single sub-caches; no account may *)
(* be eligible.                                                             *)
HarvestHit ==
    /\ pc["harvester"] = "hit"
    /\ canEnterReader(lock[SubCaches[1]])
    /\ \/ goto("harvester", "detach") /\ UNCHANGED <<delta, local>>
       \/ goto("harvester", "idle") /\ forget("harvester")
    /\ UNCHANGED <<lock, cacheVars, chain, heights, utVars, idx, calls>>

cacheLocks == Subs \cup {"height"}

(* The height of the cache must be the one of the last block.               *)
HarvestCheckHeight ==
    /\ pc["harvester"] = "locked"
    /\ IF delta["harvester"].height = heights[local["harvester"].lastBlock]
       THEN goto("harvester", "select") /\ UNCHANGED <<lock, delta, local>>
       ELSE release("harvester", cacheLocks) /\ goto("harvester", "idle") /\ forget("harvester")
    /\ UNCHANGED <<cacheVars, chain, heights, utVars, idx, calls>>

(* TransactionsInfoSupplier looks at the unconfirmed transactions.          *)
HarvestSelect ==
    /\ pc["harvester"] = "select"
    /\ acquireReader("harvester", "ut")
    /\ goto("harvester", "selecting")
    /\ UNCHANGED <<cacheVars, chain, heights, utVars, delta, local, idx, calls>>

HarvestSelected ==
    /\ pc["harvester"] = "selecting"
    /\ release("harvester", {"ut"})
    /\ goto("harvester", "commit")
    /\ UNCHANGED <<cacheVars, chain, heights, utVars, delta, local, idx, calls>>

MutantHarvestCommit ==
    /\ pc["harvester"] = "commit"
    /\ canEnterReader(lock["storage"])
    /\ release("harvester", cacheLocks)
    /\ forget("harvester")
    /\ goto("harvester", "importance") \/ goto("harvester", "idle")
    /\ UNCHANGED <<cacheVars, chain, heights, utVars, idx, calls>>

(* The cache locks are given up before the storage is looked at; execution  *)
(* of the block may have failed.                                            *)
HarvestCommit ==
    /\ pc["harvester"] = "commit"
    /\ release("harvester", cacheLocks)
    /\ forget("harvester")
    /\ goto("harvester", "importance") \/ goto("harvester", "idle")
    /\ UNCHANGED <<cacheVars, chain, heights, utVars, idx, calls>>

HarvestImportanceHash ==
    /\ pc["harvester"] = "importance"
    /\ canEnterReader(lock["storage"])
    /\ goto("harvester", "idle")
    /\ UNCHANGED <<lock, cacheVars, chain, heights, utVars, delta, local, idx, calls>>

-----------------------------------------------------------------------------
(* BlockchainSyncConsumer: preprocess and process.                          *)

SyncPreprocess ==
    /\ begin("sync", MaxCommits)
    /\ acquireReader("sync", "storage")
    /\ goto("sync", "createDelta")
    /\ UNCHANGED <<cacheVars, chain, heights, utVars, delta, local, idx>>

SyncCreateDelta ==
    /\ pc["sync"] = "createDelta"
    /\ acquireReader("sync", sub("sync"))
    /\ loopOr("sync", "preprocess")
    /\ UNCHANGED <<cacheVars, chain, heights, utVars, delta, local, calls>>

(* The chain is unwound and scored; the storage view ends.                  *)
SyncUnwind(reverted) ==
    /\ pc["sync"] = "preprocess"
    /\ m_pDependentStateDelta' = m_pDependentState
    /\ release("sync", {"storage"})
    /\ local' = [local EXCEPT !["sync"].reverted = reverted]
    /\ goto("sync", "process")
    /\ UNCHANGED <<m_cache, m_commitCounter, m_height, m_pDependentState, chain, heights, utVars,
                   delta, idx, calls>>

(* preprocess or process fail, and the delta is dropped.                    *)
SyncAbort ==
    /\ pc["sync"] \in {"preprocess", "process"} \/ (pc["sync"] = "createDelta" /\ idx["sync"] = 1)
    /\ release("sync", Subs \cup {"storage"})
    /\ forget("sync")
    /\ goto("sync", "idle")
    /\ UNCHANGED <<cacheVars, chain, heights, utVars, idx, calls>>

(* Blocks are executed; the importance link looks at the storage once more. *)
SyncProcess(confirmed) ==
    /\ pc["sync"] = "process"
    /\ canEnterReader(lock["storage"])
    /\ local' = [local EXCEPT !["sync"].confirmed = confirmed]
    /\ lock' = [lock EXCEPT !["storage"] = announceWriter(@, "sync")]
    /\ goto("sync", "save")
    /\ UNCHANGED <<cacheVars, chain, heights, utVars, delta, idx, calls>>

-----------------------------------------------------------------------------
(* commitAll.                                                               *)

(* The new chain extends the old one or replaces its last block.            *)
SyncSaveBlocks(height) ==
    /\ pc["sync"] = "save"
    /\ acquireWriter("sync", "storage")
    /\ heights' = [n \in DOMAIN heights |-> IF n > chain THEN height ELSE heights[n]]
    /\ m_pDependentStateDelta' = chain + 1
    /\ goto("sync", "height")
    /\ UNCHANGED <<m_cache, m_commitCounter, m_height, m_pDependentState, chain, utVars, delta,
                   local, idx, calls>>

SyncHeightModifier ==
    /\ pc["sync"] = "height"
    /\ lock' = [lock EXCEPT !["height"] = announceWriter(@, "sync")]
    /\ goto("sync", "heightModifier")
    /\ UNCHANGED <<cacheVars, chain, heights, utVars, delta, local, idx, calls>>

SyncCommitCache ==
    /\ pc["sync"] = "heightModifier"
    /\ acquireWriter("sync", "height")
    /\ goto("sync", "promote")
    /\ UNCHANGED <<cacheVars, chain, heights, utVars, delta, local, idx, calls>>

SyncPromote ==
    /\ pc["sync"] = "promote"
    /\ lock' = [lock EXCEPT ![sub("sync")] = promote(@, "sync")]
    /\ goto("sync", "commit")
    /\ UNCHANGED <<cacheVars, chain, heights, utVars, delta, local, idx, calls>>

(* SynchronizedCache::commit: the promoted lock becomes a reader again.     *)
SyncCommitSub ==
    /\ pc["sync"] = "commit"
    /\ canEnterWriter(lock[sub("sync")])
    /\ lock' = [lock EXCEPT ![sub("sync")] = demote(enterWriter(@, "sync"), "sync")]
    /\ m_cache' = [m_cache EXCEPT ![sub("sync")] = chain + 1]
    /\ m_commitCounter' = [m_commitCounter EXCEPT ![sub("sync")] = @ + 1]
    /\ IF idx["sync"] = Len(SubCaches)
       THEN idx' = [idx EXCEPT !["sync"] = 1] /\ goto("sync", "dependent")
       ELSE idx' = [idx EXCEPT !["sync"] = @ + 1] /\ goto("sync", "promote")
    /\ UNCHANGED <<m_height, m_pDependentState, m_pDependentStateDelta, chain, heights, utVars,
                   delta, local, calls>>

SyncCommitHeight ==
    /\ pc["sync"] = "dependent"
    /\ m_pDependentState' = m_pDependentStateDelta
    /\ m_height' = heights[chain + 1]
    /\ release("sync", {"height"})
    /\ goto("sync", "release")
    /\ UNCHANGED <<m_cache, m_commitCounter, m_pDependentStateDelta, chain, heights, utVars, delta,
                   local, idx, calls>>

(* "release the delta after commit so that the UT updater can acquire a lock" *)
SyncReleaseDelta ==
    /\ pc["sync"] = "release"
    /\ release("sync", Subs)
    /\ goto("sync", "storage")
    /\ UNCHANGED <<cacheVars, chain, heights, utVars, delta, local, idx, calls>>

MutantSyncCommitStorage ==
    /\ pc["sync"] = "storage"
    /\ chain' = chain + 1
    /\ IF local["sync"].confirmed \cup local["sync"].reverted = {}
       THEN release("sync", {"storage"}) /\ goto("sync", "idle")
       ELSE /\ lock' = [lock EXCEPT !["ut"] = announceWriter(@, "sync")]
            /\ goto("sync", "removeAll")
    /\ UNCHANGED <<cacheVars, heights, utVars, delta, local, idx, calls>>

SyncCommitStorage ==
    /\ pc["sync"] = "storage"
    /\ chain' = chain + 1
    /\ lock' = [lock EXCEPT !["ut"] = announceWriter(@, "sync")]
    /\ goto("sync", "removeAll")
    /\ UNCHANGED <<cacheVars, heights, utVars, delta, local, idx, calls>>

-----------------------------------------------------------------------------
(* UtUpdater::update(confirmedTransactionHashes, utInfos), still under the  *)
(* storage lock.                                                            *)

SyncRemoveAll ==
    /\ pc["sync"] = "removeAll"
    /\ acquireWriter("sync", "ut")
    /\ local' = [local EXCEPT !["sync"].original =
           {tx \in Txs : m_transactionsCache[tx] # "absent"}]
    /\ m_transactionsCache' = [tx \in Txs |-> "absent"]
    /\ goto("sync", "detach")
    /\ UNCHANGED <<cacheVars, chain, heights, unconfirmed, delta, idx, calls>>

(* rebaseAndLock returns: the height lock is released.                      *)
SyncRebased ==
    /\ pc["sync"] = "locked"
    /\ release("sync", {"height"})
    /\ goto("sync", "reapply")
    /\ UNCHANGED <<cacheVars, chain, heights, utVars, delta, local, idx, calls>>

(* Reverted transactions, and original ones that are not confirmed, are     *)
(* applied again; invalid ones are dropped.                                 *)
SyncReapply(valid) ==
    /\ pc["sync"] = "reapply"
    /\ valid \subseteq (local["sync"].reverted \cup local["sync"].original) \ local["sync"].confirmed
    /\ m_transactionsCache' = [tx \in Txs |-> IF tx \in valid THEN "valid" ELSE "absent"]
    /\ unconfirmed' = [unconfirmed EXCEPT !.applied =
           [tx \in Txs |-> IF tx \in valid THEN @[tx] + 1 ELSE @[tx]]]
    /\ release("sync", Subs \cup {"ut", "storage"})
    /\ forget("sync")
    /\ goto("sync", "idle")
    /\ UNCHANGED <<cacheVars, chain, heights, idx, calls>>

-----------------------------------------------------------------------------
Detach(t) ==
    DetachHeight(t) \/ createDetachedDelta(t) \/ DetachDependentState(t) \/ LockDelta(t)

ViewerStep == CreateViewHeight \/ CreateSubView \/ ReleaseView

UpdaterStep ==
    \/ UpdateBegin \/ UpdateModifier \/ UpdateTryLock
    \/ \E txs \in SUBSET Txs : UpdateAddAll(txs) \/ UpdateApply(txs)

HarvesterStep ==
    \/ HarvestLastBlock \/ HarvestHit \/ Detach("harvester")
    \/ HarvestCheckHeight \/ HarvestSelect \/ HarvestSelected
    \/ HarvestCommit \/ HarvestImportanceHash

SyncStep ==
    \/ SyncPreprocess \/ SyncCreateDelta \/ SyncAbort
    \/ \E txs \in SUBSET Txs : SyncUnwind(txs) \/ SyncProcess(txs) \/ SyncReapply(txs)
    \/ \E height \in {m_height, m_height + 1} : SyncSaveBlocks(height)
    \/ SyncHeightModifier \/ SyncCommitCache
    \/ SyncPromote \/ SyncCommitSub \/ SyncCommitHeight \/ SyncReleaseDelta
    \/ SyncCommitStorage \/ SyncRemoveAll \/ Detach("sync") \/ SyncRebased

Next == ViewerStep \/ UpdaterStep \/ HarvesterStep \/ SyncStep

Spec == Init /\ [][Next]_vars

(* Every thread runs.                                                       *)
FairSpec ==
    /\ Spec
    /\ WF_vars(ViewerStep) /\ WF_vars(UpdaterStep) /\ WF_vars(HarvesterStep) /\ WF_vars(SyncStep)

-----------------------------------------------------------------------------
(* Properties.                                                              *)

Deltas ==
    [base : [Subs -> Nat], commits : [Subs -> Nat], dependent : Nat, height : Nat,
     applied : [Txs -> Nat]]

Labels ==
    {"idle", "subViews", "viewing", "modifier", "tryLock", "addAll", "apply", "hit", "detach",
     "detachSubs", "detached", "lockDelta", "null", "locked", "select", "selecting", "commit",
     "importance", "createDelta", "preprocess", "process", "save", "height", "heightModifier",
     "promote", "dependent", "release", "storage", "removeAll", "reapply"}

TypeOK ==
    /\ lock \in [Locks -> LockStates(Threads)]
    /\ m_cache \in [Subs -> Nat]
    /\ m_commitCounter \in [Subs -> Nat]
    /\ {m_height, m_pDependentState, m_pDependentStateDelta, chain} \subseteq Nat
    /\ heights \in [0 .. MaxCommits -> Nat]
    /\ m_transactionsCache \in [Txs -> {"absent", "unvalidated", "valid"}]
    /\ unconfirmed \in Deltas
    /\ delta \in [{"sync", "harvester"} -> Deltas]
    /\ local \in [{"sync", "harvester"} -> Locals]
    /\ pc \in [Threads -> Labels]
    /\ idx \in [Threads -> DOMAIN SubCaches]
    /\ calls \in [Threads -> Nat]

(* A thread with a complete view sees one commit: sub-caches, height and    *)
(* dependent state belong together ("to ensure the view is composed of      *)
(* consistent sub cache views"), as long as it holds the view.              *)
ViewConsistent ==
    pc["viewer"] = "viewing" =>
        /\ \A s \in Subs : m_cache[s] = m_pDependentState
        /\ m_height = heights[m_pDependentState]

consistent(d) ==
    /\ \A s \in Subs : d.base[s] = d.dependent /\ d.base[s] = m_cache[s]
    /\ d.height = heights[d.dependent]

(* A locked detached delta is based on one commit, and nothing is committed *)
(* below it while a thread applies transactions to it.                      *)
DeltaConsistent ==
    /\ pc["updater"] = "apply" => consistent(unconfirmed)
    /\ pc["sync"] = "reapply" => consistent(unconfirmed)
    /\ pc["harvester"] \in {"locked", "select", "selecting", "commit"} =>
           consistent(delta["harvester"])

(* Locking a delta that was just made never fails: the harvester and the    *)
(* update after a block do not check for the null pointer.                  *)
DeltaLockable == \A t \in Threads : pc[t] # "null"

(* When nobody holds the unconfirmed transactions, those that count as      *)
(* valid have been applied to the unconfirmed state exactly once, and the   *)
(* others not at all.                                                       *)
UnconfirmedExact ==
    lock["ut"].writers = {} =>
        \A tx \in Txs :
            unconfirmed.applied[tx] = IF m_transactionsCache[tx] = "valid" THEN 1 ELSE 0

committing ==
    pc["sync"] \in {"promote", "commit", "dependent", "release", "storage", "removeAll", "detach",
                    "detachSubs", "detached", "lockDelta", "locked", "reapply"}

(* Outside of a commit the unconfirmed state is based on the last commit,   *)
(* and no transaction waits for validation: a transaction is added without  *)
(* validation only when "a block update is forthcoming".                    *)
UnconfirmedCurrent ==
    ~committing =>
        /\ \A s \in Subs : unconfirmed.base[s] = m_cache[s] /\ ~isOutdated(unconfirmed, s)
        /\ \A tx \in Txs : m_transactionsCache[tx] # "unvalidated"

(* No thread waits forever, whatever locks the others hold: every call of   *)
(* sync, update, harvest and createView ends.  The calls are bounded, so    *)
(* they all end if and only if the threads come to rest again and again.    *)
CallsReturn == []<>(\A t \in Threads : pc[t] = "idle")
=============================================================================
