---- MODULE ChainSync ----
(***************************************************************************)
(* How a node follows its peers: the chain synchronizer task               *)
(* (ChainSynchronizer, CompareChains), the block dispatcher it feeds, the  *)
(* blockchain sync consumer that rewrites the local chain                  *)
(* (BlockchainCheckConsumer, BlockchainSyncConsumer) and the completion    *)
(* callbacks that come back to the synchronizer.                           *)
(*                                                                         *)
(* Three threads share state: the scheduler runs one synchronization at a  *)
(* time and waits for a peer's answer between two of its steps, the        *)
(* consumer thread takes the ranges in order, and the last consumer runs   *)
(* the callbacks.  Finalization stores proofs at any moment, and peers     *)
(* change their chains between two answers.  The dispatcher is what        *)
(* DispatcherService promises: ranges are accepted while there is room,    *)
(* consumed and completed in order.  A chain is the sequence of the hashes *)
(* of its blocks, the nemesis block at height 1; a block counts one byte.  *)
(***************************************************************************)
EXTENDS Integers, Sequences, FiniteSetsExt, Functions

CONSTANTS
  Peers, Chains, Weight,     \* peers, the chains they may be on, the score of a block
  HashesPerBatch, MaxBlocks, \* MaxHashesPerSyncAttempt, MaxBlocksPerSyncAttempt
  SlotCount,                 \* ranges the dispatcher holds
  IdCount,                   \* element ids are counted modulo IdCount
  Plans                      \* environments: see plan

ASSUME SyncAssumption ==
  /\ {HashesPerBatch, MaxBlocks, SlotCount} \subseteq Nat \ {0}
  /\ IdCount \in Nat /\ IdCount > SlotCount

Blocks == DOMAIN Weight
Pairs == Nat \X Blocks       \* HeightHashPair
Proofs == [epoch : Nat, pair : Pairs]

OnChain(c, pair) == pair[1] \in 1..Len(c) /\ c[pair[1]] = pair[2]

\* a block has one height and one parent
ASSUME ChainsAssumption ==
  \A c \in Chains :
     /\ c \in Seq(Blocks)
     /\ \A d \in Chains : \A i \in 1..Len(c), j \in 1..Len(d) :
           c[i] = d[j] => i = j /\ \A k \in 1..i : c[k] = d[k]

\* the proofs of a plan are about blocks of one chain, in the order of their heights:
\* this is what the finalization protocol promises (see Finality).  An epoch has one
\* or several, and none is left out (saveProof); the nemesis block is epoch 1.
ASSUME PlansAssumption ==
  \A q \in Plans :
     /\ \E c \in Chains : Len(q.local) \in 1..Len(c) /\ q.local = SubSeq(c, 1, Len(q.local))
     /\ \A c \in Chains : OnChain(c, <<1, q.local[1]>>)
     /\ \A p \in Peers : q.remotes[p] \in Seq(Seq(Blocks)) /\ q.remotes[p] /= <<>>
     /\ q.proofs \in Seq(Proofs)
     /\ \A i, j \in 1..Len(q.proofs) : i < j =>
           /\ q.proofs[i].pair[1] < q.proofs[j].pair[1]
           /\ \A c \in Chains : OnChain(c, q.proofs[j].pair) => OnChain(c, q.proofs[i].pair)
     /\ \A i \in 1..Len(q.proofs) : q.proofs[i].pair[1] > 1
     /\ \A i \in 1..Len(q.proofs) :
           q.proofs[i].epoch \in IF i = 1 THEN {2} ELSE {q.proofs[i - 1].epoch, q.proofs[i - 1].epoch + 1}

VARIABLES
  chain,       \* block storage of the node
  lastFinalizedHeight, \* of the cache: heights up to it are pruned
  proofs,      \* of each epoch, the height hash pair of the last finalization proof
  elements, numBytes, hasPendingSync, dirty, \* UnprocessedElements
  syn,         \* the synchronization in progress
  queue,       \* the dispatcher: ranges accepted and not completed
  consumed,    \* how many of them the sync consumer has left behind
  con,         \* the sync consumer: finalized pairs it has read
  lastId,      \* id of the last accepted range
  plan,        \* the environment of this behaviour: the initial chain (local), the chains each
               \* peer adopts one after the other (remotes), the proofs, ranges other sources
               \* put into the dispatcher (pushes), and a bound on failing answers (failures)
  env          \* how much of the plan has happened

unprocessed == <<elements, numBytes, hasPendingSync, dirty>>
dispatcher == <<queue, consumed, lastId>>
storage == <<chain, lastFinalizedHeight>>
vars == <<chain, lastFinalizedHeight, proofs, elements, numBytes, hasPendingSync, dirty,
          syn, queue, consumed, con, lastId, plan, env>>

-----------------------------------------------------------------------------
(* Chains *)

Score(c) == SumFunction([i \in DOMAIN c |-> Weight[c[i]]])

Last(s) == s[Len(s)]

\* how many blocks two sequences have in common, from the first on
CommonLength(s, t) ==
  Max({0} \cup {n \in 1..Min({Len(s), Len(t)}) : \A i \in 1..n : s[i] = t[i]})

\* hashes or blocks of a chain: nothing when the height is unavailable
From(c, height, n) ==
  IF height \in 1..Len(c) THEN SubSeq(c, height, Min({height + n - 1, Len(c)})) ELSE <<>>

\* the hash of a block commits to all of its ancestors: the blocks of a range are
\* linked to each other, and to a parent, when one chain holds them in a row
IsLinkedRange(first, blocks) ==
  \E c \in Chains : \E last \in first..Len(c) : blocks = SubSeq(c, first, last)

IsLinkedTo(parent, first, blocks) ==
  \E c \in Chains : \E last \in first..Len(c) : blocks = SubSeq(c, first, last) /\ c[first - 1] = parent

remote(p) == plan.remotes[p][env.adopted[p]]

\* reverse search through the epochs for a proof whose block is on the local chain
IsLocalFinalized(i) ==
  /\ i \in 1..Len(proofs)
  /\ OnChain(chain, proofs[i])
  /\ \A j \in i + 1..Len(proofs) : ~OnChain(chain, proofs[j])

LocalFinalizedHeight == proofs[CHOOSE i \in 1..Len(proofs) : IsLocalFinalized(i)][1]

-----------------------------------------------------------------------------
(* UnprocessedElements *)

hasPendingOperation(bytes, pending) == bytes /= 0 \/ pending

shouldStartSync == numBytes < 3 * MaxBlocks /\ ~hasPendingSync /\ ~dirty

\* the end of the ranges that are still being processed
maxHeight == IF elements = <<>> THEN 0 ELSE Last(elements).end

NextId == IF lastId = IdCount THEN 1 ELSE lastId + 1

\* ConsumerDispatcher::processElement: a range waits for the sync consumer
Dispatch(first, blocks, source, callback) ==
  /\ lastId' = NextId
  /\ queue' = Append(queue, [id |-> NextId, first |-> first, blocks |-> blocks, source |-> source,
                             callback |-> callback, status |-> "Normal"])

\* mutants: a refused range is recorded; a range is added in spite of m_dirty
MutantAdd(first, blocks) ==
  /\ UNCHANGED <<hasPendingSync, dirty, consumed>>
  /\ IF dirty \/ Len(queue) = SlotCount THEN UNCHANGED <<queue, lastId>>
     ELSE Dispatch(first, blocks, "pull", TRUE)
  /\ elements' = Append(elements, [id |-> NextId, end |-> first + Len(blocks) - 1, bytes |-> Len(blocks)])
  /\ numBytes' = numBytes + Len(blocks)

MutantAddDirty(first, blocks) ==
  /\ UNCHANGED <<hasPendingSync, dirty, consumed>>
  /\ IF Len(queue) = SlotCount
     THEN UNCHANGED <<elements, numBytes, queue, lastId>>
     ELSE /\ Dispatch(first, blocks, "pull", TRUE)
          /\ elements' = Append(elements, [id |-> NextId, end |-> first + Len(blocks) - 1, bytes |-> Len(blocks)])
          /\ numBytes' = numBytes + Len(blocks)

\* the range is dispatched under the spin lock, so that its callback cannot run
\* before the element is recorded
add(first, blocks) ==
  /\ UNCHANGED <<hasPendingSync, dirty, consumed>>
  /\ IF dirty \/ Len(queue) = SlotCount
     THEN UNCHANGED <<elements, numBytes, queue, lastId>>
     ELSE /\ Dispatch(first, blocks, "pull", TRUE)
          /\ elements' = Append(elements, [id |-> NextId, end |-> first + Len(blocks) - 1, bytes |-> Len(blocks)])
          /\ numBytes' = numBytes + Len(blocks)

\* an element that is not at the front is an exception on the consumer thread
remove(id, status) ==
  IF elements = <<>> \/ Head(elements).id /= id
  THEN con' = [con EXCEPT !.pc = "thrown"] /\ UNCHANGED unprocessed
  ELSE /\ elements' = Tail(elements)
       /\ numBytes' = numBytes - Head(elements).bytes
       /\ dirty' = (hasPendingOperation(numBytes', hasPendingSync) /\ status /= "Normal")
       /\ UNCHANGED <<hasPendingSync, con>>

clearPendingSync ==
  /\ hasPendingSync' = FALSE
  /\ dirty' = (dirty /\ hasPendingOperation(numBytes, FALSE))
  /\ UNCHANGED <<elements, numBytes>>

-----------------------------------------------------------------------------
(* DefaultChainSynchronizer *)

NoSync ==
  [pc |-> "idle", peer |-> "none", code |-> "none", origin |-> <<>>,
   lower |-> 0, upper |-> 0, start |-> 0, local |-> <<>>, localHeight |-> 0, remoteHeight |-> 0, score |-> 0,
   height |-> 0, forkDepth |-> 0, blocks |-> <<>>, base |-> 0, orphan |-> FALSE]

StartSync(p) ==
  /\ syn.pc = "idle"
  /\ shouldStartSync
  /\ hasPendingSync' = TRUE
  /\ syn' = [NoSync EXCEPT !.pc = "check", !.peer = p]
  /\ UNCHANGED <<storage, proofs, elements, numBytes, dirty, dispatcher, con, plan, env>>

syncOnly == UNCHANGED <<storage, proofs, unprocessed, dispatcher, con, plan, env>>

\* empty() and maxHeight() take the spin lock one after the other
CheckEmpty ==
  /\ syn.pc = "check"
  /\ syn' = IF numBytes = 0
            THEN [syn EXCEPT !.pc = "Statistics", !.lower = LocalFinalizedHeight, !.start = LocalFinalizedHeight,
                             !.local = chain, !.origin = <<chain, remote(syn.peer), proofs>>]
            ELSE [syn EXCEPT !.pc = "bypass"]
  /\ syncOnly


StartPull(commonBlockHeight, forkDepth, base) ==
  [NoSync EXCEPT !.pc = "pull", !.peer = syn.peer, !.height = commonBlockHeight + 1,
                 !.forkDepth = forkDepth, !.base = base]

BypassComparison ==
  /\ syn.pc = "bypass"
  /\ syn' = StartPull(maxHeight, 0, IF elements = <<>> THEN 0 ELSE Last(elements).id)
  /\ syncOnly

Finished(code) ==
  [NoSync EXCEPT !.pc = "clear", !.peer = syn.peer, !.code = code, !.origin = syn.origin]

-----------------------------------------------------------------------------
(* CompareChainsContext: the local half of a stage is read when the stage    *)
(* starts (syn.local), the remote half when the peer answers                 *)

CompareChainStatistics ==
  LET r == remote(syn.peer) IN
  /\ syn.pc = "Statistics"
  /\ syn' = IF Len(r) <= LocalFinalizedHeight THEN Finished("Remote_Is_Too_Far_Behind")
            ELSE IF Score(r) > Score(syn.local)
            THEN [syn EXCEPT !.pc = "Hashes_First", !.local = chain, !.score = Score(syn.local),
                             !.localHeight = Len(syn.local), !.remoteHeight = Len(r), !.upper = Len(syn.local)]
            ELSE Finished(IF Score(r) = Score(syn.local) THEN "Remote_Reported_Equal_Chain_Score"
                          ELSE "Remote_Reported_Lower_Chain_Score")
  /\ syncOnly

\* mutant: the stage is not advanced
MutantTryContinue(lower, upper, nextStart) ==
  IF syn.start = nextStart THEN Finished("Remote_Lied_About_Chain_Score")
  ELSE [syn EXCEPT !.local = chain, !.lower = lower, !.upper = upper, !.start = nextStart]

tryContinue(lower, upper, nextStart) ==
  IF syn.start = nextStart THEN Finished("Remote_Lied_About_Chain_Score")
  ELSE [syn EXCEPT !.pc = "Hashes_Next", !.local = chain, !.lower = lower, !.upper = upper, !.start = nextStart]

\* the result of comparing a batch of hashes
CompareBatch(localHashes, remoteHashes) ==
  LET firstDifference == CommonLength(localHashes, remoteHashes)
      derivedHeight == syn.start + Min({Len(localHashes), Len(remoteHashes)}) - 1
  IN IF localHashes = <<>> THEN Finished("exception")
     ELSE IF remoteHashes = <<>> THEN Finished("Remote_Returned_Too_Many_Hashes")
     ELSE IF firstDifference = 0
     THEN IF syn.pc = "Hashes_First" THEN Finished("Remote_Is_Forked")
          ELSE tryContinue(syn.lower, syn.start, (syn.lower + syn.start) \div 2)
     ELSE IF firstDifference < Len(remoteHashes)
     THEN LET common == syn.start + firstDifference - 1
          IN StartPull(common, Max({derivedHeight, syn.localHeight}) - common, 0)
     ELSE IF derivedHeight < syn.localHeight
     THEN tryContinue(syn.start, syn.upper, (syn.start + syn.upper) \div 2)
     ELSE IF derivedHeight < syn.remoteHeight
     THEN tryContinue(syn.lower, syn.upper, derivedHeight - 1)
     ELSE [syn EXCEPT !.pc = "Score_Local", !.local = chain]

CompareHashes ==
  /\ syn.pc \in {"Hashes_First", "Hashes_Next"}
  /\ syn' = CompareBatch(From(syn.local, syn.start, HashesPerBatch),
                         From(remote(syn.peer), syn.start, HashesPerBatch))
  /\ syncOnly

CompareLocalScore ==
  /\ syn.pc = "Score_Local"
  /\ syn' = Finished(IF Score(syn.local) > syn.score THEN "Local_Score_Updated" ELSE "Remote_Lied_About_Chain_Score")
  /\ syncOnly

-----------------------------------------------------------------------------
(* ChainBlocksFrom *)

ChainBlocksFrom ==
  LET range == From(remote(syn.peer), syn.height, MaxBlocks)
      blocks == syn.blocks \o range
  IN /\ syn.pc = "pull"
     /\ IF range /= <<>> /\ Len(blocks) < syn.forkDepth
        THEN /\ syn' = [syn EXCEPT !.height = syn.height + Len(range), !.blocks = blocks]
             /\ UNCHANGED <<unprocessed, dispatcher>>
        ELSE /\ syn' = [syn EXCEPT !.pc = "clear", !.blocks = <<>>]
             /\ IF blocks = <<>> THEN UNCHANGED <<unprocessed, dispatcher>>
                ELSE add(syn.height - Len(syn.blocks), blocks)
     /\ UNCHANGED <<storage, proofs, con, plan, env>>

\* an answer that does not come or does not parse ends the synchronization
RemoteFails ==
  /\ syn.pc \in {"Statistics", "Hashes_First", "Hashes_Next", "pull"}
  /\ env.failed < plan.failures
  /\ syn' = Finished("exception")
  /\ env' = [env EXCEPT !.failed = @ + 1]
  /\ UNCHANGED <<storage, proofs, unprocessed, dispatcher, con, plan>>

ClearPendingSync ==
  /\ syn.pc = "clear"
  /\ clearPendingSync
  /\ syn' = NoSync
  /\ UNCHANGED <<storage, proofs, dispatcher, con, plan, env>>

-----------------------------------------------------------------------------
(* The consumers of the dispatcher *)

NoPairs == [pc |-> "idle", local |-> <<>>, network |-> <<>>]

Current == queue[consumed + 1]

Leave(status) ==
  /\ queue' = [queue EXCEPT ![consumed + 1].status = status]
  /\ consumed' = consumed + 1
  /\ con' = NoPairs
  /\ UNCHANGED lastId

\* BlockchainCheckConsumer
CheckRange ==
  /\ con.pc = "idle" /\ consumed < Len(queue)
  /\ ~IsLinkedRange(Current.first, Current.blocks)
  /\ Leave("Aborted")
  /\ UNCHANGED <<storage, proofs, unprocessed, syn, plan, env>>

\* BlockchainSyncConsumer reads the two finalized pairs one after the other,
\* before it takes a view of the storage
ReadLocalFinalized ==
  /\ con.pc = "idle" /\ consumed < Len(queue)
  /\ IsLinkedRange(Current.first, Current.blocks)
  /\ \E i \in 1..Len(proofs) :
        IsLocalFinalized(i) /\ con' = [con EXCEPT !.pc = "network", !.local = proofs[i]]
  /\ UNCHANGED <<storage, proofs, unprocessed, syn, dispatcher, plan, env>>

ReadNetworkFinalized ==
  /\ con.pc = "network"
  /\ con' = [con EXCEPT !.pc = "sync", !.network = Last(proofs)]
  /\ UNCHANGED <<storage, proofs, unprocessed, syn, dispatcher, plan, env>>

IsLinked(peerStartHeight, localChainHeight, source) ==
  /\ peerStartHeight \in 2..localChainHeight + 1
  /\ source = "pull" \/ localChainHeight <= peerStartHeight

InRange(first, blocks, pair) ==
  pair[1] \in first..first + Len(blocks) - 1 /\ blocks[pair[1] - first + 1] = pair[2]

\* unwindLocalChain: the score of the blocks that give way to the range
UnwoundScore(first) == Score(SubSeq(chain, first, Len(chain)))

\* mutant: a range may start at the local finalized height
MutantIsAccepted(first, blocks, source) ==
  LET isFinalizedBlockUpdate == ~OnChain(chain, con.network) /\ InRange(first, blocks, con.network)
  IN /\ IsLinked(first, Len(chain), source)
     /\ first >= con.local[1] \/ isFinalizedBlockUpdate
     /\ Score(blocks) > UnwoundScore(first) \/ isFinalizedBlockUpdate
     /\ IsLinkedTo(chain[first - 1], first, blocks)

\* preprocess, and the link of the first block that process checks
IsAccepted(first, blocks, source) ==
  LET isFinalizedBlockUpdate == ~OnChain(chain, con.network) /\ InRange(first, blocks, con.network)
  IN /\ IsLinked(first, Len(chain), source)
     /\ first > con.local[1] \/ isFinalizedBlockUpdate
     /\ Score(blocks) > UnwoundScore(first) \/ isFinalizedBlockUpdate
     /\ IsLinkedTo(chain[first - 1], first, blocks)

\* the peer chain replaces the unwound blocks, and the heights up to the local
\* finalized height are pruned
commitAll(first, blocks) ==
  /\ chain' = SubSeq(chain, 1, first - 1) \o blocks
  /\ lastFinalizedHeight' = con.local[1]

Sync ==
  /\ con.pc = "sync"
  /\ IF IsAccepted(Current.first, Current.blocks, Current.source)
     THEN commitAll(Current.first, Current.blocks) /\ Leave("Normal")
     ELSE Leave("Aborted") /\ UNCHANGED storage
  /\ UNCHANGED <<proofs, unprocessed, syn, plan, env>>

\* advance of the last consumer: the completion callback
Complete ==
  LET e == Head(queue) IN
  /\ consumed > 0 /\ con.pc /= "thrown"
  /\ queue' = Tail(queue) /\ consumed' = consumed - 1
  /\ IF e.callback
     THEN /\ remove(e.id, e.status)
          /\ syn' = [syn EXCEPT !.orphan = @ \/ (syn.base = e.id /\ e.status = "Aborted")]
     ELSE UNCHANGED <<unprocessed, con, syn>>
  /\ UNCHANGED <<storage, proofs, lastId, plan, env>>

-----------------------------------------------------------------------------
(* The environment *)

PeerAdopts(p) ==
  /\ env.adopted[p] < Len(plan.remotes[p])
  /\ env' = [env EXCEPT !.adopted[p] = @ + 1]
  /\ UNCHANGED <<storage, proofs, unprocessed, syn, dispatcher, con, plan>>

\* the database holds one proof for an epoch
saveProof(epoch, pair) ==
  IF epoch = Len(proofs) THEN [proofs EXCEPT ![epoch] = pair] ELSE Append(proofs, pair)

StoreProof ==
  LET proof == plan.proofs[env.proved + 1] IN
  /\ env.proved < Len(plan.proofs)
  /\ env' = [env EXCEPT !.proved = @ + 1]
  /\ proofs' = saveProof(proof.epoch, proof.pair)
  /\ UNCHANGED <<storage, unprocessed, syn, dispatcher, con, plan>>

\* a block pushed by a peer, a harvested block, or the blocks a finalization
\* proof is about, when the node keeps them and they are not on its chain
PushRange ==
  LET range == plan.pushes[env.pushed + 1] IN
  /\ env.pushed < Len(plan.pushes)
  /\ env' = [env EXCEPT !.pushed = @ + 1]
  /\ IF Len(queue) = SlotCount THEN UNCHANGED <<queue, lastId>>
     ELSE Dispatch(range.first, range.blocks, range.source, FALSE)
  /\ UNCHANGED <<storage, proofs, unprocessed, syn, consumed, con, plan>>

-----------------------------------------------------------------------------

Init ==
  /\ plan \in Plans
  /\ env = [adopted |-> [p \in Peers |-> 1], proved |-> 0, pushed |-> 0, failed |-> 0]
  /\ chain = plan.local
  /\ lastFinalizedHeight = 1
  /\ proofs = <<<<1, plan.local[1]>>>>
  /\ elements = <<>> /\ numBytes = 0 /\ hasPendingSync = FALSE /\ dirty = FALSE
  /\ syn = NoSync
  /\ queue = <<>> /\ consumed = 0 /\ lastId = 0
  /\ con = NoPairs

SyncStep ==
  \/ CheckEmpty \/ BypassComparison
  \/ CompareChainStatistics \/ CompareHashes \/ CompareLocalScore
  \/ ChainBlocksFrom \/ ClearPendingSync

ConsumerStep == CheckRange \/ ReadLocalFinalized \/ ReadNetworkFinalized \/ Sync

Next ==
  \/ \E p \in Peers : StartSync(p) \/ PeerAdopts(p)
  \/ SyncStep \/ RemoteFails
  \/ ConsumerStep \/ Complete
  \/ StoreProof \/ PushRange

Spec == Init /\ [][Next]_vars

\* The threads run and peers answer.  Peers are selected at random, so every one is
\* selected again and again at moments when none of the node's ranges is in flight.
FairSpec ==
  /\ Spec
  /\ WF_vars(SyncStep) /\ WF_vars(ConsumerStep) /\ WF_vars(Complete)
  /\ \A p \in Peers : SF_vars(StartSync(p) /\ numBytes = 0)

-----------------------------------------------------------------------------
(* Properties *)

Element(e) == [id |-> e.id, end |-> e.first + Len(e.blocks) - 1, bytes |-> Len(e.blocks)]

\* The synchronizer's book-keeping agrees with the dispatcher between any two
\* steps: it holds exactly its own ranges that are not completed, in order, and
\* their bytes, so that a callback (remove) always finds its element at the front.
UnprocessedExact ==
  LET own == {k \in 1..Len(queue) : queue[k].callback}
      n == Len(elements)
  IN /\ con.pc /= "thrown"
     /\ \E at \in [1..n -> own] :
           /\ own = {at[i] : i \in 1..n} /\ \A i, j \in 1..n : i < j => at[i] < at[j]
           /\ \A i \in 1..n : elements[i] = Element(queue[at[i]])
     /\ numBytes = SumFunctionOnSet([i \in 1..n |-> elements[i].bytes], 1..n)

\* A range pulled without a chain comparison continues the last range in flight.
\* If that one is aborted while the pull waits for the peer, m_dirty keeps the
\* new range out of the dispatcher.
NoOrphanRange == [][Len(elements') > Len(elements) => ~syn.orphan]_vars

\* the proof of the block the cache is pruned up to is the last one of its epoch
StillProved == \E e \in 1..Len(proofs) : proofs[e][1] = lastFinalizedHeight

\* commitAll prunes the data needed to undo blocks up to the local finalized
\* height, which preprocess reads before it takes the storage view.  Whatever
\* proofs arrive in between, and also when a finalized block is patched in by a
\* range that starts below, those blocks are never replaced by others, as long
\* as no later proof of the same epoch has overwritten the proof.
PrunedNeverReplaced ==
  [][StillProved =>
       /\ lastFinalizedHeight' >= lastFinalizedHeight
       /\ SubSeq(chain', 1, lastFinalizedHeight) = SubSeq(chain, 1, lastFinalizedHeight)]_vars

\* "The latest finalized block is the most recent block that has been made permanent
\* and will never be rolled back": blocks up to the height the node itself has taken
\* for final, in an earlier commit, are not unwound by a later one.
FinalizedNeverRolledBack ==
  [][SubSeq(chain', 1, lastFinalizedHeight) = SubSeq(chain, 1, lastFinalizedHeight)]_vars

Blame == {"Remote_Is_Too_Far_Behind", "Remote_Returned_Too_Many_Hashes", "Remote_Is_Forked",
          "Remote_Lied_About_Chain_Score"}

HoldsLocalFinalized(c) == \A i \in 1..Len(proofs) : IsLocalFinalized(i) => OnChain(c, proofs[i])

\* The search for the common block (compareHashes, tryContinue) never ends in a
\* failure for a peer that has a better chain with the locally finalized block
\* on it, as long as the chains and the proofs stayed the same during the comparison.
BetterPeerNotBlamed ==
  /\ syn.code \in Blame
  /\ syn.origin = <<chain, remote(syn.peer), proofs>>
  => ~(Score(remote(syn.peer)) > Score(chain) /\ HoldsLocalFinalized(remote(syn.peer)))

\* a pull answers for at least the fork depth, in whole batches
PulledScoreBetter(c) ==
  LET common == CommonLength(chain, c)
      forkDepth == Max({1, Len(chain) - common})
      batches == (forkDepth + MaxBlocks - 1) \div MaxBlocks
  IN Score(From(c, common + 1, batches * MaxBlocks)) > Score(SubSeq(chain, common + 1, Len(chain)))

====
