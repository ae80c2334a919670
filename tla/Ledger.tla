------------------------------- MODULE Ledger -------------------------------
(* The state of one node as its chain grows, forks and is finalized. Peers    *)
(* harvest blocks; a peer's own state has the same chain but another past:    *)
(* it rolled nothing back and pruned at other times. The node undoes the      *)
(* blocks of a fork, processes the peer's block on top of the common one,     *)
(* prunes what was finalized since and commits (BlockchainSyncConsumer with   *)
(* BlockchainProcessor). What a block may hold comes from a plan.             *)
EXTENDS Harvesting

CONSTANTS
    Plans,            \* set of [unconfirmed, signers, beneficiaries, strategies,
                      \*   maxHeight, maxForks]; unconfirmed is the set of what a
                      \*   harvester's unconfirmed cache may hold, oldest first
    NemesisBalances,  \* address -> mosaic -> amount
    NemesisMosaics    \* mosaic -> its entry

VARIABLES
    plan,             \* what this behaviour may do
    chain,            \* blocks, chain[1] is the nemesis block
    state,            \* the cache of the node
    LastFinalizedHeight,
    forks,            \* blocks undone so far
    lastResult,       \* of the last range processed
    irregular,        \* history: some block processed so far was irregular
    canon             \* history: canon[h] is the state after block h on a node
                      \*   that never rolled back and never pruned

vars == <<plan, chain, state, LastFinalizedHeight, forks, lastResult, irregular, canon>>

NemesisAccount(balances) == [NewAccount(1) EXCEPT !.PublicKeyHeight = 1, !.Balances = balances]

NemesisState ==
    [accounts |-> [a \in DOMAIN NemesisBalances |-> NemesisAccount(NemesisBalances[a])],
     keyToAddress |-> DOMAIN NemesisBalances,
     queuedRemoveByAddress |-> {}, queuedRemoveByPublicKey |-> {},
     statistics |-> 1 :> 0, DynamicFeeMultiplier |-> DefaultDynamicFeeMultiplier,
     namespaces |-> EmptyNamespaceCache, hashLocks |-> EmptyLockCache, secretLocks |-> EmptyLockCache,
     mosaics |-> NemesisMosaics,
     multisig |-> EmptyMap, restrictions |-> EmptyMap, mosaicRestrictions |-> EmptyMap, metadata |-> EmptyMap,
     hashes |-> {},
     tree |-> [cache \in DOMAIN NothingTouched |-> EmptyMap],
     touched |-> NothingTouched, thrown |-> FALSE]

NemesisBlock == [Height |-> 1, Transactions |-> <<>>]

Init ==
    /\ plan \in Plans
    /\ chain = <<NemesisBlock>>
    /\ state = NemesisState
    /\ LastFinalizedHeight = 1
    /\ forks = 0
    /\ lastResult = "None"
    /\ irregular = FALSE
    /\ canon = <<NemesisState>>

(* UndoBlock for the blocks above the common one, newest first.               *)
Unwind(s, height) ==
    FoldLeft(LAMBDA t, block : IF t.thrown THEN t ELSE RollbackBlock(t, block), s, Reverse(SubSeq(chain, height + 1, Len(chain))))

(* The blocks a peer may harvest on the block at a height, each with the      *)
(* state hash the peer gives it. The peer has pruned nothing or all it can.   *)
HarvestedBlocks(common) ==
    LET peers == {PruneRange(canon[common], 2, peerFinalizedHeight) : peerFinalizedHeight \in {1, common}}
        supplied == {SupplyTransactions(strategy, CreateFacade(peer, common), ut) :
                       peer \in peers, strategy \in plan.strategies, ut \in plan.unconfirmed}
    IN  {harvested \in {GenerateBlock(transactions, signer, beneficiary) :
                           transactions \in supplied, signer \in plan.signers,
                           beneficiary \in plan.beneficiaries} :
           harvested.success}

(* Three things a block may do make the state depend on more than the chain,  *)
(* and the properties leave them out. It may use the alias of a namespace     *)
(* that has expired, which resolves only where the namespace is not pruned.   *)
(* And it may lock an identifier again at the height at which the last lock   *)
(* of that identifier ends, or with the same end height as an earlier lock.   *)
(* And it may link a remote account that was known by its address, which is   *)
(* left Remote_Unlinked when the link is undone.                              *)
UsesExpiredAlias(s, block) ==
    \E i \in DOMAIN block.Transactions :
        LET tx == TransactionsByHash[block.Transactions[i]]
        IN  \E id \in NamespaceIds \cap {tx[field] : field \in {"Recipient", "MosaicId"} \cap DOMAIN tx} :
               namespaces_contains(s, id) /\ ~isActive(root_(s, id), block.Height)

LocksAgain(old, new, height) ==
    \E id \in DOMAIN new : \E i, j \in DOMAIN new[id] :
        /\ i < j
        /\ \/ new[id][i].EndHeight = new[id][j].EndHeight
           \/ /\ new[id][i].EndHeight = height
              /\ id \in DOMAIN old => j > Len(old[id])

LinksKnownAddress(executed) ==
    \E address \in DOMAIN executed.accounts :
        /\ IsRemote(executed, address)
        /\ executed.accounts[address].AddressHeight < executed.accounts[address].PublicKeyHeight

IsIrregular(parent, executed, block) ==
    \/ UsesExpiredAlias(parent, block)
    \/ LocksAgain(parent.hashLocks.set, executed.hashLocks.set, block.Height)
    \/ LocksAgain(parent.secretLocks.set, executed.secretLocks.set, block.Height)
    \/ LinksKnownAddress(executed)

(* BlockchainSyncConsumer: the blocks above the common one are undone, the    *)
(* peer's block is processed, what is finalized since is pruned, and the      *)
(* delta is committed; on a failure the delta is dropped.                     *)
Commit(common, unwound, harvested) ==
    \E processed \in {ProcessBlock(unwound, harvested.block, harvested.StateHash)},
       executed \in {updateMerkleRoots(ExecuteBlock(canon[common], harvested.block), common + 1)} :
        /\ lastResult' = IF harvested.thrown THEN "Exception" ELSE processed.result
        /\ irregular' = (irregular \/ IsIrregular(canon[common], executed, harvested.block))
        /\ IF lastResult' # "Success"
           THEN UNCHANGED <<chain, state, LastFinalizedHeight, forks, canon>>
           ELSE /\ \E localFinalizedHeight \in LastFinalizedHeight .. common :
                      /\ state' = PruneRange(processed.s, LastFinalizedHeight + 1, localFinalizedHeight)
                      /\ LastFinalizedHeight' = localFinalizedHeight
                /\ chain' = Append(SubSeq(chain, 1, common), harvested.block)
                /\ forks' = forks + (Len(chain) - common)
                /\ canon' = Append(SubSeq(canon, 1, common), executed)

(* The node takes over the chain of a peer that harvested on a block of the   *)
(* node's chain; it never undoes a block that is finalized.                   *)
Sync(common) ==
    /\ ~irregular
    /\ common < plan.maxHeight
    /\ forks + (Len(chain) - common) <= plan.maxForks
    /\ \E unwound \in {updateMerkleRoots(Unwind(state, common), common)} :
          \E harvested \in HarvestedBlocks(common) : Commit(common, unwound, harvested)
    /\ UNCHANGED plan

Next == \E common \in LastFinalizedHeight .. Len(chain) : Sync(common)

Spec == Init /\ [][Next]_vars

(* ---- properties ---- *)

(* Properties with the condition ~irregular are about chains without the      *)
(* three kinds of blocks that IsIrregular names, for which the code itself    *)
(* makes the state depend on more than the chain.                             *)

(* The node's state is a function of its chain and of what is finalized: it   *)
(* does not depend on the forks it followed (RollbackBlock undoes exactly     *)
(* what ExecuteBlock did) nor on when it pruned, and no observer threw.       *)
PathIndependent ==
    ~irregular => state = PruneRange(Last(canon), 2, LastFinalizedHeight)

(* Every block a peer harvests on the node's chain is accepted: it validates  *)
(* and its state hash is the one the node computes, although the peer built   *)
(* it with other fees first, undid failed transactions and has another        *)
(* history of rollbacks and prunings.                                         *)
HarvestedBlockAccepted == ~irregular => lastResult \in {"None", "Success"}

Held(s, mosaicId) ==
    FoldSet(LAMBDA a, sum : sum + Balance(s, a, mosaicId), 0, DOMAIN s.accounts)

Locked(c, mosaicId, height) ==
    FoldSet(LAMBDA id, sum : sum + Last(c.set[id]).Amount, 0,
            {id \in DOMAIN c.set : isActiveLock(c, id, height) /\ Last(c.set[id]).MosaicId = mosaicId})

(* The supply of a mosaic is what the accounts hold and what is locked: no    *)
(* fee, reward, inflation, supply change, lock, refund or rollback of them    *)
(* makes or loses an amount.                                                  *)
SupplyConserved ==
    ~irregular => \A mosaicId \in DOMAIN state.mosaics :
        state.mosaics[mosaicId].supply =
            Held(state, mosaicId) + Locked(state.hashLocks, mosaicId, Len(chain))
                                  + Locked(state.secretLocks, mosaicId, Len(chain))


(* The flat map of namespaces and the counters saved with the cache agree     *)
(* with the histories.                                                        *)
NamespaceIndexExact ==
    LET c == state.namespaces
        roots == DOMAIN c.historyById
        current(id) == Last(c.historyById[id]).children
        Total(F(_)) == FoldSet(LAMBDA id, sum : sum + F(id), 0, roots)
    IN  /\ c.namespaceById = FoldSet(LAMBDA id, map : (id :> <<id>>) @@ PathsOf(current(id)) @@ map,
                                      EmptyMap, roots)
        /\ c.activeSize = Cardinality(DOMAIN c.namespaceById)
        /\ c.deepSize = Total(LAMBDA id : Len(c.historyById[id]) + NumAllHistoricalChildren(c.historyById[id]))


(* A main account and its remote account always name each other, so that a     *)
(* reward for the remote account is never lost in an exception, an account     *)
(* that is not linked names nobody, and the voting keys of an account follow   *)
(* each other without sharing an epoch.                                        *)
LinksMutual ==
    ~irregular => \A a \in DOMAIN state.accounts :
        LET account == state.accounts[a]
            Names(type) == account.linked \in DOMAIN state.accounts
                           /\ state.accounts[account.linked].linked = a
                           /\ state.accounts[account.linked].AccountType = type
        IN  /\ account.AccountType = "Main" => Names("Remote")
            /\ account.AccountType = "Remote" => Names("Main")
            /\ account.AccountType \in {"Unlinked", "Remote_Unlinked"} => account.linked = NoKey
            /\ \A i, j \in DOMAIN account.voting :
                  i < j => account.voting[i].EndEpoch < account.voting[j].StartEpoch
=============================================================================
