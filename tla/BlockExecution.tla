--------------------------- MODULE BlockExecution ---------------------------
(* How a block changes the state: every entity of the block is published as a *)
(* sequence of notifications, each notification is validated and then         *)
(* observed, and a block is undone by observing its notifications backwards   *)
(* in rollback mode (NotificationPublisher, BatchEntityProcessor,             *)
(* ProcessingNotificationSubscriber, BlockExecutor). The state hash of a      *)
(* block covers trees that only follow the entries touched since the last     *)
(* hash was taken (PatriciaTreeUtils).                                        *)
(*                                                                            *)
(* A block is a record of Height, Signer, Beneficiary, FeeMultiplier and      *)
(* Transactions, a sequence of hashes. s.hashes is the hash cache, s.tree     *)
(* maps the sub caches whose entries deactivate by height to the contents of  *)
(* their trees, s.touched to the entries touched since the last hash.         *)
EXTENDS Locks, AccountLinks, Multisig, Restrictions, Metadata, Bags

CONSTANTS
    TransactionsByHash,   \* hash -> transaction
    NamespaceFeeSink,     \* receives the rental fees
    RootFeePerBlock, ChildFee

(* ---- transaction plugins: what a transaction publishes ---- *)

PublishTransfer(tx) ==
    <<AccountAddress(tx.Recipient),
      AddressInteraction(tx, {tx.Recipient}),
      BalanceTransfer(tx.Signer, tx.Recipient, tx.MosaicId, tx.Amount, "Static")>>

PublishNamespaceRegistration(tx) ==
    LET rentalFee == IF tx.IsRoot THEN RootFeePerBlock * tx.Duration ELSE ChildFee
    IN  <<AccountAddress(NamespaceFeeSink),
          BalanceTransfer(tx.Signer, NamespaceFeeSink, CurrencyMosaicId, rentalFee, "Dynamic"),
          IF tx.IsRoot
          THEN [type |-> "RootNamespace", Owner |-> tx.Signer, NamespaceId |-> tx.Id,
                Duration |-> tx.Duration]
          ELSE [type |-> "ChildNamespace", Owner |-> tx.Signer, NamespaceId |-> tx.Id,
                ParentId |-> tx.ParentId]>>

PublishAlias(tx) ==
    <<[type |-> "NamespaceRequired", Owner |-> tx.Signer, NamespaceId |-> tx.NamespaceId],
      [type |-> "AliasLink", NamespaceId |-> tx.NamespaceId, AliasAction |-> tx.AliasAction],
      [type |-> "AliasedData", NamespaceId |-> tx.NamespaceId, AliasAction |-> tx.AliasAction,
       AliasedData |-> tx.AliasedData]>>

PublishEmbeddable(tx) ==
    CASE tx.Type = "Transfer"              -> PublishTransfer(tx)
      [] tx.Type = "HashLock"              -> PublishHashLock(tx)
      [] tx.Type = "SecretLock"            -> PublishSecretLock(tx)
      [] tx.Type = "SecretProof"           -> PublishSecretProof(tx)
      [] tx.Type = "NamespaceRegistration" -> PublishNamespaceRegistration(tx)
      [] tx.Type = "Alias"                 -> PublishAlias(tx)
      [] tx.Type = "MosaicDefinition"      -> PublishMosaicDefinition(tx)
      [] tx.Type = "MosaicSupplyChange"    -> PublishMosaicSupplyChange(tx)
      [] tx.Type = "MosaicSupplyRevocation" -> PublishMosaicSupplyRevocation(tx)
      [] tx.Type = "AccountKeyLink"        -> PublishAccountKeyLink(tx)
      [] tx.Type = "KeyLink"               -> PublishKeyLink(tx)
      [] tx.Type = "MultisigAccountModification" -> PublishMultisigAccountModification(tx)
      [] tx.Type \in {"AccountAddressRestriction", "AccountMosaicRestriction",
                      "AccountOperationRestriction"} -> PublishAccountRestriction(tx)
      [] tx.Type = "MosaicAddressRestriction" -> PublishMosaicAddressRestriction(tx)
      [] tx.Type = "MosaicGlobalRestriction"  -> PublishMosaicGlobalRestriction(tx)
      [] tx.Type = "Metadata"              -> PublishMetadata(tx)

IsAggregate(tx) == tx.Type \in {"AggregateComplete", "AggregateBonded"}

(* AggregateTransactionPlugin: all transactions and cosignatories, then for   *)
(* each embedded transaction its signer, the transaction and what it publishes *)
(* itself.                                                                    *)
PublishAggregate(tx) ==
    LET cosignatories == {tx.Signer} \cup tx.Cosignatures
        PublishEmbedded(embedded) ==
            <<AccountPublicKey(embedded.Signer),
              [type |-> "AggregateEmbeddedTransaction", Transaction |-> embedded,
               Cosignatories |-> cosignatories]>>
            \o PublishEmbeddable(embedded)
    IN  <<[type |-> "AggregateCosignatures", Embedded |-> tx.Embedded, Cosignatories |-> cosignatories]>>
        \o FlattenSeq([i \in DOMAIN tx.Embedded |-> PublishEmbedded(tx.Embedded[i])])

(* ---- NotificationPublisher ---- *)

CalculateTransactionFee(multiplier, hash) == multiplier * TransactionsByHash[hash].Size

PublishTransaction(hash, fee) ==
    LET tx == TransactionsByHash[hash]
    IN  <<AccountPublicKey(tx.Signer),
          [type |-> "Transaction", Sender |-> tx.Signer, TransactionHash |-> hash, TransactionType |-> tx.Type],
          [type |-> "TransactionFee", Fee |-> fee, MaxFee |-> tx.MaxFee]>>
        \o (IF IsAggregate(tx) THEN PublishAggregate(tx) ELSE PublishEmbeddable(tx))
        \o <<BalanceDebit(tx.Signer, CurrencyMosaicId, fee)>>

PublishBlock(block) ==
    <<AccountPublicKey(block.Signer)>>
    \o (IF block.Signer = block.Beneficiary THEN <<>> ELSE <<AccountAddress(block.Beneficiary)>>)
    \o <<[type |-> "Block", Harvester |-> block.Signer, Beneficiary |-> block.Beneficiary,
          FeeMultiplier |-> block.FeeMultiplier,
          TotalFee |-> FoldLeft(LAMBDA sum, hash :
                                   sum + CalculateTransactionFee(block.FeeMultiplier, hash),
                                0, block.Transactions)]>>

(* ExtractEntityInfos: the transactions in order, the block entity last.      *)
PublishEntities(block) ==
    FlattenSeq([i \in DOMAIN block.Transactions |->
                  PublishTransaction(block.Transactions[i],
                      CalculateTransactionFee(block.FeeMultiplier, block.Transactions[i]))])
    \o PublishBlock(block)

(* ---- validators and observers of a notification ---- *)

UniqueTransactionHashValidator(s, n) == n.TransactionHash \notin s.hashes

TransactionHashObserver(s, n, mode) ==
    [s EXCEPT !.hashes = IF mode = "Commit" THEN @ \cup {n.TransactionHash}
                                            ELSE @ \ {n.TransactionHash}]

AddressAliasValidator(s, n) ==
    n.AliasedData.type = "Address" => HasAccount(s, n.AliasedData.value)

BalanceTransferValidators(s, n, height) ==
    /\ BalanceValidator(s, n)
    /\ MosaicTransferValidator(s, n, height)
    /\ MaxMosaicsBalanceTransferValidator(s, n)
    /\ MosaicRecipientValidator(s, n)
    /\ MosaicRestrictionBalanceTransferValidator(s, n)

TransactionValidators(s, n, height) ==
    /\ UniqueTransactionHashValidator(s, n)
    /\ AggregateHashPresentValidator(s, n, height)
    /\ RemoteSenderValidator(s, n)
    /\ MultisigPermittedOperationValidator(s, n)
    /\ OperationRestrictionValidator(s, n)

MultisigCosignatoriesValidators(s, n) ==
    /\ MultisigCosignatoriesValidator(n)
    /\ MultisigInvalidCosignatoriesValidator(s, n)
    /\ MultisigMaxCosignatoriesValidator(s, n)

AccountRestrictionValueValidators(s, n) ==
    /\ AccountRestrictionValueModificationValidator(s, n)
    /\ AccountAddressRestrictionNoSelfModificationValidator(s, n)
    /\ AccountOperationRestrictionNoSelfBlockingValidator(s, n)

Validate(s, n, height) ==
    CASE n.type = "AccountAddress"     -> AddressValidator(s, n)
      [] n.type = "BalanceDebit"       -> BalanceValidator(s, n) /\ MosaicRestrictionBalanceDebitValidator(s, n)
      [] n.type = "BalanceTransfer"    -> BalanceTransferValidators(s, n, height)
      [] n.type = "AddressInteraction" -> RemoteInteractionValidator(s, n) /\ AddressInteractionValidator(s, n)
      [] n.type = "Transaction"        -> TransactionValidators(s, n, height)
      [] n.type = "TransactionFee"     -> TransactionFeeValidator(n)
      [] n.type = "Block"              -> EligibleHarvesterValidator(s, n)
      [] n.type = "AggregateCosignatures" -> MultisigAggregateEligibleCosignatoriesValidator(s, n)
      [] n.type = "AggregateEmbeddedTransaction" -> MultisigAggregateSufficientCosignatoriesValidator(s, n)
      [] n.type = "LockDuration"       -> LockDurationValidator(n)
      [] n.type = "HashLockMosaic"     -> HashLockMosaicValidator(s, n)
      [] n.type = "HashLock"           -> HashLockCacheUniqueValidator(s, n, height)
      [] n.type = "SecretLock"         -> SecretLockCacheUniqueValidator(s, n, height)
      [] n.type = "ProofSecret"        -> ProofSecretValidator(n)
      [] n.type = "ProofPublication"   -> ProofValidator(s, n, height)
      [] n.type = "RootNamespace"      -> /\ RootNamespaceValidator(n)
                                          /\ RootNamespaceAvailabilityValidator(s, n, height)
                                          /\ NamespaceDurationOverflowValidator(s, n, height)
      [] n.type = "ChildNamespace"     -> /\ ChildNamespaceAvailabilityValidator(s, n, height)
                                          /\ RootNamespaceMaxChildrenValidator(s, n)
      [] n.type = "NamespaceRequired"  -> RequiredNamespaceValidator(s, n, height)
      [] n.type = "AliasLink"          -> AliasAvailabilityValidator(s, n)
      [] n.type = "AliasedData"        -> /\ UnlinkAliasedDataConsistencyValidator(s, n)
                                          /\ AddressAliasValidator(s, n)
      [] n.type = "MosaicRequired"     -> RequiredMosaicValidator(s, n, height)
      [] n.type = "MosaicDefinition"   -> MosaicAvailabilityValidator(s, n, height) /\ MosaicDurationValidator(s, n)
      [] n.type = "MosaicSupplyChange" -> /\ MosaicSupplyChangeValidator(n)
                                          /\ MosaicSupplyChangeAllowedValidator(s, n)
                                          /\ MaxMosaicsSupplyChangeValidator(s, n)
      [] n.type = "NewRemoteAccount"   -> NewRemoteAccountAvailabilityValidator(s, n)
      [] n.type = "RemoteAccountKeyLink" -> AccountKeyLinkValidator(s, n)
      [] n.type = "KeyLink"            -> KeyLinkValidator(s, n)
      [] n.type = "VotingKeyLink"      -> VotingKeyLinkRangeValidator(n) /\ MultiKeyLinkValidator(s, n)
      [] n.type = "MultisigNewCosignatory" -> /\ MultisigLoopAndLevelValidator(s, n)
                                              /\ MultisigMaxCosignedAccountsValidator(s, n)
      [] n.type = "MultisigCosignatories" -> MultisigCosignatoriesValidators(s, n)
      [] n.type = "MultisigSettings"   -> MultisigInvalidSettingsValidator(s, n)
      [] n.type = "ModifyAccountRestrictions" -> /\ AccountRestrictionModificationPresentValidator(n)
                                                 /\ AccountRestrictionRedundantModificationValidator(s, n)
                                                 /\ MaxAccountRestrictionValuesValidator(s, n)
      [] n.type = "ModifyAccountRestrictionValue" -> AccountRestrictionValueValidators(s, n)
      [] n.type = "MosaicRestrictionType" -> MosaicRestrictionTypeValidator(n)
      [] n.type = "MosaicRestrictionRequired" -> MosaicRestrictionRequiredValidator(s, n)
      [] n.type = "MosaicRestrictionPreviousValue" -> MosaicRestrictionModificationValidator(s, n)
      [] n.type = "MosaicRestrictionNewValue" -> MosaicRestrictionMaxValuesValidator(s, n)
      [] n.type = "MetadataSizes"      -> MetadataSizesValidator(n)
      [] n.type = "MetadataValue"      -> MetadataValueValidator(s, n)
      [] OTHER                         -> TRUE

(* Observers of a block, last to first when the block is undone. The touch    *)
(* observers of the namespace plugin are part of Touch below.                 *)
BlockObservers(s, n, height, mode) ==
    LET HarvestFee(t) == HarvestFeeObserver(t, n, mode)
        ExpiredHashLocks(t) == ExpiredHashLockInfoObserver(t, n, height, mode)
        ExpiredSecretLocks(t) == ExpiredSecretLockInfoObserver(t, height, mode)
        Inflation(t) == MosaicSupplyInflationObserver(t, mode)
        BlockStatistic(t) == BlockStatisticObserver(t, n, height, mode)
    IN  IF mode = "Commit"
        THEN BlockStatistic(Inflation(ExpiredSecretLocks(ExpiredHashLocks(HarvestFee(s)))))
        ELSE HarvestFee(ExpiredHashLocks(ExpiredSecretLocks(Inflation(BlockStatistic(s)))))

ObserveNotification(s, n, height, mode) ==
    CASE n.type = "AccountAddress"   -> AccountAddressObserver(s, n, height, mode)
      [] n.type = "AccountPublicKey" -> AccountPublicKeyObserver(s, n, height, mode)
      [] n.type = "BalanceDebit"     -> BalanceDebitObserver(s, n, mode)
      [] n.type = "BalanceTransfer"  -> BalanceTransferObserver(s, n, mode)
      [] n.type = "Transaction"      ->
           CompletedAggregateObserver(TransactionHashObserver(s, n, mode), n, mode)
      [] n.type = "HashLock"         -> HashLockObserver(s, n, height, mode)
      [] n.type = "SecretLock"       -> SecretLockObserver(s, n, height, mode)
      [] n.type = "ProofPublication" -> ProofObserver(s, n, mode)
      [] n.type = "RootNamespace"    -> RootNamespaceObserver(s, n, height, mode)
      [] n.type = "ChildNamespace"   -> ChildNamespaceObserver(s, n, mode)
      [] n.type = "AliasedData"      -> AliasedDataObserver(s, n, mode)
      [] n.type = "MosaicDefinition" -> MosaicDefinitionObserver(s, n, height, mode)
      [] n.type = "MosaicSupplyChange" -> MosaicSupplyChangeObserver(s, n, mode)
      [] n.type = "RemoteAccountKeyLink" -> AccountKeyLinkObserver(s, n, mode)
      [] n.type = "KeyLink"          -> KeyLinkObserver(s, n, mode)
      [] n.type = "VotingKeyLink"    -> MultiKeyLinkObserver(s, n, mode)
      [] n.type = "MultisigCosignatories" -> MultisigCosignatoriesObserver(s, n, mode)
      [] n.type = "MultisigSettings" -> MultisigSettingsObserver(s, n, mode)
      [] n.type = "ModifyAccountRestrictionValue" -> AccountRestrictionValueModificationObserver(s, n, mode)
      [] n.type \in {"MosaicRestrictionPreviousValue", "MosaicRestrictionNewValue"} ->
           MosaicRestrictionModificationObserver(s, n, mode)
      [] n.type = "MetadataValue"    -> MetadataValueObserver(s, n, mode)
      [] n.type = "Block"            -> BlockObservers(s, n, height, mode)
      [] OTHER                       -> s

(* ---- state hash ---- *)

Histories(s) ==
    [namespaces  |-> s.namespaces.historyById,
     hashLocks   |-> s.hashLocks.set,
     secretLocks |-> s.secretLocks.set]

NothingTouched == [namespaces |-> {}, hashLocks |-> {}, secretLocks |-> {}]

(* The entries a block touches by height, in both modes: the namespaces whose *)
(* grace period starts or ends, the locks that expire.                        *)
TouchedNamespaces(s, n, height) ==
    IF n.type # "Block" THEN {}
    ELSE UNION {IdentifiersWithGroup(s.namespaces.historyById, s.namespaces.groups, h) :
                  h \in {height, height + GracePeriodDuration}}


TouchedLocks(c, n, height) ==
    IF n.type # "Block" THEN {} ELSE IdentifiersWithGroup(c.set, c.groups, height)

Changed(old, new) ==
    {id \in DOMAIN old \cup DOMAIN new :
        ~(id \in DOMAIN old /\ id \in DOMAIN new /\ old[id] = new[id])}

Touch(old, new, n, height) ==
    [new EXCEPT !.touched.namespaces =
                    @ \cup TouchedNamespaces(old, n, height)
                      \cup Changed(old.namespaces.historyById, new.namespaces.historyById),
                !.touched.hashLocks =
                    @ \cup TouchedLocks(old.hashLocks, n, height)
                      \cup Changed(old.hashLocks.set, new.hashLocks.set),
                !.touched.secretLocks =
                    @ \cup TouchedLocks(old.secretLocks, n, height)
                      \cup Changed(old.secretLocks.set, new.secretLocks.set)]

Observe(s, n, height, mode) == Touch(s, ObserveNotification(s, n, height, mode), n, height)

(* Only the last element of a history is hashed, and only while it is active. *)
IsActiveEntry(cache, history, height) ==
    IF cache = "namespaces" THEN isActive(Last(history), height)
    ELSE height < Last(history).EndHeight /\ Last(history).Status = "Unused"

ApplyDeltasToTree(tree, touched, cache, set, height) ==
    LET active == {id \in touched : id \in DOMAIN set /\ IsActiveEntry(cache, set[id], height)}
    IN  [id \in active |-> Last(set[id])] @@ Without(tree, touched)

updateMerkleRoots(s, height) ==
    LET Root(cache, set) == ApplyDeltasToTree(s.tree[cache], s.touched[cache], cache, set, height)
    IN  [s EXCEPT !.tree = [namespaces  |-> Root("namespaces", s.namespaces.historyById),
                            hashLocks   |-> Root("hashLocks", s.hashLocks.set),
                            secretLocks |-> Root("secretLocks", s.secretLocks.set)],
                  !.touched = NothingTouched]

(* calculateStateHash after updateMerkleRoots: what the hash covers.          *)
StateHash(s) ==
    [accounts |-> s.accounts, tree |-> s.tree, mosaics |-> s.mosaics, multisig |-> s.multisig,
     restrictions |-> s.restrictions, mosaicRestrictions |-> s.mosaicRestrictions, metadata |-> s.metadata]

(* ---- HarvestingObservers ---- *)

(* The harvester's observers count the accounts of the state before the       *)
(* observers of the block's execution run.                                    *)

CountAccount(accounts, account, mode) ==
    IF mode = "Commit" THEN accounts (+) SetToBag({account}) ELSE accounts (-) SetToBag({account})

HarvestingAccountAddressObserver(s, n, mode) ==
    [s EXCEPT !.affected.Addresses = CountAccount(@, ResolveAddress(s, n.Address), mode)]

HarvestingAccountPublicKeyObserver(s, n, height, mode) ==
    [s EXCEPT !.affected.PublicKeys = CountAccount(@, n.PublicKey, mode),
              !.affected.Addresses = CountAccount(@, n.PublicKey, mode),
              !.queuedRemoveByAddress = IF mode = "Commit" THEN @ ELSE @ \cup {<<height, n.PublicKey>>}]

FacadeObserve(s, n, height, mode) ==
    Observe(CASE n.type = "AccountAddress"   -> HarvestingAccountAddressObserver(s, n, mode)
              [] n.type = "AccountPublicKey" -> HarvestingAccountPublicKeyObserver(s, n, height, mode)
              [] OTHER                       -> s,
            n, height, mode)

ObserveWith(observer, s, n, height, mode) ==
    IF observer = "harvesting" THEN FacadeObserve(s, n, height, mode) ELSE Observe(s, n, height, mode)

(* ---- ProcessingNotificationSubscriber, BlockExecutor ---- *)

(* Each notification is validated on the state its predecessors left and then *)
(* observed; after the first failure nothing more is. An exception ends it.   *)
Notify(s, notifications, height, observer) ==
    LET After[i \in 0 .. Len(notifications)] ==
            IF i = 0 THEN [success |-> TRUE, s |-> s, observed |-> 0]
            ELSE LET sub == After[i - 1]
                     n == notifications[i]
                 IN  CASE ~sub.success \/ sub.s.thrown -> sub
                       [] sub.success /\ ~sub.s.thrown /\ ~Validate(sub.s, n, height) ->
                            [sub EXCEPT !.success = FALSE]
                       [] OTHER -> [success |-> TRUE, s |-> ObserveWith(observer, sub.s, n, height, "Commit"),
                                    observed |-> i]
    IN  After[Len(notifications)]

Undo(s, notifications, height, observer) ==
    LET Before[i \in 1 .. Len(notifications) + 1] ==
            IF i > Len(notifications) THEN s
            ELSE LET t == Before[i + 1]
                 IN  IF t.thrown THEN t ELSE ObserveWith(observer, t, notifications[i], height, "Rollback")
    IN  Before[1]

ExecuteBlock(s, block) ==
    LET notifications == PublishEntities(block)
        After[i \in 0 .. Len(notifications)] ==
            IF i = 0 THEN s
            ELSE LET t == After[i - 1]
                 IN  IF t.thrown THEN t ELSE Observe(t, notifications[i], block.Height, "Commit")
    IN  After[Len(notifications)]

(* Mutant: the accounts the block showed first stay queued.                   *)
RollbackBlockKeepingAccounts(s, block) == Undo(s, PublishEntities(block), block.Height, "execution")

RollbackBlock(s, block) ==
    commitRemovals(Undo(s, PublishEntities(block), block.Height, "execution"), "Linked")

(* BlockchainProcessor for one block: validated, executed, hashed, compared.  *)
CheckStateHash(sub, hashed, stateHash) ==
    [result |-> CASE sub.s.thrown -> "Exception"
                  [] ~sub.s.thrown /\ ~sub.success -> "Failure_Validation"
                  [] ~sub.s.thrown /\ sub.success /\ StateHash(hashed) # stateHash -> "Failure_State_Hash"
                  [] OTHER -> "Success",
     s |-> hashed]

ProcessExecuted(sub, height, stateHash) ==
    CheckStateHash(sub, updateMerkleRoots(sub.s, height), stateHash)

ProcessBlock(s, block, stateHash) ==
    ProcessExecuted(Notify(s, PublishEntities(block), block.Height, "execution"), block.Height, stateHash)

(* CatapultCacheDelta.prune at one height; the hash cache is pruned by time.  *)
PruneState(s, height) == PruneStatistics(PruneAllLocks(PruneNamespaces(s, height), height), height)

PruneRange(s, from, to) ==
    FoldLeft(LAMBDA t, height : PruneState(t, height), s, [i \in 1 .. to - from + 1 |-> from + i - 1])
=============================================================================
