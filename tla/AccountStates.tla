---------------------------- MODULE AccountStates ----------------------------
(* The account state cache and the core system plugin: accounts that appear   *)
(* when an address or a public key is first seen and disappear when the block *)
(* that showed it is rolled back, balances, fees and the harvester's reward,  *)
(* block statistics and the dynamic fee multiplier.                           *)
(*                                                                            *)
(* A public key and the address derived from it are the same model value. A   *)
(* state s holds                                                              *)
(*   s.accounts : address -> [AddressHeight, PublicKeyHeight, AccountType,    *)
(*                linked, node, vrf, voting, Balances]                        *)
(*   s.keyToAddress : the public keys known (m_pKeyToAddress)                 *)
(*   s.queuedRemoveByAddress, s.queuedRemoveByPublicKey : pairs               *)
(*                <<height, account>> waiting for commitRemovals              *)
(*   s.statistics : height -> fee multiplier of the block                     *)
(*   s.DynamicFeeMultiplier : the dependent state                             *)
EXTENDS Namespaces

CONSTANTS
    CurrencyMosaicId,             \* fees, rewards and rental fees are paid in it
    HarvestNetworkFeeSink,        \* account that receives the network's share
    HarvestNetworkPercentage,     \* the network's share of a reward
    HarvestBeneficiaryPercentage, \* the beneficiary's share of a reward
    InflationAmount,              \* created at each block
    MaxDifficultyBlocks,          \* window of the block statistics
    DefaultDynamicFeeMultiplier,  \* used while the window is not full
    ImportantAccounts,            \* to which the last recalculation gave importance
    HarvestingMosaicId, MinHarvesterBalance, MaxHarvesterBalance

NoKey == "none"

NewAccount(height) ==
    [AddressHeight |-> height, PublicKeyHeight |-> 0, AccountType |-> "Unlinked",
     linked |-> NoKey, node |-> NoKey, vrf |-> NoKey, voting |-> <<>>, Balances |-> EmptyMap]

(* ---- notifications of the core system ---- *)

AccountAddress(address) == [type |-> "AccountAddress", Address |-> address]
AccountPublicKey(key) == [type |-> "AccountPublicKey", PublicKey |-> key]
BalanceDebit(sender, mosaicId, amount) ==
    [type |-> "BalanceDebit", Sender |-> sender, MosaicId |-> mosaicId, Amount |-> amount,
     AmountType |-> "Static"]
BalanceTransfer(sender, recipient, mosaicId, amount, amountType) ==
    [type |-> "BalanceTransfer", Sender |-> sender, Recipient |-> recipient,
     MosaicId |-> mosaicId, Amount |-> amount, AmountType |-> amountType]
AddressInteraction(tx, participants) ==
    [type |-> "AddressInteraction", Source |-> tx.Signer, TransactionType |-> tx.Type,
     ParticipantsByAddress |-> participants]

(* ---- AccountBalances ---- *)

HasAccount(s, address) == address \in DOMAIN s.accounts

(* find by public key goes through the key map *)
HasKey(s, key) == key \in s.keyToAddress /\ HasAccount(s, key)

Balance(s, address, mosaicId) ==
    LET balances == s.accounts[address].Balances
    IN  IF mosaicId \in DOMAIN balances THEN balances[mosaicId] ELSE 0

SetBalance(s, address, mosaicId, amount) ==
    [s EXCEPT !.accounts[address].Balances =
       IF amount = 0 THEN Erase(@, mosaicId) ELSE Insert(@, mosaicId, amount)]

credit(s, address, mosaicId, amount) ==
    IF HasAccount(s, address)
    THEN SetBalance(s, address, mosaicId, Balance(s, address, mosaicId) + amount)
    ELSE Throw(s)

debit(s, address, mosaicId, amount) ==
    IF HasAccount(s, address) /\ Balance(s, address, mosaicId) >= amount
    THEN SetBalance(s, address, mosaicId, Balance(s, address, mosaicId) - amount)
    ELSE Throw(s)

(* An observer that credits on commit and debits on rollback.                 *)
CreditOrUndo(s, address, mosaicId, amount, mode) ==
    IF mode = "Commit" THEN credit(s, address, mosaicId, amount)
                       ELSE debit(s, address, mosaicId, amount)

DebitOrUndo(s, address, mosaicId, amount, mode) ==
    IF mode = "Commit" THEN debit(s, address, mosaicId, amount)
                       ELSE credit(s, address, mosaicId, amount)

(* ---- AccountStateCacheDelta ---- *)

addAddress(s, address, height) ==
    IF HasAccount(s, address) THEN s
    ELSE [s EXCEPT !.accounts = Insert(@, address, NewAccount(height))]

addPublicKey(s, key, height) ==
    LET added == addAddress([s EXCEPT !.keyToAddress = @ \cup {key}], key, height)
    IN  IF added.accounts[key].PublicKeyHeight # 0 THEN added
        ELSE [added EXCEPT !.accounts[key].PublicKeyHeight = height]

removeAddress(s, address, height) ==
    IF ~HasAccount(s, address) \/ s.accounts[address].AddressHeight # height THEN s
    ELSE [s EXCEPT !.accounts = Erase(@, address),
                   !.keyToAddress = IF s.accounts[address].PublicKeyHeight # 0
                                    THEN @ \ {address} ELSE @]

removePublicKey(s, key, height, removalsMode) ==
    IF ~HasKey(s, key) \/ s.accounts[key].PublicKeyHeight # height THEN s
    ELSE [s EXCEPT !.keyToAddress = @ \ {key},
                   !.accounts = IF removalsMode = "Linked" /\ @[key].AddressHeight = height
                                THEN Erase(@, key)
                                ELSE [@ EXCEPT ![key].PublicKeyHeight = 0]]

commitRemovals(s, removalsMode) ==
    LET byAddress == FoldSet(LAMBDA pair, t : removeAddress(t, pair[2], pair[1]),
                             s, s.queuedRemoveByAddress)
        byKey == FoldSet(LAMBDA pair, t : removePublicKey(t, pair[2], pair[1], removalsMode),
                         byAddress, s.queuedRemoveByPublicKey)
    IN  [byKey EXCEPT !.queuedRemoveByAddress = {}, !.queuedRemoveByPublicKey = {}]

(* ProcessForwardedAccountState with the credit its callers pass to it: the   *)
(* account used for an address, a remote account standing for its main one.   *)
IsProperlyLinked(s, remote) ==
    LET main == s.accounts[remote].linked
    IN  /\ HasKey(s, main)
        /\ s.accounts[main].AccountType = "Main"
        /\ s.accounts[main].linked = remote

CreditForwardedAccount(s, address, mosaicId, amount, mode) ==
    LET isRemote == s.accounts[address].AccountType = "Remote"
        account == IF isRemote THEN s.accounts[address].linked ELSE address
    IN  IF HasAccount(s, address) /\ (isRemote => IsProperlyLinked(s, address))
        THEN CreditOrUndo(s, account, mosaicId, amount, mode)
        ELSE Throw(s)

(* ---- validators ---- *)

(* An alias that is not resolved is not a valid address.                      *)
AddressValidator(s, n) == ResolveAddress(s, n.Address) \notin NamespaceIds

EffectiveAmount(s, n) ==
    IF n.AmountType = "Dynamic" THEN n.Amount * s.DynamicFeeMultiplier ELSE n.Amount

BalanceValidator(s, n) ==
    LET sender == ResolveAddress(s, n.Sender)
    IN  /\ HasAccount(s, sender)
        /\ Balance(s, sender, ResolveMosaic(s, n.MosaicId)) >= EffectiveAmount(s, n)

TransactionFeeValidator(n) == n.Fee <= n.MaxFee

(* ImportanceView.canHarvest: a remote account harvests with the importance   *)
(* and the balance of its main account.                                       *)
canHarvest(s, address) ==
    LET isRemote == s.accounts[address].AccountType = "Remote"
        account == IF isRemote THEN s.accounts[address].linked ELSE address
    IN  /\ HasAccount(s, address)
        /\ isRemote => IsProperlyLinked(s, address)
        /\ account \in ImportantAccounts
        /\ Balance(s, account, HarvestingMosaicId) \in MinHarvesterBalance .. MaxHarvesterBalance

EligibleHarvesterValidator(s, n) == canHarvest(s, n.Harvester)

(* ---- observers ---- *)

AccountAddressObserver(s, n, height, mode) ==
    LET address == ResolveAddress(s, n.Address)
    IN  IF mode = "Commit" THEN addAddress(s, address, height)
        ELSE [s EXCEPT !.queuedRemoveByAddress = @ \cup {<<height, address>>}]

AccountPublicKeyObserver(s, n, height, mode) ==
    IF mode = "Commit" THEN addPublicKey(s, n.PublicKey, height)
    ELSE [s EXCEPT !.queuedRemoveByPublicKey = @ \cup {<<height, n.PublicKey>>}]

BalanceDebitObserver(s, n, mode) ==
    DebitOrUndo(s, ResolveAddress(s, n.Sender), ResolveMosaic(s, n.MosaicId), n.Amount, mode)

BalanceTransferObserver(s, n, mode) ==
    LET sender == ResolveAddress(s, n.Sender)
        recipient == ResolveAddress(s, n.Recipient)
        mosaicId == ResolveMosaic(s, n.MosaicId)
        Transfer(from, to) ==
            credit(debit(s, from, mosaicId, EffectiveAmount(s, n)), to, mosaicId, EffectiveAmount(s, n))
    IN  IF mode = "Commit" THEN Transfer(sender, recipient) ELSE Transfer(recipient, sender)

ApplyFee(s, address, amount, mode) ==
    CreditForwardedAccount(s, address, CurrencyMosaicId, amount, mode)

HarvestFeeObserver(s, n, mode) ==
    LET totalAmount == n.TotalFee + InflationAmount
        networkAmount == (totalAmount * HarvestNetworkPercentage) \div 100
        shouldShareFees == HarvestBeneficiaryPercentage > 0 /\ n.Harvester # n.Beneficiary
        beneficiaryAmount ==
            IF shouldShareFees THEN (totalAmount * HarvestBeneficiaryPercentage) \div 100 ELSE 0
        harvester == ApplyFee(s, n.Harvester, totalAmount - networkAmount - beneficiaryAmount, mode)
        network == IF networkAmount = 0 THEN harvester
                   ELSE ApplyFee(harvester, HarvestNetworkFeeSink, networkAmount, mode)
    IN  IF beneficiaryAmount = 0 THEN network
        ELSE ApplyFee(network, n.Beneficiary, beneficiaryAmount, mode)

(* ---- block statistics ---- *)

(* The median of the last non-zero multipliers, the default filling up; the   *)
(* statistics are read from the given height downwards.                       *)
CalculateDynamicFeeMultiplier(statistics, height) ==
    LET window == {h \in DOMAIN statistics : height - MaxDifficultyBlocks < h /\ h <= height}
        nonZero == {h \in window : statistics[h] # 0}
        CountBelow(m) == Cardinality({h \in nonZero : statistics[h] < m})
                         + IF DefaultDynamicFeeMultiplier < m
                           THEN MaxDifficultyBlocks - Cardinality(nonZero) ELSE 0
        values == {statistics[h] : h \in nonZero} \cup {DefaultDynamicFeeMultiplier}
    IN  Max({m \in values : CountBelow(m) <= MaxDifficultyBlocks \div 2})

BlockStatisticObserver(s, n, height, mode) ==
    LET commit == mode = "Commit"
        effectiveHeight == IF commit THEN height ELSE height - 1
        statistics == IF commit THEN Insert(s.statistics, height, n.FeeMultiplier)
                      ELSE Erase(s.statistics, height)
    IN  [s EXCEPT !.statistics = statistics,
                  !.DynamicFeeMultiplier = CalculateDynamicFeeMultiplier(statistics, effectiveHeight)]

(* BlockStatisticCacheDelta.prune moves a boundary; the elements below it go  *)
(* when the delta is committed.                                               *)
PruneStatistics(s, height) ==
    [s EXCEPT !.statistics =
       Restrict(@, {h \in DOMAIN @ : height > MaxDifficultyBlocks => h >= height - MaxDifficultyBlocks})]
=============================================================================
