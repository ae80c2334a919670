----------------------------- MODULE Harvesting -----------------------------
(* How a node builds a block: the harvesting facade applies unconfirmed       *)
(* transactions to a detached delta with the largest fee each allows, the     *)
(* selection strategy decides which of them stay and what the fee multiplier  *)
(* is, and the commit gives the surplus fees back, executes the block and     *)
(* takes its state hash (HarvestingUtFacadeFactory, TransactionsInfoSupplier, *)
(* TransactionFeeMaximizer); its observers are in BlockExecution.             *)
(*                                                                            *)
(* A facade f is a record of s, the state of the delta with the accounts the  *)
(* applied transactions name (s.affected, bags), height, that of the block,   *)
(* and transactionInfos, the hashes applied.                                  *)
EXTENDS BlockExecution

CONSTANT TransactionLimit   \* maxTransactionsPerBlock, embedded ones counted

(* ---- HarvestingUtFacade ---- *)

CreateFacade(s, height) ==
    [s |-> [affected |-> [Addresses |-> EmptyBag, PublicKeys |-> EmptyBag]] @@ s,
     height |-> height + 1, transactionInfos |-> <<>>]

PublishWithMaxFee(hash) == PublishTransaction(hash, TransactionsByHash[hash].MaxFee)

(* A transaction that fails is undone and leaves its accounts queued for      *)
(* removal.                                                                   *)
ApplyOrUndo(f, hash, sub) ==
    IF sub.success
    THEN [f EXCEPT !.s = sub.s, !.transactionInfos = Append(@, hash)]
    ELSE [f EXCEPT !.s = Undo(sub.s, SubSeq(PublishWithMaxFee(hash), 1, sub.observed),
                              f.height, "harvesting")]

apply(f, hash) == ApplyOrUndo(f, hash, Notify(f.s, PublishWithMaxFee(hash), f.height, "harvesting"))

unapply(f) ==
    [f EXCEPT !.s = Undo(@, PublishWithMaxFee(Last(f.transactionInfos)), f.height, "harvesting"),
              !.transactionInfos = Front(@)]

ApplyFeeSurplus(s, hash, multiplier) ==
    LET tx == TransactionsByHash[hash]
    IN  credit(s, tx.Signer, CurrencyMosaicId, tx.MaxFee - CalculateTransactionFee(multiplier, hash))

(* Mutant: an account of a failed transaction goes although others need it.   *)
PreserveNoAccounts(s, height) == s

PreserveAllAccounts(s, height) ==
    [s EXCEPT !.queuedRemoveByAddress = @ \ {<<height, a>> : a \in BagToSet(s.affected.Addresses)},
              !.queuedRemoveByPublicKey = @ \ {<<height, k>> : k \in BagToSet(s.affected.PublicKeys)}]

CommitAccounts(s, height) ==
    updateMerkleRoots(commitRemovals(PreserveAllAccounts(s, height), "Unlinked"), height)

(* The block, or none when the block entity does not validate.                *)
Generated(sub, final, block) ==
    [success |-> sub.success, thrown |-> final.thrown, block |-> block, StateHash |-> StateHash(final)]

GeneratedFrom(sub, block) == Generated(sub, CommitAccounts(sub.s, block.Height), block)

ExecuteOnFacade(s, block) ==
    GeneratedFrom(Notify(s, PublishBlock(block), block.Height, "harvesting"), block)

commit(f, signer, beneficiary, multiplier) ==
    ExecuteOnFacade(
        FoldLeft(LAMBDA s, hash : ApplyFeeSurplus(s, hash, multiplier), f.s, f.transactionInfos),
        [Height |-> f.height, Signer |-> signer, Beneficiary |-> beneficiary,
         FeeMultiplier |-> multiplier, Transactions |-> f.transactionInfos])

(* ---- selection strategies ---- *)

MaxFeeMultiplier(hash) == TransactionsByHash[hash].MaxFee \div TransactionsByHash[hash].Size

CountRetriever(hash) ==
    LET tx == TransactionsByHash[hash]
    IN  1 + IF IsAggregate(tx) THEN Len(tx.Embedded) ELSE 0

(* The transactions are tried in order until one would exceed the limit.      *)
CountApplied(r, f, hash) ==
    [r EXCEPT !.f = f,
              !.count = @ + IF Len(f.transactionInfos) > Len(r.f.transactionInfos)
                            THEN CountRetriever(hash) ELSE 0]

GetFirstTransactionInfoPointers(facade, infos) ==
    FoldLeft(LAMBDA r, hash :
                IF r.full \/ r.count + CountRetriever(hash) > TransactionLimit
                THEN [r EXCEPT !.full = TRUE]
                ELSE CountApplied(r, apply(r.f, hash), hash),
             [f |-> facade, count |-> 0, full |-> FALSE], infos).f

(* The smallest multiplier lets all transactions pass validation.             *)
SupplyAll(f) ==
    [f |-> f,
     FeeMultiplier |-> IF f.transactionInfos = <<>> THEN 0
                       ELSE Min({MaxFeeMultiplier(f.transactionInfos[i]) : i \in DOMAIN f.transactionInfos})]

(* TransactionFeeMaximizer: the prefix that earns most, the longest if equal. *)
BestNumTransactions(infos) ==
    LET BaseFee(n) == FoldLeft(LAMBDA sum, hash : sum + TransactionsByHash[hash].Size,
                               0, SubSeq(infos, 1, n))
        TotalFee(n) == IF n = 0 THEN 0 ELSE MaxFeeMultiplier(infos[n]) * BaseFee(n)
    IN  Max({n \in 0 .. Len(infos) : \A m \in 0 .. Len(infos) : TotalFee(m) <= TotalFee(n)})

SupplyBest(f, best) ==
    [f |-> FoldLeft(LAMBDA g, hash : unapply(g), f,
                    SubSeq(f.transactionInfos, best + 1, Len(f.transactionInfos))),
     FeeMultiplier |-> IF best = 0 THEN 0 ELSE MaxFeeMultiplier(f.transactionInfos[best])]

SupplyMaximumFee(f) == SupplyBest(f, BestNumTransactions(f.transactionInfos))

(* The order in which each strategy tries the transactions.                   *)
SortedInfos(strategy, ut) ==
    CASE strategy = "Minimize_Fee" -> SortSeq(ut, LAMBDA x, y : MaxFeeMultiplier(x) < MaxFeeMultiplier(y))
      [] strategy = "Maximize_Fee" -> SortSeq(ut, LAMBDA x, y : MaxFeeMultiplier(x) > MaxFeeMultiplier(y))
      [] strategy = "Oldest"       -> ut

SupplyFrom(strategy, f) == IF strategy = "Maximize_Fee" THEN SupplyMaximumFee(f) ELSE SupplyAll(f)

SupplyTransactions(strategy, facade, ut) ==
    SupplyFrom(strategy, GetFirstTransactionInfoPointers(facade, SortedInfos(strategy, ut)))

GenerateBlock(supplied, signer, beneficiary) ==
    commit(supplied.f, signer, beneficiary, supplied.FeeMultiplier)
=============================================================================
