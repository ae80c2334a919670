-------------------------------- MODULE Locks --------------------------------
(* Hash locks and secret locks: funds taken from an account and given back,   *)
(* passed on or paid to the harvester when the lock is used or expires        *)
(* (plugins lock_shared, lock_hash, lock_secret).                             *)
(*                                                                            *)
(* A lock cache is a record of                                                *)
(*   set    : identifier -> history, the locks of that identifier, oldest     *)
(*            first, each [OwnerAddress, Recipient, MosaicId, Amount,         *)
(*            EndHeight, Status]                                              *)
(*   groups : end height -> set of identifiers                                *)
(* A state s holds s.hashLocks, keyed by the hash of an aggregate, and        *)
(* s.secretLocks, keyed by <<secret, recipient>> (the composite hash).        *)
EXTENDS AccountStates

CONSTANTS
    LockedFundsPerAggregate,  \* what a hash lock takes
    MaxLockDuration           \* the longest lock of either kind

EmptyLockCache == [set |-> EmptyMap, groups |-> EmptyMap]

(* ---- what the transactions publish ---- *)

PublishHashLock(tx) ==
    <<[type |-> "LockDuration", Duration |-> tx.Duration],
      [type |-> "HashLockMosaic", MosaicId |-> tx.MosaicId, Amount |-> tx.Amount],
      BalanceDebit(tx.Signer, tx.MosaicId, tx.Amount),
      [type |-> "HashLock", Owner |-> tx.Signer, MosaicId |-> tx.MosaicId, Amount |-> tx.Amount,
       Duration |-> tx.Duration, Hash |-> tx.Hash]>>

PublishSecretLock(tx) ==
    <<AccountAddress(tx.Recipient),
      [type |-> "LockDuration", Duration |-> tx.Duration],
      AddressInteraction(tx, {tx.Recipient}),
      BalanceDebit(tx.Signer, tx.MosaicId, tx.Amount),
      [type |-> "SecretLock", Owner |-> tx.Signer, MosaicId |-> tx.MosaicId, Amount |-> tx.Amount,
       Duration |-> tx.Duration, Secret |-> tx.Secret, Recipient |-> tx.Recipient],
      BalanceTransfer(tx.Signer, tx.Recipient, tx.MosaicId, 0, "Static")>>

PublishSecretProof(tx) ==
    <<[type |-> "ProofSecret", Secret |-> tx.Secret, Proof |-> tx.Proof],
      [type |-> "ProofPublication", Secret |-> tx.Secret, Recipient |-> tx.Recipient]>>

(* ---- LockInfoCacheDelta, LockInfoHistory ---- *)

insertLock(c, id, lock) ==
    [set    |-> Insert(c.set, id, IF id \in DOMAIN c.set THEN Append(c.set[id], lock) ELSE <<lock>>),
     groups |-> AddIdentifierWithGroup(c.groups, lock.EndHeight, id)]

HasLock(c, id) == id \in DOMAIN c.set

isActiveLock(c, id, height) ==
    HasLock(c, id) /\ height < Last(c.set[id]).EndHeight /\ Last(c.set[id]).Status = "Unused"

(* Called for a lock that is present; the cache throws for any other.         *)
removeLock(c, id) ==
    [set    |-> IF Len(c.set[id]) = 1 THEN Erase(c.set, id) ELSE [c.set EXCEPT ![id] = Front(@)],
     groups |-> RemoveIdentifierWithGroup(c.groups, Last(c.set[id]).EndHeight, id)]

(* Mutant: a lock that was used expires all the same.                         *)
processExpiredLocks(c, height) == IdentifiersWithGroup(c.set, c.groups, height)

(* Only the last lock of a history is looked at.                              *)
processUnusedExpiredLocks(c, height) ==
    {id \in IdentifiersWithGroup(c.set, c.groups, height) : Last(c.set[id]).Status = "Unused"}

pruneLocks(c, height) ==
    LET PruneFront(history) ==
            LET kept == {i \in DOMAIN history : history[i].EndHeight > height}
            IN  IF kept = {} THEN <<>> ELSE SubSeq(history, Min(kept), Len(history))
        ids == IdentifiersWithGroup(c.set, c.groups, height)
        left == [id \in DOMAIN c.set |-> IF id \in ids THEN PruneFront(c.set[id]) ELSE c.set[id]]
    IN  [set    |-> Restrict(left, {id \in DOMAIN left : left[id] # <<>>}),
         groups |-> Erase(c.groups, height)]

(* ---- validators ---- *)

LockDurationValidator(n) == n.Duration # 0 /\ n.Duration <= MaxLockDuration

HashLockMosaicValidator(s, n) ==
    /\ n.Amount = LockedFundsPerAggregate
    /\ ResolveMosaic(s, n.MosaicId) = CurrencyMosaicId

HashLockCacheUniqueValidator(s, n, height) == ~isActiveLock(s.hashLocks, n.Hash, height)

AggregateHashPresentValidator(s, n, height) ==
    n.TransactionType = "AggregateBonded" => isActiveLock(s.hashLocks, n.TransactionHash, height)

SecretLockInfoHash(s, n) == <<n.Secret, ResolveAddress(s, n.Recipient)>>

SecretLockCacheUniqueValidator(s, n, height) ==
    ~isActiveLock(s.secretLocks, SecretLockInfoHash(s, n), height)

ProofSecretValidator(n) == n.Proof = n.Secret

ProofValidator(s, n, height) == isActiveLock(s.secretLocks, SecretLockInfoHash(s, n), height)

(* ---- observers ---- *)

NewLock(s, n, recipient, height) ==
    [OwnerAddress |-> n.Owner, Recipient |-> recipient, MosaicId |-> ResolveMosaic(s, n.MosaicId),
     Amount |-> n.Amount, EndHeight |-> height + n.Duration, Status |-> "Unused"]

HashLockObserver(s, n, height, mode) ==
    CASE mode = "Commit" ->
           [s EXCEPT !.hashLocks = insertLock(@, n.Hash, NewLock(s, n, n.Owner, height))]
      [] mode = "Rollback" /\ HasLock(s.hashLocks, n.Hash) ->
           [s EXCEPT !.hashLocks = removeLock(@, n.Hash)]
      [] OTHER -> Throw(s)

SecretLockObserver(s, n, height, mode) ==
    LET id == SecretLockInfoHash(s, n)
    IN  CASE mode = "Commit" ->
               [s EXCEPT !.secretLocks = insertLock(@, id, NewLock(s, n, id[2], height))]
          [] mode = "Rollback" /\ HasLock(s.secretLocks, id) ->
               [s EXCEPT !.secretLocks = removeLock(@, id)]
          [] OTHER -> Throw(s)

(* Using a lock marks it and credits the destination account; undoing the use *)
(* unmarks it and takes the credit back.                                      *)
SetStatus(c, id, mode) ==
    [c EXCEPT !.set[id][Len(c.set[id])].Status = IF mode = "Commit" THEN "Used" ELSE "Unused"]

CompletedAggregateObserver(s, n, mode) ==
    LET id == n.TransactionHash
        lock == Last(s.hashLocks.set[id])
    IN  CASE n.TransactionType # "AggregateBonded" -> s
          [] n.TransactionType = "AggregateBonded" /\ HasLock(s.hashLocks, id) ->
               CreditOrUndo([s EXCEPT !.hashLocks = SetStatus(@, id, mode)],
                            lock.OwnerAddress, lock.MosaicId, lock.Amount, mode)
          [] OTHER -> Throw(s)

ProofObserver(s, n, mode) ==
    LET id == SecretLockInfoHash(s, n)
        lock == Last(s.secretLocks.set[id])
    IN  IF HasLock(s.secretLocks, id)
        THEN CreditOrUndo([s EXCEPT !.secretLocks = SetStatus(@, id, mode)],
                          lock.Recipient, lock.MosaicId, lock.Amount, mode)
        ELSE Throw(s)

(* The locks that expire at a height: unused, last of their history, and      *)
(* ending now ("only process if last lock in history").                       *)
ExpiringLocks(c, height) ==
    {id \in processUnusedExpiredLocks(c, height) : Last(c.set[id]).EndHeight = height}

ExpiredHashLockInfoObserver(s, n, height, mode) ==
    FoldSet(LAMBDA id, t :
                LET lock == Last(s.hashLocks.set[id])
                IN  CreditForwardedAccount(t, n.Harvester, lock.MosaicId, lock.Amount, mode),
            s, ExpiringLocks(s.hashLocks, height))

ExpiredSecretLockInfoObserver(s, height, mode) ==
    FoldSet(LAMBDA id, t :
                LET lock == Last(s.secretLocks.set[id])
                IN  CreditOrUndo(t, lock.OwnerAddress, lock.MosaicId, lock.Amount, mode),
            s, ExpiringLocks(s.secretLocks, height))

PruneAllLocks(s, height) ==
    [s EXCEPT !.hashLocks = pruneLocks(@, height), !.secretLocks = pruneLocks(@, height)]
=============================================================================
