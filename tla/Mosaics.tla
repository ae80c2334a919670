------------------------------- MODULE Mosaics -------------------------------
(* Mosaic definitions and their supply (plugin mosaic). s.mosaics maps a      *)
(* mosaic id to its entry [startHeight, ownerAddress, revision, flags,        *)
(* duration, supply]; a redefinition carries the difference to the current    *)
(* properties, so that undoing it needs nothing else. The divisibility is     *)
(* merged like the flags and is not kept apart. The cache never prunes and    *)
(* hashes every entry, expired or not. The signer is never the nemesis        *)
(* account, which pays no rental fee and may revoke any mosaic.               *)
EXTENDS AccountStates

CONSTANTS
    MosaicFeeSink, MosaicFee,
    MaxMosaicDuration, MaxMosaicsPerAccount, MaxMosaicAtomicUnits

(* ---- what the transactions publish ---- *)

MosaicRequired(owner, mosaicId, flags) ==
    [type |-> "MosaicRequired", Owner |-> owner, MosaicId |-> mosaicId, PropertyFlags |-> flags]

PublishMosaicDefinition(tx) ==
    <<AccountAddress(MosaicFeeSink),
      BalanceTransfer(tx.Signer, MosaicFeeSink, CurrencyMosaicId, MosaicFee, "Dynamic"),
      [type |-> "MosaicDefinition", Owner |-> tx.Signer, MosaicId |-> tx.Id,
       Flags |-> tx.Flags, Duration |-> tx.Duration]>>

PublishMosaicSupplyChange(tx) ==
    <<MosaicRequired(tx.Signer, tx.MosaicId, {}),
      [type |-> "MosaicSupplyChange", Owner |-> tx.Signer, MosaicId |-> tx.MosaicId,
       Action |-> tx.Action, Delta |-> tx.Delta]>>

PublishMosaicSupplyRevocation(tx) ==
    <<MosaicRequired(tx.Signer, tx.MosaicId, {"Revokable"}),
      AccountAddress(tx.Source),
      BalanceTransfer(tx.Source, tx.Signer, tx.MosaicId, tx.Amount, "Static")>>

(* ---- MosaicDefinition, ActiveMosaicView ---- *)

HasMosaic(s, id) == id \in DOMAIN s.mosaics

isEternal(entry) == entry.duration = 0

isActiveMosaic(s, id, height) ==
    /\ HasMosaic(s, id)
    /\ \/ isEternal(s.mosaics[id])
       \/ /\ s.mosaics[id].startHeight <= height
          /\ height < s.mosaics[id].startHeight + s.mosaics[id].duration

isOwnedActiveMosaic(s, id, height, owner) ==
    isActiveMosaic(s, id, height) /\ s.mosaics[id].ownerAddress = owner

(* ---- validators ---- *)

RequiredMosaicValidator(s, n, height) ==
    LET id == ResolveMosaic(s, n.MosaicId)
    IN  /\ isOwnedActiveMosaic(s, id, height, ResolveAddress(s, n.Owner))
        /\ n.PropertyFlags \subseteq s.mosaics[id].flags

(* A new mosaic, or a change of an active mosaic of the owner with no supply: *)
(* "when rolling back, the definition observer does not know what the supply  *)
(* was before".                                                               *)
MosaicAvailabilityValidator(s, n, height) ==
    HasMosaic(s, n.MosaicId) =>
        /\ isOwnedActiveMosaic(s, n.MosaicId, height, n.Owner)
        /\ n.Flags # {} \/ (~isEternal(s.mosaics[n.MosaicId]) /\ n.Duration # 0)
        /\ s.mosaics[n.MosaicId].supply = 0

MosaicDurationValidator(s, n) ==
    \/ n.Duration = 0
    \/ /\ n.Duration <= MaxMosaicDuration
       /\ HasMosaic(s, n.MosaicId) =>
             /\ ~isEternal(s.mosaics[n.MosaicId])
             /\ s.mosaics[n.MosaicId].duration + n.Duration <= MaxMosaicDuration

MosaicTransferValidator(s, n, height) ==
    LET id == ResolveMosaic(s, n.MosaicId)
    IN  \/ n.MosaicId = CurrencyMosaicId
        \/ /\ isActiveMosaic(s, id, height)
           /\ \/ "Transferable" \in s.mosaics[id].flags
              \/ s.mosaics[id].ownerAddress \in
                    {ResolveAddress(s, n.Sender), ResolveAddress(s, n.Recipient)}

CheckAccount(s, mosaicId, address) ==
    \/ Balance(s, address, mosaicId) # 0
    \/ Cardinality(DOMAIN s.accounts[address].Balances) < MaxMosaicsPerAccount

MaxMosaicsBalanceTransferValidator(s, n) ==
    n.Amount = 0 \/ CheckAccount(s, ResolveMosaic(s, n.MosaicId), ResolveAddress(s, n.Recipient))

MaxMosaicsSupplyChangeValidator(s, n) ==
    n.Action = "Decrease" \/ CheckAccount(s, ResolveMosaic(s, n.MosaicId), n.Owner)

MosaicSupplyChangeValidator(n) == n.Delta # 0

MosaicSupplyChangeAllowedValidator(s, n) ==
    LET id == ResolveMosaic(s, n.MosaicId)
        ownerAmount == Balance(s, n.Owner, id)
        entry == s.mosaics[id]
    IN  /\ "Supply_Mutable" \in entry.flags \/ ownerAmount = entry.supply
        /\ IF n.Action = "Decrease" THEN ownerAmount >= n.Delta
           ELSE entry.supply + n.Delta <= MaxMosaicAtomicUnits

(* ---- observers ---- *)

Xor(flags, change) == (flags \ change) \cup (change \ flags)

(* MosaicEntry throws when a supply would fall below zero.                    *)
ChangeSupply(s, id, delta, increase) ==
    CASE ~HasMosaic(s, id) -> Throw(s)
      [] HasMosaic(s, id) /\ increase -> [s EXCEPT !.mosaics[id].supply = @ + delta]
      [] HasMosaic(s, id) /\ ~increase /\ s.mosaics[id].supply >= delta ->
           [s EXCEPT !.mosaics[id].supply = @ - delta]
      [] OTHER -> Throw(s)

ApplyNotification(entry, n, mode) ==
    [entry EXCEPT !.ownerAddress = n.Owner, !.flags = Xor(@, n.Flags), !.supply = 0,
                  !.revision = IF mode = "Commit" THEN @ + 1 ELSE @ - 1,
                  !.duration = IF mode = "Commit" THEN @ + n.Duration ELSE @ - n.Duration]

MosaicDefinitionObserver(s, n, height, mode) ==
    LET id == n.MosaicId
    IN  CASE ~HasMosaic(s, id) ->
               [s EXCEPT !.mosaics = Insert(@, id,
                    [startHeight |-> height, ownerAddress |-> n.Owner, revision |-> 1,
                     flags |-> n.Flags, duration |-> n.Duration, supply |-> 0])]
          [] HasMosaic(s, id) /\ mode = "Rollback" /\ s.mosaics[id].revision = 1 ->
               [s EXCEPT !.mosaics = Erase(@, id)]
          [] OTHER -> [s EXCEPT !.mosaics[id] = ApplyNotification(@, n, mode)]

ShouldIncrease(n, mode) == (mode = "Commit") = (n.Action = "Increase")

MosaicSupplyChangeObserver(s, n, mode) ==
    LET id == ResolveMosaic(s, n.MosaicId)
    IN  IF ShouldIncrease(n, mode)
        THEN ChangeSupply(credit(s, n.Owner, id, n.Delta), id, n.Delta, TRUE)
        ELSE ChangeSupply(debit(s, n.Owner, id, n.Delta), id, n.Delta, FALSE)

(* The harvester is credited by HarvestFeeObserver.                           *)
MosaicSupplyInflationObserver(s, mode) ==
    IF InflationAmount = 0 THEN s
    ELSE ChangeSupply(s, CurrencyMosaicId, InflationAmount, mode = "Commit")
=============================================================================
