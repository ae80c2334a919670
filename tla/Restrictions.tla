----------------------------- MODULE Restrictions -----------------------------
(* What accounts and mosaics forbid. An account restricts the addresses it    *)
(* deals with, the mosaics it receives and the transactions it sends (plugin  *)
(* restriction_account); the owner of a mosaic gives rules and the value of   *)
(* each account under them (plugin restriction_mosaic).                       *)
(*   s.restrictions : address -> restriction flags -> [operationType, values] *)
(*   s.mosaicRestrictions : <<mosaic id>> -> key -> [ReferenceMosaicId,       *)
(*     RestrictionValue, RestrictionType] and <<mosaic id, address>> -> key   *)
(*     -> value, both in one cache                                            *)
EXTENDS Mosaics

CONSTANTS
    MaxAccountRestrictionValues, MaxMosaicRestrictionValues

NoMosaic == "no mosaic"     \* MosaicId()
Sentinel_Removal_Value == -1  \* the value that removes an address restriction

(* ---- what the transactions publish ---- *)

(* One transaction changes the restriction of one kind: RestrictionFlags with *)
(* the direction, OperationType Allow or Block.                               *)
PublishAccountRestriction(tx) ==
    LET Value(value, action) ==
            [type |-> "ModifyAccountRestrictionValue", Address |-> tx.Signer,
             RestrictionFlags |-> tx.RestrictionFlags, OperationType |-> tx.OperationType,
             RestrictionValue |-> value, Action |-> action]
    IN  <<[type |-> "ModifyAccountRestrictions", Address |-> tx.Signer,
           RestrictionFlags |-> tx.RestrictionFlags,
           Additions |-> tx.Additions, Deletions |-> tx.Deletions]>>
        \o [i \in DOMAIN tx.Additions |-> Value(tx.Additions[i], "Add")]
        \o [i \in DOMAIN tx.Deletions |-> Value(tx.Deletions[i], "Del")]

(* The previous value restores the restriction when the transaction is undone, *)
(* the new one sets it. A global restriction has a type besides the value, and *)
(* one reference for both.                                                     *)
RestrictionModification(kind, tx, setting) ==
    [type |-> kind, MosaicId |-> tx.MosaicId, Target |-> tx.Target, RestrictionKey |-> tx.RestrictionKey,
     ReferenceMosaicId |-> tx.ReferenceMosaicId,
     RestrictionValue |-> setting.Value, RestrictionType |-> setting.Type]

MosaicRestrictionRequired(mosaicId, key) ==
    [type |-> "MosaicRestrictionRequired", MosaicId |-> mosaicId, RestrictionKey |-> key]

PublishMosaicAddressRestriction(tx) ==
    <<MosaicRequired(tx.Signer, tx.MosaicId, {"Restrictable"}),
      MosaicRestrictionRequired(tx.MosaicId, tx.RestrictionKey),
      RestrictionModification("MosaicRestrictionPreviousValue", tx, tx.Previous),
      RestrictionModification("MosaicRestrictionNewValue", tx, tx.New)>>

PublishMosaicGlobalRestriction(tx) ==
    <<[type |-> "MosaicRestrictionType", RestrictionType |-> tx.New.Type],
      MosaicRequired(tx.Signer, tx.MosaicId, {"Restrictable"})>>
    \o (IF tx.ReferenceMosaicId = NoMosaic THEN <<>>
        ELSE <<MosaicRestrictionRequired(tx.ReferenceMosaicId, tx.RestrictionKey)>>)
    \o <<RestrictionModification("MosaicRestrictionPreviousValue", tx, tx.Previous),
         RestrictionModification("MosaicRestrictionNewValue", tx, tx.New)>>

(* ---- AccountRestrictions ---- *)

NewRestriction == [operationType |-> "Block", values |-> {}]

EmptyRestrictions ==
    [Address |-> NewRestriction, MosaicId |-> NewRestriction,
     Address_Outgoing |-> NewRestriction, TransactionType_Outgoing |-> NewRestriction]

HasRestrictions(s, address) == address \in DOMAIN s.restrictions

RestrictionValues(s, address, flags) ==
    IF HasRestrictions(s, address) THEN s.restrictions[address][flags].values ELSE {}

isAllowed(s, address, flags, value) ==
    LET values == RestrictionValues(s, address, flags)
    IN  \/ values = {}
        \/ (s.restrictions[address][flags].operationType = "Allow") = (value \in values)

ResolveRestrictionValue(s, n) ==
    CASE n.RestrictionFlags \in {"Address", "Address_Outgoing"} -> ResolveAddress(s, n.RestrictionValue)
      [] n.RestrictionFlags = "MosaicId"                        -> ResolveMosaic(s, n.RestrictionValue)
      [] OTHER                                                  -> n.RestrictionValue

(* ---- validators of account restrictions ---- *)

AccountRestrictionModificationPresentValidator(n) == n.Additions # <<>> \/ n.Deletions # <<>>

AccountRestrictionRedundantModificationValidator(s, n) ==
    /\ IsInjective(n.Additions \o n.Deletions)
    /\ n.Deletions # <<>> => HasRestrictions(s, n.Address)

MaxAccountRestrictionValuesValidator(s, n) ==
    /\ Len(n.Additions) + Len(n.Deletions) <= MaxAccountRestrictionValues
    /\ HasRestrictions(s, n.Address) =>
          Cardinality(RestrictionValues(s, n.Address, n.RestrictionFlags)) + Len(n.Additions) - Len(n.Deletions)
            \in 0 .. MaxAccountRestrictionValues

isOperationAllowed(restriction, n, value) ==
    /\ restriction.values = {} \/ restriction.operationType = n.OperationType
    /\ (n.Action = "Del") = (value \in restriction.values)

AccountRestrictionValueModificationValidator(s, n) ==
    HasRestrictions(s, n.Address) =>
        isOperationAllowed(s.restrictions[n.Address][n.RestrictionFlags], n, ResolveRestrictionValue(s, n))

AccountAddressRestrictionNoSelfModificationValidator(s, n) ==
    n.RestrictionFlags \in {"Address", "Address_Outgoing"} => n.Address # ResolveRestrictionValue(s, n)

(* An account never forbids itself to change its operation restrictions.      *)
AccountOperationRestrictionNoSelfBlockingValidator(s, n) ==
    LET isAllow == n.OperationType = "Allow"
        isRelevantEntityType == n.RestrictionValue = "AccountOperationRestriction"
    IN  n.RestrictionFlags = "TransactionType_Outgoing" =>
            IF n.Action = "Del" THEN ~(isAllow /\ isRelevantEntityType)
            ELSE /\ isAllow => \/ isRelevantEntityType
                               \/ RestrictionValues(s, n.Address, n.RestrictionFlags) # {}
                 /\ ~isAllow => ~isRelevantEntityType

IsInteractionAllowed(s, flags, source, participant) ==
    source = participant \/ isAllowed(s, participant, flags, source)

AddressInteractionValidator(s, n) ==
    \A address \in n.ParticipantsByAddress :
        LET participant == ResolveAddress(s, address)
        IN  /\ IsInteractionAllowed(s, "Address", n.Source, participant)
            /\ IsInteractionAllowed(s, "Address_Outgoing", participant, n.Source)

MosaicRecipientValidator(s, n) ==
    isAllowed(s, ResolveAddress(s, n.Recipient), "MosaicId", ResolveMosaic(s, n.MosaicId))

OperationRestrictionValidator(s, n) ==
    isAllowed(s, n.Sender, "TransactionType_Outgoing", n.TransactionType)

(* ---- observer of account restrictions ---- *)

InvertModificationAction(action) == IF action = "Add" THEN "Del" ELSE "Add"

(* allow and block: a restriction that loses its last value is a Block again. *)
UpdateRestriction(restriction, operationType, action, value) ==
    LET values == IF action = "Add" THEN restriction.values \cup {value} ELSE restriction.values \ {value}
    IN  [operationType |-> IF values = {} THEN "Block" ELSE operationType, values |-> values]

AccountRestrictionValueModificationObserver(s, n, mode) ==
    LET restrictions == IF HasRestrictions(s, n.Address) THEN s.restrictions[n.Address] ELSE EmptyRestrictions
        action == IF mode = "Commit" THEN n.Action ELSE InvertModificationAction(n.Action)
        updated == [restrictions EXCEPT ![n.RestrictionFlags] =
                      UpdateRestriction(@, n.OperationType, action, ResolveRestrictionValue(s, n))]
        isEmpty == \A flags \in DOMAIN updated : updated[flags].values = {}
    IN  [s EXCEPT !.restrictions = IF isEmpty THEN Erase(@, n.Address) ELSE Insert(@, n.Address, updated)]

(* ---- mosaic restrictions ---- *)

NoAddress == "no address"

IsGlobal(n) == n.Target = NoAddress

uniqueKey(s, n) ==
    LET id == ResolveMosaic(s, n.MosaicId)
    IN  IF IsGlobal(n) THEN <<id>> ELSE <<id, ResolveAddress(s, n.Target)>>

isDeleteAction(n) ==
    IF IsGlobal(n) THEN n.RestrictionType = "NONE" ELSE n.RestrictionValue = Sentinel_Removal_Value

RulesOf(s, id) == IF id \in DOMAIN s.mosaicRestrictions THEN s.mosaicRestrictions[id] ELSE EmptyMap

HasRule(s, id, key) == key \in DOMAIN RulesOf(s, id)

toRule(s, n) ==
    IF ~IsGlobal(n) THEN n.RestrictionValue
    ELSE [ReferenceMosaicId |-> ResolveMosaic(s, n.ReferenceMosaicId),
          RestrictionValue |-> n.RestrictionValue, RestrictionType |-> n.RestrictionType]

isUnset(n) == isDeleteAction(n) /\ (IsGlobal(n) => n.RestrictionValue = 0)

MosaicRestrictionTypeValidator(n) == n.RestrictionType \in {"NONE", "EQ", "NE", "LT", "LE", "GT", "GE"}

MosaicRestrictionRequiredValidator(s, n) == HasRule(s, <<ResolveMosaic(s, n.MosaicId)>>, n.RestrictionKey)

MosaicRestrictionModificationValidator(s, n) ==
    IF HasRule(s, uniqueKey(s, n), n.RestrictionKey)
    THEN RulesOf(s, uniqueKey(s, n))[n.RestrictionKey] = toRule(s, n)
    ELSE isUnset(n)

MosaicRestrictionMaxValuesValidator(s, n) ==
    IF isDeleteAction(n) THEN HasRule(s, uniqueKey(s, n), n.RestrictionKey)
    ELSE \/ HasRule(s, uniqueKey(s, n), n.RestrictionKey)
         \/ Cardinality(DOMAIN RulesOf(s, uniqueKey(s, n))) < MaxMosaicRestrictionValues

(* A value that is not set satisfies NE only.                                 *)
EvaluateMosaicRestriction(rule, value) ==
    IF value = Sentinel_Removal_Value THEN rule.RestrictionType = "NE"
    ELSE CASE rule.RestrictionType = "EQ" -> rule.RestrictionValue = value
           [] rule.RestrictionType = "NE" -> rule.RestrictionValue # value
           [] rule.RestrictionType = "LT" -> rule.RestrictionValue > value
           [] rule.RestrictionType = "LE" -> rule.RestrictionValue >= value
           [] rule.RestrictionType = "GT" -> rule.RestrictionValue < value
           [] rule.RestrictionType = "GE" -> rule.RestrictionValue <= value

IsAuthorized(s, mosaicId, address) ==
    \A key \in DOMAIN RulesOf(s, <<mosaicId>>) :
        LET rule == RulesOf(s, <<mosaicId>>)[key]
            reference == IF rule.ReferenceMosaicId = NoMosaic THEN mosaicId ELSE rule.ReferenceMosaicId
            values == RulesOf(s, <<reference, address>>)
        IN  /\ rule.ReferenceMosaicId # mosaicId
            /\ EvaluateMosaicRestriction(rule, IF key \in DOMAIN values THEN values[key] ELSE Sentinel_Removal_Value)

MosaicRestrictionBalanceDebitValidator(s, n) ==
    IsAuthorized(s, ResolveMosaic(s, n.MosaicId), ResolveAddress(s, n.Sender))

MosaicRestrictionBalanceTransferValidator(s, n) ==
    /\ MosaicRestrictionBalanceDebitValidator(s, n)
    /\ IsAuthorized(s, ResolveMosaic(s, n.MosaicId), ResolveAddress(s, n.Recipient))

(* set: a deleted rule goes, and with the last rule of an entry the entry.    *)
UpdateRules(s, n, id) ==
    LET rules == IF isDeleteAction(n) THEN Erase(RulesOf(s, id), n.RestrictionKey)
                 ELSE Insert(RulesOf(s, id), n.RestrictionKey, toRule(s, n))
    IN  [s EXCEPT !.mosaicRestrictions =
           IF id \in DOMAIN @ /\ rules = EmptyMap THEN Erase(@, id) ELSE Insert(@, id, rules)]

(* The new value is for commit only, the previous one for rollback only.      *)
MosaicRestrictionModificationObserver(s, n, mode) ==
    LET requiredMode == IF n.type = "MosaicRestrictionNewValue" THEN "Commit" ELSE "Rollback"
    IN  IF requiredMode # mode THEN s ELSE UpdateRules(s, n, uniqueKey(s, n))
=============================================================================
