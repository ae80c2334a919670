------------------------------- MODULE Multisig -------------------------------
(* Multisig accounts (plugin multisig): the graph of accounts and their       *)
(* cosignatories, changed by embedded modification transactions, and the      *)
(* cosignatures an aggregate needs. s.multisig maps an address to its entry   *)
(* [minApproval, minRemoval, cosignatories, multisigs]; each edge is stored   *)
(* at both ends, and an entry without edges is removed.                       *)
EXTENDS AccountStates

CONSTANTS
    MaxMultisigDepth, MaxCosignatoriesPerAccount, MaxCosignedAccountsPerAccount

(* ---- what the transaction publishes ---- *)

PublishMultisigAccountModification(tx) ==
    LET NewCosignatory(i) ==
            <<AccountAddress(tx.Additions[i]),
              [type |-> "MultisigNewCosignatory", Multisig |-> tx.Signer, Cosignatory |-> tx.Additions[i]]>>
    IN  FlattenSeq([i \in DOMAIN tx.Additions |-> NewCosignatory(i)])
        \o (IF tx.Additions = <<>> /\ tx.Deletions = <<>> THEN <<>>
            ELSE <<[type |-> "MultisigCosignatories", Multisig |-> tx.Signer,
                    Additions |-> tx.Additions, Deletions |-> tx.Deletions]>>)
        \o (IF tx.Additions = <<>> THEN <<>> ELSE <<AddressInteraction(tx, ToSet(tx.Additions))>>)
        \o <<[type |-> "MultisigSettings", Multisig |-> tx.Signer,
              MinRemovalDelta |-> tx.MinRemovalDelta, MinApprovalDelta |-> tx.MinApprovalDelta]>>

(* ---- MultisigCacheUtils ---- *)

HasMultisig(s, address) == address \in DOMAIN s.multisig

IsMultisig(s, address) == HasMultisig(s, address) /\ s.multisig[address].cosignatories # {}

Linked(s, address, direction) == IF HasMultisig(s, address) THEN s.multisig[address][direction] ELSE {}

(* FindAll: the accounts above ("multisigs") or below ("cosignatories") an    *)
(* account, and the number of levels.                                         *)
RECURSIVE FindAll(_, _, _)
FindAll(s, address, direction) ==
    LET found == {FindAll(s, linked, direction) : linked \in Linked(s, address, direction)}
    IN  [addresses |-> Linked(s, address, direction) \cup UNION {f.addresses : f \in found},
         numLevels |-> IF found = {} THEN 0 ELSE 1 + Max({f.numLevels : f \in found})]

(* ---- validators ---- *)

MultisigCosignatoriesValidator(n) ==
    /\ Len(n.Deletions) <= 1
    /\ IsInjective(n.Additions)
    /\ ToSet(n.Additions) \cap ToSet(n.Deletions) = {}

Resolved(s, addresses) == {ResolveAddress(s, addresses[i]) : i \in DOMAIN addresses}

MultisigInvalidCosignatoriesValidator(s, n) ==
    IF ~HasMultisig(s, n.Multisig) THEN n.Deletions = <<>>
    ELSE /\ Resolved(s, n.Additions) \cap s.multisig[n.Multisig].cosignatories = {}
         /\ Resolved(s, n.Deletions) \subseteq s.multisig[n.Multisig].cosignatories

MultisigMaxCosignatoriesValidator(s, n) ==
    Cardinality(Linked(s, n.Multisig, "cosignatories")) + Len(n.Additions) - Len(n.Deletions)
        <= MaxCosignatoriesPerAccount

(* An account that is no longer found had its last cosignatory removed.       *)
MultisigInvalidSettingsValidator(s, n) ==
    LET entry == s.multisig[n.Multisig]
        valid == 1 .. Cardinality(entry.cosignatories)
    IN  IF ~HasMultisig(s, n.Multisig) THEN n.MinRemovalDelta = -1 /\ n.MinApprovalDelta = -1
        ELSE entry.minRemoval + n.MinRemovalDelta \in valid /\ entry.minApproval + n.MinApprovalDelta \in valid


(* The loop check looks at the graph without the edge of the notification.    *)
LoopAndLevelChecker(ancestors, descendants, top, bottom) ==
    /\ ancestors.numLevels + descendants.numLevels + 1 <= MaxMultisigDepth
    /\ ({top} \cup ancestors.addresses) \cap ({bottom} \cup descendants.addresses) = {}

MultisigLoopAndLevelValidator(s, n) ==
    LET bottom == ResolveAddress(s, n.Cosignatory)
    IN  LoopAndLevelChecker(FindAll(s, n.Multisig, "multisigs"), FindAll(s, bottom, "cosignatories"),
                            n.Multisig, bottom)

MultisigMaxCosignedAccountsValidator(s, n) ==
    Cardinality(Linked(s, ResolveAddress(s, n.Cosignatory), "multisigs")) < MaxCosignedAccountsPerAccount

MultisigPermittedOperationValidator(s, n) == ~IsMultisig(s, n.Sender)

(* ExtractAdditionalRequiredCosignatories: accounts besides the signer that   *)
(* must agree to an embedded transaction.                                     *)
AdditionalRequiredCosignatories(tx) ==
    CASE tx.Type = "MultisigAccountModification" -> ToSet(tx.Additions)
      [] tx.Type = "Metadata"                    -> {tx.TargetAddress}
      [] OTHER                                   -> {}

RequiredAddresses(s, tx) ==
    {tx.Signer} \cup {ResolveAddress(s, address) : address \in AdditionalRequiredCosignatories(tx)}

RECURSIVE EligibleCosignatories(_, _)
EligibleCosignatories(s, address) ==
    IF ~IsMultisig(s, address) THEN {address}
    ELSE UNION {EligibleCosignatories(s, c) : c \in s.multisig[address].cosignatories}

(* Every cosignatory of the aggregate is needed by an embedded transaction.   *)
MultisigAggregateEligibleCosignatoriesValidator(s, n) ==
    n.Cosignatories \subseteq
        UNION {UNION {EligibleCosignatories(s, address) : address \in RequiredAddresses(s, n.Embedded[i])} :
                 i \in DOMAIN n.Embedded}

GetOperationType(tx) ==
    IF tx.Type # "MultisigAccountModification" \/ tx.Deletions = <<>> THEN "Normal"
    ELSE IF tx.Additions = <<>> THEN "Removal" ELSE "Max"

GetMinRequiredCosignatories(entry, operationType) ==
    CASE operationType = "Max"     -> Max({entry.minRemoval, entry.minApproval})
      [] operationType = "Removal" -> entry.minRemoval
      [] operationType = "Normal"  -> entry.minApproval

RECURSIVE isSatisfied(_, _, _, _)
isSatisfied(s, address, cosignatories, operationType) ==
    IF ~IsMultisig(s, address) THEN address \in cosignatories
    ELSE Cardinality({c \in s.multisig[address].cosignatories : isSatisfied(s, c, cosignatories, operationType)})
           >= GetMinRequiredCosignatories(s.multisig[address], operationType)

MultisigAggregateSufficientCosignatoriesValidator(s, n) ==
    \A address \in RequiredAddresses(s, n.Transaction) :
        isSatisfied(s, address, n.Cosignatories, GetOperationType(n.Transaction))

(* ---- observers ---- *)

NewMultisigEntry == [minApproval |-> 0, minRemoval |-> 0, cosignatories |-> {}, multisigs |-> {}]

GetMultisigEntry(s, address) ==
    IF HasMultisig(s, address) THEN s
    ELSE [s EXCEPT !.multisig = Insert(@, address, NewMultisigEntry)]

removeIfEmpty(s, address) ==
    IF s.multisig[address].cosignatories = {} /\ s.multisig[address].multisigs = {}
    THEN [s EXCEPT !.multisig = Erase(@, address)] ELSE s

addCosignatory(s, multisig, cosignatory) ==
    [GetMultisigEntry(s, cosignatory) EXCEPT !.multisig[cosignatory].multisigs = @ \cup {multisig},
                                             !.multisig[multisig].cosignatories = @ \cup {cosignatory}]

removeCosignatory(s, multisig, cosignatory) ==
    IF ~HasMultisig(s, cosignatory) THEN Throw(s)
    ELSE removeIfEmpty([s EXCEPT !.multisig[cosignatory].multisigs = @ \ {multisig},
                                 !.multisig[multisig].cosignatories = @ \ {cosignatory}], cosignatory)

AddAll(s, multisig, addresses, shouldAdd) ==
    FoldLeft(LAMBDA t, address :
                IF shouldAdd THEN addCosignatory(t, multisig, ResolveAddress(t, address))
                             ELSE removeCosignatory(t, multisig, ResolveAddress(t, address)),
             s, addresses)

MultisigCosignatoriesObserver(s, n, mode) ==
    LET commit == mode = "Commit"
        added == AddAll(GetMultisigEntry(s, n.Multisig), n.Multisig, n.Additions, commit)
    IN  removeIfEmpty(AddAll(added, n.Multisig, n.Deletions, ~commit), n.Multisig)

MultisigSettingsObserver(s, n, mode) ==
    LET direction == IF mode = "Commit" THEN 1 ELSE -1
    IN  IF ~HasMultisig(s, n.Multisig) /\ mode = "Commit" THEN s
        ELSE [GetMultisigEntry(s, n.Multisig) EXCEPT
                 !.multisig[n.Multisig].minApproval = @ + direction * n.MinApprovalDelta,
                 !.multisig[n.Multisig].minRemoval = @ + direction * n.MinRemovalDelta]
=============================================================================
