------------------------------ MODULE MCLedger ------------------------------
(* Ledger with plans that each put one part of the state under forks,         *)
(* finalization and blocks of different peers.                                *)
EXTENDS Ledger

MCNamespaceIds == {"ns", "ns.sub"}

MCNemesisBalances ==
    [a \in {"A", "B", "sink"} |-> IF a = "sink" THEN "cur" :> 1 ELSE ("cur" :> 60) @@ ("gold" :> 5)]

Mosaic(flags, supply) ==
    [startHeight |-> 1, ownerAddress |-> "A", revision |-> 1, flags |-> flags, duration |-> 0, supply |-> supply]

MCNemesisMosaics ==
    ("cur" :> Mosaic({"Transferable"}, 121)) @@ ("gold" :> Mosaic({"Transferable", "Restrictable"}, 10))

Tx(signer, type, maxFee, fields) ==
    [Signer |-> signer, Type |-> type, Size |-> 1, MaxFee |-> maxFee] @@ fields

Complete(signer, cosignatures, embedded) ==
    Tx(signer, "AggregateComplete", 0, [Cosignatures |-> cosignatures, Embedded |-> embedded])

Modify(signer, cosignatures, multisig, additions, deletions, delta) ==
    Complete(signer, cosignatures,
             <<[Signer |-> multisig, Type |-> "MultisigAccountModification", Additions |-> additions,
                Deletions |-> deletions, MinRemovalDelta |-> delta, MinApprovalDelta |-> delta]>>)

Unset == [Value |-> 0, Type |-> "NONE"]
Unpermitted == [Value |-> Sentinel_Removal_Value, Type |-> "NONE"]

RestrictGold(type, target, previous, new) ==
    Tx("A", type, 1, [MosaicId |-> "gold", Target |-> target, RestrictionKey |-> "key",
                      ReferenceMosaicId |-> NoMosaic, Previous |-> previous, New |-> new])

(* A attaches a value to B's account.                                         *)
Attach(delta, value) ==
    Complete("A", {"B"}, <<[Signer |-> "A", Type |-> "Metadata", TargetAddress |-> "B", TargetType |-> "Account",
                            TargetId |-> "none", ScopedMetadataKey |-> "key", ValueSizeDelta |-> delta,
                            Value |-> value]>>)

MCTransactionsByHash ==
    [ transfer |-> Tx("A", "Transfer", 3, [Recipient |-> "D", MosaicId |-> "gold", Amount |-> 2]),
      back     |-> Tx("D", "Transfer", 0, [Recipient |-> "B", MosaicId |-> "gold", Amount |-> 1]),
      lock     |-> Tx("A", "SecretLock", 1, [Recipient |-> "D", MosaicId |-> "gold", Amount |-> 3,
                                             Duration |-> 2, Secret |-> "s"]),
      relock   |-> Tx("A", "SecretLock", 2, [Recipient |-> "D", MosaicId |-> "gold", Amount |-> 1,
                                             Duration |-> 1, Secret |-> "s"]),
      proof    |-> Tx("B", "SecretProof", 2, [Recipient |-> "D", Secret |-> "s", Proof |-> "s"]),
      hashLock |-> Tx("B", "HashLock", 2, [MosaicId |-> "cur", Amount |-> 10, Duration |-> 2, Hash |-> "bonded"]),
      bonded   |-> Tx("B", "AggregateBonded", 4,
                      [Cosignatures |-> {"A"},
                       Embedded |-> <<[Signer |-> "B", Type |-> "Transfer", Recipient |-> "E",
                                       MosaicId |-> "gold", Amount |-> 1],
                                      [Signer |-> "A", Type |-> "Transfer", Recipient |-> "E",
                                       MosaicId |-> "gold", Amount |-> 4]>>]),
      rootA    |-> Tx("A", "NamespaceRegistration", 1, [IsRoot |-> TRUE, Id |-> "ns", Duration |-> 1]),
      renewA   |-> Tx("A", "NamespaceRegistration", 2, [IsRoot |-> TRUE, Id |-> "ns", Duration |-> 1]),
      rootB    |-> Tx("B", "NamespaceRegistration", 1, [IsRoot |-> TRUE, Id |-> "ns", Duration |-> 1]),
      subA     |-> Tx("A", "NamespaceRegistration", 1, [IsRoot |-> FALSE, Id |-> "ns.sub", ParentId |-> "ns"]),
      link     |-> Tx("A", "Alias", 1, [NamespaceId |-> "ns", AliasAction |-> "Link",
                                        AliasedData |-> [type |-> "Address", value |-> "B"]]),
      pay      |-> Tx("B", "Transfer", 2, [Recipient |-> "ns", MosaicId |-> "gold", Amount |-> 1]),
      define   |-> Tx("A", "MosaicDefinition", 2, [Id |-> "silver", Flags |-> {"Supply_Mutable", "Revokable"},
                                                   Duration |-> 3]),
      redefine |-> Tx("A", "MosaicDefinition", 1, [Id |-> "silver", Flags |-> {"Supply_Mutable"}, Duration |-> 1]),
      supply   |-> Tx("A", "MosaicSupplyChange", 1, [MosaicId |-> "silver", Action |-> "Increase", Delta |-> 4]),
      burn     |-> Tx("A", "MosaicSupplyChange", 1, [MosaicId |-> "silver", Action |-> "Decrease", Delta |-> 2]),
      give     |-> Tx("A", "Transfer", 1, [Recipient |-> "D", MosaicId |-> "silver", Amount |-> 2]),
      revoke   |-> Tx("A", "MosaicSupplyRevocation", 2, [Source |-> "D", MosaicId |-> "silver", Amount |-> 1]),
      linkR    |-> Tx("A", "AccountKeyLink", 1, [LinkedPublicKey |-> "R", LinkAction |-> "Link"]),
      unlinkR  |-> Tx("A", "AccountKeyLink", 2, [LinkedPublicKey |-> "R", LinkAction |-> "Unlink"]),
      relinkR  |-> Tx("B", "AccountKeyLink", 1, [LinkedPublicKey |-> "R", LinkAction |-> "Link"]),
      payR     |-> Tx("B", "Transfer", 1, [Recipient |-> "R", MosaicId |-> "gold", Amount |-> 1]),
      vrf      |-> Tx("A", "KeyLink", 1, [Accessor |-> "vrf", LinkedPublicKey |-> "k", LinkAction |-> "Link"]),
      unvrf    |-> Tx("A", "KeyLink", 1, [Accessor |-> "vrf", LinkedPublicKey |-> "k", LinkAction |-> "Unlink"]),
      vote1    |-> Tx("A", "KeyLink", 1, [Accessor |-> "voting", LinkAction |-> "Link",
                                          LinkedPublicKey |-> [key |-> "v", StartEpoch |-> 1, EndEpoch |-> 2]]),
      vote2    |-> Tx("A", "KeyLink", 1, [Accessor |-> "voting", LinkAction |-> "Link",
                                          LinkedPublicKey |-> [key |-> "w", StartEpoch |-> 3, EndEpoch |-> 4]]),
      unvote1  |-> Tx("A", "KeyLink", 2, [Accessor |-> "voting", LinkAction |-> "Unlink",
                                          LinkedPublicKey |-> [key |-> "v", StartEpoch |-> 1, EndEpoch |-> 2]]) ]
     @@
    [ cosignA  |-> Modify("B", {"A"}, "A", <<"B">>, <<>>, 1),
      cosignB  |-> Modify("B", {"D"}, "B", <<"D">>, <<>>, 1),
      cosignD  |-> Modify("D", {"E"}, "D", <<"E">>, <<>>, 1),
      cycle    |-> Modify("B", {}, "B", <<"A">>, <<>>, 1),
      releaseA |-> Modify("B", {}, "A", <<>>, <<"B">>, -1),
      releaseB |-> Modify("D", {}, "B", <<>>, <<"D">>, -1),
      spendA   |-> Complete("D", {}, <<[Signer |-> "A", Type |-> "Transfer", Recipient |-> "D",
                                        MosaicId |-> "gold", Amount |-> 1]>>),
      blockA   |-> Tx("B", "AccountAddressRestriction", 1,
                      [RestrictionFlags |-> "Address", OperationType |-> "Block",
                       Additions |-> <<"A">>, Deletions |-> <<>>]),
      onlyD    |-> Tx("B", "AccountAddressRestriction", 1,
                      [RestrictionFlags |-> "Address", OperationType |-> "Allow",
                       Additions |-> <<"D">>, Deletions |-> <<>>]),
      unblockA |-> Tx("B", "AccountAddressRestriction", 1,
                      [RestrictionFlags |-> "Address", OperationType |-> "Block",
                       Additions |-> <<>>, Deletions |-> <<"A">>]),
      toB      |-> Tx("A", "Transfer", 1, [Recipient |-> "B", MosaicId |-> "gold", Amount |-> 1]),
      onlyOps  |-> Tx("A", "AccountOperationRestriction", 1,
                      [RestrictionFlags |-> "TransactionType_Outgoing", OperationType |-> "Allow",
                       Additions |-> <<"AccountOperationRestriction">>, Deletions |-> <<>>]),
      rule     |-> RestrictGold("MosaicGlobalRestriction", NoAddress, Unset, [Value |-> 1, Type |-> "GE"]),
      unrule   |-> RestrictGold("MosaicGlobalRestriction", NoAddress, [Value |-> 1, Type |-> "GE"], Unset),
      permitA  |-> RestrictGold("MosaicAddressRestriction", "A", Unpermitted, [Value |-> 1, Type |-> "NONE"]),
      permitB  |-> RestrictGold("MosaicAddressRestriction", "B", Unpermitted, [Value |-> 2, Type |-> "NONE"]),
      forbidB  |-> RestrictGold("MosaicAddressRestriction", "B", [Value |-> 2, Type |-> "NONE"], Unpermitted),
      set      |-> Attach(2, <<TRUE, FALSE>>),
      shorten  |-> Attach(-1, <<TRUE, FALSE>>),
      grow     |-> Attach(1, <<TRUE, TRUE>>),
      clear    |-> Attach(-2, <<TRUE, FALSE>>) ]

(* What an unconfirmed cache may hold: any of the transactions in any order,  *)
(* up to a number of them.                                                    *)
UpTo(number, transactions) ==
    UNION {{ut \in [1 .. n -> transactions] : IsInjective(ut)} : n \in 0 .. number}

Plan(unconfirmed, signers, beneficiaries, strategies, maxHeight, maxForks) ==
    [unconfirmed |-> unconfirmed, signers |-> signers, beneficiaries |-> beneficiaries,
     strategies |-> strategies, maxHeight |-> maxHeight, maxForks |-> maxForks]

(* One plan for each part of the state.                                       *)
ByB(unconfirmed, maxHeight) == Plan(unconfirmed, {"B"}, {"B"}, {"Oldest"}, maxHeight, 2)

MCPlans ==
    { (* secret locks that are used, expire or are locked again *)
      ByB(UpTo(1, {"lock", "proof"}) \cup {<<"lock", "proof">>, <<"relock", "proof">>, <<"proof", "relock">>}, 6),
      (* hash locks and the aggregate they pay for *)
      Plan(UpTo(1, {"hashLock", "bonded"}) \cup {<<"hashLock", "bonded">>, <<"hashLock", "transfer">>},
           {"A"}, {"B"}, {"Maximize_Fee"}, 6, 2),
      (* namespaces that are renewed, taken over and expire *)
      ByB(UpTo(1, {"rootA", "subA", "renewA", "rootB"}) \cup {<<"rootA", "subA">>}, 5),
      (* aliases *)
      ByB(UpTo(1, {"rootA", "pay"}) \cup {<<"rootA", "link">>}, 6),
      (* accounts that appear, selection strategies, beneficiaries *)
      Plan(UpTo(1, {"transfer"}) \cup {<<"transfer", "back">>, <<"lock", "transfer">>}, {"A"}, {"A", "B", "E"},
           {"Oldest", "Minimize_Fee", "Maximize_Fee"}, 3, 2),
      (* mosaic definitions and supplies *)
      ByB(UpTo(1, {"define", "give", "revoke", "burn"}) \cup {<<"supply", "give">>, <<"define", "redefine">>}, 6),
      (* a remote account harvests *)
      Plan(UpTo(1, {"linkR", "unlinkR", "relinkR"}) \cup {<<"payR", "linkR">>}, {"B", "R"}, {"B"}, {"Oldest"}, 4, 2),
      (* VRF and voting keys *)
      ByB(UpTo(1, {"vrf", "unvrf", "vote2"}) \cup {<<"vote1", "vote2">>, <<"unvote1", "vote1">>}, 4),
      (* multisig accounts *)
      ByB(UpTo(1, {"cosignA", "cosignB", "releaseA", "releaseB", "spendA"})
            \cup {<<"cosignB", "cosignD">>, <<"cosignA", "cycle">>}, 5),
      (* account restrictions *)
      ByB(UpTo(1, {"blockA", "unblockA", "onlyD", "toB"}) \cup {<<"onlyOps", "toB">>}, 5),
      (* mosaic restrictions *)
      ByB(UpTo(1, {"rule", "unrule", "permitB", "forbidB"}) \cup {<<"permitA", "toB">>}, 5),
      (* metadata *)
      ByB(UpTo(1, {"set", "shorten", "grow", "clear"}) \cup {<<"clear", "set">>}, 5) }
=============================================================================
