------------------------------- MODULE Metadata -------------------------------
(* Values attached to accounts, mosaics and namespaces (plugin metadata). A   *)
(* transaction carries the XOR of the old and the new value and the change of *)
(* the size, so that undoing it needs nothing else. s.metadata maps <<source, *)
(* target, scoped key, target type, target id>> to the value, a sequence of   *)
(* bits: each stands for a byte, whose bits all change alike.                 *)
EXTENDS Mosaics

CONSTANT MaxValueSize

PublishMetadata(tx) ==
    <<[type |-> "MetadataSizes", ValueSizeDelta |-> tx.ValueSizeDelta, ValueSize |-> Len(tx.Value)],
      [type |-> "MetadataValue", Source |-> tx.Signer, TargetAddress |-> tx.TargetAddress,
       ScopedMetadataKey |-> tx.ScopedMetadataKey, TargetType |-> tx.TargetType, TargetId |-> tx.TargetId,
       ValueSizeDelta |-> tx.ValueSizeDelta, Value |-> tx.Value],
      CASE tx.TargetType = "Account"   -> AccountAddress(tx.TargetAddress)
        [] tx.TargetType = "Mosaic"    -> MosaicRequired(tx.TargetAddress, tx.TargetId, {})
        [] tx.TargetType = "Namespace" -> [type |-> "NamespaceRequired", Owner |-> tx.TargetAddress,
                                           NamespaceId |-> tx.TargetId]>>

ResolveMetadataKey(s, n) ==
    <<n.Source, ResolveAddress(s, n.TargetAddress), n.ScopedMetadataKey, n.TargetType,
      IF n.TargetType = "Mosaic" THEN ResolveMosaic(s, n.TargetId) ELSE n.TargetId>>

Abs(x) == IF x < 0 THEN -x ELSE x

MetadataSizesValidator(n) ==
    n.ValueSize # 0 /\ Abs(n.ValueSizeDelta) <= n.ValueSize /\ n.ValueSize <= MaxValueSize

canTrim(value, buffer, count) ==
    /\ Len(value) = Len(buffer) /\ count <= Len(value)
    /\ \A i \in Len(buffer) - count + 1 .. Len(buffer) : value[i] = buffer[i]

MetadataValueValidator(s, n) ==
    LET key == ResolveMetadataKey(s, n)
        value == s.metadata[key]
        growth == Max({0, n.ValueSizeDelta})
    IN  IF key \notin DOMAIN s.metadata THEN n.ValueSizeDelta = Len(n.Value)
        ELSE /\ Len(value) = Len(n.Value) - growth
             /\ n.ValueSizeDelta >= 0 \/ canTrim(value, n.Value, -n.ValueSizeDelta)

(* update: the value takes the size of the buffer, new bytes are zero.        *)
UpdatedValue(value, buffer) ==
    [i \in 1 .. Len(buffer) |-> buffer[i] # (i <= Len(value) /\ value[i])]

UpdateCache(s, key, buffer) ==
    [s EXCEPT !.metadata =
       CASE key \notin DOMAIN @ -> Insert(@, key, UpdatedValue(<<>>, buffer))
         [] key \in DOMAIN @ /\ buffer = <<>> -> Erase(@, key)
         [] OTHER -> Insert(@, key, UpdatedValue(@[key], buffer))]

MetadataValueObserver(s, n, mode) ==
    LET shrink == IF mode = "Commit" THEN Max({0, -n.ValueSizeDelta}) ELSE Max({0, n.ValueSizeDelta})
    IN  UpdateCache(s, ResolveMetadataKey(s, n), SubSeq(n.Value, 1, Len(n.Value) - shrink))
=============================================================================
