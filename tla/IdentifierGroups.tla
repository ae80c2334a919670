-------------------------- MODULE IdentifierGroups --------------------------
(* The containers every sub cache of the state is built from: a map from      *)
(* keys to values, kept here as a function whose domain is the set of keys    *)
(* present, and the secondary index that groups identifiers by the height at  *)
(* which they deactivate (IdentifierGroupCacheUtils.h).                       *)
(* A cache holding such an index is a record with the fields                  *)
(*   set    : identifier -> value                                             *)
(*   groups : height -> non-empty set of identifiers                          *)
EXTENDS Integers, Sequences, Functions, TLC

EmptyMap == <<>>

Insert(map, key, value) == (key :> value) @@ map

Erase(map, key) == Restrict(map, DOMAIN map \ {key}) @@ EmptyMap   \* @@ has TLC evaluate it

(* A group is a SET of identifiers: adding one twice is adding it once.       *)
AddIdentifierWithGroup(groups, key, identifier) ==
    Insert(groups, key, {identifier} \cup (IF key \in DOMAIN groups THEN groups[key] ELSE {}))

(* The members of a group whose value is still in the set.                    *)
IdentifiersWithGroup(set, groups, key) ==
    IF key \in DOMAIN groups THEN groups[key] \cap DOMAIN set ELSE {}

RemoveIdentifierWithGroup(groups, key, identifier) ==
    CASE key \notin DOMAIN groups           -> groups
      [] groups[key] \subseteq {identifier} -> Erase(groups, key)
      [] OTHER                              -> [groups EXCEPT ![key] = @ \ {identifier}]
=============================================================================
