---- MODULE RoundContext ----
(***************************************************************************)
(* The vote tally of one finalization round: chain/FinalizationHashTree    *)
(* and chain/RoundContext of the finalization extension.                   *)
(*                                                                         *)
(* A key is a HeightHashPair <<height, hash>>.  Hashes are small numbers,  *)
(* because the candidates are kept in a std::map ordered by height and     *)
(* then by hash.  A context is a value: the operators below return the     *)
(* context after the call.                                                 *)
(*   tree  the hash tree, a function from a known key to its parent        *)
(*   cand  m_candidates, from a key to its prevote and precommit weight    *)
(*   pend  m_pendingPrecommitWeights, for keys the tree does not know yet  *)
(*   cum   m_cumulativePrecommitWeight                                     *)
(***************************************************************************)
EXTENDS Integers, Sequences, FiniteSets, FiniteSetsExt

CONSTANTS TotalWeight,  \* weight of all voters of the epoch
          Threshold     \* weight that makes a quorum

ASSUME WeightAssumption == TotalWeight \in Nat /\ Threshold \in 1..TotalWeight

\* the null parent, and the empty HeightHashPair of Try_Find_Failure_Result
NoKey == <<0, 0>>

\* HeightHashPairComparer: by height, then by hash
KeyLess(a, b) == a[1] < b[1] \/ (a[1] = b[1] /\ a[2] < b[2])

\* the keys of a branch of hashes that starts at a height
BranchKeys(height, hashes) == [i \in 1..Len(hashes) |-> <<height + i - 1, hashes[i]>>]

EmptyContext == [tree |-> [k \in {} |-> NoKey],
                 cand |-> [k \in {} |-> [pv |-> 0, pc |-> 0]],
                 pend |-> [k \in {} |-> 0],
                 cum |-> 0]

-----------------------------------------------------------------------------
(* FinalizationHashTree *)

\* the key and all keys reached from it over the parent pointers
findAncestors(ctx, key) ==
  LET up[k \in DOMAIN ctx.tree] ==
        {k} \cup (IF ctx.tree[k] = NoKey THEN {} ELSE up[ctx.tree[k]])
  IN IF key \in DOMAIN ctx.tree THEN up[key] ELSE {}

isDescendant(ctx, parent, child) == parent \in findAncestors(ctx, child)

\* A node that is already in the set keeps the parent it was inserted with:
\* m_tree.insert does not replace.
addBranch(tree, keys) ==
  [k \in DOMAIN tree \cup {keys[i] : i \in DOMAIN keys} |->
     IF k \in DOMAIN tree THEN tree[k]
     ELSE LET i == CHOOSE j \in DOMAIN keys : keys[j] = k
          IN IF i = 1 THEN NoKey ELSE keys[i - 1]]

-----------------------------------------------------------------------------
(* RoundContext *)

\* tryFindLastMatch: the last candidate in map order that matches
LastMatch(keys) == IF keys = {} THEN NoKey ELSE CHOOSE k \in keys : \A o \in keys : ~KeyLess(k, o)

tryFindBestPrevote(ctx) == LastMatch({k \in DOMAIN ctx.cand : ctx.cand[k].pv >= Threshold})

tryFindBestPrecommit(ctx) ==
  LastMatch({k \in DOMAIN ctx.cand : ctx.cand[k].pv >= Threshold /\ ctx.cand[k].pc >= Threshold})

canReachPrecommitThreshold(ctx, precommit) == precommit + (TotalWeight - ctx.cum) >= Threshold

\* the last ancestor of the best prevote that can reach the threshold
tryFindEstimate(ctx) ==
  LastMatch({k \in findAncestors(ctx, tryFindBestPrevote(ctx)) :
               canReachPrecommitThreshold(ctx, ctx.cand[k].pc)})

isCompletable(ctx) ==
  LET best == tryFindBestPrevote(ctx)
      estimate == tryFindEstimate(ctx)
  IN /\ best /= NoKey
     /\ \/ estimate /= NoKey /\ estimate /= best
        \/ /\ ~canReachPrecommitThreshold(ctx, 0)
           /\ \A k \in DOMAIN ctx.cand \ {best} :
                isDescendant(ctx, best, k) => ~canReachPrecommitThreshold(ctx, ctx.cand[k].pc)


\* acceptPrevote: the branch joins the tree, every key on it gains the weight,
\* and precommits that waited for one of its keys are counted for that key's
\* ancestors.
acceptPrevote(ctx, height, hashes, weight) ==
  LET keys == BranchKeys(height, hashes)
      onBranch == {keys[i] : i \in DOMAIN keys}
      grown == [ctx EXCEPT !.tree = addBranch(@, keys)]
      found == onBranch \cap DOMAIN ctx.pend
      old(k) == IF k \in DOMAIN ctx.cand THEN ctx.cand[k] ELSE [pv |-> 0, pc |-> 0]
      gained(k) == MapThenSumSet(LAMBDA f : ctx.pend[f], {f \in found : isDescendant(grown, k, f)})
  IN [tree |-> grown.tree,
      cand |-> [k \in DOMAIN ctx.cand \cup onBranch |->
                  [pv |-> old(k).pv + (IF k \in onBranch THEN weight ELSE 0),
                   pc |-> old(k).pc + gained(k)]],
      pend |-> [k \in DOMAIN ctx.pend \ found |-> ctx.pend[k]],
      cum |-> ctx.cum + MapThenSumSet(LAMBDA f : ctx.pend[f], found)]

acceptPrecommit(ctx, key, weight) ==
  LET ancestors == findAncestors(ctx, key)
  IN IF ancestors = {}
     THEN [ctx EXCEPT !.pend = [k \in DOMAIN @ \cup {key} |->
             (IF k \in DOMAIN @ THEN @[k] ELSE 0) + (IF k = key THEN weight ELSE 0)]]
     ELSE [ctx EXCEPT !.cand = [k \in DOMAIN @ |->
                                  IF k \in ancestors THEN [@[k] EXCEPT !.pc = @ + weight] ELSE @[k]],
                      !.cum = @ + weight]
====
