---- MODULE Finality ----
(***************************************************************************)
(* What the votes of all nodes of an epoch establish together, when every  *)
(* voter decides with the rules of FinalizationStageAdvancer, RoundContext *)
(* and FinalizationOrchestrator, and messages are lost, delayed, repeated  *)
(* and reordered at will.                                                  *)
(*                                                                         *)
(* The only state is the set of votes cast.  What a voter has received is  *)
(* some subset of it, a view, and every decision is allowed that some view *)
(* justifies.  Weights appear as quorums: the sets of voters whose weight  *)
(* reaches the threshold.  A vote names a block: a prevote stands for the  *)
(* branch that ends there, from a block all voters share.  Rounds are the  *)
(* points of one epoch.                                                    *)
(***************************************************************************)
EXTENDS Integers

CONSTANTS Voters, Quorums, Blocks,
          Leq(_, _),   \* Leq(a, b): b is a or descends from a
          Rounds       \* the points of the epoch, 1, 2, ...

ASSUME QuorumAssumption ==
  /\ Quorums \subseteq SUBSET Voters
  /\ Voters \in Quorums
  /\ \A Q \in Quorums : \A S \in SUBSET Voters : Q \subseteq S => S \in Quorums
  /\ \A Q1, Q2 \in Quorums : Q1 \cap Q2 /= {}

ASSUME TreeAssumption ==
  /\ \A a \in Blocks : Leq(a, a)
  /\ \A a, b, c \in Blocks : Leq(a, b) /\ Leq(b, c) => Leq(a, c)
  /\ \A a, b, c \in Blocks : Leq(a, c) /\ Leq(b, c) => Leq(a, b) \/ Leq(b, a)
  /\ \A a, b \in Blocks : Leq(a, b) /\ Leq(b, a) => a = b

ASSUME RoundAssumption == Rounds \subseteq Nat \ {0} /\ \A s \in Rounds : s > 1 => s - 1 \in Rounds

VARIABLE votes

Vote == [voter : Voters, round : Rounds, stage : {"prevote", "precommit"}, block : Blocks]

VoteFor(v, s, stage, b) == [voter |-> v, round |-> s, stage |-> stage, block |-> b]

-----------------------------------------------------------------------------
(* The tally of a view W *)

\* the voters whose vote of a stage covers a block
VotersFor(W, s, stage, k) ==
  {v \in Voters : \E b \in Blocks : Leq(k, b) /\ VoteFor(v, s, stage, b) \in W}

\* a block is a candidate once a prevote covers it; precommits for other blocks are pending
IsCandidate(W, s, k) == VotersFor(W, s, "prevote", k) /= {}

\* the voters whose precommit counts for a block, or who may still cast one
CanSupport(W, s, k) ==
  {v \in Voters : \A b \in Blocks : VoteFor(v, s, "precommit", b) \in W /\ IsCandidate(W, s, b) => Leq(k, b)}

\* the voters none of whose precommits counts
Undecided(W, s) ==
  {v \in Voters : \A b \in Blocks : ~(VoteFor(v, s, "precommit", b) \in W /\ IsCandidate(W, s, b))}

IsBestPrevote(W, s, g) ==
  /\ g \in Blocks
  /\ VotersFor(W, s, "prevote", g) \in Quorums
  /\ \A k \in Blocks : VotersFor(W, s, "prevote", k) \in Quorums => Leq(k, g)

IsEstimate(W, s, g, e) ==
  /\ e \in Blocks /\ Leq(e, g) /\ CanSupport(W, s, e) \in Quorums
  /\ \A k \in Blocks : Leq(k, g) /\ CanSupport(W, s, k) \in Quorums => Leq(k, e)

IsCompletable(W, s, g, e) ==
  \/ e /= g
  \/ /\ Undecided(W, s) \notin Quorums
     /\ \A k \in Blocks : k /= g /\ Leq(g, k) /\ IsCandidate(W, s, k) => CanSupport(W, s, k) \notin Quorums

-----------------------------------------------------------------------------
(* The decisions of a voter *)

HasVoted(W, v, s, stage) == \E b \in Blocks : VoteFor(v, s, stage, b) \in W

\* isCompletable, with best prevote g and estimate e
Completes(W, s, g, e) == IsBestPrevote(W, s, g) /\ IsEstimate(W, s, g, e) /\ IsCompletable(W, s, g, e)

\* the votes of a round: any part of them may be what a voter has received
InRound(s) == {m \in votes : m.round = s}

\* canStartNextRound: a voter leaves round s with estimate e.  It has sent its
\* precommit, for a block b, and still holds the prevotes it was sent for.
MayLeave(W, v, s, e) ==
  /\ \E b \in Blocks : VoteFor(v, s, "precommit", b) \in votes /\ VotersFor(W, s, "prevote", b) \in Quorums
  /\ \E g \in Blocks : Completes(W, s, g, e)

\* the estimates with which a voter can have left round s
Estimates(v, s) == {e \in Blocks : \E W \in SUBSET InRound(s) : MayLeave(W, v, s, e)}

\* the best prevotes a voter can see in round s
BestPrevotes(s) ==
  {b \in Blocks : \E W \in SUBSET {m \in InRound(s) : m.stage = "prevote"} : IsBestPrevote(W, s, b)}

\* canSendPrevote: time alone allows it, for any branch
CastPrevote(v, s) ==
  /\ ~HasVoted(votes, v, s, "prevote")
  /\ s = 1 \/ Estimates(v, s - 1) /= {}
  /\ \E b \in Blocks : votes' = votes \cup {VoteFor(v, s, "prevote", b)}

\* mutant: the estimate of the previous round is ignored
MutantPrecommittable(v, s) == BestPrevotes(s)

\* canSendPrecommit: for the best prevote, if it descends from the estimate of
\* the previous round
Precommittable(v, s) ==
  {b \in BestPrevotes(s) : s = 1 \/ \E e \in Estimates(v, s - 1) : Leq(e, b)}

CastPrecommit(v, s) ==
  /\ ~HasVoted(votes, v, s, "precommit")
  /\ \E b \in Precommittable(v, s) : votes' = votes \cup {VoteFor(v, s, "precommit", b)}

Init == votes = {}

Next == \E v \in Voters, s \in Rounds : CastPrevote(v, s) \/ CastPrecommit(v, s)

Spec == Init /\ [][Next]_votes

-----------------------------------------------------------------------------
(* Properties *)

\* what tryFindBestPrecommit reports, and a proof shows
IsFinal(s, b) ==
  /\ VotersFor(votes, s, "prevote", b) \in Quorums
  /\ VotersFor(votes, s, "precommit", b) \in Quorums

\* Blocks finalized by the votes of any two rounds of an epoch are on one chain:
\* no two nodes store proofs of conflicting blocks, although a node may prevote
\* against the estimate of an earlier round (createPrevote does not look at it).
Agreement ==
  \A r, s \in Rounds : \A b, c \in Blocks : IsFinal(r, b) /\ IsFinal(s, c) => Leq(b, c) \/ Leq(c, b)
====
