---- MODULE FinalityProofs ----
(***************************************************************************)
(* Agreement of the finalization rounds of an epoch, for every set of      *)
(* voters, every quorum system whose quorums intersect, every block tree   *)
(* and any number of rounds.                                               *)
(***************************************************************************)
EXTENDS Finality, TLAPS

\* b can still become final in round s: the votes cast so far leave a quorum
\* of prevotes and a quorum of precommits for it
Choosable(s, b) ==
  \A stage \in {"prevote", "precommit"} :
    \E Q \in Quorums : \A v \in Q : \A c \in Blocks : VoteFor(v, s, stage, c) \in votes => Leq(b, c)

OneVotePerStep ==
  \A v \in Voters, s \in Rounds, stage \in {"prevote", "precommit"}, b, c \in Blocks :
    VoteFor(v, s, stage, b) \in votes /\ VoteFor(v, s, stage, c) \in votes => b = c

\* a precommit extends everything that an earlier round may still finalize
Extending ==
  \A r, s \in Rounds : r < s =>
    \A v \in Voters : \A b, c \in Blocks :
      VoteFor(v, s, "precommit", c) \in votes /\ Choosable(r, b) => Leq(b, c)

IInv == votes \subseteq Vote /\ OneVotePerStep /\ Extending

-----------------------------------------------------------------------------

\* A new vote leaves no more choices open than there were.
LEMMA ChoosableShrinks ==
  ASSUME NEW s, NEW b, votes \subseteq votes', Choosable(s, b)'
  PROVE  Choosable(s, b)
BY DEF Choosable

\* A block that can still become final in a round lies on one chain with the
\* best prevote of every view of that round.
LEMMA ChoosableOnChain ==
  ASSUME NEW s \in Rounds, NEW W \in SUBSET votes, NEW g \in Blocks, NEW b \in Blocks,
         IsBestPrevote(W, s, g), Choosable(s, b)
  PROVE  Leq(b, g) \/ Leq(g, b)
<1>1. PICK Q \in Quorums : \A v \in Q : \A c \in Blocks : VoteFor(v, s, "prevote", c) \in votes => Leq(b, c)
  BY DEF Choosable
<1>2. PICK v \in Voters : v \in Q /\ v \in VotersFor(W, s, "prevote", g)
  BY QuorumAssumption DEF IsBestPrevote
<1>3. PICK x \in Blocks : Leq(g, x) /\ VoteFor(v, s, "prevote", x) \in W
  BY <1>2 DEF VotersFor
<1>4. Leq(b, x)
  BY <1>1, <1>2, <1>3
<1> QED
  BY <1>3, <1>4, TreeAssumption

\* In every view a quorum may still support a block that can become final.
LEMMA ChoosableSupported ==
  ASSUME NEW s \in Rounds, NEW W \in SUBSET votes, NEW b \in Blocks, NEW k \in Blocks,
         Leq(k, b), Choosable(s, b)
  PROVE  CanSupport(W, s, k) \in Quorums
<1>1. PICK Q \in Quorums : \A v \in Q : \A c \in Blocks : VoteFor(v, s, "precommit", c) \in votes => Leq(b, c)
  BY DEF Choosable
<1>2. Q \subseteq CanSupport(W, s, k)
  <2>1. SUFFICES ASSUME NEW v \in Q, NEW c \in Blocks, VoteFor(v, s, "precommit", c) \in W
                 PROVE  Leq(k, c)
    BY QuorumAssumption DEF CanSupport
  <2>2. Leq(b, c)
    BY <1>1, <2>1
  <2> QED
    BY <2>2, TreeAssumption
<1>3. CanSupport(W, s, k) \in SUBSET Voters
  BY DEF CanSupport
<1> QED
  BY <1>2, <1>3, QuorumAssumption

\* A voter that leaves a round does so with an estimate at or above every
\* block that the round may still finalize (RoundContext::isCompletable).
LEMMA EstimateBounds ==
  ASSUME NEW s \in Rounds, NEW W \in SUBSET votes, NEW g \in Blocks, NEW e \in Blocks, NEW b \in Blocks,
         Completes(W, s, g, e), Choosable(s, b)
  PROVE  Leq(b, e)
<1>1. IsBestPrevote(W, s, g) /\ IsEstimate(W, s, g, e) /\ IsCompletable(W, s, g, e)
  BY DEF Completes
<1>2. CASE Leq(b, g)
  <2>1. CanSupport(W, s, b) \in Quorums
    BY ChoosableSupported, TreeAssumption
  <2> QED
    BY <1>1, <1>2, <2>1 DEF IsEstimate
<1>3. CASE Leq(g, b) /\ b /= g
  <2>1. CanSupport(W, s, g) \in Quorums
    BY ChoosableSupported, <1>3
  <2>2. e = g
    BY <1>1, <2>1, TreeAssumption DEF IsEstimate
  <2>3. Undecided(W, s) \notin Quorums /\ (IsCandidate(W, s, b) => CanSupport(W, s, b) \notin Quorums)
    BY <1>1, <1>3, <2>2 DEF IsCompletable
  <2>4. CanSupport(W, s, b) \in Quorums
    BY ChoosableSupported, TreeAssumption
  <2>5. ~IsCandidate(W, s, b)
    BY <2>3, <2>4
  <2>6. CanSupport(W, s, b) \subseteq Undecided(W, s)
    <3>1. SUFFICES ASSUME NEW v \in CanSupport(W, s, b), NEW c \in Blocks,
                          VoteFor(v, s, "precommit", c) \in W, IsCandidate(W, s, c)
                   PROVE  FALSE
      BY DEF CanSupport, Undecided
    <3>2. Leq(b, c)
      BY <3>1 DEF CanSupport
    <3>3. PICK w \in Voters, x \in Blocks : Leq(c, x) /\ VoteFor(w, s, "prevote", x) \in W
      BY <3>1 DEF IsCandidate, VotersFor
    <3>4. Leq(b, x)
      BY <3>2, <3>3, TreeAssumption
    <3>5. IsCandidate(W, s, b)
      BY <3>3, <3>4 DEF IsCandidate, VotersFor
    <3> QED
      BY <2>5, <3>5
  <2>7. Undecided(W, s) \in SUBSET Voters
    BY DEF Undecided
  <2> QED
    BY <2>3, <2>4, <2>6, <2>7, QuorumAssumption
<1> QED
  BY <1>1, <1>2, <1>3, ChoosableOnChain

\* The estimate is also above every block that an earlier round may still
\* finalize: the voter has precommitted for one above it, so the best prevote
\* is above it, and all precommits of the round support it.
LEMMA EstimateBoundsEarlier ==
  ASSUME IInv, NEW r \in Rounds, NEW s \in Rounds, r < s, NEW v \in Voters,
         NEW e \in Estimates(v, s), NEW b \in Blocks, Choosable(r, b)
  PROVE  Leq(b, e)
<1>1. PICK c \in Blocks, W \in SUBSET InRound(s), g \in Blocks :
        /\ VoteFor(v, s, "precommit", c) \in votes
        /\ VotersFor(W, s, "prevote", c) \in Quorums
        /\ Completes(W, s, g, e)
  BY DEF Estimates, MayLeave
<1>2. e \in Blocks /\ W \subseteq votes
  BY DEF Estimates, InRound
<1>3. Leq(b, c)
  BY <1>1 DEF IInv, Extending
<1>4. Leq(c, g)
  BY <1>1 DEF Completes, IsBestPrevote
<1>5. Leq(b, g)
  BY <1>3, <1>4, TreeAssumption
<1>6. CanSupport(W, s, b) = Voters
  <2>1. SUFFICES ASSUME NEW w \in Voters, NEW d \in Blocks, VoteFor(w, s, "precommit", d) \in votes
                 PROVE  Leq(b, d)
    BY <1>2 DEF CanSupport
  <2> QED
    BY <2>1 DEF IInv, Extending
<1> QED
  BY <1>1, <1>5, <1>6, QuorumAssumption DEF Completes, IsEstimate

\* The steps keep the invariant.  Only a new precommit can disturb Extending.
LEMMA StepKeepsIInv == IInv /\ [Next]_votes => IInv'
<1> SUFFICES ASSUME IInv, [Next]_votes PROVE IInv'
  OBVIOUS
<1>1. CASE UNCHANGED votes
  BY <1>1 DEF IInv, OneVotePerStep, Extending, Choosable
<1>2. ASSUME NEW v \in Voters, NEW s \in Rounds, CastPrevote(v, s)
      PROVE  IInv'
  <2>1. PICK b \in Blocks : votes' = votes \cup {VoteFor(v, s, "prevote", b)}
    BY <1>2 DEF CastPrevote
  <2>2. votes' \subseteq Vote
    BY <2>1 DEF IInv, Vote, VoteFor
  <2>3. OneVotePerStep'
    BY <1>2, <2>1 DEF CastPrevote, HasVoted, IInv, OneVotePerStep, VoteFor
  <2>4. Extending'
    <3>1. SUFFICES ASSUME NEW r \in Rounds, NEW t \in Rounds, r < t, NEW w \in Voters,
                          NEW a \in Blocks, NEW c \in Blocks,
                          VoteFor(w, t, "precommit", c) \in votes', Choosable(r, a)'
                   PROVE  Leq(a, c)
      BY DEF Extending
    <3>2. VoteFor(w, t, "precommit", c) \in votes
      BY <2>1, <3>1 DEF VoteFor
    <3>3. Choosable(r, a)
      BY <2>1, <3>1, ChoosableShrinks
    <3> QED
      BY <3>1, <3>2, <3>3 DEF IInv, Extending
  <2> QED
    BY <2>2, <2>3, <2>4 DEF IInv
<1>3. ASSUME NEW v \in Voters, NEW s \in Rounds, CastPrecommit(v, s)
      PROVE  IInv'
  <2>1. PICK b \in Precommittable(v, s) : votes' = votes \cup {VoteFor(v, s, "precommit", b)}
    BY <1>3 DEF CastPrecommit
  <2>2. b \in Blocks /\ (s = 1 \/ \E e \in Estimates(v, s - 1) : Leq(e, b))
    BY DEF Precommittable, BestPrevotes
  <2>3. votes' \subseteq Vote
    BY <2>1, <2>2 DEF IInv, Vote, VoteFor
  <2>4. OneVotePerStep'
    BY <1>3, <2>1, <2>2 DEF CastPrecommit, HasVoted, IInv, OneVotePerStep, VoteFor
  <2>5. Extending'
    <3>1. SUFFICES ASSUME NEW r \in Rounds, NEW t \in Rounds, r < t, NEW w \in Voters,
                          NEW a \in Blocks, NEW c \in Blocks,
                          VoteFor(w, t, "precommit", c) \in votes', Choosable(r, a)'
                   PROVE  Leq(a, c)
      BY DEF Extending
    <3>2. Choosable(r, a)
      BY <2>1, <3>1, ChoosableShrinks
    <3>3. CASE VoteFor(w, t, "precommit", c) \in votes
      BY <3>1, <3>2, <3>3 DEF IInv, Extending
    <3>4. CASE VoteFor(w, t, "precommit", c) = VoteFor(v, s, "precommit", b)
      <4>1. t = s /\ c = b
        BY <3>4 DEF VoteFor
      <4>2. s - 1 \in Rounds /\ (r = s - 1 \/ r < s - 1) /\ s /= 1
        <5>1. r \in Nat /\ s \in Nat /\ r < s
          BY <3>1, <4>1, RoundAssumption
        <5>2. r >= 1
          BY RoundAssumption
        <5> QED
          BY <5>1, <5>2, RoundAssumption
      <4>3. PICK e \in Estimates(v, s - 1) : Leq(e, b)
        BY <2>2, <4>2
      <4>4. Leq(a, e)
        <5>1. CASE r < s - 1
          BY <5>1, <3>2, <4>2, EstimateBoundsEarlier
        <5>2. CASE r = s - 1
          <6>1. PICK W \in SUBSET InRound(s - 1), g \in Blocks : Completes(W, s - 1, g, e)
            BY DEF Estimates, MayLeave
          <6>2. e \in Blocks /\ W \in SUBSET votes
            BY DEF Estimates, InRound
          <6> QED
            BY <3>2, <4>2, <5>2, <6>1, <6>2, EstimateBounds
        <5> QED
          BY <4>2, <5>1, <5>2
      <4>5. e \in Blocks
        BY DEF Estimates, MayLeave
      <4> QED
        BY <2>2, <4>1, <4>3, <4>4, <4>5, TreeAssumption
    <3> QED
      BY <2>1, <3>1, <3>3, <3>4
  <2> QED
    BY <2>3, <2>4, <2>5 DEF IInv
<1> QED
  BY <1>1, <1>2, <1>3 DEF Next

\* A block with two quorums of votes could become final, in particular.
LEMMA FinalIsChoosable ==
  ASSUME IInv, NEW s \in Rounds, NEW b \in Blocks, IsFinal(s, b)
  PROVE  Choosable(s, b)
<1>1. SUFFICES ASSUME NEW stage \in {"prevote", "precommit"}
               PROVE  \A v \in VotersFor(votes, s, stage, b) : \A c \in Blocks :
                        VoteFor(v, s, stage, c) \in votes => Leq(b, c)
  BY DEF Choosable, IsFinal
<1> QED
  BY DEF VotersFor, IInv, OneVotePerStep

\* The invariant rules out conflicting blocks, within a round by the prevotes
\* and across rounds by the precommits.
LEMMA IInvAgreement == IInv => Agreement
<1> SUFFICES ASSUME IInv, NEW r \in Rounds, NEW s \in Rounds, NEW b \in Blocks, NEW c \in Blocks,
                    IsFinal(r, b), IsFinal(s, c), r <= s
             PROVE  Leq(b, c) \/ Leq(c, b)
  <2>1. \A r, s \in Rounds : r <= s \/ s <= r
    BY RoundAssumption
  <2> QED
    BY <2>1 DEF Agreement
<1>1. CASE r = s
  <2>1. PICK v \in Voters : v \in VotersFor(votes, s, "prevote", b) /\ v \in VotersFor(votes, s, "prevote", c)
    BY <1>1, QuorumAssumption DEF IsFinal
  <2>2. PICK x \in Blocks : Leq(b, x) /\ Leq(c, x)
    BY <2>1 DEF VotersFor, IInv, OneVotePerStep
  <2> QED
    BY <2>2, TreeAssumption
<1>2. CASE r < s
  <2>1. VotersFor(votes, s, "precommit", c) /= {}
    BY QuorumAssumption DEF IsFinal
  <2>2. PICK v \in Voters, x \in Blocks : Leq(c, x) /\ VoteFor(v, s, "precommit", x) \in votes
    BY <2>1 DEF VotersFor
  <2>3. Leq(b, x)
    BY <1>2, <2>2, FinalIsChoosable DEF IInv, Extending
  <2> QED
    BY <2>2, <2>3, TreeAssumption
<1> QED
  BY <1>1, <1>2, RoundAssumption

\* Blocks finalized in any two rounds of an epoch are on one chain, whatever
\* part of the votes each voter saw when it voted.
THEOREM FinalityAgreement == Spec => []Agreement
<1>1. Init => IInv
  BY DEF Init, IInv, OneVotePerStep, Extending, VoteFor
<1> QED
  BY <1>1, StepKeepsIInv, IInvAgreement, PTL DEF Spec
====
