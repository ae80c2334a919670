---- MODULE MCFinality ----
EXTENDS Finality, FiniteSets, TLC

CONSTANTS v1, v2, v3

MCVoters == {v1, v2, v3}
MCQuorums == {Q \in SUBSET MCVoters : Cardinality(Q) >= 2}

\* block 0 is shared, 1 and 2 are its children
MCBlocks == 0..2
MCLeq(a, b) == a = b \/ a = 0
MCRounds == 1..2

Symmetry == Permutations(MCVoters)
====
