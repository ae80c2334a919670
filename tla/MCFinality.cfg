CONSTANTS
  v1 = v1
  v2 = v2
  v3 = v3
  Voters <- MCVoters
  Quorums <- MCQuorums
  Blocks <- MCBlocks
  Leq <- MCLeq
  Rounds <- MCRounds
SYMMETRY Symmetry
SPECIFICATION Spec
INVARIANT Agreement
CHECK_DEADLOCK FALSE
