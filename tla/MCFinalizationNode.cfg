CONSTANTS
  self = self
  p = p
  q = q
  Self = self
  Voters <- MCVoters
  Weight <- MCWeight
  TotalWeight = 3
  Threshold = 2
  Grouping = 2
  PrevoteBlocksMultiple = 1
  MaxHashesPerPoint = 3
  UnfinalizedBlocksDuration = 0
  Chains <- MCChains
  Plans <- MCPlans
  MaxPoint = 2
  MaxEpoch = 3
SPECIFICATION FairSpec
CHECK_DEADLOCK FALSE
 
PROPERTIES VotesFollowProtocol VotesOncePerStatus ProofsExtend KnownFinalityStored
