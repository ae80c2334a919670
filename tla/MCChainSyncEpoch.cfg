SPECIFICATION Spec
CONSTANTS
  Peers = {"p", "q"}
  Chains <- MCChains
  Weight <- MCWeight
  HashesPerBatch = 3
  MaxBlocks = 2
  SlotCount = 2
  IdCount = 3
  Plans <- MCEpochPlans
PROPERTIES FinalizedNeverRolledBack
