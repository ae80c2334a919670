SPECIFICATION Spec
CONSTANTS
    NamespaceIds <- MCNamespaceIds
    MaxNamespaceDuration = 3
    GracePeriodDuration = 1
    MaxNamespaceDepth = 2
    MaxChildNamespaces = 1
    CurrencyMosaicId = "cur"
    HarvestNetworkFeeSink = "sink"
    HarvestNetworkPercentage = 10
    HarvestBeneficiaryPercentage = 25
    InflationAmount = 20
    MaxDifficultyBlocks = 2
    DefaultDynamicFeeMultiplier = 1
    LockedFundsPerAggregate = 10
    MaxLockDuration = 3
    TransactionsByHash <- MCTransactionsByHash
    NamespaceFeeSink = "sink"
    RootFeePerBlock = 1
    ChildFee = 1
    TransactionLimit = 4
    Plans <- MCPlans
    NemesisBalances <- MCNemesisBalances
    NemesisMosaics <- MCNemesisMosaics
    ImportantAccounts = {"A", "B"}
    HarvestingMosaicId = "cur"
    MinHarvesterBalance = 10
    MaxHarvesterBalance = 1000
    MosaicFeeSink = "sink"
    MosaicFee = 1
    MaxMosaicDuration = 4
    MaxMosaicsPerAccount = 3
    MaxMosaicAtomicUnits = 12
    MaxVotingKeysPerAccount = 2
    MinVotingKeyLifetime = 2
    MaxVotingKeyLifetime = 3
    MaxMultisigDepth = 2
    MaxCosignatoriesPerAccount = 2
    MaxCosignedAccountsPerAccount = 1
    MaxAccountRestrictionValues = 2
    MaxMosaicRestrictionValues = 1
    MaxValueSize = 2
INVARIANTS PathIndependent HarvestedBlockAccepted SupplyConserved  NamespaceIndexExact  LinksMutual
CHECK_DEADLOCK FALSE
