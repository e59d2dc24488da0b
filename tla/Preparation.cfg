CONSTANTS
    None = None
    Template = Template
    SeedLimit = 2
    MaxSeed = 3
    VramBudget = 12000
    LoraVram = 64
    AsyncEnabled = TRUE
    Boot = "shipped"
    Outside <- MCOutside
    Disks <- MCDisks
    Requests <- MCRequests
    Bundles <- MCBundles
SPECIFICATION Spec
INVARIANTS
    TypeOK
    RevalidationStable
    FailuresExplained
    ReadyWithinLimits
    GraphWellFormed
    GraphIsTheModels
    LorasInOrder
