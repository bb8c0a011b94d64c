CONSTANTS
    NGroups = 1
    NIfaces = 2
    InitGroup <- OneGroup
    Priority <- PriorityReversed
    Persist = {}
    RequiresReboot = {2}
    MaxPolThreads = 1
    MaxISMThreads = 1
    PhyAtBoot = {1, 2}
    LastSelected = {1}
    Events <- ScanKinds
    MaxEvents = 0
SPECIFICATION MCSpec
CHECK_DEADLOCK FALSE
PROPERTY LastSelectedPreferred
