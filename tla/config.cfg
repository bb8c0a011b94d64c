SPECIFICATION MCSpec
CONSTANTS
  Ifs = {1, 2}
  MaxVal = 2
  TimeoutMin = 1
  NumGroups = 1
  Aliases = {DATA, VOICE, IPTV}
  NoAlias = NoAlias
  Cut = Cut
  ListCapacity = 2
  MarkingMax = 4
  MaxSets = 3
  MaxOps = 6
  Priorities = {0}
  MaxBoots = 1
  MaxWebOps = 4
  PolicyGroups = {1, 2}
  TopMax = 2
  AutoWanMode = 1
  ParallelScan = 2
  ConfigurableWan = FALSE
  Control = Control
  DataAlias = DATA
  MaxBlobs = 1
  SetParams <- SetOnFirst
SYMMETRY AliasSymmetry
INVARIANTS
  StoredTypeOK
  ConfirmedSurvives
  PrioritiesDistinct
  PortsDistinct
  MarkingsStored
  RestartRepairs
CHECK_DEADLOCK FALSE
