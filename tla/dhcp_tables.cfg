SPECIFICATION MCSpec
CONSTANTS
  UlongLimit = 1000
  Times = {0, 1}
  Tags = {0, 1}
  UserAliases <- MCAliases
  StoredOptions <- MCStored
  Tags4 = {0, 1}
  UserAliases4 <- MCAliases
  Families = {"v4", "v6"}
  MaxTableOps = 5
  MaxRestarts = 1
INVARIANTS
  Table6TypeOK
  ReadsWhatIsStored
  DibblerServesCommitted
  CommittedOptionsDistinct
  AliasBuffersEmpty
PROPERTIES
  RestartKeepsDelayAdded
CHECK_DEADLOCK FALSE
