SPECIFICATION MCSpec
CONSTANTS
    NLocal = 2
    TAD = TRUE
    SelectedAtBoot = {"PRIMARY", "AUTO"}
    LastAtBoot = "PRIMARY"
    NoReboot = FALSE
    LinkAtBoot = {1, 3}
    Happens <- AllHappens
    MaxEvents = 3
    Parts = {"policy", "devices"}
    Macs = {1, 2}
    NewDml = {2}
    Places = {1, 2}
    Deactivated = FALSE
    Followed = {"Alias", "Phy", "Link"}
    Slots = {1, 2}
    MaxDevEvents = 2
INVARIANTS
    RemoteStateOK
    RowsFollowDevices
PROPERTIES
    BreakBeforeMake
\* The threads may wait for Enable or for a link for good.
CHECK_DEADLOCK FALSE
