SPECIFICATION MCFairSpec
CONSTANTS
    NLocal = 2
    TAD = FALSE
    SelectedAtBoot = {"PRIMARY", "AUTO"}
    LastAtBoot = "PRIMARY"
    NoReboot = FALSE
    LinkAtBoot = {1, 2, 3}
    Happens <- LinkHappens
    MaxEvents = 3
    Parts = {"policy"}
    Macs = {1, 2}
    NewDml = {2}
    Places = {1, 2}
    Deactivated = FALSE
    Followed = {"Alias", "Phy", "Link"}
    Slots = {1, 2}
    MaxDevEvents = 0
PROPERTIES
    LocalRestored
    BackupTakesOverFixed
\* The threads may wait for Enable or for a link for good.
CHECK_DEADLOCK FALSE
