------------------------------- MODULE WanData -------------------------------
(* The data the threads of the WAN Manager share, all of it behind one       *)
(* recursive mutex (gWanMgrDataBase.gDataMutex): the global configuration,   *)
(* the interface groups and the interfaces with their first virtual          *)
(* interface.  Every action of the modules that extend this one is one       *)
(* critical section of that mutex (or a local step), so an interleaving of   *)
(* actions is an interleaving of lock sections.                              *)
(*                                                                           *)
(* An interface is known by its data-model instance number 1..NIfaces, so    *)
(* that 0 is "none" as in WANMGR_IFACE_GROUP.SelectedInterface; a group is   *)
(* known by its instance number 1..NGroups, 1 being the highest priority.    *)
EXTENDS Integers

CONSTANTS
    NGroups,          \* number of groups (MAX_INTERFACE_GROUP in the code)
    NIfaces,          \* number of WAN interfaces in the table
    InitGroup,        \* Selection.Group of each interface at boot
    Priority,         \* Selection.Priority of each interface
    Persist,          \* groups with PersistSelectedIface
    RequiresReboot,   \* interfaces whose hardware reconfiguration needs a reboot
    MaxPolThreads,    \* bound: selection threads alive at once per group
    MaxISMThreads,    \* bound: state machine threads alive at once per interface
    PhyAtBoot,        \* interfaces whose BaseInterfaceStatus is already Up at boot
    Events            \* the events a run explores: pairs <<kind, object>>

Groups == 1 .. NGroups
Ifaces == 1 .. NIfaces
PolSlots == 1 .. MaxPolThreads
ISMSlots == 1 .. MaxISMThreads
NoIface == 0
NoGroup == 0

(* DML_WAN_IFACE_PRIORITY_MAX: a priority is usable below it.                *)
PriorityMax == 255

ASSUME SizesAssumption ==
    /\ NGroups \in Nat \ {0}
    /\ NIfaces \in Nat \ {0}
    /\ MaxPolThreads \in Nat \ {0}
    /\ MaxISMThreads \in Nat \ {0}

ASSUME TablesAssumption ==
    /\ InitGroup \in [Ifaces -> Groups]
    /\ Priority \in [Ifaces -> Int]
    /\ Persist \subseteq Groups
    /\ RequiresReboot \subseteq Ifaces
    /\ PhyAtBoot \subseteq Ifaces

VARIABLES
    config,   \* DML_WANMGR_CONFIG
    group,    \* WANMGR_IFACE_GROUP, one record per group
    iface     \* DML_WAN_IFACE with its first DML_VIRTUAL_IFACE

GroupStates == {"RUNNING", "STOPPED", "DEACTIVATED"}
SelectionStates == {"NOT_SELECTED", "VALIDATING", "SELECTED", "ACTIVE"}

(* WAN_IFACE_STATUS: INITIALISING stands for INITIALISING and VALIDATING,    *)
(* which no reader tells apart.                                              *)
IfaceStatuses == {"DISABLED", "INITIALISING", "STANDBY", "UP", "INVALID"}

ConfigType == [Enable : BOOLEAN, ResetFailOverScan : BOOLEAN]

(* Activated is ActivationCount # 0: the code only ever compares it with 0.  *)
GroupType == [State : GroupStates,
              SelectedInterface : Ifaces \cup {NoIface},
              Activated : BOOLEAN,
              ConfigChanged : BOOLEAN,
              ResetSelectedInterface : BOOLEAN,
              InitialScanComplete : BOOLEAN]

(* Connectivity is "Ipv4ConnectivityStatus or Ipv6ConnectivityStatus is UP". *)
IfaceType == [Group : Groups,
              Enable : BOOLEAN,
              PhyUp : BOOLEAN,
              Selection : SelectionStates,
              Status : IfaceStatuses,
              Connectivity : BOOLEAN,
              ActiveLink : BOOLEAN,
              Reset : BOOLEAN,
              SMRunning : BOOLEAN]

DataTypeOK ==
    /\ config \in ConfigType
    /\ group \in [Groups -> GroupType]
    /\ iface \in [Ifaces -> IfaceType]

(* InterfaceAvailable: the bit mask of a group's interfaces.                 *)
InterfaceAvailable(g) == {i \in Ifaces : iface[i].Group = g}

-----------------------------------------------------------------------------
(* What the process starts from: WanMgr_SetConfigData_Default,               *)
(* WanMgr_Group_Configure, WanMgr_IfaceData_Init and WanMgr_VirtIface_Init.  *)
(* Selection.Enable and Enable come from PSM; the interfaces are enabled in  *)
(* the instances we check.                                                   *)
InitConfig == config = [Enable |-> TRUE, ResetFailOverScan |-> FALSE]

InitGroups ==
    group = [g \in Groups |->
        [State |-> "STOPPED", SelectedInterface |-> NoIface,
         Activated |-> FALSE, ConfigChanged |-> FALSE,
         ResetSelectedInterface |-> FALSE, InitialScanComplete |-> FALSE]]

InitIfaces ==
    iface = [i \in Ifaces |->
        [Group |-> InitGroup[i], Enable |-> TRUE, PhyUp |-> i \in PhyAtBoot,
         Selection |-> "NOT_SELECTED", Status |-> "DISABLED",
         Connectivity |-> FALSE, ActiveLink |-> FALSE, Reset |-> FALSE,
         SMRunning |-> FALSE]]

DataInit == InitConfig /\ InitGroups /\ InitIfaces

-----------------------------------------------------------------------------
(* WanMgr_SetGroupSelectedIface, on the value of the group table.            *)
SetGroupSelectedIface(tbl, g, i) ==
    [tbl EXCEPT ![g].SelectedInterface = i, ![g].InitialScanComplete = TRUE]

-----------------------------------------------------------------------------
(* The operator and the other RDK components write the data model under the  *)
(* same mutex, at any time.                                                  *)

(* Device.X_RDK_WanManager.Enable: "enable" is a write of TRUE, "disable"    *)
(* one of FALSE                                                              *)
SetWanEnable ==
    /\ <<IF config.Enable THEN "disable" ELSE "enable", 0>> \in Events
    /\ config' = [config EXCEPT !.Enable = ~ @]
    /\ UNCHANGED <<group, iface>>

(* Interface.{i}.Selection.Enable                                            *)
SetSelectionEnable(i) ==
    /\ <<"selection", i>> \in Events
    /\ iface' = [iface EXCEPT ![i].Enable = ~ @]
    /\ UNCHANGED <<config, group>>

(* Interface.{i}.BaseInterfaceStatus, reported by the interface manager      *)
SetBaseInterfaceStatus(i) ==
    /\ <<"phy", i>> \in Events
    /\ iface' = [iface EXCEPT ![i].PhyUp = ~ @]
    /\ UNCHANGED <<config, group>>

(* The result of a connectivity check of a virtual interface                 *)
SetConnectivityStatus(i) ==
    /\ <<"connectivity", i>> \in Events
    /\ iface' = [iface EXCEPT ![i].Connectivity = ~ @]
    /\ UNCHANGED <<config, group>>

(* Interface.{i}.Reset                                                       *)
SetInterfaceReset(i) ==
    /\ <<"reset", i>> \in Events
    /\ iface' = [iface EXCEPT ![i].Reset = ~ @]
    /\ UNCHANGED <<config, group>>

(* ResetActiveInterface (first group, unconditional) and                     *)
(* Group.{g}.ResetSelectedInterface (TRUE is ignored when nothing is         *)
(* selected); a write of FALSE takes the request back                        *)
SetResetSelectedInterface(g) ==
    /\ <<"resetselected", g>> \in Events
    /\ ~ group[g].ResetSelectedInterface
    /\ g = 1 \/ group[g].SelectedInterface # NoIface
    /\ group' = [group EXCEPT ![g].ResetSelectedInterface = TRUE]
    /\ UNCHANGED <<config, iface>>

ClearResetSelectedInterface(g) ==
    /\ <<"cancelreset", g>> \in Events
    /\ group[g].ResetSelectedInterface
    /\ group' = [group EXCEPT ![g].ResetSelectedInterface = FALSE]
    /\ UNCHANGED <<config, iface>>

(* Group.{g}.Policy: in a build with AutoWAN only, a new value restarts the  *)
(* selection thread and IfaceGroupMonitor maps it back to AUTOWAN_MODE       *)
SetPolicy(g) ==
    /\ <<"policy", g>> \in Events
    /\ ~ group[g].ConfigChanged
    /\ group' = [group EXCEPT ![g].ConfigChanged = TRUE]
    /\ UNCHANGED <<config, iface>>

(* Interface.{i}.Selection.Group                                             *)
SetSelectionGroup(i) ==
    /\ <<"group", i>> \in Events
    /\ \E g \in Groups \ {iface[i].Group} :
          /\ group' = [group EXCEPT ![g].ConfigChanged = TRUE,
                                    ![iface[i].Group].ConfigChanged = TRUE]
          /\ iface' = [iface EXCEPT ![i].Group = g]
    /\ UNCHANGED config

Environment ==
    \/ SetWanEnable
    \/ \E i \in Ifaces : \/ SetSelectionEnable(i)
                         \/ SetBaseInterfaceStatus(i)
                         \/ SetConnectivityStatus(i)
                         \/ SetInterfaceReset(i)
                         \/ SetSelectionGroup(i)
    \/ \E g \in Groups : \/ SetResetSelectedInterface(g)
                         \/ ClearResetSelectedInterface(g)
                         \/ SetPolicy(g)
=============================================================================
