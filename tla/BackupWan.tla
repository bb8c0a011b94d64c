------------------------------ MODULE BackupWan ------------------------------
(* The backup thread of wanmgr_policy_autowan_impl.c: it keeps a remote      *)
(* interface (another device of the mesh) ready and lets it carry the WAN    *)
(* while no local interface can.  It never talks to the primary thread: they *)
(* read each other's Selection.Status, the state of the WAN service and      *)
(* TelemetryBackUpStatus (switch), which the primary thread sets to STARTED  *)
(* when it has lost its interface and to STOPED when it has one again.       *)
EXTENDS PrimaryWan

VARIABLE bk      \* the backup thread

BackupStates == {"SELECTING", "DOWN", "VALIDATING", "AVAILABLE", "UP",
                 "ACTIVE", "INACTIVE", "WAITING"}

(* timer: the restoration delay is off, running or expired.                  *)
BackupType == [st : BackupStates, has : BOOLEAN, en : BOOLEAN, allow : BOOLEAN,
               timer : {"off", "running", "expired"}]

(* Transition_StartBakupWan                                                  *)
BackupInit == bk = [st |-> "SELECTING", has |-> FALSE, en |-> FALSE,
                    allow |-> FALSE, timer |-> "off"]

R == ifc[Remote]

-----------------------------------------------------------------------------
(* WanMgr_Policy_BackupWan_CheckAnyLocalWANIsPhysicallyActive                *)
AnyLocalPhysicallyActive ==
    \E i \in Local : ifc[i].Enable /\ ifc[i].Phy = "UP"

(* Mutant: only a local interface that already carries the WAN counts        *)
AnyLocalActive == \E i \in Local : ifc[i].Enable /\ ifc[i].Sel = "ACTIVE"

(* WanMgr_Policy_PrimaryWan_CheckAnyLocalWANIsSelected                       *)
AnyLocalSelected ==
    \E i \in Local : ifc[i].Enable /\ ifc[i].Sel \in {"SELECTED", "ACTIVE"}

(* WanMgr_Policy_PrimaryWan_IsConnectivityCheckGood                          *)
PrimaryConnGood == TAD /\ \E i \in Local : ifc[i].Enable /\ ifc[i].Conn

(* WanMgr_Policy_BackupWan_CheckLocalWANsScannedOnce                         *)
LocalScannedOnce ==
    \/ \E i \in Local : ifc[i].Scanned /\ mode.sel = TypeOf(i)
    \/ /\ mode.sel = "AUTO"
       /\ mode.cur # "UNKNOWN" \/ \A i \in Local : ifc[i].Scanned

LocalUsable == AnyLocalPhysicallyActive /\ (~ TAD \/ PrimaryConnGood)

-----------------------------------------------------------------------------
(* The end of an iteration.  The next one copies Enable and                  *)
(* AllowRemoteInterfaces first.                                              *)
BkGoto(s) == bk' = [bk EXCEPT !.st = s, !.en = conf.Enable, !.allow = conf.AllowRemote]

BkSample ==
    /\ bk.en # conf.Enable \/ bk.allow # conf.AllowRemote
    /\ bk' = [bk EXCEPT !.en = conf.Enable, !.allow = conf.AllowRemote]
    /\ UNCHANGED <<data, pri>>

(* Transition_BackupWanSelectingInterface                                    *)
BkSelecting ==
    bk' = [bk EXCEPT !.st = "SELECTING", !.has = FALSE, !.en = conf.Enable,
                     !.allow = conf.AllowRemote]

(* A switch over that cannot be done is reported as failed.                  *)
SwitchFailed == IF switch = "STARTED" THEN "FAILED" ELSE switch
SwitchFailedIfAlone == IF AnyLocalPhysicallyActive THEN switch ELSE SwitchFailed

(* WanMgr_Policy_BackupWan_GetCurrentBackupWanInterfaceIndex                 *)
CurrentBackup == IF R.Enable THEN Remote ELSE NoIf

(* Transition_BackupWanInterfaceSelected                                     *)
BackupWanInterfaceSelected ==
    [ifc EXCEPT ![Remote].ActiveLink = FALSE, ![Remote].Vlan = FALSE,
                ![Remote].Sel = "NOT_SELECTED", ![Remote].Ip = "UNKNOWN",
                ![Remote].Status = "DISABLED"]

(* State_SelectingBackupWanInterface.  Transition_BackupWanInterfaceSelected *)
(* works on the interface of the previous iteration.                         *)
BkSelect ==
    /\ bk.st = "SELECTING" /\ bk.en /\ bk.allow
    /\ IF CurrentBackup # NoIf
       THEN /\ bk' = [bk EXCEPT !.has = TRUE, !.st = IF bk.has THEN "DOWN" ELSE @,
                                !.en = conf.Enable, !.allow = conf.AllowRemote]
            /\ ifc' = IF bk.has THEN BackupWanInterfaceSelected ELSE ifc
            /\ UNCHANGED switch
       ELSE /\ bk' = [bk EXCEPT !.has = FALSE]
            /\ switch' = SwitchFailedIfAlone
            /\ UNCHANGED ifc
    /\ UNCHANGED <<conf, link, asked, wan, mode, pri>>

(* Transition_BackupWanInterfaceDown, on the interfaces tbl.  With a backup  *)
(* still up and no usable local interface the thread only waits.             *)
Keeps(tbl) == tbl[Remote].Status = "UP" /\ R.RemoteUp /\ ~ LocalUsable

BkDown(tbl) ==
    /\ ifc' = IF Keeps(tbl)
              THEN [tbl EXCEPT ![Remote].Sel = "NOT_SELECTED"]
              ELSE [tbl EXCEPT ![Remote].Sel = "NOT_SELECTED",
                      ![Remote].Status = "DISABLED", ![Remote].ActiveLink = FALSE,
                      ![Remote].Vlan = FALSE, ![Remote].Ip = "UNKNOWN",
                      ![Remote].Conn = @ /\ ~ TAD]
    /\ BkGoto(IF Keeps(tbl) THEN "WAITING" ELSE "DOWN")

(* What every state function looks at first                                  *)
RemoteLost == R.Phy = "DOWN" \/ ~ R.RemoteUp
BackupOff == ~ bk.en \/ ~ bk.allow \/ ~ R.Enable
StackLost == ~ R.Vlan \/ R.Status # "UP"

(* Transition_ValidatingBackupWanInterface: with the check a DHCP client is  *)
(* started and its result awaited                                            *)
ValidatingBackupWanInterface ==
    /\ TAD => link[Remote]
    /\ asked' = IF TAD THEN asked \cup {Remote} ELSE asked
    /\ BkGoto("VALIDATING")

(* State_BackupWanInterfaceDown                                              *)
BkDownState ==
    /\ bk.st = "DOWN"
    /\ \/ BackupOff /\ BkSelecting /\ UNCHANGED <<switch, asked>>
       \/ /\ ~ BackupOff /\ R.Phy = "UP" /\ R.RemoteUp /\ R.Status = "DISABLED"
          /\ ValidatingBackupWanInterface
          /\ UNCHANGED switch
       \/ /\ ~ BackupOff
          /\ R.Phy # "UP" \/ ~ R.RemoteUp \/ R.Status # "DISABLED" \/ TAD
          /\ switch # SwitchFailedIfAlone
          /\ switch' = SwitchFailedIfAlone
          /\ BkGoto("DOWN")
          /\ UNCHANGED asked
    /\ UNCHANGED <<conf, ifc, link, wan, mode, pri>>

(* Transition_BackupWanAvailable                                             *)
BackupWanAvailable ==
    /\ ifc' = [ifc EXCEPT ![Remote].ActiveLink = TRUE, ![Remote].Sel = "SELECTED",
                          ![Remote].Status = "DISABLED", ![Remote].Conn = @ \/ TAD]
    /\ BkGoto("AVAILABLE")

(* State_ValidatingBackupWanInterface                                        *)
BkValidating ==
    /\ bk.st = "VALIDATING"
    /\ \/ ~ bk.allow /\ BkSelecting /\ UNCHANGED <<ifc, switch>>
       \/ bk.allow /\ (BackupOff \/ RemoteLost) /\ BkDown(ifc) /\ UNCHANGED switch
       \/ /\ ~ BackupOff /\ ~ RemoteLost
          /\ IF TAD THEN R.Ip = "UP" ELSE link[Remote]
          /\ BackupWanAvailable
          /\ UNCHANGED switch
       \/ /\ ~ BackupOff /\ ~ RemoteLost /\ ~ (TAD /\ R.Ip = "UP")
          /\ switch # SwitchFailedIfAlone
          /\ switch' = SwitchFailedIfAlone
          /\ BkGoto("VALIDATING")
          /\ UNCHANGED ifc
    /\ UNCHANGED <<conf, link, asked, wan, mode, pri>>

(* Transition_BackupWanInterfaceUp                                           *)
BackupWanInterfaceUp ==
    \E ok \in BOOLEAN :
        /\ IF TAD THEN ok ELSE Udhcpc(Remote, ok)
        /\ BkGoto(IF ok THEN "UP" ELSE "DOWN")
        /\ ifc' = IF ok THEN [ifc EXCEPT ![Remote].Vlan = TRUE, ![Remote].Status = "UP"]
                  ELSE ifc

(* State_BackupWanAvailable                                                  *)
BkAvailable ==
    /\ bk.st = "AVAILABLE"
    /\ \/ (BackupOff \/ RemoteLost) /\ BkDown(ifc)
       \/ /\ ~ BackupOff /\ ~ RemoteLost
          /\ TAD => R.Conn
          /\ R.Phy = "UP"
          /\ BackupWanInterfaceUp
    /\ UNCHANGED <<conf, link, asked, wan, mode, switch, pri>>

-----------------------------------------------------------------------------
(* Transition_BackupWanInterfaceActive: with the firewall rules in place the *)
(* default route of the remote interface has to show up, or it was in vain   *)
BkActivate ==
    IF R.Phy = "DOWN" \/ ~ R.Vlan \/ ~ R.RemoteUp
    THEN BkDown(ifc) /\ switch' = SwitchFailed
    ELSE LET active == [ifc EXCEPT ![Remote].Sel = "ACTIVE", ![Remote].Status = "UP"]
         IN  \/ /\ link[Remote]
                /\ ifc' = active
                /\ switch' = IF switch \in {"STARTED", "FAILED"} THEN "SUCCESS" ELSE switch
                /\ BkGoto("ACTIVE")
             \/ /\ ~ link[Remote] \/ <<"noroute", Remote>> \in Happens
                /\ BkDown(active)
                /\ UNCHANGED switch

(* Mutant: whatever the primary thread and the WAN service do                *)
TakesOverBlindly ==
    /\ R.RemoteUp
    /\ TAD => R.Conn /\ ~ PrimaryConnGood

(* The remote interface takes over: the primary thread has given up and the  *)
(* WAN service has stopped                                                   *)
TakesOver ==
    /\ R.RemoteUp
    /\ switch # "STOPED"
    /\ TAD => R.Conn /\ ~ PrimaryConnGood
    /\ WanNotRouted

BackupBroken == BackupOff \/ RemoteLost \/ StackLost

(* State_BackupWanInterfaceUp                                                *)
BkUp ==
    /\ bk.st = "UP"
    /\ \/ BackupBroken /\ BkDown(ifc) /\ UNCHANGED switch
       \/ /\ ~ BackupBroken
          /\ TakesOver /\ LocalScannedOnce
          /\ BkActivate
    /\ UNCHANGED <<conf, link, asked, wan, mode, pri>>

(* Mutant: a constant of the other enumeration                               *)
BkDeactivateWrongEnum ==
    /\ ifc' = [ifc EXCEPT ![Remote].Sel = "STANDBY"]
    /\ bk' = [bk EXCEPT !.st = "INACTIVE", !.en = conf.Enable,
                        !.allow = conf.AllowRemote, !.timer = "off"]

(* Transition_BackupWanInterfaceInActive                                     *)
BkDeactivate ==
    /\ ifc' = [ifc EXCEPT ![Remote].Sel = "SELECTED"]
    /\ bk' = [bk EXCEPT !.st = "INACTIVE", !.en = conf.Enable,
                        !.allow = conf.AllowRemote, !.timer = "off"]

Restorable == LocalUsable /\ AnyLocalSelected

(* WanMgr_Policy_PrimaryWan_ReTriggerValidation: a DHCP client is tried on   *)
(* the first usable local interface                                          *)
FirstLocalUp ==
    CHOOSE i \in Local : /\ ifc[i].Enable /\ ifc[i].Phy = "UP"
                         /\ \A j \in 1 .. i - 1 : ~ (ifc[j].Enable /\ ifc[j].Phy = "UP")

ReTriggerValidation(ok) ==
    /\ Udhcpc(FirstLocalUp, ok)
    /\ ~ ok => ifc' = [ifc EXCEPT ![FirstLocalUp].Sel = "NOT_SELECTED"]

(* State_BackupWanInterfaceActive                                            *)
BkActiveState ==
    /\ bk.st = "ACTIVE"
    /\ \/ BackupBroken /\ BkDown(ifc)
       \/ /\ ~ BackupBroken /\ TAD /\ ~ R.Conn /\ PrimaryConnGood
          /\ BkDeactivate
       \/ /\ ~ BackupBroken /\ ~ (TAD /\ ~ R.Conn /\ PrimaryConnGood)
          /\ \/ /\ Restorable /\ bk.timer = "off"
                /\ bk' = [bk EXCEPT !.timer = "running", !.en = conf.Enable,
                                    !.allow = conf.AllowRemote]
                /\ UNCHANGED ifc
             \/ /\ Restorable /\ bk.timer = "expired"
                /\ \E ok \in BOOLEAN :
                     /\ IF TAD THEN ok ELSE ReTriggerValidation(ok)
                     /\ IF ok THEN BkDeactivate
                        ELSE bk' = [bk EXCEPT !.timer = "off", !.en = conf.Enable,
                                              !.allow = conf.AllowRemote]
             \/ /\ ~ Restorable /\ bk.timer # "off"
                /\ bk' = [bk EXCEPT !.timer = "off", !.en = conf.Enable,
                                    !.allow = conf.AllowRemote]
                /\ UNCHANGED ifc
    /\ UNCHANGED <<conf, link, asked, wan, mode, switch, pri>>

(* The restoration delay elapses.                                            *)
BkTimer ==
    /\ bk.timer = "running"
    /\ bk' = [bk EXCEPT !.timer = "expired"]
    /\ UNCHANGED <<data, pri>>

(* State_BackupWanInterfaceInActive                                          *)
BkInActive ==
    /\ bk.st = "INACTIVE"
    /\ \/ BackupBroken /\ BkDown(ifc) /\ UNCHANGED switch
       \/ ~ BackupBroken /\ TakesOver /\ BkActivate
    /\ UNCHANGED <<conf, link, asked, wan, mode, pri>>

(* State_BackupWanInterfaceWaitingPrimaryUp: on the way to SELECTING the     *)
(* interface is left as it is                                                *)
BkWaiting ==
    /\ bk.st = "WAITING"
    /\ \/ (~ bk.en \/ ~ bk.allow) /\ BkSelecting /\ UNCHANGED <<ifc, switch>>
       \/ /\ bk.en /\ bk.allow /\ LocalUsable
          /\ BkDown(ifc)
          /\ UNCHANGED switch
       \/ /\ bk.en /\ bk.allow /\ ~ LocalUsable
          /\ R.Enable /\ R.Phy = "UP" /\ R.RemoteUp
          /\ TAD => R.Conn
          /\ BkActivate
    /\ UNCHANGED <<conf, link, asked, wan, mode, pri>>

BkNext ==
    \/ BkSample \/ BkSelect \/ BkDownState \/ BkValidating \/ BkAvailable
    \/ BkUp \/ BkActiveState \/ BkInActive \/ BkWaiting
=============================================================================
