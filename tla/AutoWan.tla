------------------------------- MODULE AutoWan -------------------------------
(* The AutoWAN selection policy (wanmgr_policy_auto_impl.c): one thread per  *)
(* group that looks for a working interface of the group, starts its state   *)
(* machine, keeps it selected, and tears it down on a reset, a change of the *)
(* group or a global disable.                                                *)
(*                                                                           *)
(* An iteration is two lock sections: UpdateControllerData copies Enable,    *)
(* ConfigChanged and ResetSelectedInterface; then the state function runs    *)
(* with the copies, holding the lock (it locks the selected interface for    *)
(* the whole of it).  The copies are taken at some moment between two state  *)
(* functions: the model takes them when one ends, and again at any later     *)
(* moment at which they would differ (AWUpdateControllerData).  The few      *)
(* sections of Selecting without an interface, which lock each interface in  *)
(* turn, are taken as one.  PSM and RdkBus calls succeed; LAN bridge         *)
(* membership is not part of the state.                                      *)
EXTENDS IfaceSM

VARIABLE pol      \* pol[g][k]: the k-th selection thread of group g

AWStates == {"SELECTING", "WAITING", "SCANNING", "TEARDOWN", "RECONFIGURATION",
             "REBOOT_PLATFORM", "ACTIVE", "DOWN", "TEARING_DOWN", "SM_EXIT"}

(* pc: none (no thread), start, loop, exit (after the loop).  idx is         *)
(* activeInterfaceIdx + 1; expired says that the selection timer has run     *)
(* out; en, cfg and rst are the copies.                                      *)
PolType == [pc : {"none", "start", "loop", "exit"},
            st : AWStates,
            idx : Ifaces \cup {NoIface},
            expired : BOOLEAN,
            en : BOOLEAN, cfg : BOOLEAN, rst : BOOLEAN]

PolTypeOK == pol \in [Groups -> [PolSlots -> PolType]]

Outside(c) == [pc |-> c, st |-> "SELECTING", idx |-> NoIface, expired |-> FALSE,
               en |-> FALSE, cfg |-> FALSE, rst |-> FALSE]

PolInit == pol = [g \in Groups |-> [k \in PolSlots |-> Outside("none")]]

PolLive(g, k) == pol[g][k].pc # "none"

(* pthread_create of WanMgr_AutoWanSelectionProcess                          *)
FreePolSlot(g) == CHOOSE k \in PolSlots : ~ PolLive(g, k)
StartPolicy(g) ==
    [pol[g] EXCEPT ![FreePolSlot(g)] = Outside("start")]

-----------------------------------------------------------------------------
(* WanMgr_GetPrevSelectedInterface: the first interface with ActiveLink      *)
ActiveLinks(g) == {i \in InterfaceAvailable(g) : iface[i].ActiveLink}
First(S, i) == i \in S /\ \A j \in S : i <= j
PrevSelectedInterface(g) ==
    IF \E i \in Ifaces : First(ActiveLinks(g), i)
    THEN CHOOSE i \in Ifaces : First(ActiveLinks(g), i)
    ELSE NoIface

(* WanMgr_Policy_Auto_GetHighPriorityIface: the first one of the smallest    *)
(* Priority among the enabled interfaces whose Status is DISABLED            *)
Candidates(g) == {i \in InterfaceAvailable(g) : /\ iface[i].Enable
                                                /\ Priority[i] >= 0
                                                /\ Priority[i] < PriorityMax
                                                /\ iface[i].Status = "DISABLED"}
Best(S, i) == /\ i \in S
              /\ \A j \in S : \/ Priority[i] < Priority[j]
                              \/ Priority[i] = Priority[j] /\ i <= j
(* Mutant: an instance number where an index is meant                        *)
HighPriorityIfaceOffByOne(g) ==
    IF \E i \in Ifaces : Best(Candidates(g), i)
    THEN (CHOOSE i \in Ifaces : Best(Candidates(g), i)) + 1
    ELSE NoIface
HighPriorityIface(g) ==
    IF \E i \in Ifaces : Best(Candidates(g), i)
    THEN CHOOSE i \in Ifaces : Best(Candidates(g), i)
    ELSE NoIface

(* WanMgr_CheckIfSelectedIfaceOnlyPossibleWanLink                            *)
OnlyPossibleWanLink(g, i) ==
    \/ g \in Persist /\ iface[i].ActiveLink
    \/ \A j \in InterfaceAvailable(g) \ {i} : ~ iface[j].Enable

(* WanMgr_ResetIfaceTable and WanMgr_ResetActiveLinkOnAllIface on the value  *)
(* of the interface table                                                    *)
ResetIfaceTable(tbl, g) ==
    [i \in Ifaces |-> IF tbl[i].Group = g /\ tbl[i].Status = "INVALID"
                      THEN [tbl[i] EXCEPT !.Status = "DISABLED"] ELSE tbl[i]]
ResetActiveLinkOnAllIface(tbl, g) ==
    [i \in Ifaces |-> IF tbl[i].Group = g
                      THEN [tbl[i] EXCEPT !.ActiveLink = FALSE] ELSE tbl[i]]

-----------------------------------------------------------------------------
(* The end of an iteration: the thread is in state s with interface i.       *)
Goto(g, k, s, i, x) ==
    pol' = [pol EXCEPT ![g][k] =
              [pc |-> "loop", st |-> s, idx |-> i, expired |-> x,
               en |-> config.Enable,
               cfg |-> group[g].ConfigChanged,
               rst |-> group'[g].ResetSelectedInterface]]

Handling(g, k, s) == pol[g][k].pc = "loop" /\ pol[g][k].st = s

(* Mutants: one of the two conditions forgotten                              *)
StoppingOnDisable(g, k) == ~ pol[g][k].en
StoppingOnChange(g, k) == pol[g][k].cfg
(* "WanEnable == FALSE || GroupCfgChanged == TRUE"                           *)
Stopping(g, k) == ~ pol[g][k].en \/ pol[g][k].cfg

(* Thread start: UpdateControllerData and Transition_Start                   *)
AWStart(g, k) ==
    /\ pol[g][k].pc = "start"
    /\ UNCHANGED <<config, group, ism>>
    /\ LET prev == IF config.Enable THEN PrevSelectedInterface(g) ELSE NoIface
           keep == prev # NoIface /\ iface[prev].Enable
       IN  /\ Goto(g, k, "SELECTING",
                   IF keep THEN prev
                   ELSE IF config.Enable THEN HighPriorityIface(g) ELSE NoIface, FALSE)
           /\ iface' = [i \in Ifaces |-> IF i = prev
                            THEN [iface[i] EXCEPT !.ActiveLink = keep] ELSE iface[i]]

(* WanMgr_UpdateControllerData: the copies are taken later                   *)
AWUpdateControllerData(g, k) ==
    /\ pol[g][k].pc = "loop"
    /\ pol' = [pol EXCEPT ![g][k].en = config.Enable,
                          ![g][k].cfg = group[g].ConfigChanged,
                          ![g][k].rst = group[g].ResetSelectedInterface]
    /\ pol' # pol
    /\ UNCHANGED <<config, group, iface, ism>>

(* The selection timer of the interface runs out.                            *)
AWTimerExpires(g, k) ==
    /\ pol[g][k].pc = "loop"
    /\ pol[g][k].st \in {"WAITING", "SCANNING"}
    /\ ~ pol[g][k].expired
    /\ pol' = [pol EXCEPT ![g][k].expired = TRUE]
    /\ UNCHANGED <<config, group, iface, ism>>

-----------------------------------------------------------------------------
(* Mutant: the link stays the active one                                     *)
InterfaceInvalidKeepsLink(g, k) ==
    /\ iface' = [iface EXCEPT ![pol[g][k].idx].Status = "INVALID"]
    /\ UNCHANGED <<config, group, ism>>
    /\ Goto(g, k, "SELECTING", NoIface, FALSE)
(* Transition_InterfaceInvalid                                               *)
InterfaceInvalid(g, k) ==
    /\ iface' = [iface EXCEPT ![pol[g][k].idx].Status = "INVALID",
                              ![pol[g][k].idx].ActiveLink = FALSE]
    /\ UNCHANGED <<config, group, ism>>
    /\ Goto(g, k, "SELECTING", NoIface, FALSE)

(* Transition_InterfaceDeselect and Transition_ResetSelectedInterface        *)
InterfaceDeselect(g, k) ==
    /\ iface' = [iface EXCEPT ![pol[g][k].idx].Selection = "NOT_SELECTED"]
    /\ UNCHANGED <<config, group, ism>>
    /\ Goto(g, k, "TEARDOWN", pol[g][k].idx, FALSE)

(* Transition_InterfaceValidated                                             *)
InterfaceValidated(g, k) ==
    /\ iface' = [iface EXCEPT ![pol[g][k].idx].ActiveLink = TRUE]
    /\ group' = SetGroupSelectedIface(group, g, pol[g][k].idx)
    /\ UNCHANGED <<config, ism>>
    /\ Goto(g, k, "RECONFIGURATION", pol[g][k].idx, FALSE)

(* Mutant: the request is not acknowledged                                   *)
RestartSelectionInterfaceKeepsRequest(g, k) ==
    /\ iface' = ResetIfaceTable(ResetActiveLinkOnAllIface(iface, g), g)
    /\ group' = SetGroupSelectedIface(group, g, NoIface)
    /\ config' = [config EXCEPT !.ResetFailOverScan = TRUE]
    /\ UNCHANGED ism
    /\ Goto(g, k, "SELECTING", NoIface, FALSE)
(* Transition_RestartSelectionInterface                                      *)
RestartSelectionInterface(g, k) ==
    /\ iface' = ResetIfaceTable(ResetActiveLinkOnAllIface(iface, g), g)
    /\ group' = SetGroupSelectedIface(
                    [group EXCEPT ![g].ResetSelectedInterface = FALSE], g, NoIface)
    /\ config' = [config EXCEPT !.ResetFailOverScan = TRUE]
    /\ UNCHANGED ism
    /\ Goto(g, k, "SELECTING", NoIface, FALSE)

(* Mutant: InterfaceSelected without looking at activeInterfaceIdx           *)
AWSelectingUnchecked(g, k) ==
    /\ Handling(g, k, "SELECTING")
    /\ ~ Stopping(g, k)
    /\ UNCHANGED <<config, group, iface, ism>>
    /\ Goto(g, k, "WAITING", pol[g][k].idx, FALSE)
(* State_SelectingInterface                                                  *)
AWSelecting(g, k) ==
    /\ Handling(g, k, "SELECTING")
    /\ \/ /\ Stopping(g, k)
          /\ UNCHANGED <<config, group, iface, ism>>
          /\ Goto(g, k, "SM_EXIT", pol[g][k].idx, FALSE)
       \/ /\ ~ Stopping(g, k)                           \* Transition_InterfaceSelected
          /\ pol[g][k].idx # NoIface
          /\ UNCHANGED <<config, group, iface, ism>>
          /\ Goto(g, k, "WAITING", pol[g][k].idx, FALSE)
       \/ /\ ~ Stopping(g, k)                           \* Transition_TryingNextInterface
          /\ pol[g][k].idx = NoIface
          /\ HighPriorityIface(g) # NoIface
          /\ UNCHANGED <<config, group, iface, ism>>
          /\ Goto(g, k, "SELECTING", HighPriorityIface(g), FALSE)
       \/ /\ ~ Stopping(g, k)
          /\ pol[g][k].idx = NoIface
          /\ HighPriorityIface(g) = NoIface
          /\ group' = [group EXCEPT ![g].InitialScanComplete = TRUE]
          /\ iface' = ResetIfaceTable(iface, g)
          /\ UNCHANGED <<config, ism>>
          /\ Goto(g, k, "SELECTING", NoIface, FALSE)

(* State_WaitForInterface                                                    *)
AWWaitForInterface(g, k) ==
    LET i == pol[g][k].idx
        only == OnlyPossibleWanLink(g, i)
    IN
    /\ Handling(g, k, "WAITING")
    /\ \/ /\ Stopping(g, k)
          /\ UNCHANGED <<config, group, iface, ism>>
          /\ Goto(g, k, "SM_EXIT", i, FALSE)
       \/ /\ ~ Stopping(g, k)
          /\ ~ iface[i].Enable
          /\ InterfaceInvalid(g, k)
       \/ /\ ~ Stopping(g, k)                           \* Transition_InterfaceFound
          /\ iface[i].Enable
          /\ iface[i].PhyUp
          /\ iface' = [iface EXCEPT ![i].Selection = "SELECTED"]
          /\ ism' = StartISM(i)
          /\ UNCHANGED <<config, group>>
          /\ Goto(g, k, "SCANNING", i, pol[g][k].expired)
       \/ /\ ~ Stopping(g, k)
          /\ iface[i].Enable
          /\ ~ iface[i].PhyUp
          /\ pol[g][k].expired /\ ~ only
          /\ InterfaceInvalid(g, k)
       \/ /\ ~ Stopping(g, k)
          /\ iface[i].Enable
          /\ ~ iface[i].PhyUp
          /\ ~ pol[g][k].expired \/ only
          /\ group' = [group EXCEPT ![g].InitialScanComplete = @ \/ only]
          /\ UNCHANGED <<config, iface, ism>>
          /\ Goto(g, k, "WAITING", i, pol[g][k].expired)

(* State_ScanningInterface                                                   *)
AWScanning(g, k) ==
    LET i == pol[g][k].idx
        only == OnlyPossibleWanLink(g, i)
        scanning == ~ Stopping(g, k) /\ ~ only /\ iface[i].Enable
        validated == iface[i].Status \in {"UP", "STANDBY"}
    IN
    /\ Handling(g, k, "SCANNING")
    /\ \/ /\ Stopping(g, k)
          /\ InterfaceDeselect(g, k)
       \/ /\ ~ Stopping(g, k) /\ only
          /\ InterfaceValidated(g, k)
       \/ /\ ~ Stopping(g, k) /\ ~ only /\ ~ iface[i].Enable
          /\ InterfaceDeselect(g, k)
       \/ /\ scanning /\ ~ iface[i].SMRunning           \* Transition_ScanningInterfaceDown
          /\ UNCHANGED <<config, group, iface, ism>>
          /\ Goto(g, k, "WAITING", i, pol[g][k].expired)
       \/ /\ scanning /\ iface[i].SMRunning /\ validated
          /\ InterfaceValidated(g, k)
       \/ /\ scanning /\ iface[i].SMRunning /\ ~ validated
          /\ pol[g][k].expired
          /\ InterfaceDeselect(g, k)
       \/ /\ scanning /\ iface[i].SMRunning /\ ~ validated
          /\ ~ pol[g][k].expired
          /\ UNCHANGED <<config, group, iface, ism>>
          /\ Goto(g, k, "SCANNING", i, FALSE)

(* State_WaitingForIfaceTearDown                                             *)
AWWaitingForIfaceTearDown(g, k) ==
    LET i == pol[g][k].idx IN
    /\ Handling(g, k, "TEARDOWN")
    /\ \/ /\ iface[i].SMRunning
          /\ UNCHANGED <<config, group, iface, ism>>
          /\ Goto(g, k, "TEARDOWN", i, FALSE)
       \/ /\ ~ iface[i].SMRunning
          /\ Stopping(g, k)
          /\ UNCHANGED <<config, group, iface, ism>>
          /\ Goto(g, k, "TEARING_DOWN", i, FALSE)
       \/ /\ ~ iface[i].SMRunning
          /\ ~ Stopping(g, k) /\ pol[g][k].rst
          /\ RestartSelectionInterface(g, k)
       \/ /\ ~ iface[i].SMRunning
          /\ ~ Stopping(g, k) /\ ~ pol[g][k].rst
          /\ InterfaceInvalid(g, k)

(* State_InterfaceReconfiguration: the hardware configuration of an Ethernet *)
(* interface of the group may have to change, and need a reboot              *)
(* (Transition_ReconfigurePlatform)                                          *)
AWReconfiguration(g, k) ==
    LET i == pol[g][k].idx IN
    /\ Handling(g, k, "RECONFIGURATION")
    /\ UNCHANGED <<config, group, ism>>
    /\ \/ /\ InterfaceAvailable(g) \cap RequiresReboot # {}
          /\ iface' = [iface EXCEPT ![i].Selection = "NOT_SELECTED"]
          /\ Goto(g, k, "REBOOT_PLATFORM", i, FALSE)
       \/ /\ UNCHANGED iface
          /\ Goto(g, k, IF iface[i].SMRunning THEN "ACTIVE" ELSE "DOWN", i, FALSE)

(* State_RebootingPlatform; Wanmgr_TriggerReboot returns before the reboot   *)
AWRebootingPlatform(g, k) ==
    LET i == pol[g][k].idx IN
    /\ Handling(g, k, "REBOOT_PLATFORM")
    /\ UNCHANGED <<config, group, iface, ism>>
    /\ Goto(g, k, IF iface[i].SMRunning THEN "REBOOT_PLATFORM" ELSE "SM_EXIT", i, FALSE)

(* State_WanInterfaceActive                                                  *)
AWInterfaceActive(g, k) ==
    LET i == pol[g][k].idx
        resetting == Stopping(g, k) \/ pol[g][k].rst
        down == ~ iface[i].PhyUp \/ ~ iface[i].Enable \/ ~ iface[i].SMRunning
    IN
    /\ Handling(g, k, "ACTIVE")
    /\ \/ /\ resetting
          /\ InterfaceDeselect(g, k)
       \/ /\ ~ resetting /\ down
          /\ group' = SetGroupSelectedIface(group, g, i)
          /\ UNCHANGED <<config, iface, ism>>
          /\ Goto(g, k, "DOWN", i, FALSE)
       \/ /\ ~ resetting /\ ~ down
          /\ UNCHANGED <<config, group, iface, ism>>
          /\ Goto(g, k, "ACTIVE", i, FALSE)

(* State_WanInterfaceDown and Transistion_WanInterfaceUp                     *)
AWInterfaceDown(g, k) ==
    LET i == pol[g][k].idx
        resetting == Stopping(g, k) \/ pol[g][k].rst
        up == iface[i].PhyUp /\ iface[i].Enable
    IN
    /\ Handling(g, k, "DOWN")
    /\ \/ /\ resetting
          /\ InterfaceDeselect(g, k)
       \/ /\ ~ resetting /\ up
          /\ group' = SetGroupSelectedIface(group, g, i)
          /\ ism' = IF iface[i].SMRunning THEN ism ELSE StartISM(i)
          /\ UNCHANGED <<config, iface>>
          /\ Goto(g, k, IF iface[i].SMRunning THEN "DOWN" ELSE "ACTIVE", i, FALSE)
       \/ /\ ~ resetting /\ ~ up
          /\ UNCHANGED <<config, group, iface, ism>>
          /\ Goto(g, k, "DOWN", i, FALSE)

(* State_WaitingForInterfaceSMExit                                           *)
AWTearingDown(g, k) ==
    LET i == pol[g][k].idx
        deselected == [iface EXCEPT ![i].Selection = "NOT_SELECTED"]
    IN
    /\ Handling(g, k, "TEARING_DOWN")
    /\ \/ /\ iface[i].SMRunning
          /\ iface' = deselected
          /\ UNCHANGED group
          /\ Goto(g, k, "TEARING_DOWN", i, FALSE)
       \/ /\ ~ iface[i].SMRunning
          /\ iface' = IF pol[g][k].cfg
                      THEN ResetActiveLinkOnAllIface(ResetIfaceTable(deselected, g), g)
                      ELSE ResetIfaceTable(deselected, g)
          /\ group' = SetGroupSelectedIface(group, g, NoIface)
          /\ Goto(g, k, "SM_EXIT", i, FALSE)
    /\ UNCHANGED <<config, ism>>

(* Mutant: the group is reported STOPPED before the thread is done           *)
AWLeaveLoopStopped(g, k) ==
    /\ Handling(g, k, "SM_EXIT")
    /\ config' = [config EXCEPT !.ResetFailOverScan = @ \/ pol[g][k].cfg]
    /\ pol' = [pol EXCEPT ![g][k] = Outside("exit")]
    /\ group' = [group EXCEPT ![g].State = "STOPPED"]
    /\ UNCHANGED <<iface, ism>>
(* STATE_AUTO_WAN_SM_EXIT leaves the loop; then "if GroupCfgChanged" ...      *)
AWLeaveLoop(g, k) ==
    /\ Handling(g, k, "SM_EXIT")
    /\ config' = [config EXCEPT !.ResetFailOverScan = @ \/ pol[g][k].cfg]
    /\ pol' = [pol EXCEPT ![g][k] = Outside("exit")]
    /\ UNCHANGED <<group, iface, ism>>

(* Mutant: the thread ends without changing the state of its group           *)
AWThreadExitSilent(g, k) ==
    /\ pol[g][k].pc = "exit"
    /\ group' = [group EXCEPT ![g].SelectedInterface = NoIface,
                              ![g].ConfigChanged = FALSE]
    /\ pol' = [pol EXCEPT ![g][k] = Outside("none")]
    /\ UNCHANGED <<config, iface, ism>>
(* ... and the last lock section of the thread                               *)
AWThreadExit(g, k) ==
    /\ pol[g][k].pc = "exit"
    /\ group' = [group EXCEPT ![g].SelectedInterface = NoIface,
                              ![g].ConfigChanged = FALSE,
                              ![g].State = IF @ = "DEACTIVATED" THEN @ ELSE "STOPPED"]
    /\ pol' = [pol EXCEPT ![g][k] = Outside("none")]
    /\ UNCHANGED <<config, iface, ism>>

AWNext(g, k) ==
    \/ AWStart(g, k)
    \/ AWUpdateControllerData(g, k)
    \/ AWSelecting(g, k)
    \/ AWWaitForInterface(g, k)
    \/ AWScanning(g, k)
    \/ AWWaitingForIfaceTearDown(g, k)
    \/ AWReconfiguration(g, k)
    \/ AWRebootingPlatform(g, k)
    \/ AWInterfaceActive(g, k)
    \/ AWInterfaceDown(g, k)
    \/ AWTearingDown(g, k)
    \/ AWLeaveLoop(g, k)
    \/ AWThreadExit(g, k)
=============================================================================
