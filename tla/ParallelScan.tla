----------------------------- MODULE ParallelScan -----------------------------
(* The Parallel Scan selection policy (wanmgr_policy_parallel_scan_impl.c):  *)
(* one thread per group that starts the state machine of every interface of  *)
(* the group with a link, and selects the one of the highest priority that   *)
(* works, or after a time out the best one that does.                        *)
(*                                                                           *)
(* An iteration samples the configuration (PSUpdateControllerData) and runs  *)
(* a state function.  With an active interface that function holds the lock  *)
(* from its first to its last line: it is one action.  Without one (SCANNING)*)
(* the loop over the interfaces locks each of them in turn: one action per   *)
(* interface.  The writing loops of the transitions touch each interface     *)
(* once and are one action.  An interface has one enabled virtual interface, *)
(* so VirtIfChanged never is set.                                            *)
EXTENDS IfaceSM

CONSTANT LastSelected     \* interfaces whose ActiveLink in PSM is TRUE at boot

ASSUME LastSelectedAssumption == LastSelected \subseteq Ifaces

VARIABLE ps               \* ps[g]: the selection thread of group g

(* pc: none, start, sample, state (the copies are taken), exit.  idx is      *)
(* activeInterfaceIdx + 1; pos, hv, hval, aval and last are the locals of    *)
(* State_ScanningInterface; expired says that the selection timer ran out.   *)
PSStates == {"SCANNING", "CHECK_RECONFIGURATION", "RECONFIGURE_PLATFORM", "REBOOT",
             "SELECTED_UP", "SELECTED_DOWN", "TEAR_DOWN", "POLICY_EXIT",
             "POLICY_ERROR"}
Priorities == {Priority[i] : i \in Ifaces} \cup {PriorityMax, -1}
PSType == [pc : {"none", "start", "sample", "state", "exit"}, st : PSStates,
           idx : Ifaces \cup {NoIface}, en : BOOLEAN, cfg : BOOLEAN, rst : BOOLEAN,
           pos : 1 .. NIfaces + 1, hv : Ifaces \cup {NoIface},
           hval : Priorities, aval : Priorities, last : BOOLEAN, expired : BOOLEAN]

(* The locals at the start of a scan                                         *)
ScanStart(r) == [r EXCEPT !.pos = 1, !.hv = NoIface, !.hval = PriorityMax,
                          !.aval = PriorityMax, !.last = FALSE]

PSOutside(c) ==
    [pc |-> c, st |-> "SCANNING", idx |-> NoIface, en |-> FALSE, cfg |-> FALSE,
     rst |-> FALSE, pos |-> 1, hv |-> NoIface, hval |-> PriorityMax,
     aval |-> PriorityMax, last |-> FALSE, expired |-> FALSE]

PSInit ==
    /\ InitConfig /\ InitGroups /\ ISMInit
    /\ iface = [i \in Ifaces |->
          [Group |-> InitGroup[i], Enable |-> TRUE, PhyUp |-> i \in PhyAtBoot,
           Selection |-> "NOT_SELECTED", Status |-> "DISABLED",
           Connectivity |-> FALSE, ActiveLink |-> i \in LastSelected,
           Reset |-> FALSE, SMRunning |-> FALSE]]
    /\ ps = [g \in Groups |-> PSOutside("none")]

PSGoto(g, s) ==
    ps' = [ps EXCEPT ![g] = [ScanStart(ps[g]) EXCEPT
               !.pc = "sample", !.st = s, !.en = FALSE, !.cfg = FALSE, !.rst = FALSE,
               !.expired = s = "SCANNING" /\ @]]

PSHandling(g, s) == ps[g].pc = "state" /\ ps[g].st = s

PSStopping(g) == ~ ps[g].en \/ ps[g].cfg

-----------------------------------------------------------------------------
(* The start of the thread: WanMgr_Controller_PolicyCtrlInit and             *)
(* Transition_Start, which clears the ActiveLink of a disabled interface in  *)
(* PSM but not in memory                                                     *)
PSStart(g) ==
    /\ ps[g].pc = "start"
    /\ ps' = [ps EXCEPT ![g].pc = "sample"]
    /\ group' = [group EXCEPT ![g].InitialScanComplete = TRUE]
    /\ UNCHANGED <<config, iface, ism>>

(* WanMgr_UpdateControllerData                                               *)
PSUpdateControllerData(g) ==
    /\ ps[g].pc = "sample"
    /\ ps' = [ps EXCEPT ![g].pc = "state", ![g].en = config.Enable,
                        ![g].cfg = group[g].ConfigChanged,
                        ![g].rst = group[g].ResetSelectedInterface]
    /\ UNCHANGED <<config, group, iface, ism>>

(* Mutant: the interfaces keep their Selection.Status                        *)
TearingDownForgets(g) ==
    IF ps[g].idx = NoIface
    THEN PSGoto(g, "POLICY_ERROR") /\ UNCHANGED <<iface, group>>
    ELSE /\ PSGoto(g, "TEAR_DOWN")
         /\ group' = SetGroupSelectedIface(group, g, NoIface)
         /\ UNCHANGED iface
(* Transition_TearingDown: an error without an active interface              *)
TearingDown(g) ==
    IF ps[g].idx = NoIface
    THEN PSGoto(g, "POLICY_ERROR") /\ UNCHANGED <<iface, group>>
    ELSE /\ PSGoto(g, "TEAR_DOWN")
         /\ group' = SetGroupSelectedIface(group, g, NoIface)
         /\ iface' = [i \in Ifaces |->
               IF iface[i].Group # g THEN iface[i]
               ELSE [iface[i] EXCEPT !.Selection = "NOT_SELECTED",
                        !.Status = IF @ = "INVALID" THEN "DISABLED" ELSE @,
                        !.ActiveLink = @ /\ ~ ps[g].cfg]]

-----------------------------------------------------------------------------
(* INT <= UINT: the comparison is unsigned, and -1 the largest value         *)
UIntLeq(a, b) == IF (a < 0) = (b < 0) THEN a <= b ELSE b < 0

Works(i) == iface[i].Status \in {"UP", "STANDBY"}

(* The pass over interface i: highPriorityValidIface (hv) with its value,    *)
(* the last selected interface, and activeInterfaceIdx, the best that works  *)
Scanned(r, i) ==
    LET al == iface[i].ActiveLink
        hval == IF al THEN -1 ELSE r.hval
        better == UIntLeq(Priority[i], hval)
        works == Works(i) /\ UIntLeq(Priority[i], r.aval)
    IN
    IF al /\ Works(i)
    THEN [r EXCEPT !.pos = NIfaces + 1, !.last = TRUE, !.hv = i, !.hval = -1, !.idx = i]
    ELSE [r EXCEPT !.pos = @ + 1, !.last = @ \/ al,
                   !.hv = IF al \/ better THEN i ELSE @,
                   !.hval = IF better THEN Priority[i] ELSE hval,
                   !.idx = IF works THEN i ELSE @,
                   !.aval = IF works THEN Priority[i] ELSE @]

PSScan(g) ==
    LET i == ps[g].pos IN
    /\ PSHandling(g, "SCANNING")
    /\ ~ PSStopping(g)
    /\ i <= NIfaces
    /\ ps' = [ps EXCEPT ![g] = IF iface[i].Group = g /\ iface[i].Enable
                               THEN Scanned(ps[g], i) ELSE [ps[g] EXCEPT !.pos = i + 1]]
    /\ UNCHANGED <<config, group, iface, ism>>

(* Mutant: the time out is not waited for                                    *)
ChoiceMadeEarly(g) == ps[g].idx # NoIface
(* The best interface works, or the best that works is taken after the time  *)
ChoiceMade(g) == /\ ps[g].hv # NoIface /\ ps[g].idx # NoIface
                 /\ ps[g].hv = ps[g].idx \/ ps[g].expired

(* Transition_SelectingInterface                                             *)
SelectingInterface(g) ==
    /\ PSGoto(g, "CHECK_RECONFIGURATION")
    /\ iface' = [i \in Ifaces |->
          IF iface[i].Group = g /\ iface[i].Enable
          THEN [iface[i] EXCEPT
                  !.Selection = IF i = ps[g].idx THEN "SELECTED" ELSE "NOT_SELECTED",
                  !.ActiveLink = i = ps[g].idx]
          ELSE iface[i]]
    /\ group' = SetGroupSelectedIface(group, g, ps[g].idx)
    /\ UNCHANGED ism

(* The interfaces with a link and no state machine; with a persistent        *)
(* selection only the last selected one, if there is one                     *)
Connectable(g) ==
    {i \in InterfaceAvailable(g) :
        /\ iface[i].Enable /\ iface[i].PhyUp /\ iface[i].Status = "DISABLED"
        /\ ~ (g \in Persist /\ ps[g].last /\ ~ iface[i].ActiveLink)}

(* Transition_NewInterfaceConnected for the first of them.  (A failed        *)
(* pthread_create returns with the data locked; it does not fail here.)      *)
NewInterfaceConnected(g, i) ==
    /\ \E k \in ISMSlots : ~ ISMLive(i, k)
    /\ iface' = [iface EXCEPT ![i].Selection = "VALIDATING"]
    /\ ism' = StartISM(i)

(* State_ScanningInterface after the first loop                              *)
PSScanned(g) ==
    /\ PSHandling(g, "SCANNING")
    /\ \/ PSStopping(g) /\ TearingDown(g) /\ UNCHANGED ism
       \/ /\ ~ PSStopping(g) /\ ps[g].pos > NIfaces
          /\ ChoiceMade(g) /\ SelectingInterface(g)
       \/ /\ ~ PSStopping(g) /\ ps[g].pos > NIfaces /\ ~ ChoiceMade(g)
          /\ ps' = [ps EXCEPT ![g] = [ScanStart(ps[g]) EXCEPT !.pc = "sample",
                      !.en = FALSE, !.cfg = FALSE, !.rst = FALSE,
                      !.idx = IF ps[g].hv # NoIface THEN NoIface ELSE @]]
          /\ \/ Connectable(g) = {} /\ UNCHANGED <<iface, ism>>
             \/ \E i \in Connectable(g) : /\ \A j \in Connectable(g) : i <= j
                                          /\ NewInterfaceConnected(g, i)
          /\ UNCHANGED group
    /\ UNCHANGED config

-----------------------------------------------------------------------------
(* State_CheckReconfiguration: WanMgr_CheckIfPlatformReconfiguringRequired   *)
(* compares the hardware configuration of the ports with the choice, and     *)
(* Transition_ReconfiguringPlatfrom changes it                               *)
PSCheckReconfiguration(g) ==
    /\ PSHandling(g, "CHECK_RECONFIGURATION")
    /\ \/ PSStopping(g) /\ TearingDown(g)
       \/ /\ ~ PSStopping(g) /\ UNCHANGED <<group, iface>>
          /\ PSGoto(g, "RECONFIGURE_PLATFORM") \/ PSGoto(g, "SELECTED_UP")
    /\ UNCHANGED <<config, ism>>

(* State_ReconfigurePaltform; STATE_PARALLEL_SCAN_REBOOT is never left       *)
PSReconfigurePlatform(g) ==
    /\ PSHandling(g, "RECONFIGURE_PLATFORM")
    /\ PSGoto(g, IF ps[g].idx \in RequiresReboot THEN "REBOOT" ELSE "SELECTED_UP")
    /\ UNCHANGED <<config, group, iface, ism>>

(* Transition_RestartScan: the active interface goes on, to be compared with *)
(* the others                                                                *)
RestartScan(g) ==
    /\ iface' = [i \in Ifaces |->
          LET a == IF iface[i].Group = g
                   THEN [iface[i] EXCEPT !.ActiveLink = FALSE] ELSE iface[i]
          IN IF i = ps[g].idx THEN [a EXCEPT !.Selection = "VALIDATING"] ELSE a]
    /\ group' = [SetGroupSelectedIface(group, g, NoIface) EXCEPT
                    ![g].ResetSelectedInterface = FALSE]
    /\ config' = [config EXCEPT !.ResetFailOverScan = TRUE]
    /\ ps' = [ps EXCEPT ![g] = [PSOutside("sample") EXCEPT !.st = "SCANNING"]]

(* WanMgr_CheckRescanRequired: the active interface does not work, or there  *)
(* is an enabled one of a higher priority                                    *)
RescanRequired(g) ==
    LET a == ps[g].idx IN
    \/ ~ iface[a].PhyUp \/ iface[a].Status # "UP"
    \/ \E i \in InterfaceAvailable(g) \ {a} : iface[i].Enable /\ Priority[i] < Priority[a]

(* State_SelectedInterfaceUp                                                 *)
PSSelectedInterfaceUp(g) ==
    LET a == ps[g].idx
        ok == iface[a].PhyUp /\ iface[a].Enable
    IN
    /\ PSHandling(g, "SELECTED_UP")
    /\ \/ PSStopping(g) /\ TearingDown(g) /\ UNCHANGED config
       \/ ~ PSStopping(g) /\ ps[g].rst /\ RescanRequired(g) /\ RestartScan(g)
       \/ /\ ~ PSStopping(g) /\ ~ (ps[g].rst /\ RescanRequired(g))
          /\ PSGoto(g, IF ok THEN "SELECTED_UP" ELSE "SELECTED_DOWN")
          /\ group' = [group EXCEPT ![g].ResetSelectedInterface = @ /\ ~ ps[g].rst]
          /\ UNCHANGED <<config, iface>>
    /\ UNCHANGED ism

(* Mutant: the link of the selected interface is not looked at again         *)
ReturnsNever(a) == FALSE
(* The interface is back and its old state machine has ended                 *)
Returns(a) == /\ iface[a].Status = "DISABLED" /\ iface[a].PhyUp /\ iface[a].Enable

(* State_SelectedInterfaceDown, Transition_SelectedInterfaceUp               *)
PSSelectedInterfaceDown(g) ==
    LET a == ps[g].idx IN
    /\ PSHandling(g, "SELECTED_DOWN")
    /\ \/ PSStopping(g) /\ TearingDown(g) /\ UNCHANGED <<config, ism>>
       \/ ~ PSStopping(g) /\ ps[g].rst /\ RestartScan(g) /\ UNCHANGED ism
       \/ /\ ~ PSStopping(g) /\ ~ ps[g].rst
          /\ \/ ~ Returns(a) /\ PSGoto(g, "SELECTED_DOWN") /\ UNCHANGED ism
             \/ /\ Returns(a) /\ PSGoto(g, "SELECTED_UP")
                /\ \E k \in ISMSlots : ~ ISMLive(a, k)
                /\ ism' = StartISM(a)
          /\ UNCHANGED <<config, group, iface>>

(* State_InterfaceTearDown                                                   *)
PSInterfaceTearDown(g) ==
    /\ PSHandling(g, "TEAR_DOWN")
    /\ PSGoto(g, IF \A i \in InterfaceAvailable(g) : iface[i].Status = "DISABLED"
                 THEN "POLICY_EXIT" ELSE "TEAR_DOWN")
    /\ UNCHANGED <<config, group, iface, ism>>

(* The end of the thread: the copies of the last iteration are used          *)
PSExit(g) ==
    /\ PSHandling(g, "POLICY_EXIT") \/ PSHandling(g, "POLICY_ERROR")
    /\ config' = [config EXCEPT !.ResetFailOverScan = @ \/ ps[g].cfg]
    /\ group' = [group EXCEPT ![g].SelectedInterface = NoIface,
                    ![g].ConfigChanged = FALSE,
                    ![g].State = IF @ = "DEACTIVATED" THEN @ ELSE "STOPPED"]
    /\ ps' = [ps EXCEPT ![g] = PSOutside("none")]
    /\ UNCHANGED <<iface, ism>>

(* InterfaceSelectionTimeOut elapses                                         *)
PSTimeOut(g) ==
    /\ ps[g].pc # "none" /\ ps[g].st = "SCANNING" /\ ~ ps[g].expired
    /\ ps' = [ps EXCEPT ![g].expired = TRUE]
    /\ UNCHANGED <<config, group, iface, ism>>

PSNext(g) ==
    \/ PSStart(g) \/ PSUpdateControllerData(g) \/ PSScan(g) \/ PSScanned(g)
    \/ PSCheckReconfiguration(g) \/ PSReconfigurePlatform(g)
    \/ PSSelectedInterfaceUp(g) \/ PSSelectedInterfaceDown(g)
    \/ PSInterfaceTearDown(g) \/ PSExit(g)
=============================================================================
