------------------------------ MODULE FailOver -------------------------------
(* The failover policy (wanmgr_wan_failover.c) and the controller loop that  *)
(* runs it (wanmgr_controller.c).  One thread watches the groups: it starts  *)
(* their selection threads, marks the highest priority group whose selected  *)
(* interface works, and makes the interface of one group ACTIVE at a time.   *)
(*                                                                           *)
(* An iteration samples the configuration, runs IfaceGroupMonitor and the    *)
(* state function.  MarkHighPriorityGroup takes the lock once per group: it  *)
(* is one action per group (fo.idx is the loop variable).  The loops of      *)
(* IfaceGroupMonitor and Transition_Start, whose passes only touch their own *)
(* group, are one action each.                                               *)
EXTENDS AutoWan

CONSTANTS
    FailOverType,       \* "HOTSWAP" or "COLDSWAP", read from PSM
    SelectionTimeOut,   \* of each group: the longest Selection.Timeout in it
    RestorationDelay,   \* DML_WANMGR_CONFIG.RestorationDelay
    MaxTimer            \* bound: GroupSelectionTimer stops counting here

ASSUME FailOverAssumption ==
    /\ FailOverType \in {"HOTSWAP", "COLDSWAP"}
    /\ SelectionTimeOut \in [Groups -> Nat]
    /\ RestorationDelay \in Nat
    /\ MaxTimer \in Nat

VARIABLE fo      \* WanMgr_FailOver_Controller_t and the thread's position

FOStates == {"SCANNING_GROUP", "GROUP_ACTIVE", "RESTORATION_WAIT",
             "DEACTIVATE_GROUP", "EXIT"}

(* pc: off (waiting for Enable), first (IfaceGroupMonitor before the loop),  *)
(* sample, monitor, state, mark (in MarkHighPriorityGroup, after the first   *)
(* group), deactivate, activate, join (waiting for the selection threads).   *)
(* cur is CurrentActiveGroup, high HighestValidGroup, en and rs the sampled  *)
(* WanEnable and ResetScan, timer the seconds since GroupSelectionTimer.     *)
FOType == [pc : {"off", "first", "sample", "monitor", "state", "mark",
                 "deactivate", "activate", "join"},
           st : FOStates,
           idx : Groups \cup {NoGroup},
           cur : Groups \cup {NoGroup},
           high : Groups \cup {NoGroup},
           en : BOOLEAN, rs : BOOLEAN,
           timer : 0 .. MaxTimer]

FOTypeOK == fo \in FOType

FOOutside(c) ==
         [pc |-> c, st |-> "SCANNING_GROUP", idx |-> NoGroup,
          cur |-> NoGroup, high |-> NoGroup, en |-> FALSE, rs |-> FALSE, timer |-> 0]

FOInit == fo = FOOutside("off")

(* The end of an iteration: next state s.  The timer is read in two states.  *)
FOGoto(f, s) ==
    fo' = [f EXCEPT !.pc = "sample", !.st = s, !.idx = NoGroup, !.en = FALSE,
                    !.rs = FALSE,
                    !.timer = IF s \in {"SCANNING_GROUP", "RESTORATION_WAIT"}
                              THEN @ ELSE 0]

FOHandling(s) == fo.pc = "state" /\ fo.st = s

-----------------------------------------------------------------------------
(* The controller starts the failover thread when Enable is set:             *)
(* WanMgr_FailOverCtrlInit, WanMgr_UpdateFOControllerData, Transition_Start  *)
FOThreadStart ==
    /\ fo.pc = "off"
    /\ config.Enable
    /\ fo' = FOOutside("first")
    /\ config' = [config EXCEPT !.ResetFailOverScan = FALSE]
    /\ group' = [g \in Groups |-> IF FailOverType = "COLDSWAP"
                                  THEN [group[g] EXCEPT !.State = "DEACTIVATED"]
                                  ELSE group[g]]
    /\ UNCHANGED <<iface, ism, pol>>

(* WanMgr_UpdateFOControllerData                                             *)
FOUpdateControllerData ==
    /\ fo.pc = "sample"
    /\ fo' = [fo EXCEPT !.pc = "monitor",
                        !.en = config.Enable, !.rs = config.ResetFailOverScan]
    /\ config' = [config EXCEPT !.ResetFailOverScan = FALSE]
    /\ UNCHANGED <<group, iface, ism, pol>>

(* WanMgr_FO_IfaceGroupMonitor.  A failed pthread_create leaves the state of *)
(* the group as it was.                                                      *)
NeedsThread(g) == InterfaceAvailable(g) # {} /\ group[g].State = "STOPPED"
Created(g) == NeedsThread(g) /\ \E k \in PolSlots : ~ PolLive(g, k)

FOIfaceGroupMonitor ==
    /\ fo.pc \in {"first", "monitor"}
    /\ group' = [g \in Groups |->
                    IF NeedsThread(g)
                    THEN [group[g] EXCEPT !.InitialScanComplete = FALSE,
                                          !.Activated = FALSE,
                                          !.ConfigChanged = FALSE,
                                          !.State = IF Created(g) THEN "RUNNING" ELSE @]
                    ELSE group[g]]
    /\ pol' = [g \in Groups |-> IF Created(g) THEN StartPolicy(g) ELSE pol[g]]
    /\ fo' = [fo EXCEPT !.pc = IF @ = "first" THEN "sample" ELSE "state"]
    /\ UNCHANGED <<config, iface, ism>>

-----------------------------------------------------------------------------
(* MarkHighPriorityGroup                                                     *)
Valid(i) == iface[i].Status \in {"STANDBY", "UP"} /\ iface[i].Connectivity

(* HighestValidGroup after looking at the selected interface of group g,     *)
(* when it was h before                                                      *)
Marked(h, g) ==
    LET i == group[g].SelectedInterface IN
    IF i = NoIface \/ h # NoGroup THEN h
    ELSE IF Valid(i) THEN g
    ELSE IF fo.cur = g /\ iface[i].Reset THEN fo.cur
    ELSE NoGroup

(* Mutant: only the time out is looked at                                    *)
WaitForHigherGroupTime(g) ==
    fo.st = "SCANNING_GROUP" /\ fo.timer < SelectionTimeOut[g]
(* Initial scan: wait for the higher groups before looking at lower ones     *)
WaitForHigherGroup(g) ==
    /\ fo.st = "SCANNING_GROUP"
    /\ fo.timer < SelectionTimeOut[g] \/ ~ group[g].InitialScanComplete

(* Mutants: a switch back to a higher group forgotten; a scan that does not  *)
(* activate what it found                                                    *)
DecideNeverRestores(f) ==
    IF f.st = "SCANNING_GROUP" /\ f.high # NoGroup
    THEN fo' = [f EXCEPT !.pc = "activate", !.idx = NoGroup]
    ELSE IF f.st # "SCANNING_GROUP" /\ f.high # NoGroup /\ f.cur < f.high
    THEN fo' = [f EXCEPT !.pc = "deactivate", !.idx = NoGroup]
    ELSE FOGoto(f, f.st)
DecideFirstGroupOnly(f) ==
    IF f.st = "SCANNING_GROUP" /\ f.high = 1
    THEN fo' = [f EXCEPT !.pc = "activate", !.idx = NoGroup]
    ELSE FOGoto(f, f.st)
(* What the state function does with HighestValidGroup: State_ScanningGroup  *)
(* activates it; State_GroupActive switches to a lower group, or at once to  *)
(* a higher one that was never active, and waits RestorationDelay before it  *)
(* goes back to a higher one.                                                *)
Decide(f) ==
    LET found == f.high # NoGroup
        fresh == found /\ ~ group[f.high].Activated
        scanning == f.st = "SCANNING_GROUP"
        switch == found /\ (f.cur < f.high \/ (fresh /\ f.cur > f.high))
        restore == found /\ f.cur > f.high /\ ~ fresh
    IN
    CASE scanning /\ found       -> fo' = [f EXCEPT !.pc = "activate", !.idx = NoGroup]
      [] ~ scanning /\ switch    -> fo' = [f EXCEPT !.pc = "deactivate", !.idx = NoGroup]
      [] ~ scanning /\ restore   -> FOGoto([f EXCEPT !.timer = 0], "RESTORATION_WAIT")
      [] OTHER                   -> FOGoto(f, f.st)

(* The pass of the loop over group g                                         *)
MarkGroup(g, h0) ==
    LET h == Marked(h0, g)
        last == group[g].ConfigChanged \/ WaitForHigherGroup(g) \/ g = NGroups
        f == [fo EXCEPT !.high = IF group[g].ConfigChanged THEN fo.cur ELSE h]
    IN
    /\ group' = IF FailOverType = "COLDSWAP" /\ h = NoGroup
                   /\ group[g].State = "DEACTIVATED"
                THEN [group EXCEPT ![g].State = "STOPPED"] ELSE group
    /\ \/ last /\ Decide(f)
       \/ ~ last /\ fo' = [f EXCEPT !.pc = "mark", !.idx = g + 1]

FOMarkHighPriorityGroup ==
    /\ fo.pc = "mark"
    /\ MarkGroup(fo.idx, fo.high)
    /\ UNCHANGED <<config, iface, ism, pol>>

-----------------------------------------------------------------------------
(* The selected interface of CurrentActiveGroup                              *)
CurrentInterface ==
    IF fo.cur = NoGroup THEN NoIface ELSE group[fo.cur].SelectedInterface

(* Mutant: the deactivated interface keeps its Selection.Status              *)
DeactivateGroupForgets == iface
(* WanMgr_DeactivateGroup(CurrentActiveGroup) on the interface table         *)
DeactivateGroup ==
    IF CurrentInterface # NoIface /\ iface[CurrentInterface].Selection = "ACTIVE"
    THEN [iface EXCEPT ![CurrentInterface].Selection = "SELECTED"] ELSE iface

(* Transition_DeactivateGroup                                                *)
TransitionDeactivateGroup ==
    /\ iface' = DeactivateGroup
    /\ FOGoto(fo, "DEACTIVATE_GROUP")

FODeactivate ==
    /\ fo.pc = "deactivate"
    /\ TransitionDeactivateGroup
    /\ UNCHANGED <<config, group, ism, pol>>

(* State_ScanningGroup                                                       *)
FOScanningGroup ==
    /\ FOHandling("SCANNING_GROUP")
    /\ \/ ~ fo.en /\ FOGoto(fo, "EXIT") /\ UNCHANGED group
       \/ fo.en /\ MarkGroup(1, NoGroup)
    /\ UNCHANGED <<config, iface, ism, pol>>

(* State_GroupActive                                                         *)
FOGroupActive ==
    /\ FOHandling("GROUP_ACTIVE")
    /\ \/ ~ fo.en /\ TransitionDeactivateGroup /\ UNCHANGED group
       \/ /\ fo.en /\ fo.rs                              \* Transition_ResetScan
          /\ iface' = DeactivateGroup
          /\ FOGoto([fo EXCEPT !.cur = NoGroup, !.high = NoGroup, !.timer = 0],
                    "SCANNING_GROUP")
          /\ UNCHANGED group
       \/ fo.en /\ ~ fo.rs /\ MarkGroup(1, NoGroup) /\ UNCHANGED iface
    /\ UNCHANGED <<config, ism, pol>>

(* State_RestorationWait                                                     *)
FORestorationWait ==
    LET i == group[fo.high].SelectedInterface
        down == i # NoIface /\ iface[i].Status \notin {"STANDBY", "UP"}
        over == fo.timer > RestorationDelay
    IN
    /\ FOHandling("RESTORATION_WAIT")
    /\ \/ ~ fo.en /\ TransitionDeactivateGroup
       \/ fo.en /\ down /\ FOGoto(fo, "GROUP_ACTIVE") /\ UNCHANGED iface
       \/ fo.en /\ ~ down /\ over /\ TransitionDeactivateGroup
       \/ fo.en /\ ~ down /\ ~ over /\ FOGoto(fo, "RESTORATION_WAIT") /\ UNCHANGED iface
    /\ UNCHANGED <<config, group, ism, pol>>

(* Mutant: no wait                                                           *)
CurrentGroupDeactivatedAtOnce == TRUE
(* State_DeactivateGroup: wait until the interface of the group is not UP    *)
CurrentGroupDeactivated ==
    CurrentInterface # NoIface => iface[CurrentInterface].Status # "UP"

FODeactivateGroup ==
    /\ FOHandling("DEACTIVATE_GROUP")
    /\ \/ ~ CurrentGroupDeactivated /\ FOGoto(fo, "DEACTIVATE_GROUP")
       \/ CurrentGroupDeactivated /\ ~ fo.en /\ FOGoto(fo, "EXIT")
       \/ CurrentGroupDeactivated /\ fo.en /\ fo' = [fo EXCEPT !.pc = "activate"]
    /\ UNCHANGED <<config, group, iface, ism, pol>>

(* Transition_ActivateGroup: WanMgr_ActivateGroup, which does nothing when   *)
(* the interface is not SELECTED, and under COLDSWAP the loop that stops the *)
(* lower groups.  The last case is the one the code says it never reaches.   *)
FOActivateGroup ==
    LET i == group[fo.high].SelectedInterface
        activates == i # NoIface /\ iface[i].Selection = "SELECTED"
        stopped == {g \in Groups : /\ FailOverType = "COLDSWAP"
                                   /\ g > fo.high
                                   /\ group[g].State = "RUNNING"}
    IN
    /\ fo.pc = "activate"
    /\ \/ /\ fo.high # NoGroup
          /\ iface' = IF activates THEN [iface EXCEPT ![i].Selection = "ACTIVE"] ELSE iface
          /\ group' = [g \in Groups |->
                 IF g \in stopped
                 THEN [group[g] EXCEPT !.State = "DEACTIVATED", !.ConfigChanged = TRUE]
                 ELSE IF g = fo.high
                 THEN [group[g] EXCEPT !.Activated = @ \/ activates]
                 ELSE group[g]]
          /\ FOGoto([fo EXCEPT !.cur = fo.high], "GROUP_ACTIVE")
       \/ /\ fo.high = NoGroup
          /\ FOGoto(fo, "GROUP_ACTIVE")
          /\ UNCHANGED <<group, iface>>
    /\ UNCHANGED <<config, ism, pol>>

-----------------------------------------------------------------------------
(* STATE_FAILOVER_EXIT leaves the loop (after one more IfaceGroupMonitor)    *)
FOExit ==
    /\ FOHandling("EXIT")
    /\ fo' = FOOutside("join")
    /\ UNCHANGED <<config, group, iface, ism, pol>>

(* Mutant: no wait                                                           *)
FOJoinAtOnce ==
    /\ fo.pc = "join"
    /\ fo' = FOOutside("off")
    /\ UNCHANGED <<config, group, iface, ism, pol>>
(* "Wait for All selection thread to exit"; then the thread ends and the     *)
(* controller waits for Enable again                                         *)
FOJoin ==
    /\ fo.pc = "join"
    /\ \A g \in Groups : group[g].State # "RUNNING"
    /\ fo' = FOOutside("off")
    /\ UNCHANGED <<config, group, iface, ism, pol>>

(* A second of CLOCK_MONOTONIC_RAW                                           *)
FOTick ==
    /\ fo.pc = "sample"
    /\ fo.st \in {"SCANNING_GROUP", "RESTORATION_WAIT"}
    /\ fo.timer < MaxTimer
    /\ fo' = [fo EXCEPT !.timer = @ + 1]
    /\ UNCHANGED <<config, group, iface, ism, pol>>

FONext ==
    \/ FOThreadStart
    \/ FOUpdateControllerData
    \/ FOIfaceGroupMonitor
    \/ FOScanningGroup
    \/ FOMarkHighPriorityGroup
    \/ FOGroupActive
    \/ FODeactivate
    \/ FORestorationWait
    \/ FODeactivateGroup
    \/ FOActivateGroup
    \/ FOExit
    \/ FOJoin
=============================================================================
