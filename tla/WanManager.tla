----------------------------- MODULE WanManager ------------------------------
(* The threads of the WAN Manager together: the failover thread, the         *)
(* selection threads it starts, the interface state machines these start,    *)
(* and the data model writes of the rest of the device.                      *)
EXTENDS FailOver

vars == <<config, group, iface, ism, pol, fo>>

Init == DataInit /\ ISMInit /\ PolInit /\ FOInit

FOStep == FONext \/ FOTick

PolStep(g, k) == (AWNext(g, k) \/ AWTimerExpires(g, k)) /\ UNCHANGED fo

ISMStep(i, k) == ISMControl(i, k) /\ UNCHANGED <<pol, fo>>

(* The steps of the program.                                                 *)
ThreadStep ==
    \/ FOStep
    \/ \E g \in Groups, k \in PolSlots : PolStep(g, k)
    \/ \E i \in Ifaces, k \in ISMSlots : ISMStep(i, k)

(* The steps of what is around it: data model writes, and lower layers that  *)
(* fail.                                                                     *)
LayerStep(i, k) == ISMDisturbed(i, k) /\ UNCHANGED <<pol, fo>>

EnvStep ==
    \/ Environment /\ UNCHANGED <<ism, pol, fo>>
    \/ \E i \in Ifaces, k \in ISMSlots : LayerStep(i, k)

Next == ThreadStep \/ EnvStep

Spec == Init /\ [][Next]_vars

(* Every thread is scheduled again and again and time passes; a state        *)
(* machine whose lower layers come up moves on.  Nothing is assumed of the   *)
(* operator, the other components or the failures of the lower layers.       *)
Fairness ==
    /\ WF_vars(FONext)
    /\ SF_vars(FOTick)
    /\ \A g \in Groups, k \in PolSlots :
          /\ WF_vars(AWNext(g, k) /\ UNCHANGED fo)
          /\ SF_vars(AWTimerExpires(g, k) /\ UNCHANGED fo)
    /\ \A i \in Ifaces, k \in ISMSlots : WF_vars(ISMStep(i, k))

FairSpec == Spec /\ Fairness

-----------------------------------------------------------------------------
(* Types of all the shared and local state of the threads.                   *)
TypeOK == DataTypeOK /\ ISMTypeOK /\ PolTypeOK /\ FOTypeOK

(* "One instance [of the selection policy] per interface Group": the group   *)
(* State that IfaceGroupMonitor tests before it creates a thread, and that   *)
(* the thread itself resets in its last lock section, is enough to keep a    *)
(* second thread of the same group from starting.                            *)
SingleSelectionThread ==
    \A g \in Groups : \A k, l \in PolSlots : PolLive(g, k) /\ PolLive(g, l) => k = l

(* The failover thread, when it ends, spins until no group is RUNNING: a     *)
(* RUNNING group always has a thread that will change it.                    *)
JoinWaitsForThread ==
    \A g \in Groups : group[g].State = "RUNNING" => \E k \in PolSlots : PolLive(g, k)

(* While the controller waits for Enable, with the failover thread ended,    *)
(* no selection thread is left over and no interface is still ACTIVE.        *)
QuietWhenOff ==
    fo.pc = "off" => /\ \A g \in Groups, k \in PolSlots : ~ PolLive(g, k)
                     /\ \A i \in Ifaces : iface[i].Selection # "ACTIVE"

(* Only SELECTING and SM_EXIT may be entered with activeInterfaceIdx = -1:   *)
(* every other state function uses it as an index of the interface table     *)
(* (or, locking it to NULL, falls out of its state).                         *)
PolicyIndexValid ==
    \A g \in Groups, k \in PolSlots :
        pol[g][k].pc = "loop" /\ pol[g][k].st \notin {"SELECTING", "SM_EXIT"}
            => pol[g][k].idx # NoIface

(* An ACTIVE interface is the selected one of CurrentActiveGroup, so that    *)
(* WanMgr_DeactivateGroup always finds the interface it has to take out of   *)
(* service, and there is never a second one.                                 *)
ActiveIsCurrent ==
    \A i \in Ifaces : iface[i].Selection = "ACTIVE" =>
        fo.cur # NoGroup /\ group[fo.cur].SelectedInterface = i

(* Break before make: State_DeactivateGroup waits for the old interface to   *)
(* leave UP before the next group is activated, so at most one interface is  *)
(* UP, whatever the links, the leases and the connectivity checks do.        *)
AtMostOneUp ==
    \A i, j \in Ifaces : iface[i].Status = "UP" /\ iface[j].Status = "UP" => i = j

(* The first activation of a scan: MarkHighPriorityGroup does not look below *)
(* a group whose initial scan is not complete.  A higher group whose scan    *)
(* found no usable interface, or whose interface becomes usable after the    *)
(* loop has passed it, is passed over (Restored brings it back later).       *)
ScanInOrder ==
    [][fo.cur = NoGroup /\ fo'.cur # NoGroup =>
          \A g \in Groups : g < fo'.cur => group[g].InitialScanComplete]_vars

(* At most one interface of a group has ActiveLink, the mark that survives a *)
(* restart: InterfaceValidated gives it, and what leaves an interface behind *)
(* (InterfaceInvalid, RestartSelectionInterface, a changed group) takes it   *)
(* away first.                                                               *)
OneActiveLink == \A g \in Groups : \A i, j \in ActiveLinks(g) : i = j

-----------------------------------------------------------------------------
(* Disabling the WAN Manager for good stops every thread and takes every     *)
(* interface out of service.                                                 *)
Stopped ==
    /\ fo.pc = "off"
    /\ \A g \in Groups, k \in PolSlots : ~ PolLive(g, k)
    /\ \A i \in Ifaces : /\ \A k \in ISMSlots : ~ ISMLive(i, k)
                         /\ iface[i].Selection # "ACTIVE"
                         /\ iface[i].Status \notin {"STANDBY", "UP"}
DisableStops == <>[] ~ config.Enable => <>[] Stopped

(* "Ensure Internet Connectivity": as long as some interface is usable for   *)
(* good, some interface is UP again and again.                               *)
Usable(i) == config.Enable /\ iface[i].Enable /\ iface[i].PhyUp
WanComesUp ==
    (\E i \in Ifaces : <>[] Usable(i)) => []<>(\E j \in Ifaces : iface[j].Status = "UP")

(* Restoration: once an interface of the highest group is usable and passes  *)
(* its connectivity checks for good, traffic is back on that group.          *)
Restored ==
    <>[](\E i \in InterfaceAvailable(1) : Usable(i) /\ iface[i].Connectivity)
        => <>[](\E i \in InterfaceAvailable(1) : iface[i].Status = "UP")

(* A link that is gone for good does not stay in service.                    *)
LinkLossSeen ==
    \A i \in Ifaces : <>[] ~ iface[i].PhyUp =>
        <>[](\A k \in ISMSlots : ~ ISMLive(i, k)) /\ <>[](iface[i].Status # "UP")

(* A changed group configuration is taken up by the selection thread, unless *)
(* the WAN Manager stays disabled.                                           *)
ConfigChangeApplied ==
    []<> config.Enable =>
        \A g \in Groups : group[g].ConfigChanged ~> ~ group[g].ConfigChanged

(* ResetSelectedInterface is carried out, whichever state of the selection   *)
(* it meets, when the group has a usable interface.                          *)
ResetSelectedDone ==
    \A g \in Groups :
        (\E i \in Ifaces : <>[](Usable(i) /\ iface[i].Group = g))
            => (group[g].ResetSelectedInterface ~> ~ group[g].ResetSelectedInterface)

-----------------------------------------------------------------------------
(* Why ActiveIsCurrent holds when the groups do not change, the WAN Manager  *)
(* is not enabled again once it was disabled, and no reset request is taken  *)
(* back: the inductive invariant of its proof.                               *)
FixedGroups == \A i \in Ifaces : <<"group", i>> \notin Events
NotReenabled == <<"enable", 0>> \notin Events
RequestsStay == \A g \in Groups : <<"cancelreset", g>> \notin Events

(* The states a selection thread can be in while its group has a selected    *)
(* interface, and those of them in which it has deselected it.               *)
HoldingStates == {"RECONFIGURATION", "ACTIVE", "DOWN", "REBOOT_PLATFORM",
                  "TEARDOWN", "TEARING_DOWN", "SM_EXIT"}
LeavingStates == {"REBOOT_PLATFORM", "TEARDOWN", "TEARING_DOWN", "SM_EXIT"}

Selected(g) == group[g].SelectedInterface

ThreadsRunning ==
    \A g \in Groups, k \in PolSlots : PolLive(g, k) => group[g].State = "RUNNING"

(* A thread and a group only ever hold interfaces of the group.              *)
OwnInterfaces ==
    /\ \A i \in Ifaces : iface[i].Group = InitGroup[i]
    /\ \A g \in Groups : Selected(g) # NoIface => InitGroup[Selected(g)] = g
    /\ \A g \in Groups, k \in PolSlots :
          pol[g][k].idx # NoIface => InitGroup[pol[g][k].idx] = g

(* A request a thread has sampled is still there, and so is a disable.       *)
RequestsStand ==
    \A g \in Groups, k \in PolSlots : pol[g][k].pc = "loop" =>
        /\ ~ pol[g][k].en => ~ config.Enable
        /\ pol[g][k].cfg => group[g].ConfigChanged
        /\ pol[g][k].rst => group[g].ResetSelectedInterface

(* Only the thread of the group holds its selected interface.                *)
SelectedIsHeld ==
    \A g \in Groups : Selected(g) # NoIface =>
        /\ \E k \in PolSlots : PolLive(g, k)
        /\ \A k \in PolSlots :
              /\ pol[g][k].pc # "start"
              /\ pol[g][k].pc = "loop" => /\ pol[g][k].st \in HoldingStates
                                          /\ pol[g][k].idx = Selected(g)

(* A thread on its way out has deselected the interface ...                  *)
LeavingIsDeselected ==
    \A g \in Groups, k \in PolSlots :
        /\ Selected(g) # NoIface
        /\ \/ pol[g][k].pc = "exit"
           \/ pol[g][k].pc = "loop" /\ pol[g][k].st \in LeavingStates
        => iface[Selected(g)].Selection = "NOT_SELECTED"

(* ... and was asked to.                                                     *)
TearDownWasRequested ==
    \A g \in Groups, k \in PolSlots :
        Selected(g) # NoIface /\ Handling(g, k, "TEARDOWN")
            => Stopping(g, k) \/ pol[g][k].rst

(* Between two activations no interface is ACTIVE.                           *)
BetweenActivations ==
    \/ fo.pc \in {"off", "first", "activate", "join"}
    \/ fo.st \in {"SCANNING_GROUP", "DEACTIVATE_GROUP", "EXIT"}
NoneActiveBetween ==
    BetweenActivations => \A i \in Ifaces : iface[i].Selection # "ACTIVE"

(* The strengthening of ActiveIsCurrent that every lock section of every     *)
(* thread preserves: who may hold a selected interface, and in which state.  *)
HandOverInv ==
    /\ SingleSelectionThread
    /\ ThreadsRunning
    /\ OwnInterfaces
    /\ RequestsStand
    /\ SelectedIsHeld
    /\ LeavingIsDeselected
    /\ TearDownWasRequested
    /\ NoneActiveBetween
    /\ ActiveIsCurrent
=============================================================================
