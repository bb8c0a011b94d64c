-------------------------------- MODULE MCScan --------------------------------
(* The threads of the Parallel Scan policy with the state machines they      *)
(* start, the data model writes of module WanData, and what the failover     *)
(* thread does to a group: it starts the selection thread, and switches the  *)
(* selected interface between SELECTED and ACTIVE.                           *)
EXTENDS ParallelScan

CONSTANT MaxEvents

VARIABLE used      \* how many events there were

mcvars == <<config, group, iface, ism, ps, used>>

MCInit == PSInit /\ used = 0

StartThread(g) ==
    /\ group[g].State = "STOPPED" /\ ps[g].pc = "none"
    /\ group' = [group EXCEPT ![g].State = "RUNNING", ![g].ConfigChanged = FALSE,
                    ![g].InitialScanComplete = FALSE, ![g].Activated = FALSE]
    /\ ps' = [ps EXCEPT ![g] = PSOutside("start")]
    /\ UNCHANGED <<config, iface, ism>>

Activate(g) ==
    LET i == group[g].SelectedInterface IN
    /\ i # NoIface /\ iface[i].Selection = "SELECTED" /\ Works(i)
    /\ iface' = [iface EXCEPT ![i].Selection = "ACTIVE"]
    /\ group' = [group EXCEPT ![g].Activated = TRUE]
    /\ UNCHANGED <<config, ism, ps>>

Deactivate(g) ==
    LET i == group[g].SelectedInterface IN
    /\ i # NoIface /\ iface[i].Selection = "ACTIVE"
    /\ iface' = [iface EXCEPT ![i].Selection = "SELECTED"]
    /\ UNCHANGED <<config, group, ism, ps>>

ScanThreads ==
    \/ \E g \in Groups : PSNext(g) \/ PSTimeOut(g)
    \/ \E i \in Ifaces, k \in ISMSlots : ISMControl(i, k) /\ UNCHANGED ps
    \/ \E g \in Groups : StartThread(g) \/ Activate(g)

ScanEvents ==
    \/ Environment /\ UNCHANGED <<ism, ps>>
    \/ \E i \in Ifaces, k \in ISMSlots : ISMDisturbed(i, k) /\ UNCHANGED ps
    \/ \E g \in Groups : Deactivate(g)

MCNext ==
    \/ ScanThreads /\ UNCHANGED used
    \/ ScanEvents /\ used < MaxEvents /\ used' = used + 1

MCSpec == MCInit /\ [][MCNext]_mcvars

(* As in module WanManager: threads run, time passes, layers come up.        *)
MCFairSpec ==
    /\ MCSpec
    /\ \A g \in Groups :
          /\ WF_mcvars(PSNext(g) /\ UNCHANGED used)
          /\ WF_mcvars(PSTimeOut(g) /\ UNCHANGED used)
          /\ WF_mcvars(StartThread(g) /\ UNCHANGED used)
          /\ SF_mcvars(Activate(g) /\ UNCHANGED used)
    /\ \A i \in Ifaces, k \in ISMSlots :
          WF_mcvars(ISMControl(i, k) /\ UNCHANGED <<ps, used>>)

-----------------------------------------------------------------------------
(* An interface that is SELECTED or ACTIVE is the one the failover thread is *)
(* told of and the one the selection thread holds: a rescan, a time out or a *)
(* teardown at any moment leaves no second one in service, and none behind   *)
(* when the thread ends.                                                     *)
SelectionConsistent ==
    \A i \in Ifaces : iface[i].Selection \in {"SELECTED", "ACTIVE"} =>
        LET g == iface[i].Group IN
        /\ group[g].SelectedInterface = i
        /\ ps[g].pc # "none" /\ ps[g].idx = i

Selects(g, i) == group[g].SelectedInterface = NoIface /\ group'[g].SelectedInterface = i

(* "Selection.Priority is the HIGHEST out of all interfaces in the group     *)
(* whose Selection.Enable is true AND no valid last ActiveLink interface     *)
(* available": before the time out an interface is selected only if no other *)
(* enabled one has a higher priority, whichever came up first and whatever   *)
(* the order of the table. A last selected interface, with ActiveLink, may   *)
(* be preferred; a priority below 0 is the lowest: the comparison is         *)
(* unsigned.                                                                 *)
PriorityFirst ==
    [][\A g \in Groups, i \in Ifaces :
          /\ Selects(g, i) /\ ~ ps[g].expired
          /\ \A j \in InterfaceAvailable(g) : ~ iface[j].ActiveLink
          => \A j \in InterfaceAvailable(g) \ {i} :
                iface[j].Enable /\ Priority[j] >= 0 => Priority[i] <= Priority[j]]_mcvars

(* "no valid last ActiveLink interface available", "set negative value to    *)
(* give highest priority for last active link interface": before the time    *)
(* out no other interface is selected while the last selected one of the     *)
(* group is enabled and may still come up.                                   *)
LastSelectedPreferred ==
    [][\A g \in Groups, i \in Ifaces :
          Selects(g, i) /\ ~ ps[g].expired =>
             \A j \in InterfaceAvailable(g) \ {i} : ~ iface[j].ActiveLink]_mcvars

(* Service: when from some moment on the WAN Manager is enabled and every    *)
(* interface has its link, an interface is UP in the end, whatever requests  *)
(* and failures there were before.  There is one way not to get there: State *)
(* SELECTED_UP only looks at the link, so an interruption that the state     *)
(* machine saw and the selection thread did not leaves the selected          *)
(* interface without a state machine.                                        *)
Usable(i) == config.Enable /\ iface[i].Enable /\ iface[i].PhyUp
Served(g) == \E i \in InterfaceAvailable(g) : iface[i].Status = "UP"
Abandoned(g) == ps[g].st = "SELECTED_UP" /\ \A k \in ISMSlots : ~ ISMLive(ps[g].idx, k)
ScanComesUp ==
    \A g \in Groups :
        <>[](\A i \in Ifaces : Usable(i))
            => <>[](Served(g) \/ Abandoned(g) \/ ps[g].st = "REBOOT")

-----------------------------------------------------------------------------
OneGroup == [i \in Ifaces |-> 1]
PriorityByIndex == [i \in Ifaces |-> i]
PriorityReversed == [i \in Ifaces |-> NIfaces + 1 - i]
ScanKinds ==
    {"enable", "disable"} \X {0} \cup {"phy", "lease", "reset"} \X Ifaces
        \cup {"resetselected", "policy"} \X Groups
=============================================================================
