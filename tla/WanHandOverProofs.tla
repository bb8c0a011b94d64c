-------------------------- MODULE WanHandOverProofs --------------------------
(* The hand over of the ACTIVE interface between groups, for every number of *)
(* groups, interfaces and threads: HandOverInv is an inductive invariant of  *)
(* the lock sections of all threads.  Each section is first reduced to what  *)
(* it does to the fields the invariant reads.                                *)
(* The second part is about the failover thread: the order in which it scans *)
(* the groups, ActiveLink, and the traffic on at most one interface.         *)
EXTENDS WanManagerProofs

(* The hypotheses: HOTSWAP, the groups keep their interfaces, no re-enable,  *)
(* no request taken back.                                                    *)
HandOverAssumed ==
    FailOverType = "HOTSWAP" /\ FixedGroups /\ NotReenabled /\ RequestsStay

(* The fields HandOverInv reads, of the tables only.                         *)
SameInterfaces ==
    \A i \in Ifaces : /\ iface'[i].Group = iface[i].Group
                      /\ iface'[i].Selection = iface[i].Selection
RequestsKept ==
    /\ ~ config.Enable => ~ config'.Enable
    /\ \A g \in Groups :
          /\ group[g].ConfigChanged => group'[g].ConfigChanged
          /\ group[g].ResetSelectedInterface => group'[g].ResetSelectedInterface
SameSelected ==
    \A g \in Groups : /\ group'[g].State = group[g].State
                      /\ group'[g].SelectedInterface = group[g].SelectedInterface

(* A step that touches none of the fields keeps the invariant.               *)
LEMMA InertStep ==
    ASSUME TypeOK, HandOverInv, SameInterfaces, RequestsKept, SameSelected,
           UNCHANGED <<pol, fo>>
    PROVE  HandOverInv'
  <1> USE DEF HandOverInv, SameInterfaces, RequestsKept, SameSelected, Selected, PolLive
  <1>0. /\ \A g \in Groups : group[g].SelectedInterface \in Ifaces \cup {NoIface}
        /\ fo.cur \in Groups \cup {NoGroup}
    BY DEF TypeOK, DataTypeOK, GroupType, FOTypeOK, FOType
  <1>1. SingleSelectionThread' /\ ThreadsRunning'
    BY DEF SingleSelectionThread, ThreadsRunning
  <1>2. OwnInterfaces'
    BY DEF OwnInterfaces
  <1>3. RequestsStand'
    BY DEF RequestsStand
  <1>4. SelectedIsHeld'
    BY DEF SelectedIsHeld
  <1>5. LeavingIsDeselected'
    BY <1>0 DEF LeavingIsDeselected
  <1>6. TearDownWasRequested'
    BY DEF TearDownWasRequested, Handling, Stopping
  <1>7. NoneActiveBetween'
    BY DEF NoneActiveBetween, BetweenActivations
  <1>8. ActiveIsCurrent'
    BY <1>0 DEF ActiveIsCurrent
  <1> QED BY <1>1, <1>2, <1>3, <1>4, <1>5, <1>6, <1>7, <1>8

-----------------------------------------------------------------------------
(* The state machines publish other fields.                                  *)
LEMMA ISMIsInert ==
    ASSUME TypeOK, NEW i \in Ifaces, NEW k \in ISMSlots, ISMStep(i, k) \/ LayerStep(i, k)
    PROVE  SameInterfaces /\ RequestsKept /\ SameSelected /\ UNCHANGED <<pol, fo>>
  <1>0. /\ iface \in [Ifaces -> IfaceType]
        /\ config \in ConfigType
        /\ ISMNext(i, k) /\ UNCHANGED <<pol, fo>>
    BY DEF TypeOK, DataTypeOK, ISMStep, LayerStep, ISMNext
  <1>1. group' = group
    BY <1>0 DEF ISMNext, ISMControl, ISMDisturbed, ISMStart, ISMSample, ISMDown, ISMReset,
                PhysicalInterfaceDown, ISMValidated, ISMStandby, ISMUp, ISMDeactivated,
                ISMRefreshAborted, ISMRefreshed, ISMExit, ISMEnd, ISMLinkLost,
                ISMLeaseLost, ISMWanUp, ISMFeatureSwitched, ISMModeChanged
  <1>2. config' = config \/ config' = [config EXCEPT !.ResetFailOverScan = @ \/ iface[i].Reset]
    BY <1>0 DEF ISMNext, ISMControl, ISMDisturbed, ISMStart, ISMSample, ISMDown, ISMReset,
                PhysicalInterfaceDown, ISMValidated, ISMStandby, ISMUp, ISMDeactivated,
                ISMRefreshAborted, ISMRefreshed, ISMExit, ISMEnd, ISMLinkLost,
                ISMLeaseLost, ISMWanUp, ISMFeatureSwitched, ISMModeChanged
  <1>3. \/ iface' = iface
        \/ \E s : iface' = [iface EXCEPT ![i].Status = s]
        \/ iface' = [iface EXCEPT ![i].Reset = FALSE]
        \/ \E s : iface' = [iface EXCEPT ![i].Reset = FALSE, ![i].Status = s]
        \/ iface' = [iface EXCEPT ![i].Status = "INITIALISING", ![i].SMRunning = TRUE]
        \/ iface' = [iface EXCEPT ![i].Status = "INITIALISING", ![i].Connectivity = TRUE]
        \/ iface' = [iface EXCEPT ![i].Status = "DISABLED", ![i].Reset = FALSE,
                                  ![i].SMRunning = FALSE]
    BY <1>0 DEF ISMNext, ISMControl, ISMDisturbed, ISMStart, ISMSample, ISMDown, ISMReset,
                PhysicalInterfaceDown, ISMValidated, ISMStandby, ISMUp, ISMDeactivated,
                ISMRefreshAborted, ISMRefreshed, ISMExit, ISMEnd, ISMLinkLost,
                ISMLeaseLost, ISMWanUp, ISMFeatureSwitched, ISMModeChanged
  <1>4. SameInterfaces
    BY <1>0, <1>3 DEF SameInterfaces, IfaceType
  <1>5. config'.Enable = config.Enable
    BY <1>0, <1>2 DEF ConfigType
  <1> QED BY <1>0, <1>1, <1>4, <1>5 DEF RequestsKept, SameSelected

(* The data model adds requests; without re-enable, group change and         *)
(* withdrawal it takes nothing back.                                         *)
LEMMA EnvironmentIsInert ==
    ASSUME TypeOK, HandOverAssumed, Environment, UNCHANGED <<ism, pol, fo>>
    PROVE  SameInterfaces /\ RequestsKept /\ SameSelected
  <1>0. /\ iface \in [Ifaces -> IfaceType]
        /\ group \in [Groups -> GroupType]
        /\ config \in ConfigType
    BY DEF TypeOK, DataTypeOK
  <1>1. CASE SetWanEnable
    <2>1. config.Enable /\ config' = [config EXCEPT !.Enable = ~ @]
      BY <1>1 DEF SetWanEnable, HandOverAssumed, NotReenabled
    <2>2. UNCHANGED <<group, iface>>
      BY <1>1 DEF SetWanEnable
    <2> QED BY <2>1, <2>2 DEF SameInterfaces, RequestsKept, SameSelected
  <1>2. ASSUME NEW i \in Ifaces,
               \/ SetSelectionEnable(i) \/ SetBaseInterfaceStatus(i)
               \/ SetConnectivityStatus(i) \/ SetInterfaceReset(i)
        PROVE  SameInterfaces /\ RequestsKept /\ SameSelected
    <2>1. UNCHANGED <<config, group>>
      BY <1>2 DEF SetSelectionEnable, SetBaseInterfaceStatus, SetConnectivityStatus,
                  SetInterfaceReset
    <2>2. SameInterfaces
      BY <1>0, <1>2 DEF SetSelectionEnable, SetBaseInterfaceStatus, SetConnectivityStatus,
                        SetInterfaceReset, SameInterfaces, IfaceType
    <2> QED BY <2>1, <2>2 DEF RequestsKept, SameSelected
  <1>3. ASSUME NEW i \in Ifaces, SetSelectionGroup(i)
        PROVE  FALSE
    BY <1>3 DEF SetSelectionGroup, HandOverAssumed, FixedGroups
  <1>4. ASSUME NEW g \in Groups, SetResetSelectedInterface(g) \/ SetPolicy(g)
        PROVE  SameInterfaces /\ RequestsKept /\ SameSelected
    <2>1. UNCHANGED <<config, iface>>
      BY <1>4 DEF SetResetSelectedInterface, SetPolicy
    <2>2. \/ group' = [group EXCEPT ![g].ResetSelectedInterface = TRUE]
          \/ group' = [group EXCEPT ![g].ConfigChanged = TRUE]
      BY <1>4 DEF SetResetSelectedInterface, SetPolicy
    <2> QED BY <1>0, <2>1, <2>2 DEF GroupType, SameInterfaces, RequestsKept, SameSelected
  <1>5. ASSUME NEW g \in Groups, ClearResetSelectedInterface(g)
        PROVE  FALSE
    BY <1>5 DEF ClearResetSelectedInterface, HandOverAssumed, RequestsStay
  <1> QED BY <1>1, <1>2, <1>3, <1>4, <1>5 DEF Environment

-----------------------------------------------------------------------------
(* What a step of the selection thread (g, k) does to the other threads and  *)
(* groups: nothing; it never makes an interface ACTIVE, and it changes the   *)
(* Selection of its own interface only.                                      *)
OthersUntouched(g, k) ==
    /\ config'.Enable = config.Enable
    /\ \A i \in Ifaces : /\ iface'[i].Group = iface[i].Group
                         /\ \/ iface'[i].Selection = iface[i].Selection
                            \/ i = pol[g][k].idx /\ iface'[i].Selection # "ACTIVE"
    /\ \A h \in Groups \ {g} : group'[h] = group[h] /\ pol'[h] = pol[h]
    /\ \A l \in PolSlots \ {k} : pol'[g][l] = pol[g][l]
    /\ fo' = fo

(* What it must do in its own group for the invariant to hold again: the     *)
(* thread is live, after the step in its loop or past it, ...                *)
OwnThread(g, k) ==
    /\ PolLive(g, k)
    /\ pol'[g][k].pc # "start"
    /\ pol'[g][k].pc # "none" => group'[g].State = group[g].State
    /\ pol'[g][k].idx # NoIface => InitGroup[pol'[g][k].idx] = g
    /\ pol'[g][k].pc = "loop" =>
          /\ ~ pol'[g][k].en => ~ config'.Enable
          /\ pol'[g][k].cfg => group'[g].ConfigChanged
          /\ pol'[g][k].rst => group'[g].ResetSelectedInterface

(* ... holds the selected interface, deselected on the way out, and gives up *)
(* one that is not ACTIVE only.                                              *)
OwnSelected(g, k) ==
    LET i == group'[g].SelectedInterface IN
    /\ i # NoIface =>
          /\ InitGroup[i] = g
          /\ pol'[g][k].pc # "none"
          /\ pol'[g][k].pc = "loop" => /\ pol'[g][k].st \in HoldingStates
                                       /\ pol'[g][k].idx = i
          /\ \/ pol'[g][k].pc = "exit"
             \/ pol'[g][k].pc = "loop" /\ pol'[g][k].st \in LeavingStates
             => iface'[i].Selection = "NOT_SELECTED"
          /\ pol'[g][k].pc = "loop" /\ pol'[g][k].st = "TEARDOWN"
             => ~ pol'[g][k].en \/ pol'[g][k].cfg \/ pol'[g][k].rst
    /\ i # Selected(g) => \/ Selected(g) = NoIface
                          \/ iface[Selected(g)].Selection # "ACTIVE"

LEMMA ThreadStepHandsOver ==
    ASSUME TypeOK, HandOverInv, TypeOK', NEW g \in Groups, NEW k \in PolSlots,
           OthersUntouched(g, k), OwnThread(g, k), OwnSelected(g, k)
    PROVE  HandOverInv'
  <1>0. /\ \A h \in Groups : /\ group[h].SelectedInterface \in Ifaces \cup {NoIface}
                            /\ group'[h].SelectedInterface \in Ifaces \cup {NoIface}
        /\ fo.cur \in Groups \cup {NoGroup}
    BY DEF TypeOK, DataTypeOK, GroupType, FOTypeOK, FOType
  <1>1. \A l \in PolSlots \ {k} : pol[g][l].pc = "none" /\ pol'[g][l].pc = "none"
    BY DEF HandOverInv, SingleSelectionThread, OwnThread, OthersUntouched, PolLive
  <1>2. group[g].State = "RUNNING"
    BY DEF HandOverInv, ThreadsRunning, OwnThread
  <1>3. \A i \in Ifaces : iface'[i].Selection = "ACTIVE" => iface[i].Selection = "ACTIVE"
    BY DEF OthersUntouched
  <1>4. ASSUME NEW h \in Groups \ {g}, Selected(h) # NoIface
        PROVE  /\ group'[h].SelectedInterface = Selected(h)
               /\ iface'[Selected(h)].Selection = iface[Selected(h)].Selection
    <2>1. Selected(h) \in Ifaces /\ InitGroup[Selected(h)] = h
      BY <1>0, <1>4 DEF HandOverInv, OwnInterfaces, Selected
    <2>2. pol[g][k].idx # Selected(h)
      BY <1>4, <2>1 DEF HandOverInv, OwnInterfaces
    <2> QED BY <2>1, <2>2 DEF OthersUntouched, Selected
  <1>5. SingleSelectionThread' /\ ThreadsRunning'
    BY <1>1, <1>2 DEF HandOverInv, SingleSelectionThread, ThreadsRunning, OthersUntouched,
                      OwnThread, PolLive
  <1>6. OwnInterfaces'
    <2>1. \A i \in Ifaces : iface'[i].Group = InitGroup[i]
      BY DEF HandOverInv, OwnInterfaces, OthersUntouched
    <2>2. \A h \in Groups : group'[h].SelectedInterface # NoIface
                               => InitGroup[group'[h].SelectedInterface] = h
      BY DEF HandOverInv, OwnInterfaces, OthersUntouched, OwnSelected, Selected
    <2>3. \A h \in Groups, l \in PolSlots :
             pol'[h][l].idx # NoIface => InitGroup[pol'[h][l].idx] = h
      BY DEF HandOverInv, OwnInterfaces, OthersUntouched, OwnThread
    <2> QED BY <2>1, <2>2, <2>3 DEF OwnInterfaces, Selected
  <1>7. RequestsStand'
    BY <1>1 DEF HandOverInv, RequestsStand, OthersUntouched, OwnThread
  <1>8. SelectedIsHeld'
    <2> SUFFICES ASSUME NEW h \in Groups, group'[h].SelectedInterface # NoIface
                 PROVE  /\ \E l \in PolSlots : pol'[h][l].pc # "none"
                        /\ \A l \in PolSlots :
                              /\ pol'[h][l].pc # "start"
                              /\ pol'[h][l].pc = "loop" =>
                                    /\ pol'[h][l].st \in HoldingStates
                                    /\ pol'[h][l].idx = group'[h].SelectedInterface
      BY DEF SelectedIsHeld, Selected, PolLive
    <2>1. CASE h = g
      BY <1>1, <2>1 DEF OwnSelected, OwnThread
    <2>2. CASE h # g
      BY <2>2 DEF HandOverInv, SelectedIsHeld, OthersUntouched, Selected, PolLive
    <2> QED BY <2>1, <2>2
  <1>9. LeavingIsDeselected'
    <2> SUFFICES ASSUME NEW h \in Groups, NEW l \in PolSlots,
                        group'[h].SelectedInterface # NoIface,
                        \/ pol'[h][l].pc = "exit"
                        \/ pol'[h][l].pc = "loop" /\ pol'[h][l].st \in LeavingStates
                 PROVE  iface'[group'[h].SelectedInterface].Selection = "NOT_SELECTED"
      BY DEF LeavingIsDeselected, Selected
    <2>1. CASE h = g
      BY <1>1, <2>1 DEF OwnSelected
    <2>2. CASE h # g
      BY <1>4, <2>2 DEF HandOverInv, LeavingIsDeselected, OthersUntouched, Selected
    <2> QED BY <2>1, <2>2
  <1>10. TearDownWasRequested'
    <2> SUFFICES ASSUME NEW h \in Groups, NEW l \in PolSlots,
                        group'[h].SelectedInterface # NoIface,
                        pol'[h][l].pc = "loop" /\ pol'[h][l].st = "TEARDOWN"
                 PROVE  ~ pol'[h][l].en \/ pol'[h][l].cfg \/ pol'[h][l].rst
      BY DEF TearDownWasRequested, Selected, Handling, Stopping
    <2>1. CASE h = g
      BY <1>1, <2>1 DEF OwnSelected
    <2>2. CASE h # g
      BY <2>2 DEF HandOverInv, TearDownWasRequested, OthersUntouched, Selected, Handling,
                  Stopping
    <2> QED BY <2>1, <2>2
  <1>11. NoneActiveBetween'
    BY <1>3 DEF HandOverInv, NoneActiveBetween, BetweenActivations, OthersUntouched
  <1>12. ActiveIsCurrent'
    <2> SUFFICES ASSUME NEW i \in Ifaces, iface'[i].Selection = "ACTIVE"
                 PROVE  fo'.cur # NoGroup /\ group'[fo'.cur].SelectedInterface = i
      BY DEF ActiveIsCurrent
    <2>1. /\ fo'.cur = fo.cur /\ fo.cur # NoGroup
          /\ fo.cur \in Groups /\ Selected(fo.cur) = i
          /\ iface[i].Selection = "ACTIVE"
      BY <1>0, <1>3 DEF HandOverInv, ActiveIsCurrent, OthersUntouched, Selected
    <2>2. i # NoIface
      BY SizesAssumption DEF Ifaces, NoIface
    <2>3. CASE fo.cur = g
      BY <2>1, <2>2, <2>3 DEF OwnSelected
    <2>4. CASE fo.cur # g
      BY <2>1, <2>4 DEF OthersUntouched, Selected
    <2> QED BY <2>1, <2>3, <2>4
  <1> QED
    BY <1>5, <1>6, <1>7, <1>8, <1>9, <1>10, <1>11, <1>12 DEF HandOverInv

-----------------------------------------------------------------------------
(* The end of an iteration, field by field.                                  *)
EndsIn(g, k, s, i) ==
    /\ pol'[g][k].pc = "loop" /\ pol'[g][k].st = s /\ pol'[g][k].idx = i
    /\ pol'[g][k].en = config.Enable
    /\ pol'[g][k].cfg = group[g].ConfigChanged
    /\ pol'[g][k].rst = group'[g].ResetSelectedInterface
    /\ \A h \in Groups \ {g} : pol'[h] = pol[h]
    /\ \A l \in PolSlots \ {k} : pol'[g][l] = pol[g][l]

LEMMA GotoFields ==
    ASSUME TypeOK, NEW g \in Groups, NEW k \in PolSlots, NEW s, NEW i, NEW x,
           Goto(g, k, s, i, x)
    PROVE  EndsIn(g, k, s, i)
  BY DEF TypeOK, PolTypeOK, Goto, EndsIn

(* An iteration that changes nothing but the thread keeps its interface in a *)
(* state that may hold it, or has none to hold.                              *)
LEMMA IdleIteration ==
    ASSUME TypeOK, HandOverInv, NEW g \in Groups, NEW k \in PolSlots,
           pol[g][k].pc = "loop",
           NEW s, NEW i, NEW x, Goto(g, k, s, i, x), i # NoIface => InitGroup[i] = g,
           UNCHANGED <<config, group, iface, fo>>,
           Selected(g) # NoIface =>
              /\ s \in HoldingStates /\ i = pol[g][k].idx
              /\ s \in LeavingStates =>
                    /\ pol[g][k].st \in LeavingStates
                    /\ s = "TEARDOWN" => pol[g][k].st = "TEARDOWN"
    PROVE  OthersUntouched(g, k) /\ OwnThread(g, k) /\ OwnSelected(g, k)
  <1>0. EndsIn(g, k, s, i)
    BY GotoFields
  <1>1. OthersUntouched(g, k)
    BY <1>0 DEF OthersUntouched, EndsIn
  <1>2. OwnThread(g, k)
    BY <1>0 DEF OwnThread, PolLive, EndsIn
  <1>3. Selected(g) # NoIface => pol[g][k].idx = Selected(g) /\ InitGroup[Selected(g)] = g
    BY DEF HandOverInv, SelectedIsHeld, OwnInterfaces
  <1>4. Selected(g) # NoIface /\ s \in LeavingStates
            => iface[Selected(g)].Selection = "NOT_SELECTED"
    BY DEF HandOverInv, LeavingIsDeselected
  <1>5. Selected(g) # NoIface /\ s = "TEARDOWN" =>
            ~ config.Enable \/ group[g].ConfigChanged \/ group[g].ResetSelectedInterface
    BY DEF HandOverInv, TearDownWasRequested, RequestsStand, Handling, Stopping, LeavingStates
  <1>6. OwnSelected(g, k)
    BY <1>0, <1>3, <1>4, <1>5 DEF OwnSelected, Selected, EndsIn
  <1> QED BY <1>1, <1>2, <1>6

(* The interfaces a group offers to its thread are its own.                  *)
LEMMA OfferedIsOwn ==
    ASSUME HandOverInv, NEW g \in Groups
    PROVE  /\ HighPriorityIface(g) # NoIface => InitGroup[HighPriorityIface(g)] = g
           /\ PrevSelectedInterface(g) # NoIface => InitGroup[PrevSelectedInterface(g)] = g
  BY DEF HandOverInv, OwnInterfaces, HighPriorityIface, Best, Candidates,
         PrevSelectedInterface, First, ActiveLinks, InterfaceAvailable

(* Transition_InterfaceInvalid, when nothing is selected                     *)
LEMMA InvalidHandsOver ==
    ASSUME TypeOK, HandOverInv, NEW g \in Groups, NEW k \in PolSlots, UNCHANGED fo,
           pol[g][k].pc = "loop", InterfaceInvalid(g, k), Selected(g) = NoIface
    PROVE  OthersUntouched(g, k) /\ OwnThread(g, k) /\ OwnSelected(g, k)
  <1>0. /\ iface \in [Ifaces -> IfaceType]
        /\ EndsIn(g, k, "SELECTING", NoIface)
        /\ UNCHANGED <<config, group>>
    BY GotoFields DEF TypeOK, DataTypeOK, InterfaceInvalid
  <1>1. \A i \in Ifaces : /\ iface'[i].Group = iface[i].Group
                         /\ iface'[i].Selection = iface[i].Selection
    BY <1>0 DEF InterfaceInvalid, IfaceType
  <1> QED BY <1>0, <1>1
          DEF EndsIn, OthersUntouched, OwnThread, OwnSelected, PolLive, Selected

(* Transition_InterfaceDeselect and Transition_ResetSelectedInterface: a     *)
(* selected interface is left on request only                                *)
LEMMA DeselectHandsOver ==
    ASSUME TypeOK, HandOverInv, NEW g \in Groups, NEW k \in PolSlots, UNCHANGED fo,
           pol[g][k].pc = "loop", InterfaceDeselect(g, k),
           Selected(g) # NoIface => Stopping(g, k) \/ pol[g][k].rst
    PROVE  OthersUntouched(g, k) /\ OwnThread(g, k) /\ OwnSelected(g, k)
  <1>0. /\ iface \in [Ifaces -> IfaceType]
        /\ EndsIn(g, k, "TEARDOWN", pol[g][k].idx)
        /\ UNCHANGED <<config, group>>
        /\ \A h \in Groups : group[h].SelectedInterface \in Ifaces \cup {NoIface}
    BY GotoFields DEF TypeOK, DataTypeOK, InterfaceDeselect, GroupType
  <1>1. \A i \in Ifaces : /\ iface'[i].Group = iface[i].Group
                         /\ iface'[i].Selection = IF i = pol[g][k].idx
                                                  THEN "NOT_SELECTED" ELSE iface[i].Selection
    BY <1>0 DEF InterfaceDeselect, IfaceType
  <1>2. OthersUntouched(g, k)
    BY <1>0, <1>1 DEF OthersUntouched, EndsIn
  <1>3. OwnThread(g, k)
    BY <1>0 DEF OwnThread, PolLive, HandOverInv, OwnInterfaces, EndsIn
  <1>4. Selected(g) # NoIface =>
            /\ pol[g][k].idx = Selected(g) /\ InitGroup[Selected(g)] = g
            /\ ~ config.Enable \/ group[g].ConfigChanged \/ group[g].ResetSelectedInterface
    BY DEF HandOverInv, SelectedIsHeld, OwnInterfaces, RequestsStand, Stopping
  <1>5. "TEARDOWN" \in HoldingStates
    BY DEF HoldingStates
  <1>6. OwnSelected(g, k)
    BY <1>0, <1>1, <1>4, <1>5 DEF OwnSelected, Selected, EndsIn
  <1> QED BY <1>2, <1>3, <1>6

(* The selected interface of a group, set by its thread.                     *)
LEMMA SelectedFields ==
    ASSUME NEW T \in [Groups -> GroupType], NEW g \in Groups, NEW i,
           group' = SetGroupSelectedIface(T, g, i)
    PROVE  /\ group'[g].SelectedInterface = i
           /\ group'[g].State = T[g].State
           /\ group'[g].ConfigChanged = T[g].ConfigChanged
           /\ group'[g].ResetSelectedInterface = T[g].ResetSelectedInterface
           /\ \A h \in Groups \ {g} : group'[h] = T[h]
  BY DEF SetGroupSelectedIface, GroupType

(* Transition_InterfaceValidated: the thread did not hold an interface       *)
LEMMA ValidatedHandsOver ==
    ASSUME TypeOK, HandOverInv, NEW g \in Groups, NEW k \in PolSlots, UNCHANGED fo,
           pol[g][k].pc = "loop", InterfaceValidated(g, k), Selected(g) = NoIface
    PROVE  OthersUntouched(g, k) /\ OwnThread(g, k) /\ OwnSelected(g, k)
  <1>0. /\ iface \in [Ifaces -> IfaceType]
        /\ group \in [Groups -> GroupType]
        /\ EndsIn(g, k, "RECONFIGURATION", pol[g][k].idx)
        /\ group' = SetGroupSelectedIface(group, g, pol[g][k].idx)
        /\ UNCHANGED config
    BY GotoFields DEF TypeOK, DataTypeOK, InterfaceValidated
  <1>1. \A i \in Ifaces : /\ iface'[i].Group = iface[i].Group
                         /\ iface'[i].Selection = iface[i].Selection
    BY <1>0 DEF InterfaceValidated, IfaceType
  <1>2. pol[g][k].idx # NoIface => InitGroup[pol[g][k].idx] = g
    BY DEF HandOverInv, OwnInterfaces
  <1>3. OthersUntouched(g, k)
    BY <1>0, <1>1, SelectedFields DEF OthersUntouched, EndsIn
  <1>4. OwnThread(g, k)
    BY <1>0, <1>2, SelectedFields DEF OwnThread, PolLive, EndsIn
  <1>5. "RECONFIGURATION" \in HoldingStates /\ "RECONFIGURATION" \notin LeavingStates
    BY DEF HoldingStates, LeavingStates
  <1>6. OwnSelected(g, k)
    BY <1>0, <1>2, <1>5, SelectedFields, ZenonT(30) DEF OwnSelected, EndsIn
  <1> QED BY <1>3, <1>4, <1>6

(* The tables of a group, reset by its thread.                               *)
LEMMA ResetFields ==
    ASSUME NEW T \in [Ifaces -> IfaceType], NEW g \in Groups, NEW i \in Ifaces
    PROVE  /\ ResetIfaceTable(T, g)[i].Group = T[i].Group
           /\ ResetIfaceTable(T, g)[i].Selection = T[i].Selection
           /\ ResetActiveLinkOnAllIface(T, g)[i].Group = T[i].Group
           /\ ResetActiveLinkOnAllIface(T, g)[i].Selection = T[i].Selection
  BY DEF ResetIfaceTable, ResetActiveLinkOnAllIface, IfaceType

(* Transition_RestartSelectionInterface, which ends a tear down              *)
LEMMA RestartHandsOver ==
    ASSUME TypeOK, HandOverInv, NEW g \in Groups, NEW k \in PolSlots, UNCHANGED fo,
           Handling(g, k, "TEARDOWN"), RestartSelectionInterface(g, k)
    PROVE  OthersUntouched(g, k) /\ OwnThread(g, k) /\ OwnSelected(g, k)
  <1> DEFINE T == [group EXCEPT ![g].ResetSelectedInterface = FALSE]
  <1>0. /\ iface \in [Ifaces -> IfaceType]
        /\ group \in [Groups -> GroupType]
        /\ config \in ConfigType
        /\ EndsIn(g, k, "SELECTING", NoIface)
    BY GotoFields DEF TypeOK, DataTypeOK, RestartSelectionInterface
  <1>1. /\ T \in [Groups -> GroupType]
        /\ T[g].State = group[g].State /\ T[g].ConfigChanged = group[g].ConfigChanged
        /\ T[g].ResetSelectedInterface = FALSE
        /\ \A h \in Groups \ {g} : T[h] = group[h]
    BY <1>0 DEF GroupType
  <1>2. group' = SetGroupSelectedIface(T, g, NoIface)
    BY DEF RestartSelectionInterface
  <1>3. \A i \in Ifaces : /\ iface'[i].Group = iface[i].Group
                         /\ iface'[i].Selection = iface[i].Selection
    <2>1. iface' = ResetIfaceTable(ResetActiveLinkOnAllIface(iface, g), g)
      BY DEF RestartSelectionInterface
    <2>2. ResetActiveLinkOnAllIface(iface, g) \in [Ifaces -> IfaceType]
      BY <1>0, ResetTablesType
    <2> QED BY <1>0, <2>1, <2>2, ResetFields
  <1>4. config'.Enable = config.Enable
    BY <1>0 DEF RestartSelectionInterface, ConfigType
  <1>5. Selected(g) # NoIface => iface[Selected(g)].Selection = "NOT_SELECTED"
    BY DEF HandOverInv, LeavingIsDeselected, LeavingStates, Handling
  <1> HIDE DEF T
  <1>6. OthersUntouched(g, k)
    BY <1>0, <1>1, <1>2, <1>3, <1>4, SelectedFields DEF OthersUntouched, EndsIn
  <1>7. OwnThread(g, k)
    BY <1>0, <1>1, <1>2, <1>4, SelectedFields DEF OwnThread, PolLive, Handling, EndsIn
  <1>8. OwnSelected(g, k)
    BY <1>0, <1>1, <1>2, <1>5, SelectedFields DEF OwnSelected, EndsIn
  <1> QED BY <1>6, <1>7, <1>8

(* A step that keeps the selected interface of the group, whatever else it   *)
(* writes, needs a look at the thread only.                                  *)
LEMMA QuietIteration ==
    ASSUME TypeOK, HandOverInv, NEW g \in Groups, NEW k \in PolSlots, UNCHANGED fo,
           pol[g][k].pc \in {"start", "loop"}, Selected(g) = NoIface,
           NEW s, NEW i, EndsIn(g, k, s, i), i # NoIface => InitGroup[i] = g,
           config' = config, group'[g].SelectedInterface = NoIface,
           \A h \in Groups \ {g} : group'[h] = group[h],
           group'[g].State = group[g].State,
           group'[g].ConfigChanged = group[g].ConfigChanged,
           \A j \in Ifaces : /\ iface'[j].Group = iface[j].Group
                           /\ \/ iface'[j].Selection = iface[j].Selection
                              \/ j = pol[g][k].idx /\ iface'[j].Selection # "ACTIVE"
    PROVE  OthersUntouched(g, k) /\ OwnThread(g, k) /\ OwnSelected(g, k)
  <1>1. OthersUntouched(g, k)
    BY DEF OthersUntouched, EndsIn
  <1>2. OwnThread(g, k)
    BY DEF OwnThread, EndsIn, PolLive
  <1>3. OwnSelected(g, k)
    BY DEF OwnSelected
  <1> QED BY <1>1, <1>2, <1>3

(* The states in which nothing is selected.                                  *)
LEMMA NothingSelected ==
    ASSUME HandOverInv, NEW g \in Groups, NEW k \in PolSlots,
           \/ pol[g][k].pc = "start"
           \/ Handling(g, k, "SELECTING") \/ Handling(g, k, "WAITING")
           \/ Handling(g, k, "SCANNING")
    PROVE  Selected(g) = NoIface
  BY DEF HandOverInv, SelectedIsHeld, Handling, HoldingStates

LEMMA StartHandsOver ==
    ASSUME TypeOK, HandOverInv, NEW g \in Groups, NEW k \in PolSlots, UNCHANGED fo,
           AWStart(g, k)
    PROVE  OthersUntouched(g, k) /\ OwnThread(g, k) /\ OwnSelected(g, k)
  <1>0. /\ iface \in [Ifaces -> IfaceType]
        /\ pol[g][k].pc = "start"
        /\ UNCHANGED <<config, group>>
    BY DEF TypeOK, DataTypeOK, AWStart
  <1>1. Selected(g) = NoIface
    BY <1>0, NothingSelected
  <1>2. PICK i : Goto(g, k, "SELECTING", i, FALSE) /\ (i # NoIface => InitGroup[i] = g)
    BY OfferedIsOwn DEF AWStart
  <1>3. \A j \in Ifaces : /\ iface'[j].Group = iface[j].Group
                         /\ iface'[j].Selection = iface[j].Selection
    BY <1>0 DEF AWStart, IfaceType
  <1>4. EndsIn(g, k, "SELECTING", i)
    BY <1>2, GotoFields
  <1> QED BY <1>0, <1>1, <1>2, <1>3, <1>4, QuietIteration DEF Selected

LEMMA SelectingHandsOver ==
    ASSUME TypeOK, HandOverInv, NEW g \in Groups, NEW k \in PolSlots, UNCHANGED fo,
           AWSelecting(g, k)
    PROVE  OthersUntouched(g, k) /\ OwnThread(g, k) /\ OwnSelected(g, k)
  <1>0. /\ iface \in [Ifaces -> IfaceType]
        /\ group \in [Groups -> GroupType]
        /\ Handling(g, k, "SELECTING") /\ pol[g][k].pc = "loop"
        /\ config' = config
    BY DEF TypeOK, DataTypeOK, AWSelecting, Handling
  <1>1. Selected(g) = NoIface
    BY <1>0, NothingSelected
  <1>2. pol[g][k].idx # NoIface => InitGroup[pol[g][k].idx] = g
    BY DEF HandOverInv, OwnInterfaces
  <1>3. CASE UNCHANGED <<group, iface>>
    <2>1. PICK s, i : Goto(g, k, s, i, FALSE) /\ (i # NoIface => InitGroup[i] = g)
      BY <1>2, OfferedIsOwn DEF AWSelecting
    <2> QED BY <1>0, <1>1, <1>3, <2>1, IdleIteration
  <1>4. CASE /\ group' = [group EXCEPT ![g].InitialScanComplete = TRUE]
             /\ iface' = ResetIfaceTable(iface, g)
             /\ Goto(g, k, "SELECTING", NoIface, FALSE)
    <2>1. EndsIn(g, k, "SELECTING", NoIface)
      BY <1>4, GotoFields
    <2>2. /\ group'[g].SelectedInterface = NoIface
          /\ \A h \in Groups \ {g} : group'[h] = group[h]
          /\ group'[g].State = group[g].State
          /\ group'[g].ConfigChanged = group[g].ConfigChanged
      BY <1>0, <1>1, <1>4 DEF GroupType, Selected
    <2>3. \A j \in Ifaces : /\ iface'[j].Group = iface[j].Group
                           /\ iface'[j].Selection = iface[j].Selection
      BY <1>0, <1>4, ResetFields
    <2> QED BY <1>0, <1>1, <2>1, <2>2, <2>3, QuietIteration
  <1> QED BY <1>3, <1>4 DEF AWSelecting

LEMMA WaitHandsOver ==
    ASSUME TypeOK, HandOverInv, NEW g \in Groups, NEW k \in PolSlots, UNCHANGED fo,
           AWWaitForInterface(g, k)
    PROVE  OthersUntouched(g, k) /\ OwnThread(g, k) /\ OwnSelected(g, k)
  <1> DEFINE i == pol[g][k].idx
  <1>0. /\ iface \in [Ifaces -> IfaceType]
        /\ group \in [Groups -> GroupType]
        /\ Handling(g, k, "WAITING") /\ pol[g][k].pc = "loop"
    BY DEF TypeOK, DataTypeOK, AWWaitForInterface, Handling
  <1>1. Selected(g) = NoIface
    BY <1>0, NothingSelected
  <1>2. i # NoIface => InitGroup[i] = g
    BY DEF HandOverInv, OwnInterfaces
  <1>3. CASE InterfaceInvalid(g, k)
    BY <1>0, <1>1, <1>3, InvalidHandsOver
  <1>4. CASE UNCHANGED <<config, group, iface>> /\ Goto(g, k, "SM_EXIT", i, FALSE)
    BY <1>0, <1>1, <1>2, <1>4, IdleIteration
  <1>5. CASE /\ iface' = [iface EXCEPT ![i].Selection = "SELECTED"]
             /\ UNCHANGED <<config, group>>
             /\ Goto(g, k, "SCANNING", i, pol[g][k].expired)
    <2>1. EndsIn(g, k, "SCANNING", i)
      BY <1>5, GotoFields
    <2>2. \A j \in Ifaces : /\ iface'[j].Group = iface[j].Group
                           /\ \/ iface'[j].Selection = iface[j].Selection
                              \/ j = i /\ iface'[j].Selection # "ACTIVE"
      BY <1>0, <1>5 DEF IfaceType
    <2> QED BY <1>0, <1>1, <1>2, <1>5, <2>1, <2>2, QuietIteration DEF Selected
  <1>6. CASE /\ group' = [group EXCEPT ![g].InitialScanComplete =
                               @ \/ OnlyPossibleWanLink(g, i)]
             /\ UNCHANGED <<config, iface>>
             /\ Goto(g, k, "WAITING", i, pol[g][k].expired)
    <2>1. EndsIn(g, k, "WAITING", i)
      BY <1>6, GotoFields
    <2>2. /\ group'[g].SelectedInterface = NoIface
          /\ \A h \in Groups \ {g} : group'[h] = group[h]
          /\ group'[g].State = group[g].State
          /\ group'[g].ConfigChanged = group[g].ConfigChanged
      BY <1>0, <1>1, <1>6 DEF GroupType, Selected
    <2> QED BY <1>0, <1>1, <1>2, <1>6, <2>1, <2>2, QuietIteration
  <1> QED BY <1>3, <1>4, <1>5, <1>6 DEF AWWaitForInterface

LEMMA ScanningHandsOver ==
    ASSUME TypeOK, HandOverInv, NEW g \in Groups, NEW k \in PolSlots, UNCHANGED fo,
           AWScanning(g, k)
    PROVE  OthersUntouched(g, k) /\ OwnThread(g, k) /\ OwnSelected(g, k)
  <1>0. Handling(g, k, "SCANNING") /\ pol[g][k].pc = "loop"
    BY DEF AWScanning, Handling
  <1>1. Selected(g) = NoIface
    BY <1>0, NothingSelected
  <1>2. pol[g][k].idx # NoIface => InitGroup[pol[g][k].idx] = g
    BY DEF HandOverInv, OwnInterfaces
  <1>3. \/ InterfaceDeselect(g, k) \/ InterfaceValidated(g, k)
        \/ UNCHANGED <<config, group, iface>> /\ \E s, x : Goto(g, k, s, pol[g][k].idx, x)
    BY DEF AWScanning
  <1> QED
    BY <1>0, <1>1, <1>2, <1>3, DeselectHandsOver, ValidatedHandsOver, IdleIteration

(* A tear down that was asked for ends with the interface given up or the    *)
(* thread on its way out.                                                    *)
LEMMA TearDownHandsOver ==
    ASSUME TypeOK, HandOverInv, NEW g \in Groups, NEW k \in PolSlots, UNCHANGED fo,
           AWWaitingForIfaceTearDown(g, k)
    PROVE  OthersUntouched(g, k) /\ OwnThread(g, k) /\ OwnSelected(g, k)
  <1> DEFINE i == pol[g][k].idx
  <1>0. Handling(g, k, "TEARDOWN") /\ pol[g][k].pc = "loop" /\ pol[g][k].st = "TEARDOWN"
    BY DEF AWWaitingForIfaceTearDown, Handling
  <1>1. i # NoIface => InitGroup[i] = g
    BY DEF HandOverInv, OwnInterfaces
  <1>2. CASE RestartSelectionInterface(g, k)
    BY <1>0, <1>2, RestartHandsOver
  <1>3. CASE ~ Stopping(g, k) /\ ~ pol[g][k].rst /\ InterfaceInvalid(g, k)
    <2>1. Selected(g) = NoIface
      BY <1>0, <1>3 DEF HandOverInv, TearDownWasRequested
    <2> QED BY <1>0, <1>3, <2>1, InvalidHandsOver
  <1>4. ASSUME NEW s \in {"TEARDOWN", "TEARING_DOWN"}, Goto(g, k, s, i, FALSE),
               UNCHANGED <<config, group, iface>>
        PROVE  OthersUntouched(g, k) /\ OwnThread(g, k) /\ OwnSelected(g, k)
    <2>1. /\ s \in HoldingStates /\ pol[g][k].st \in LeavingStates
      BY <1>0 DEF HoldingStates, LeavingStates
    <2> QED BY <1>0, <1>1, <1>4, <2>1, IdleIteration
  <1> QED BY <1>2, <1>3, <1>4 DEF AWWaitingForIfaceTearDown

LEMMA ReconfigurationHandsOver ==
    ASSUME TypeOK, HandOverInv, NEW g \in Groups, NEW k \in PolSlots, UNCHANGED fo,
           AWReconfiguration(g, k)
    PROVE  OthersUntouched(g, k) /\ OwnThread(g, k) /\ OwnSelected(g, k)
  <1> DEFINE i == pol[g][k].idx
  <1>0. /\ iface \in [Ifaces -> IfaceType]
        /\ \A h \in Groups : group[h].SelectedInterface \in Ifaces \cup {NoIface}
        /\ pol[g][k].pc = "loop"
        /\ UNCHANGED <<config, group>>
    BY DEF TypeOK, DataTypeOK, GroupType, AWReconfiguration, Handling
  <1>1. i # NoIface => InitGroup[i] = g
    BY DEF HandOverInv, OwnInterfaces
  <1>2. CASE /\ iface' = [iface EXCEPT ![i].Selection = "NOT_SELECTED"]
             /\ Goto(g, k, "REBOOT_PLATFORM", i, FALSE)
    <2>1. EndsIn(g, k, "REBOOT_PLATFORM", i)
      BY <1>2, GotoFields
    <2>2. \A j \in Ifaces : /\ iface'[j].Group = iface[j].Group
                           /\ iface'[j].Selection = IF j = i THEN "NOT_SELECTED"
                                                    ELSE iface[j].Selection
      BY <1>0, <1>2 DEF IfaceType
    <2>3. Selected(g) # NoIface => i = Selected(g)
      BY <1>0 DEF HandOverInv, SelectedIsHeld
    <2>4. OthersUntouched(g, k)
      BY <1>0, <2>1, <2>2 DEF OthersUntouched, EndsIn
    <2>5. OwnThread(g, k)
      BY <1>0, <1>1, <2>1 DEF OwnThread, EndsIn, PolLive
    <2>6. "REBOOT_PLATFORM" \in HoldingStates
      BY DEF HoldingStates
    <2>7. OwnSelected(g, k)
      BY <1>0, <1>1, <2>1, <2>2, <2>3, <2>6 DEF OwnSelected, EndsIn, Selected
    <2> QED BY <2>4, <2>5, <2>7
  <1>3. ASSUME NEW s \in {"ACTIVE", "DOWN"}, Goto(g, k, s, i, FALSE), UNCHANGED iface
        PROVE  OthersUntouched(g, k) /\ OwnThread(g, k) /\ OwnSelected(g, k)
    <2>1. s \in HoldingStates /\ s \notin LeavingStates
      BY DEF HoldingStates, LeavingStates
    <2> QED BY <1>0, <1>1, <1>3, <2>1, IdleIteration
  <1> QED BY <1>2, <1>3 DEF AWReconfiguration

LEMMA RebootingHandsOver ==
    ASSUME TypeOK, HandOverInv, NEW g \in Groups, NEW k \in PolSlots, UNCHANGED fo,
           AWRebootingPlatform(g, k)
    PROVE  OthersUntouched(g, k) /\ OwnThread(g, k) /\ OwnSelected(g, k)
  <1>1. /\ pol[g][k].pc = "loop" /\ pol[g][k].st = "REBOOT_PLATFORM"
        /\ UNCHANGED <<config, group, iface>>
    BY DEF AWRebootingPlatform, Handling
  <1>2. pol[g][k].idx # NoIface => InitGroup[pol[g][k].idx] = g
    BY DEF HandOverInv, OwnInterfaces
  <1>3. PICK s \in {"REBOOT_PLATFORM", "SM_EXIT"} : Goto(g, k, s, pol[g][k].idx, FALSE)
    BY DEF AWRebootingPlatform
  <1>4. s \in HoldingStates /\ pol[g][k].st \in LeavingStates /\ s # "TEARDOWN"
    BY <1>1 DEF HoldingStates, LeavingStates
  <1> QED BY <1>1, <1>2, <1>3, <1>4, IdleIteration

(* The thread confirms the interface it holds.                               *)
LEMMA ConfirmHandsOver ==
    ASSUME TypeOK, HandOverInv, NEW g \in Groups, NEW k \in PolSlots, UNCHANGED fo,
           pol[g][k].pc = "loop", NEW s \in {"ACTIVE", "DOWN"},
           Goto(g, k, s, pol[g][k].idx, FALSE), UNCHANGED <<config, iface>>,
           group' = SetGroupSelectedIface(group, g, pol[g][k].idx)
    PROVE  OthersUntouched(g, k) /\ OwnThread(g, k) /\ OwnSelected(g, k)
  <1>0. group \in [Groups -> GroupType] /\ EndsIn(g, k, s, pol[g][k].idx)
    BY GotoFields DEF TypeOK, DataTypeOK
  <1>1. Selected(g) # NoIface => pol[g][k].idx = Selected(g)
    BY DEF HandOverInv, SelectedIsHeld
  <1>2. pol[g][k].idx # NoIface => InitGroup[pol[g][k].idx] = g
    BY DEF HandOverInv, OwnInterfaces
  <1>3. OthersUntouched(g, k)
    BY <1>0, SelectedFields DEF OthersUntouched, EndsIn
  <1>4. OwnThread(g, k)
    BY <1>0, <1>2, SelectedFields DEF OwnThread, EndsIn, PolLive
  <1>5. s \in HoldingStates /\ s \notin LeavingStates /\ s # "TEARDOWN"
    BY DEF HoldingStates, LeavingStates
  <1>6. OwnSelected(g, k)
    BY <1>0, <1>1, <1>2, <1>5, SelectedFields, ZenonT(30) DEF OwnSelected, EndsIn
  <1> QED BY <1>3, <1>4, <1>6

LEMMA ActiveHandsOver ==
    ASSUME TypeOK, HandOverInv, NEW g \in Groups, NEW k \in PolSlots, UNCHANGED fo,
           AWInterfaceActive(g, k) \/ AWInterfaceDown(g, k)
    PROVE  OthersUntouched(g, k) /\ OwnThread(g, k) /\ OwnSelected(g, k)
  <1>1. pol[g][k].pc = "loop"
    BY DEF AWInterfaceActive, AWInterfaceDown, Handling
  <1>2. pol[g][k].idx # NoIface => InitGroup[pol[g][k].idx] = g
    BY DEF HandOverInv, OwnInterfaces
  <1>3. CASE (Stopping(g, k) \/ pol[g][k].rst) /\ InterfaceDeselect(g, k)
    BY <1>1, <1>3, DeselectHandsOver
  <1>4. ASSUME NEW s \in {"ACTIVE", "DOWN"}, Goto(g, k, s, pol[g][k].idx, FALSE),
               UNCHANGED <<config, group, iface>>
        PROVE  OthersUntouched(g, k) /\ OwnThread(g, k) /\ OwnSelected(g, k)
    <2>1. s \in HoldingStates /\ s \notin LeavingStates
      BY DEF HoldingStates, LeavingStates
    <2> QED BY <1>1, <1>2, <1>4, <2>1, IdleIteration
  <1>5. ASSUME NEW s \in {"ACTIVE", "DOWN"}, Goto(g, k, s, pol[g][k].idx, FALSE),
               UNCHANGED <<config, iface>>,
               group' = SetGroupSelectedIface(group, g, pol[g][k].idx)
        PROVE  OthersUntouched(g, k) /\ OwnThread(g, k) /\ OwnSelected(g, k)
    BY <1>1, <1>5, ConfirmHandsOver
  <1> QED BY <1>3, <1>4, <1>5 DEF AWInterfaceActive, AWInterfaceDown

LEMMA TearingDownHandsOver ==
    ASSUME TypeOK, HandOverInv, NEW g \in Groups, NEW k \in PolSlots, UNCHANGED fo,
           AWTearingDown(g, k)
    PROVE  OthersUntouched(g, k) /\ OwnThread(g, k) /\ OwnSelected(g, k)
  <1> DEFINE i == pol[g][k].idx
             D == [iface EXCEPT ![i].Selection = "NOT_SELECTED"]
  <1>0. /\ iface \in [Ifaces -> IfaceType]
        /\ group \in [Groups -> GroupType]
        /\ \A h \in Groups : group[h].SelectedInterface \in Ifaces \cup {NoIface}
        /\ pol[g][k].pc = "loop" /\ pol[g][k].st = "TEARING_DOWN"
        /\ config' = config
    BY DEF TypeOK, DataTypeOK, GroupType, AWTearingDown, Handling
  <1>1. i # NoIface => InitGroup[i] = g
    BY DEF HandOverInv, OwnInterfaces
  <1>2. D \in [Ifaces -> IfaceType]
    BY <1>0, IfaceWriteType DEF SelectionStates
  <1>3. \A j \in Ifaces : /\ D[j].Group = iface[j].Group
                         /\ D[j].Selection = IF j = i THEN "NOT_SELECTED"
                                             ELSE iface[j].Selection
    BY <1>0 DEF IfaceType
  <1>4. \/ iface' = D
        \/ iface' = ResetIfaceTable(D, g)
        \/ iface' = ResetActiveLinkOnAllIface(ResetIfaceTable(D, g), g)
    BY DEF AWTearingDown
  <1> HIDE DEF D
  <1>5. \A j \in Ifaces : /\ iface'[j].Group = iface[j].Group
                         /\ iface'[j].Selection = IF j = i THEN "NOT_SELECTED"
                                                  ELSE iface[j].Selection
    <2>1. ResetIfaceTable(D, g) \in [Ifaces -> IfaceType]
      BY <1>2, ResetTablesType
    <2> QED BY <1>2, <1>3, <1>4, <2>1, ResetFields
  <1>6. Selected(g) # NoIface => /\ i = Selected(g)
                                 /\ iface[Selected(g)].Selection = "NOT_SELECTED"
    BY <1>0 DEF HandOverInv, SelectedIsHeld, LeavingIsDeselected, LeavingStates
  <1>7. CASE UNCHANGED group /\ Goto(g, k, "TEARING_DOWN", i, FALSE)
    <2>1. EndsIn(g, k, "TEARING_DOWN", i)
      BY <1>7, GotoFields
    <2>2. OthersUntouched(g, k)
      BY <1>0, <1>5, <1>7, <2>1 DEF OthersUntouched, EndsIn
    <2>3. OwnThread(g, k)
      BY <1>0, <1>1, <1>7, <2>1 DEF OwnThread, EndsIn, PolLive
    <2>4. "TEARING_DOWN" \in HoldingStates
      BY DEF HoldingStates
    <2>5. OwnSelected(g, k)
      BY <1>0, <1>1, <1>5, <1>6, <1>7, <2>1, <2>4 DEF OwnSelected, EndsIn, Selected
    <2> QED BY <2>2, <2>3, <2>5
  <1>8. CASE group' = SetGroupSelectedIface(group, g, NoIface) /\ Goto(g, k, "SM_EXIT", i, FALSE)
    <2>1. EndsIn(g, k, "SM_EXIT", i)
      BY <1>8, GotoFields
    <2>2. OthersUntouched(g, k)
      BY <1>0, <1>5, <1>8, <2>1, SelectedFields DEF OthersUntouched, EndsIn
    <2>3. OwnThread(g, k)
      BY <1>0, <1>1, <1>8, <2>1, SelectedFields DEF OwnThread, EndsIn, PolLive
    <2>4. OwnSelected(g, k)
      BY <1>0, <1>6, <1>8, SelectedFields DEF OwnSelected
    <2> QED BY <2>2, <2>3, <2>4
  <1> QED BY <1>7, <1>8 DEF AWTearingDown

LEMMA ExitHandsOver ==
    ASSUME TypeOK, HandOverInv, NEW g \in Groups, NEW k \in PolSlots, UNCHANGED fo,
           AWLeaveLoop(g, k) \/ AWThreadExit(g, k)
    PROVE  OthersUntouched(g, k) /\ OwnThread(g, k) /\ OwnSelected(g, k)
  <1>0. /\ group \in [Groups -> GroupType]
        /\ pol \in [Groups -> [PolSlots -> PolType]]
        /\ config \in ConfigType
    BY DEF TypeOK, DataTypeOK, PolTypeOK
  <1>1. iface' = iface /\ config'.Enable = config.Enable /\ PolLive(g, k)
    BY <1>0 DEF AWLeaveLoop, AWThreadExit, ConfigType, PolLive, Handling
  <1>2. PICK c \in {"exit", "none"} :
              /\ pol' = [pol EXCEPT ![g][k] = Outside(c)]
              /\ \A h \in Groups \ {g} : group'[h] = group[h]
              /\ c = "exit" => group' = group
              /\ c = "none" => group'[g].SelectedInterface = NoIface
    <2>1. CASE AWLeaveLoop(g, k)
      BY <2>1 DEF AWLeaveLoop
    <2>2. CASE AWThreadExit(g, k)
      BY <1>0, <2>2 DEF AWThreadExit, GroupType
    <2> QED BY <2>1, <2>2
  <1>3. pol' = [pol EXCEPT ![g][k] = Outside(c)] /\ Outside(c).pc = c /\ Outside(c).idx = NoIface
    BY <1>2 DEF Outside
  <1>4. /\ pol'[g][k].pc = c /\ pol'[g][k].idx = NoIface
        /\ \A h \in Groups \ {g} : pol'[h] = pol[h]
        /\ \A l \in PolSlots \ {k} : pol'[g][l] = pol[g][l]
    BY <1>0, <1>3
  <1>5. Selected(g) # NoIface => /\ InitGroup[Selected(g)] = g
                                 /\ iface[Selected(g)].Selection = "NOT_SELECTED"
    BY DEF HandOverInv, OwnInterfaces, LeavingIsDeselected, LeavingStates, AWLeaveLoop,
           AWThreadExit, Handling
  <1>6. OthersUntouched(g, k)
    BY <1>1, <1>2, <1>4 DEF OthersUntouched
  <1>7. OwnThread(g, k)
    BY <1>1, <1>2, <1>4 DEF OwnThread
  <1>8. OwnSelected(g, k)
    BY <1>1, <1>2, <1>4, <1>5 DEF OwnSelected, Selected
  <1> QED BY <1>6, <1>7, <1>8

(* The copies are taken again, or the selection timer runs out.              *)
LEMMA SampleHandsOver ==
    ASSUME TypeOK, HandOverInv, NEW g \in Groups, NEW k \in PolSlots, UNCHANGED fo,
           AWUpdateControllerData(g, k) \/ AWTimerExpires(g, k)
    PROVE  OthersUntouched(g, k) /\ OwnThread(g, k) /\ OwnSelected(g, k)
  <1>0. /\ pol \in [Groups -> [PolSlots -> PolType]]
        /\ pol[g][k].pc = "loop"
        /\ UNCHANGED <<config, group, iface>>
    BY DEF TypeOK, PolTypeOK, AWUpdateControllerData, AWTimerExpires
  <1>1. /\ pol'[g][k].pc = "loop"
        /\ pol'[g][k].st = pol[g][k].st /\ pol'[g][k].idx = pol[g][k].idx
        /\ \A h \in Groups \ {g} : pol'[h] = pol[h]
        /\ \A l \in PolSlots \ {k} : pol'[g][l] = pol[g][l]
    BY <1>0 DEF AWUpdateControllerData, AWTimerExpires, PolType
  <1>2. \/ /\ pol'[g][k].en = config.Enable
           /\ pol'[g][k].cfg = group[g].ConfigChanged
           /\ pol'[g][k].rst = group[g].ResetSelectedInterface
        \/ /\ pol'[g][k].en = pol[g][k].en
           /\ pol'[g][k].cfg = pol[g][k].cfg
           /\ pol'[g][k].rst = pol[g][k].rst
    BY <1>0 DEF AWUpdateControllerData, AWTimerExpires, PolType
  <1>3. /\ ~ pol[g][k].en => ~ config.Enable
        /\ pol[g][k].cfg => group[g].ConfigChanged
        /\ pol[g][k].rst => group[g].ResetSelectedInterface
    BY <1>0 DEF HandOverInv, RequestsStand
  <1>4. OthersUntouched(g, k)
    BY <1>0, <1>1 DEF OthersUntouched
  <1>5. pol[g][k].idx # NoIface => InitGroup[pol[g][k].idx] = g
    BY DEF HandOverInv, OwnInterfaces
  <1>6. OwnThread(g, k)
    BY <1>0, <1>1, <1>2, <1>3, <1>5 DEF OwnThread, PolLive
  <1>7. Selected(g) # NoIface =>
            /\ InitGroup[Selected(g)] = g
            /\ pol[g][k].st \in HoldingStates /\ pol[g][k].idx = Selected(g)
            /\ pol[g][k].st \in LeavingStates
                  => iface[Selected(g)].Selection = "NOT_SELECTED"
            /\ pol[g][k].st = "TEARDOWN"
                  => ~ pol[g][k].en \/ pol[g][k].cfg \/ pol[g][k].rst
    BY <1>0 DEF HandOverInv, OwnInterfaces, SelectedIsHeld, LeavingIsDeselected,
                TearDownWasRequested, Handling, Stopping
  <1>8. OwnSelected(g, k)
    BY <1>0, <1>1, <1>2, <1>3, <1>7 DEF OwnSelected, Selected
  <1> QED BY <1>4, <1>6, <1>8

LEMMA PolStepEffect ==
    ASSUME TypeOK, HandOverInv, NEW g \in Groups, NEW k \in PolSlots, PolStep(g, k)
    PROVE  OthersUntouched(g, k) /\ OwnThread(g, k) /\ OwnSelected(g, k)
  <1>1. UNCHANGED fo
    BY DEF PolStep
  <1> QED
    BY <1>1, StartHandsOver, SampleHandsOver, SelectingHandsOver, WaitHandsOver,
       ScanningHandsOver, TearDownHandsOver, ReconfigurationHandsOver, RebootingHandsOver,
       ActiveHandsOver, TearingDownHandsOver, ExitHandsOver
    DEF PolStep, AWNext

LEMMA PolStepHandsOver ==
    ASSUME TypeOK, TypeOK', HandOverInv, NEW g \in Groups, NEW k \in PolSlots, PolStep(g, k)
    PROVE  HandOverInv'
  BY PolStepEffect, ThreadStepHandsOver

-----------------------------------------------------------------------------
(* The failover thread, field by field.                                      *)
LEMMA FOGotoFields ==
    ASSUME NEW f \in FOType, NEW s, FOGoto(f, s)
    PROVE  fo'.pc = "sample" /\ fo'.st = s /\ fo'.cur = f.cur /\ fo'.high = f.high
  BY DEF FOGoto, FOType

LEMMA DecideFields ==
    ASSUME NEW f \in FOType, Decide(f)
    PROVE  /\ fo'.cur = f.cur /\ fo'.high = f.high
           /\ fo'.pc \in {"sample", "deactivate", "activate"}
           /\ fo'.pc = "activate" => f.st = "SCANNING_GROUP" /\ f.high # NoGroup
           /\ fo'.pc = "deactivate" => f.st # "SCANNING_GROUP"
           /\ fo'.st = f.st \/ (f.st # "SCANNING_GROUP" /\ fo'.st = "RESTORATION_WAIT")
  <1>1. CASE /\ f.st = "SCANNING_GROUP" /\ f.high # NoGroup
             /\ fo' = [f EXCEPT !.pc = "activate", !.idx = NoGroup]
    BY <1>1 DEF FOType
  <1>2. CASE /\ f.st # "SCANNING_GROUP"
             /\ fo' = [f EXCEPT !.pc = "deactivate", !.idx = NoGroup]
    BY <1>2 DEF FOType
  <1>3. CASE /\ f.st # "SCANNING_GROUP"
             /\ FOGoto([f EXCEPT !.timer = 0], "RESTORATION_WAIT")
    <2> DEFINE e == [f EXCEPT !.timer = 0]
    <2>1. e \in FOType /\ e.cur = f.cur /\ e.high = f.high
      BY FailOverAssumption DEF FOType
    <2>2. FOGoto(e, "RESTORATION_WAIT")
      BY <1>3
    <2> HIDE DEF e
    <2> QED BY <1>3, <2>1, <2>2, FOGotoFields
  <1>4. CASE FOGoto(f, f.st)
    BY <1>4, FOGotoFields
  <1> QED BY <1>1, <1>2, <1>3, <1>4 DEF Decide

(* One pass of MarkHighPriorityGroup                                         *)
LEMMA MarkGroupFields ==
    ASSUME TypeOK, NEW g \in Groups \cup {NoGroup}, NEW h \in Groups \cup {NoGroup},
           MarkGroup(g, h)
    PROVE  /\ fo'.cur = fo.cur
           /\ fo'.high = IF group[g].ConfigChanged THEN fo.cur ELSE Marked(h, g)
           /\ fo'.pc \in {"sample", "deactivate", "activate", "mark"}
           /\ fo'.pc = "activate" => fo.st = "SCANNING_GROUP" /\ fo'.high # NoGroup
           /\ fo'.pc = "deactivate" => fo.st # "SCANNING_GROUP"
           /\ fo'.pc = "mark" => /\ ~ group[g].ConfigChanged /\ ~ WaitForHigherGroup(g)
                                 /\ g # NGroups /\ fo'.idx = g + 1
           /\ fo'.st = fo.st \/ (fo.st # "SCANNING_GROUP" /\ fo'.st = "RESTORATION_WAIT")
  <1> DEFINE m == IF group[g].ConfigChanged THEN fo.cur ELSE Marked(h, g)
             f == [fo EXCEPT !.high = m]
             last == group[g].ConfigChanged \/ WaitForHigherGroup(g) \/ g = NGroups
  <1>1. fo \in FOType /\ m \in Groups \cup {NoGroup}
    BY MarkedType DEF TypeOK, FOTypeOK, FOType
  <1>2. \/ Decide(f)
        \/ ~ last /\ fo' = [f EXCEPT !.pc = "mark", !.idx = g + 1]
    BY DEF MarkGroup
  <1>3. ~ last => ~ group[g].ConfigChanged /\ ~ WaitForHigherGroup(g) /\ g # NGroups
    OBVIOUS
  <1> HIDE DEF m, last
  <1>4. f \in FOType /\ f.cur = fo.cur /\ f.high = m /\ f.st = fo.st
    BY <1>1 DEF FOType
  <1> HIDE DEF f
  <1>5. CASE Decide(f)
    BY <1>4, <1>5, DecideFields DEF m
  <1>6. CASE ~ last /\ fo' = [f EXCEPT !.pc = "mark", !.idx = g + 1]
    <2>1. /\ fo'.cur = f.cur /\ fo'.high = f.high /\ fo'.st = f.st
          /\ fo'.pc = "mark" /\ fo'.idx = g + 1
      BY <1>4, <1>6 DEF FOType
    <2> QED BY <1>3, <1>4, <1>6, <2>1 DEF m
  <1> QED BY <1>2, <1>5, <1>6

(* Under HOTSWAP the failover thread reads the groups: it counts activations *)
(* and nothing else.                                                         *)
LEMMA FOReadsGroups ==
    ASSUME TypeOK, FailOverType = "HOTSWAP", FOStep, ~ FOIfaceGroupMonitor
    PROVE  /\ pol' = pol /\ config'.Enable = config.Enable
           /\ \A g \in Groups :
                 /\ group'[g].State = group[g].State
                 /\ group'[g].SelectedInterface = group[g].SelectedInterface
                 /\ group'[g].ConfigChanged = group[g].ConfigChanged
                 /\ group'[g].ResetSelectedInterface = group[g].ResetSelectedInterface
  <1>0. group \in [Groups -> GroupType] /\ config \in ConfigType
    BY DEF TypeOK, DataTypeOK
  <1>1. CASE FOActivateGroup
    <2>1. config' = config /\ pol' = pol
      BY <1>1 DEF FOActivateGroup
    <2>2. CASE UNCHANGED group
      BY <2>1, <2>2
    <2>3. CASE ~ UNCHANGED group
      <3>1. PICK b : group' = [g \in Groups |-> IF g = fo.high
                                               THEN [group[g] EXCEPT !.Activated = @ \/ b]
                                               ELSE group[g]]
        BY <1>1, <2>3 DEF FOActivateGroup
      <3> QED BY <1>0, <2>1, <3>1 DEF GroupType
    <2> QED BY <2>2, <2>3
  <1>2. CASE ~ FOActivateGroup
    <2>1. group' = group \/ group' = [g \in Groups |-> group[g]]
      BY <1>2 DEF FOStep, FONext, FOThreadStart, FOUpdateControllerData, FOScanningGroup,
                  FOMarkHighPriorityGroup, FOGroupActive, FODeactivate, FORestorationWait,
                  FODeactivateGroup, FOExit, FOJoin, FOTick, MarkGroup
    <2>2. pol' = pol
      BY FOStepKeepsThreads
    <2>3. config' = config \/ config' = [config EXCEPT !.ResetFailOverScan = FALSE]
      BY <1>2 DEF FOStep, FONext, FOThreadStart, FOUpdateControllerData, FOScanningGroup,
                  FOMarkHighPriorityGroup, FOGroupActive, FODeactivate, FORestorationWait,
                  FODeactivateGroup, FOExit, FOJoin, FOTick, MarkGroup
    <2> QED BY <1>0, <2>1, <2>2, <2>3 DEF ConfigType
  <1> QED BY <1>1, <1>2

(* WanMgr_DeactivateGroup finds the ACTIVE interface: after it there is none. *)
LEMMA DeactivateFields ==
    ASSUME TypeOK, ActiveIsCurrent, iface' = DeactivateGroup
    PROVE  \A i \in Ifaces :
              /\ iface'[i].Group = iface[i].Group
              /\ iface'[i].Status = iface[i].Status
              /\ iface'[i].Selection # "ACTIVE"
              /\ iface[i].Selection = "NOT_SELECTED" => iface'[i].Selection = "NOT_SELECTED"
  <1>0. iface \in [Ifaces -> IfaceType]
    BY DEF TypeOK, DataTypeOK
  <1>1. \A i \in Ifaces : iface[i].Selection = "ACTIVE" => CurrentInterface = i /\ i # NoIface
    BY SizesAssumption DEF ActiveIsCurrent, CurrentInterface, Ifaces, NoIface
  <1>2. CASE CurrentInterface # NoIface /\ iface[CurrentInterface].Selection = "ACTIVE"
    <2>1. iface' = [iface EXCEPT ![CurrentInterface].Selection = "SELECTED"]
      BY <1>2 DEF DeactivateGroup
    <2> QED BY <1>0, <1>1, <1>2, <2>1 DEF IfaceType
  <1>3. CASE ~ (CurrentInterface # NoIface /\ iface[CurrentInterface].Selection = "ACTIVE")
    BY <1>1, <1>3 DEF DeactivateGroup
  <1> QED BY <1>2, <1>3

(* The steps of the failover thread on the interfaces: it leaves them alone  *)
(* and does not enter the time between two activations, takes the ACTIVE one *)
(* out of service, or is between two activations and makes one ACTIVE.       *)
LEMMA FOActiveStep ==
    ASSUME TypeOK, FOStep
    PROVE  \/ /\ iface' = iface
              /\ fo'.cur = fo.cur /\ (BetweenActivations' => BetweenActivations)
           \/ iface' = iface /\ BetweenActivations
           \/ iface' = DeactivateGroup
           \/ /\ BetweenActivations /\ ~ BetweenActivations'
              /\ fo'.cur = fo.high /\ fo.high \in Groups
              /\ iface' = [iface EXCEPT ![group[fo.high].SelectedInterface].Selection = "ACTIVE"]
              /\ iface[group[fo.high].SelectedInterface].Selection = "SELECTED"
              /\ pol' = pol /\ fo.pc = "activate"
  <1>0. /\ fo \in FOType /\ fo.high \in Groups \cup {NoGroup}
        /\ fo.idx \in Groups \cup {NoGroup}
        /\ 1 \in Groups
    BY SizesAssumption DEF TypeOK, FOTypeOK, FOType, Groups
  <1>1. ASSUME NEW g \in Groups \cup {NoGroup}, NEW h \in Groups \cup {NoGroup},
               MarkGroup(g, h)
        PROVE  fo'.cur = fo.cur /\ (BetweenActivations' => BetweenActivations)
    BY <1>1, MarkGroupFields DEF BetweenActivations
  <1>2. CASE FOThreadStart \/ FOExit \/ FOJoin
    BY <1>2 DEF FOThreadStart, FOExit, FOJoin, BetweenActivations, FOHandling
  <1>3. CASE FOUpdateControllerData \/ FOIfaceGroupMonitor \/ FOTick
    BY <1>0, <1>3 DEF FOUpdateControllerData, FOIfaceGroupMonitor, FOTick,
                      BetweenActivations, FOType
  <1>4. CASE FOScanningGroup \/ FODeactivateGroup
    BY <1>4 DEF FOScanningGroup, FODeactivateGroup, BetweenActivations, FOHandling
  <1>5. CASE FOMarkHighPriorityGroup
    BY <1>0, <1>1, <1>5 DEF FOMarkHighPriorityGroup
  <1>6. CASE FOGroupActive
    BY <1>0, <1>1, <1>6 DEF FOGroupActive, TransitionDeactivateGroup
  <1>7. CASE FODeactivate
    BY <1>7 DEF FODeactivate, TransitionDeactivateGroup
  <1>8. CASE FORestorationWait
    <2>1. CASE iface' = DeactivateGroup
      BY <2>1
    <2>2. CASE /\ iface' = iface
               /\ FOGoto(fo, "GROUP_ACTIVE") \/ FOGoto(fo, "RESTORATION_WAIT")
      BY <1>0, <2>2, FOGotoFields DEF BetweenActivations
    <2> QED BY <1>8, <2>1, <2>2 DEF FORestorationWait, TransitionDeactivateGroup
  <1>9. CASE FOActivateGroup
    <2>1. fo.pc = "activate" /\ BetweenActivations
      BY <1>9 DEF FOActivateGroup, BetweenActivations
    <2>2. CASE iface' = iface
      BY <2>1, <2>2
    <2>3. CASE iface' # iface
      <3> DEFINE e == [fo EXCEPT !.cur = fo.high]
      <3>1. /\ fo.high \in Groups /\ pol' = pol
            /\ FOGoto(e, "GROUP_ACTIVE")
            /\ iface[group[fo.high].SelectedInterface].Selection = "SELECTED"
            /\ iface' = [iface EXCEPT ![group[fo.high].SelectedInterface].Selection = "ACTIVE"]
        BY <1>0, <1>9, <2>3 DEF FOActivateGroup
      <3>2. e \in FOType /\ e.cur = fo.high
        BY <1>0 DEF FOType
      <3> HIDE DEF e
      <3>3. fo'.pc = "sample" /\ fo'.st = "GROUP_ACTIVE" /\ fo'.cur = fo.high
        BY <3>1, <3>2, FOGotoFields
      <3> QED BY <2>1, <3>1, <3>3 DEF BetweenActivations
    <2> QED BY <2>2, <2>3
  <1> QED
    BY <1>2, <1>3, <1>4, <1>5, <1>6, <1>7, <1>8, <1>9 DEF FOStep, FONext

LEMMA FOStepHandsOver ==
    ASSUME TypeOK, TypeOK', HandOverInv, HandOverAssumed, FOStep
    PROVE  HandOverInv'
  <1>0. /\ iface \in [Ifaces -> IfaceType]
        /\ \A g \in Groups : group[g].SelectedInterface \in Ifaces \cup {NoIface}
        /\ fo.cur \in Groups \cup {NoGroup}
    BY DEF TypeOK, DataTypeOK, GroupType, FOTypeOK, FOType
  <1>1. SingleSelectionThread' /\ ThreadsRunning'
    <2>1. [Next]_vars
      BY DEF Next, ThreadStep
    <2> QED BY <2>1, OneThreadInductive DEF OneThread, HandOverInv, HandOverAssumed
  (* The interfaces                                                          *)
  <1>2. /\ NoneActiveBetween' 
        /\ (\A g \in Groups : group'[g].SelectedInterface = Selected(g)) => ActiveIsCurrent'
        /\ \A i \in Ifaces :
              /\ iface'[i].Group = iface[i].Group
              /\ iface[i].Selection = "NOT_SELECTED" => iface'[i].Selection = "NOT_SELECTED"
    <2>1. CASE /\ iface' = iface
               /\ fo'.cur = fo.cur /\ (BetweenActivations' => BetweenActivations)
      BY <1>0, <2>1 DEF HandOverInv, NoneActiveBetween, ActiveIsCurrent, Selected
    <2>2. CASE iface' = iface /\ BetweenActivations
      BY <2>2 DEF HandOverInv, NoneActiveBetween, ActiveIsCurrent
    <2>3. CASE iface' = DeactivateGroup
      BY <2>3, DeactivateFields DEF HandOverInv, NoneActiveBetween, ActiveIsCurrent
    <2>4. CASE /\ BetweenActivations /\ ~ BetweenActivations'
               /\ fo'.cur = fo.high /\ fo.high \in Groups
               /\ iface[group[fo.high].SelectedInterface].Selection = "SELECTED"
               /\ iface' = [iface EXCEPT ![group[fo.high].SelectedInterface].Selection = "ACTIVE"]
      <3>1. \A i \in Ifaces : iface[i].Selection # "ACTIVE"
        BY <2>4 DEF HandOverInv, NoneActiveBetween
      <3>2. \A i \in Ifaces :
               /\ iface'[i].Group = iface[i].Group
               /\ iface'[i].Selection = IF i = Selected(fo.high) THEN "ACTIVE"
                                        ELSE iface[i].Selection
        BY <1>0, <2>4 DEF IfaceType, Selected
      <3>3. NoneActiveBetween'
        BY <2>4 DEF NoneActiveBetween
      <3>4. ASSUME \A g \in Groups : group'[g].SelectedInterface = Selected(g)
            PROVE  ActiveIsCurrent'
        <4>1. fo'.cur # NoGroup /\ group'[fo'.cur].SelectedInterface = Selected(fo.high)
          BY <2>4, <3>4 DEF NoGroup, Groups
        <4>2. ASSUME NEW i \in Ifaces, iface'[i].Selection = "ACTIVE"
              PROVE  i = Selected(fo.high)
          BY <3>1, <3>2, <4>2
        <4> QED BY <4>1, <4>2 DEF ActiveIsCurrent
      <3>5. \A i \in Ifaces : iface[i].Selection = "NOT_SELECTED"
                                => iface'[i].Selection = "NOT_SELECTED"
        BY <2>4, <3>2 DEF Selected
      <3> QED BY <3>2, <3>3, <3>4, <3>5
    <2> QED BY <2>1, <2>2, <2>3, <2>4, FOActiveStep
  <1>3. CASE FOIfaceGroupMonitor
    <2>1. iface' = iface /\ config' = config
      BY <1>3 DEF FOIfaceGroupMonitor
    <2>2. ASSUME NEW g \in Groups
          PROVE  /\ group'[g].SelectedInterface = group[g].SelectedInterface
                 /\ group'[g].ResetSelectedInterface = group[g].ResetSelectedInterface
                 /\ group'[g].ConfigChanged = group[g].ConfigChanged
                       \/ group[g].State = "STOPPED"
      BY <1>3, ZenonT(30) DEF FOIfaceGroupMonitor, NeedsThread, TypeOK, DataTypeOK, GroupType
    <2>3. ASSUME NEW g \in Groups, group[g].State = "STOPPED"
          PROVE  /\ \A k \in PolSlots : pol[g][k].pc = "none"
                 /\ Selected(g) = NoIface
      BY <2>3 DEF HandOverInv, ThreadsRunning, SelectedIsHeld, PolLive
    <2>4. ASSUME NEW g \in Groups
          PROVE  \/ pol'[g] = pol[g]
                 \/ /\ group[g].State = "STOPPED"
                    /\ \A k \in PolSlots :
                          \/ pol'[g][k] = pol[g][k]
                          \/ pol'[g][k].pc = "start" /\ pol'[g][k].idx = NoIface
      <3>1. ASSUME NEW n \in PolSlots, pol'[g] = [pol[g] EXCEPT ![n] = Outside("start")]
            PROVE  \A k \in PolSlots :
                          \/ pol'[g][k] = pol[g][k]
                          \/ pol'[g][k].pc = "start" /\ pol'[g][k].idx = NoIface
        BY <3>1 DEF Outside, TypeOK, PolTypeOK
      <3> QED BY <1>3, <3>1, MonitorStarts
    <2>5. OwnInterfaces'
      <3>1. \A g \in Groups, k \in PolSlots :
               pol'[g][k].idx # NoIface => InitGroup[pol'[g][k].idx] = g
        BY <2>4 DEF HandOverInv, OwnInterfaces
      <3> QED BY <2>1, <2>2, <3>1 DEF HandOverInv, OwnInterfaces, Selected
    <2>6. RequestsStand'
      <3> SUFFICES ASSUME NEW g \in Groups, NEW k \in PolSlots, pol'[g][k].pc = "loop"
                   PROVE  /\ ~ pol'[g][k].en => ~ config'.Enable
                          /\ pol'[g][k].cfg => group'[g].ConfigChanged
                          /\ pol'[g][k].rst => group'[g].ResetSelectedInterface
        BY DEF RequestsStand
      <3>1. pol'[g][k] = pol[g][k]
        BY <2>4
      <3>2. group[g].State # "STOPPED"
        BY <2>3, <3>1
      <3> QED BY <2>1, <2>2, <3>1, <3>2 DEF HandOverInv, RequestsStand
    <2>7. \A g \in Groups : Selected(g) # NoIface => pol'[g] = pol[g]
      BY <2>3, <2>4
    <2>8. SelectedIsHeld'
      BY <2>2, <2>7 DEF HandOverInv, SelectedIsHeld, Selected, PolLive
    <2>9. LeavingIsDeselected'
      BY <2>1, <2>2, <2>7 DEF HandOverInv, LeavingIsDeselected, Selected
    <2>10. TearDownWasRequested'
      BY <2>2, <2>7 DEF HandOverInv, TearDownWasRequested, Selected, Handling, Stopping
    <2>11. \A g \in Groups : group'[g].SelectedInterface = Selected(g)
      BY <2>2 DEF Selected
    <2> QED
      BY <1>1, <1>2, <2>5, <2>6, <2>8, <2>9, <2>10, <2>11 DEF HandOverInv
  <1>4. CASE ~ FOIfaceGroupMonitor
    <2>1. /\ pol' = pol /\ config'.Enable = config.Enable
          /\ \A g \in Groups :
                /\ group'[g].SelectedInterface = group[g].SelectedInterface
                /\ group'[g].ConfigChanged = group[g].ConfigChanged
                /\ group'[g].ResetSelectedInterface = group[g].ResetSelectedInterface
      BY <1>4, FOReadsGroups DEF HandOverAssumed
    <2>2. OwnInterfaces'
      BY <1>2, <2>1 DEF HandOverInv, OwnInterfaces, Selected
    <2>3. RequestsStand'
      BY <2>1 DEF HandOverInv, RequestsStand
    <2>4. SelectedIsHeld'
      BY <2>1 DEF HandOverInv, SelectedIsHeld, Selected, PolLive
    <2>5. LeavingIsDeselected'
      BY <1>0, <1>2, <2>1 DEF HandOverInv, LeavingIsDeselected, Selected
    <2>6. TearDownWasRequested'
      BY <2>1 DEF HandOverInv, TearDownWasRequested, Selected, Handling, Stopping
    <2>7. \A g \in Groups : group'[g].SelectedInterface = Selected(g)
      BY <2>1 DEF Selected
    <2> QED BY <1>1, <1>2, <2>2, <2>3, <2>4, <2>5, <2>6, <2>7 DEF HandOverInv
  <1> QED BY <1>3, <1>4

-----------------------------------------------------------------------------
LEMMA HandOverInductive ==
    ASSUME HandOverAssumed
    PROVE  TypeOK /\ TypeOK' /\ HandOverInv /\ [Next]_vars => HandOverInv'
  <1> SUFFICES ASSUME TypeOK, TypeOK', HandOverInv, [Next]_vars
               PROVE  HandOverInv'
    OBVIOUS
  <1>1. CASE \E i \in Ifaces, k \in ISMSlots : ISMStep(i, k) \/ LayerStep(i, k)
    BY <1>1, ISMIsInert, InertStep
  <1>2. CASE Environment /\ UNCHANGED <<ism, pol, fo>>
    BY <1>2, EnvironmentIsInert, InertStep
  <1>3. CASE UNCHANGED vars
    <2>1. SameInterfaces /\ RequestsKept /\ SameSelected /\ UNCHANGED <<pol, fo>>
      BY <1>3 DEF vars, SameInterfaces, RequestsKept, SameSelected
    <2> QED BY <2>1, InertStep
  <1>4. CASE FOStep
    BY <1>4, FOStepHandsOver
  <1>5. CASE \E g \in Groups, k \in PolSlots : PolStep(g, k)
    BY <1>5, PolStepHandsOver
  <1> QED BY <1>1, <1>2, <1>3, <1>4, <1>5 DEF Next, ThreadStep, EnvStep

LEMMA HandOverInitially == Init => HandOverInv
  <1> SUFFICES ASSUME Init PROVE HandOverInv
    OBVIOUS
  <1>1. /\ \A g \in Groups : group[g].SelectedInterface = NoIface
        /\ \A i \in Ifaces : /\ iface[i].Group = InitGroup[i]
                            /\ iface[i].Selection = "NOT_SELECTED"
        /\ \A g \in Groups, k \in PolSlots :
              pol[g][k].pc = "none" /\ pol[g][k].idx = NoIface
    BY DEF Init, DataInit, InitGroups, InitIfaces, PolInit, Outside
  <1> QED
    BY <1>1 DEF HandOverInv, SingleSelectionThread, ThreadsRunning, OwnInterfaces,
                RequestsStand, SelectedIsHeld, LeavingIsDeselected, TearDownWasRequested,
                NoneActiveBetween, ActiveIsCurrent, Selected, PolLive, Handling

-----------------------------------------------------------------------------
(* Every lock section of every thread preserves the conditions under which   *)
(* the selection threads and the failover thread hand an interface over:     *)
(* who may hold SelectedInterface, in which state, and with which            *)
(* Selection.Status.                                                         *)
THEOREM HandOver ==
    ASSUME HandOverAssumed
    PROVE  Spec => []HandOverInv
  <1>1. Init => HandOverInv
    BY HandOverInitially
  <1>2. TypeOK /\ TypeOK' /\ HandOverInv /\ [Next]_vars => HandOverInv'
    BY HandOverInductive
  <1> QED BY <1>1, <1>2, TypeCorrect, PTL DEF Spec

(* WanMgr_DeactivateGroup(CurrentActiveGroup) finds the interface it has to  *)
(* take out of service: an ACTIVE interface is the selected interface of     *)
(* CurrentActiveGroup, whatever the selection threads do meanwhile, until    *)
(* the WAN Manager is disabled and beyond.                                   *)
THEOREM ActiveInterfaceIsFound ==
    ASSUME HandOverAssumed
    PROVE  Spec => []ActiveIsCurrent
  <1>1. HandOverInv => ActiveIsCurrent
    BY DEF HandOverInv
  <1> QED BY <1>1, HandOver, PTL

-----------------------------------------------------------------------------
(* The failover thread ends in FOJoin only.                                  *)
NoThreadsWhenOff == fo.pc = "off" => \A g \in Groups, k \in PolSlots : ~ PolLive(g, k)

LEMMA OnlyJoinEnds ==
    ASSUME TypeOK, FOStep, fo'.pc = "off"
    PROVE  FOJoin
  <1>0. /\ fo \in FOType /\ 1 \in Groups /\ NoGroup \in Groups \cup {NoGroup}
        /\ fo.high \in Groups \cup {NoGroup} /\ fo.idx \in Groups \cup {NoGroup}
    BY SizesAssumption DEF TypeOK, FOTypeOK, FOType, Groups
  <1>1. ASSUME NEW f \in FOType, NEW s, FOGoto(f, s)
        PROVE  FALSE
    <2>1. fo'.pc = "sample"
      BY <1>1, FOGotoFields
    <2> QED BY <2>1
  <1>2. ASSUME NEW g \in Groups \cup {NoGroup}, NEW h \in Groups \cup {NoGroup},
               MarkGroup(g, h)
        PROVE  FALSE
    <2>1. fo'.pc \in {"sample", "deactivate", "activate", "mark"}
      BY <1>2, MarkGroupFields
    <2> QED BY <2>1
  <1>3. CASE \/ FOThreadStart \/ FOUpdateControllerData \/ FOIfaceGroupMonitor
             \/ FOExit \/ FOTick
    <2>1. CASE fo' = FOOutside("first") \/ fo' = FOOutside("join")
      BY <2>1 DEF FOOutside
    <2>2. CASE FOUpdateControllerData
      BY <1>0, <2>2 DEF FOUpdateControllerData, FOType
    <2>3. CASE FOIfaceGroupMonitor
      BY <1>0, <2>3 DEF FOIfaceGroupMonitor, FOType
    <2>4. CASE FOTick
      BY <1>0, <2>4 DEF FOTick, FOType
    <2> QED BY <1>3, <2>1, <2>2, <2>3, <2>4 DEF FOThreadStart, FOExit
  <1>4. CASE FOScanningGroup \/ FOMarkHighPriorityGroup
    BY <1>0, <1>1, <1>2, <1>4 DEF FOScanningGroup, FOMarkHighPriorityGroup
  <1>5. CASE FOGroupActive
    <2> DEFINE e == [fo EXCEPT !.cur = NoGroup, !.high = NoGroup, !.timer = 0]
    <2>1. 0 \in 0 .. MaxTimer
      BY FailOverAssumption
    <2>3. e \in FOType
      BY <1>0, <2>1 DEF FOType
    <2>2. \/ FOGoto(fo, "DEACTIVATE_GROUP") \/ FOGoto(e, "SCANNING_GROUP")
          \/ MarkGroup(1, NoGroup)
      BY <1>5 DEF FOGroupActive, TransitionDeactivateGroup
    <2> HIDE DEF e
    <2> QED BY <1>0, <1>1, <1>2, <2>2, <2>3
  <1>6. CASE FODeactivate \/ FORestorationWait
    BY <1>0, <1>1, <1>6 DEF FODeactivate, FORestorationWait, TransitionDeactivateGroup
  <1>7. CASE FODeactivateGroup
    <2>1. fo' # [fo EXCEPT !.pc = "activate"]
      BY <1>0 DEF FOType
    <2> QED BY <1>0, <1>1, <1>7, <2>1 DEF FODeactivateGroup
  <1>8. CASE FOActivateGroup
    <2> DEFINE e == [fo EXCEPT !.cur = fo.high]
    <2>1. e \in FOType
      BY <1>0 DEF FOType
    <2>2. FOGoto(e, "GROUP_ACTIVE") \/ FOGoto(fo, "GROUP_ACTIVE")
      BY <1>8 DEF FOActivateGroup
    <2> HIDE DEF e
    <2> QED BY <1>0, <1>1, <2>1, <2>2
  <1> QED
    BY <1>3, <1>4, <1>5, <1>6, <1>7, <1>8 DEF FOStep, FONext

LEMMA OffInductive ==
    TypeOK /\ ThreadsRunning /\ NoThreadsWhenOff /\ [Next]_vars => NoThreadsWhenOff'
  <1> SUFFICES ASSUME TypeOK, ThreadsRunning, NoThreadsWhenOff, [Next]_vars,
                      fo'.pc = "off", NEW g \in Groups, NEW k \in PolSlots
               PROVE  pol'[g][k].pc = "none"
    BY DEF NoThreadsWhenOff, PolLive
  <1>1. CASE \/ \E i \in Ifaces, n \in ISMSlots : ISMStep(i, n) \/ LayerStep(i, n)
             \/ Environment /\ UNCHANGED <<ism, pol, fo>>
             \/ UNCHANGED vars
    <2>1. pol' = pol
      BY <1>1, OtherStepsKeepThreads
    <2>2. fo' = fo
      BY <1>1 DEF ISMStep, LayerStep, vars
    <2> QED BY <2>1, <2>2 DEF NoThreadsWhenOff, PolLive
  <1>2. CASE FOStep
    BY <1>2, OnlyJoinEnds DEF FOJoin, ThreadsRunning, PolLive
  <1>3. ASSUME NEW h \in Groups, NEW l \in PolSlots, PolStep(h, l)
        PROVE  FALSE
    <2>1. pol[h][l].pc # "none"
      <3>1. CASE AWThreadExit(h, l)
        BY <3>1 DEF AWThreadExit
      <3>2. CASE ~ AWThreadExit(h, l)
        BY <1>3, <3>2, PolStepKeepsThread DEF PolStep
      <3> QED BY <3>1, <3>2
    <2> QED BY <1>3, <2>1 DEF PolStep, NoThreadsWhenOff, PolLive
  <1> QED BY <1>1, <1>2, <1>3 DEF Next, ThreadStep, EnvStep

(* The controller sees the failover thread end only when everything is       *)
(* quiet: WanMgr_FailOverThread takes the ACTIVE interface out of service    *)
(* before it leaves its loop, and joins every selection thread, which no one *)
(* starts any more.                                                          *)
THEOREM DisabledIsQuiet ==
    ASSUME HandOverAssumed
    PROVE  Spec => []QuietWhenOff
  <1>1. Init => NoThreadsWhenOff
    BY DEF Init, PolInit, NoThreadsWhenOff, PolLive, Outside
  <1>2. TypeOK /\ HandOverInv /\ NoThreadsWhenOff /\ [Next]_vars => NoThreadsWhenOff'
    BY OffInductive DEF HandOverInv
  <1>3. NoThreadsWhenOff /\ HandOverInv => QuietWhenOff
    BY DEF NoThreadsWhenOff, HandOverInv, NoneActiveBetween, BetweenActivations, QuietWhenOff
  <1> QED BY <1>1, <1>2, <1>3, TypeCorrect, HandOver, PTL DEF Spec

-----------------------------------------------------------------------------
(* The failover thread, for every number of groups, interfaces and threads:  *)
(* the scan looks at the groups in order, at most one interface of a group   *)
(* carries ActiveLink, and the traffic is on at most one interface.          *)

(* Where the failover thread can be, and what it has marked there.           *)
InService == {"GROUP_ACTIVE", "RESTORATION_WAIT", "DEACTIVATE_GROUP"}

PositionFits ==
    /\ fo.st = "SCANNING_GROUP" => fo.cur = NoGroup
    /\ fo.st \in InService => fo.cur # NoGroup
    /\ fo.pc = "mark" => fo.st \in {"SCANNING_GROUP", "GROUP_ACTIVE"} /\ fo.idx # NoGroup
    /\ fo.pc = "deactivate" => fo.st \in InService
    /\ fo.pc = "activate" => /\ fo.st \in {"SCANNING_GROUP", "DEACTIVATE_GROUP"}
                             /\ fo.st = "SCANNING_GROUP" => fo.high # NoGroup

ScannedBelow(n) == \A g \in Groups : g < n => group[g].InitialScanComplete

(* While it scans, the groups above the one it looks at, and above the one   *)
(* it found, have completed their initial scan.                              *)
ScanProgress ==
    fo.st = "SCANNING_GROUP" =>
        /\ fo.pc = "mark" => ScannedBelow(fo.idx) /\ fo.high <= fo.idx
        /\ fo.pc = "activate" => ScannedBelow(fo.high)

ScanInv == PositionFits /\ ScanProgress

(* InitialScanComplete is cleared by IfaceGroupMonitor only.                 *)
LEMMA ScanStaysComplete ==
    ASSUME TypeOK, [Next]_vars, ~ FOIfaceGroupMonitor
    PROVE  \A g \in Groups : group[g].InitialScanComplete => group'[g].InitialScanComplete
  <1>0. group \in [Groups -> GroupType]
    BY DEF TypeOK, DataTypeOK
  <1>1. CASE UNCHANGED vars
    BY <1>1 DEF vars
  <1>2. CASE \E i \in Ifaces, k \in ISMSlots : ISMStep(i, k) \/ LayerStep(i, k)
    <2>1. group' = group
      BY <1>2 DEF ISMStep, LayerStep, ISMControl, ISMDisturbed, ISMStart, ISMSample,
                ISMDown, ISMReset, PhysicalInterfaceDown, ISMValidated, ISMStandby,
                ISMUp, ISMDeactivated, ISMRefreshAborted, ISMRefreshed, ISMExit,
                ISMEnd, ISMLinkLost, ISMLeaseLost, ISMWanUp, ISMFeatureSwitched,
                ISMModeChanged
    <2> QED BY <2>1
  <1>3. CASE Environment /\ UNCHANGED <<ism, pol, fo>>
    <2>1. CASE group' = group
      BY <2>1
    <2>2. ASSUME NEW g \in Groups,
                 \/ group' = [group EXCEPT ![g].ResetSelectedInterface = TRUE]
                 \/ group' = [group EXCEPT ![g].ResetSelectedInterface = FALSE]
                 \/ group' = [group EXCEPT ![g].ConfigChanged = TRUE]
          PROVE  \A h \in Groups : group'[h].InitialScanComplete = group[h].InitialScanComplete
      BY <1>0, <2>2 DEF GroupType
    <2>3. ASSUME NEW i \in Ifaces, SetSelectionGroup(i)
          PROVE  \A h \in Groups : group'[h].InitialScanComplete = group[h].InitialScanComplete
      BY <1>0, <2>3 DEF SetSelectionGroup, GroupType
    <2> QED
      BY <1>3, <2>1, <2>2, <2>3 DEF Environment, SetWanEnable, SetSelectionEnable,
            SetBaseInterfaceStatus, SetConnectivityStatus, SetInterfaceReset,
            SetResetSelectedInterface, ClearResetSelectedInterface, SetPolicy
  <1>4. CASE FOStep
    <2>1. CASE group' = group
      BY <2>1
    <2>2. ASSUME NEW g, group' = [group EXCEPT ![g].State = "STOPPED"]
          PROVE  \A h \in Groups : group'[h].InitialScanComplete = group[h].InitialScanComplete
      BY <1>0, <2>2 DEF GroupType
    <2>3. CASE FOThreadStart
      BY <1>0, <2>3 DEF FOThreadStart, GroupType
    <2>4. CASE FOActivateGroup
      <3>1. CASE group' = group
        BY <3>1
      <3>2. CASE group' # group
        <4> DEFINE i == group[fo.high].SelectedInterface
                   b == i # NoIface /\ iface[i].Selection = "SELECTED"
                   S == {g \in Groups : /\ FailOverType = "COLDSWAP"
                                        /\ g > fo.high
                                        /\ group[g].State = "RUNNING"}
        <4>1. group' = [g \in Groups |->
                  IF g \in S THEN [group[g] EXCEPT !.State = "DEACTIVATED", !.ConfigChanged = TRUE]
                  ELSE IF g = fo.high THEN [group[g] EXCEPT !.Activated = @ \/ b]
                  ELSE group[g]]
          BY <2>4, <3>2 DEF FOActivateGroup
        <4> HIDE DEF b, S
        <4> QED BY <1>0, <4>1 DEF GroupType
      <3> QED BY <3>1, <3>2
    <2> QED
      BY <1>4, <2>1, <2>2, <2>3, <2>4 DEF FOStep, FONext, FOUpdateControllerData,
            FOScanningGroup, FOMarkHighPriorityGroup, FOGroupActive, FODeactivate,
            FORestorationWait, FODeactivateGroup, FOExit, FOJoin, FOTick, MarkGroup
  <1>5. ASSUME NEW g \in Groups, NEW k \in PolSlots, PolStep(g, k)
        PROVE  \A h \in Groups : group[h].InitialScanComplete => group'[h].InitialScanComplete
    <2>1. CASE group' = group
      BY <2>1
    <2>2. ASSUME NEW b \in BOOLEAN,
                 \/ group' = [group EXCEPT ![g].InitialScanComplete = @ \/ b]
                 \/ group' = [group EXCEPT ![g].InitialScanComplete = TRUE]
          PROVE  \A h \in Groups : group[h].InitialScanComplete => group'[h].InitialScanComplete
      BY <1>0, <2>2 DEF GroupType
    <2>3. ASSUME NEW i, group' = SetGroupSelectedIface(group, g, i)
          PROVE  \A h \in Groups : group[h].InitialScanComplete => group'[h].InitialScanComplete
      BY <1>0, <2>3 DEF GroupType, SetGroupSelectedIface
    <2>4. ASSUME RestartSelectionInterface(g, k)
          PROVE  \A h \in Groups : group[h].InitialScanComplete => group'[h].InitialScanComplete
      BY <1>0, <2>4 DEF RestartSelectionInterface, GroupType, SetGroupSelectedIface
    <2>5. CASE AWThreadExit(g, k)
      BY <1>0, <2>5 DEF AWThreadExit, GroupType
    <2>6. CASE AWWaitForInterface(g, k)
      <3>1. \/ group' = group
            \/ group' = [group EXCEPT ![g].InitialScanComplete =
                                  @ \/ OnlyPossibleWanLink(g, pol[g][k].idx)]
        BY <2>6 DEF AWWaitForInterface, InterfaceInvalid
      <3>2. OnlyPossibleWanLink(g, pol[g][k].idx) \in BOOLEAN
        BY DEF OnlyPossibleWanLink
      <3> QED BY <2>1, <2>2, <3>1, <3>2
    <2>7. CASE AWSelecting(g, k)
      BY <2>1, <2>2, <2>7 DEF AWSelecting
    <2> QED
      BY <1>5, <2>1, <2>3, <2>4, <2>5, <2>6, <2>7 DEF PolStep, AWNext,
            AWTimerExpires, AWStart, AWUpdateControllerData,
            AWScanning, AWWaitingForIfaceTearDown, AWReconfiguration, AWRebootingPlatform,
            AWInterfaceActive, AWInterfaceDown, AWTearingDown, AWLeaveLoop,
            InterfaceInvalid, InterfaceDeselect, InterfaceValidated
  <1> QED BY <1>1, <1>2, <1>3, <1>4, <1>5 DEF Next, ThreadStep, EnvStep

(* A pass of MarkHighPriorityGroup, in the scan or in service.               *)
LEMMA MarkScans ==
    ASSUME TypeOK, PositionFits, NEW g \in Groups, NEW h \in Groups \cup {NoGroup},
           fo.st \in {"SCANNING_GROUP", "GROUP_ACTIVE"},
           fo.st = "SCANNING_GROUP" => ScannedBelow(g) /\ h <= g,
           \A n \in Groups : group[n].InitialScanComplete => group'[n].InitialScanComplete,
           MarkGroup(g, h)
    PROVE  ScanInv'
  <1>0. /\ fo \in FOType /\ fo.cur \in Groups \cup {NoGroup}
        /\ g \in Nat /\ h \in Nat /\ g # NoGroup
        /\ NoGroup \in Nat /\ Groups \subseteq Nat
    BY SizesAssumption DEF TypeOK, FOTypeOK, FOType, Groups, NoGroup
  <1>1. /\ fo'.cur = fo.cur
        /\ fo'.high = IF group[g].ConfigChanged THEN fo.cur ELSE Marked(h, g)
        /\ fo'.pc \in {"sample", "deactivate", "activate", "mark"}
        /\ fo'.pc = "activate" => fo.st = "SCANNING_GROUP" /\ fo'.high # NoGroup
        /\ fo'.pc = "deactivate" => fo.st # "SCANNING_GROUP"
        /\ fo'.pc = "mark" => /\ ~ group[g].ConfigChanged /\ ~ WaitForHigherGroup(g)
                              /\ g # NGroups /\ fo'.idx = g + 1
        /\ fo'.st = fo.st \/ (fo.st # "SCANNING_GROUP" /\ fo'.st = "RESTORATION_WAIT")
    BY MarkGroupFields
  <1>2. fo'.pc = "mark" => fo'.st = fo.st
    <2> DEFINE f == [fo EXCEPT !.high = IF group[g].ConfigChanged THEN fo.cur ELSE Marked(h, g)]
    <2>1. f \in FOType
      BY <1>0, MarkedType DEF FOType
    <2>2. f.st = fo.st
      BY <1>0 DEF FOType
    <2>3. Decide(f) \/ fo' = [f EXCEPT !.pc = "mark", !.idx = g + 1]
      BY DEF MarkGroup
    <2> HIDE DEF f
    <2>4. Decide(f) => fo'.pc # "mark"
      BY <2>1, DecideFields
    <2>5. fo' = [f EXCEPT !.pc = "mark", !.idx = g + 1] => fo'.st = f.st
      BY <2>1 DEF FOType
    <2> QED BY <2>2, <2>3, <2>4, <2>5
  <1>3. fo'.st = "SCANNING_GROUP" => fo.st = "SCANNING_GROUP"
    BY <1>1
  <1>4. PositionFits'
    BY <1>0, <1>1, <1>2 DEF PositionFits, InService, NoGroup
  <1>5. ASSUME fo.st = "SCANNING_GROUP"
        PROVE  fo'.high <= g
    <2>1. fo.cur = NoGroup
      BY <1>5 DEF PositionFits
    <2>2. Marked(h, g) \in {h, g, NoGroup}
      BY <1>0, <2>1 DEF Marked
    <2> QED BY <1>0, <1>1, <1>5, <2>1, <2>2 DEF NoGroup
  <1>6. ASSUME fo.st = "SCANNING_GROUP", NEW n \in Groups, n < g
        PROVE  group'[n].InitialScanComplete
    BY <1>6 DEF ScannedBelow
  <1>7. ASSUME fo.st = "SCANNING_GROUP", fo'.pc = "activate"
        PROVE  ScannedBelow(fo.high)'
    <2>1. fo'.high \in Nat
      BY <1>0, <1>1, MarkedType
    <2> QED BY <1>0, <1>5, <1>6, <1>7, <2>1 DEF ScannedBelow
  <1>8. ASSUME fo.st = "SCANNING_GROUP", fo'.pc = "mark"
        PROVE  ScannedBelow(fo.idx)' /\ fo'.high <= fo'.idx
    <2>1. group'[g].InitialScanComplete /\ fo'.idx = g + 1
      BY <1>1, <1>8 DEF WaitForHigherGroup
    <2>2. fo'.high \in Nat
      BY <1>0, <1>1, MarkedType
    <2>3. \A n \in Groups : n < g + 1 => n < g \/ n = g
      BY <1>0
    <2> QED BY <1>0, <1>5, <1>6, <1>8, <2>1, <2>2, <2>3 DEF ScannedBelow
  <1>9. ScanProgress'
    BY <1>3, <1>7, <1>8 DEF ScanProgress
  <1> QED BY <1>4, <1>9 DEF ScanInv

LEMMA FOStepScans ==
    ASSUME TypeOK, ScanInv, FOStep
    PROVE  ScanInv'
  <1>0. /\ fo \in FOType /\ 1 \in Groups /\ NoGroup \in Groups \cup {NoGroup}
        /\ fo.high \in Groups \cup {NoGroup} /\ fo.idx \in Groups \cup {NoGroup}
        /\ fo.cur \in Groups \cup {NoGroup}
    BY SizesAssumption DEF TypeOK, FOTypeOK, FOType, Groups
  <1>1. CASE FOIfaceGroupMonitor
    <2>1. fo'.pc \in {"sample", "state"} /\ fo'.st = fo.st /\ fo'.cur = fo.cur
      BY <1>0, <1>1 DEF FOIfaceGroupMonitor, FOType
    <2> QED BY <2>1 DEF ScanInv, PositionFits, ScanProgress
  <1>2. ASSUME ~ FOIfaceGroupMonitor
        PROVE  \A n \in Groups : group[n].InitialScanComplete => group'[n].InitialScanComplete
    <2>1. [Next]_vars
      BY DEF Next, ThreadStep
    <2> QED BY <1>2, <2>1, ScanStaysComplete
  <1>3. ASSUME NEW f \in FOType, NEW s, FOGoto(f, s),
               s = "SCANNING_GROUP" => f.cur = NoGroup,
               s \in InService => f.cur # NoGroup
        PROVE  ScanInv'
    <2>1. fo'.pc = "sample" /\ fo'.st = s /\ fo'.cur = f.cur
      BY <1>3, FOGotoFields
    <2> QED BY <1>3, <2>1 DEF ScanInv, PositionFits, ScanProgress
  <1>4. ASSUME NEW c \in {"first", "join", "off"}, fo' = FOOutside(c)
        PROVE  ScanInv'
    BY <1>4 DEF FOOutside, ScanInv, PositionFits, ScanProgress, InService
  <1>5. CASE FOUpdateControllerData \/ FOTick
    <2>1. fo'.pc \in {"sample", "monitor"} /\ fo'.st = fo.st /\ fo'.cur = fo.cur
      BY <1>0, <1>5 DEF FOUpdateControllerData, FOTick, FOType
    <2> QED BY <2>1 DEF ScanInv, PositionFits, ScanProgress
  <1>6. CASE FOScanningGroup
    <2>1. FOGoto(fo, "EXIT") \/ MarkGroup(1, NoGroup)
      BY <1>6 DEF FOScanningGroup
    <2>2. ~ FOIfaceGroupMonitor /\ fo.st = "SCANNING_GROUP"
      BY <1>6 DEF FOScanningGroup, FOHandling, FOIfaceGroupMonitor
    <2>3. ScannedBelow(1) /\ NoGroup <= 1
      BY SizesAssumption DEF ScannedBelow, Groups, NoGroup
    <2>4. CASE MarkGroup(1, NoGroup)
      BY <1>0, <1>2, <2>2, <2>3, <2>4, MarkScans DEF ScanInv
    <2>5. CASE FOGoto(fo, "EXIT")
      BY <1>0, <1>3, <2>5 DEF InService
    <2> QED BY <2>1, <2>4, <2>5
  <1>7. CASE FOMarkHighPriorityGroup
    <2>1. ~ FOIfaceGroupMonitor /\ fo.pc = "mark" /\ MarkGroup(fo.idx, fo.high)
      BY <1>7 DEF FOMarkHighPriorityGroup, FOIfaceGroupMonitor
    <2>2. /\ fo.idx \in Groups /\ fo.st \in {"SCANNING_GROUP", "GROUP_ACTIVE"}
          /\ fo.st = "SCANNING_GROUP" => ScannedBelow(fo.idx) /\ fo.high <= fo.idx
      BY <1>0, <2>1 DEF ScanInv, PositionFits, ScanProgress
    <2> QED BY <1>0, <1>2, <2>1, <2>2, MarkScans DEF ScanInv
  <1>8. CASE FOGroupActive
    <2> DEFINE e == [fo EXCEPT !.cur = NoGroup, !.high = NoGroup, !.timer = 0]
    <2>1. 0 \in 0 .. MaxTimer
      BY FailOverAssumption
    <2>2. e \in FOType /\ e.cur = NoGroup
      BY <1>0, <2>1 DEF FOType
    <2>3. ~ FOIfaceGroupMonitor /\ fo.st = "GROUP_ACTIVE" /\ fo.cur # NoGroup
      BY <1>8 DEF FOGroupActive, FOHandling, FOIfaceGroupMonitor, ScanInv, PositionFits, InService
    <2>4. \/ FOGoto(fo, "DEACTIVATE_GROUP") \/ FOGoto(e, "SCANNING_GROUP")
          \/ MarkGroup(1, NoGroup)
      BY <1>8 DEF FOGroupActive, TransitionDeactivateGroup
    <2> HIDE DEF e
    <2>5. CASE MarkGroup(1, NoGroup)
      BY <1>0, <1>2, <2>3, <2>5, MarkScans DEF ScanInv
    <2>6. CASE FOGoto(fo, "DEACTIVATE_GROUP")
      BY <1>0, <1>3, <2>3, <2>6
    <2>7. CASE FOGoto(e, "SCANNING_GROUP")
      BY <1>3, <2>2, <2>7 DEF InService
    <2> QED BY <2>4, <2>5, <2>6, <2>7
  <1>9. CASE FODeactivate \/ FORestorationWait
    <2>1. fo.cur # NoGroup
      BY <1>9 DEF FODeactivate, FORestorationWait, FOHandling, ScanInv, PositionFits, InService
    <2>2. \E s \in InService : FOGoto(fo, s)
      BY <1>9 DEF FODeactivate, FORestorationWait, TransitionDeactivateGroup, InService
    <2> QED BY <1>0, <1>3, <2>1, <2>2 DEF InService
  <1>10. CASE FODeactivateGroup
    <2>1. fo.cur # NoGroup /\ fo.st = "DEACTIVATE_GROUP"
      BY <1>10 DEF FODeactivateGroup, FOHandling, ScanInv, PositionFits, InService
    <2>2. CASE FOGoto(fo, "DEACTIVATE_GROUP") \/ FOGoto(fo, "EXIT")
      BY <1>0, <1>3, <2>1, <2>2 DEF InService
    <2>3. CASE fo' = [fo EXCEPT !.pc = "activate"]
      <3>1. fo'.pc = "activate" /\ fo'.st = fo.st /\ fo'.cur = fo.cur
        BY <1>0, <2>3 DEF FOType
      <3> QED BY <2>1, <3>1 DEF ScanInv, PositionFits, ScanProgress
    <2> QED BY <1>10, <2>2, <2>3 DEF FODeactivateGroup
  <1>11. CASE FOActivateGroup
    <2> DEFINE e == [fo EXCEPT !.cur = fo.high]
    <2>1. e \in FOType /\ e.cur = fo.high
      BY <1>0 DEF FOType
    <2>2. \/ fo.high # NoGroup /\ FOGoto(e, "GROUP_ACTIVE")
          \/ fo.high = NoGroup /\ FOGoto(fo, "GROUP_ACTIVE")
      BY <1>11 DEF FOActivateGroup
    <2>3. fo.high = NoGroup => fo.cur # NoGroup
      BY <1>11 DEF FOActivateGroup, ScanInv, PositionFits, InService
    <2> HIDE DEF e
    <2> QED BY <1>0, <1>3, <2>1, <2>2, <2>3
  <1>12. CASE FOThreadStart \/ FOExit \/ FOJoin
    BY <1>4, <1>12 DEF FOThreadStart, FOExit, FOJoin
  <1> QED
    BY <1>1, <1>5, <1>6, <1>7, <1>8, <1>9, <1>10, <1>11, <1>12 DEF FOStep, FONext

LEMMA ScanInductive == TypeOK /\ ScanInv /\ [Next]_vars => ScanInv'
  <1> SUFFICES ASSUME TypeOK, ScanInv, [Next]_vars
               PROVE  ScanInv'
    OBVIOUS
  <1>1. CASE FOStep
    BY <1>1, FOStepScans
  <1>2. CASE ~ FOStep
    <2>1. fo' = fo
      BY <1>2 DEF Next, ThreadStep, EnvStep, PolStep, ISMStep, LayerStep, vars
    <2>2. \A n \in Groups : group[n].InitialScanComplete => group'[n].InitialScanComplete
      BY <1>2, ScanStaysComplete DEF FOStep, FONext
    <2> QED BY <2>1, <2>2 DEF ScanInv, PositionFits, ScanProgress, ScannedBelow
  <1> QED BY <1>1, <1>2

LEMMA ScanInitially == Init => ScanInv
  BY DEF Init, FOInit, FOOutside, ScanInv, PositionFits, ScanProgress, InService

(* CurrentActiveGroup is set in Transition_ActivateGroup only, to            *)
(* HighestValidGroup.                                                        *)
LEMMA ActivatedInOrder ==
    ASSUME TypeOK, ScanInv, [Next]_vars, fo.cur = NoGroup, fo'.cur # NoGroup
    PROVE  ScannedBelow(fo'.cur)
  <1>0. /\ fo \in FOType /\ 1 \in Groups /\ NoGroup \in Groups \cup {NoGroup}
        /\ fo.high \in Groups \cup {NoGroup} /\ fo.idx \in Groups \cup {NoGroup}
    BY SizesAssumption DEF TypeOK, FOTypeOK, FOType, Groups
  <1>1. FOStep
    BY DEF Next, ThreadStep, EnvStep, PolStep, ISMStep, LayerStep, vars
  <1>2. ~ FOGoto(fo, "EXIT") /\ \A s \in FOStates : ~ FOGoto(fo, s)
    BY <1>0, FOGotoFields DEF FOStates
  <1>3. ASSUME NEW g \in Groups \cup {NoGroup}, NEW h \in Groups \cup {NoGroup}
        PROVE  ~ MarkGroup(g, h)
    BY MarkGroupFields
  <1>4. fo.st \notin InService
    BY DEF ScanInv, PositionFits
  <1>5. FOActivateGroup
    <2>1. ~ FOThreadStart /\ ~ FOExit /\ ~ FOJoin
      BY DEF FOThreadStart, FOExit, FOJoin, FOOutside
    <2>2. ~ FOUpdateControllerData /\ ~ FOTick /\ ~ FOIfaceGroupMonitor
      BY <1>0 DEF FOUpdateControllerData, FOTick, FOIfaceGroupMonitor, FOType
    <2>3. ~ FOScanningGroup /\ ~ FOMarkHighPriorityGroup
      BY <1>0, <1>2, <1>3 DEF FOScanningGroup, FOMarkHighPriorityGroup
    <2>4. ~ FOGroupActive /\ ~ FORestorationWait /\ ~ FODeactivateGroup
      BY <1>4 DEF FOGroupActive, FORestorationWait, FODeactivateGroup, FOHandling, InService
    <2>5. ~ FODeactivate
      BY <1>4 DEF FODeactivate, ScanInv, PositionFits
    <2> QED BY <1>1, <2>1, <2>2, <2>3, <2>4, <2>5 DEF FOStep, FONext
  <1>6. fo.st = "SCANNING_GROUP" /\ fo.pc = "activate"
    BY <1>4, <1>5 DEF FOActivateGroup, ScanInv, PositionFits, InService
  <1>7. fo'.cur = fo.high
    <2> DEFINE e == [fo EXCEPT !.cur = fo.high]
    <2>1. e \in FOType /\ e.cur = fo.high
      BY <1>0 DEF FOType
    <2>2. FOGoto(e, "GROUP_ACTIVE") \/ FOGoto(fo, "GROUP_ACTIVE")
      BY <1>5 DEF FOActivateGroup
    <2> HIDE DEF e
    <2> QED BY <1>2, <2>1, <2>2, FOGotoFields DEF FOStates
  <1> QED BY <1>6, <1>7 DEF ScanInv, ScanProgress

(* MarkHighPriorityGroup does not look below a group whose initial scan is   *)
(* not complete: when the failover thread puts a first group in service, all *)
(* the groups of higher priority have completed their initial scan, whatever *)
(* it found.  Under HOTSWAP and COLDSWAP, whatever is written meanwhile, and *)
(* although the loop takes the lock once per group.                          *)
THEOREM FirstActivationInOrder == Spec => ScanInOrder
  <1>1. Init => ScanInv
    BY ScanInitially
  <1>2. TypeOK /\ ScanInv /\ [Next]_vars => ScanInv'
    BY ScanInductive
  <1>3. TypeOK /\ ScanInv /\ [Next]_vars =>
          [fo.cur = NoGroup /\ fo'.cur # NoGroup =>
              \A g \in Groups : g < fo'.cur => group[g].InitialScanComplete]_vars
    BY ActivatedInOrder DEF ScannedBelow
  <1> QED BY <1>1, <1>2, <1>3, TypeCorrect, PTL DEF Spec, ScanInOrder

-----------------------------------------------------------------------------
(* The selection thread knows the one interface of its group that may have   *)
(* ActiveLink, unless it was started on a disabled WAN Manager and is        *)
(* leaving.                                                                  *)
LinkKnown(g, k) ==
    \/ ActiveLinks(g) \subseteq {pol[g][k].idx}
    \/ ~ pol[g][k].en /\ pol[g][k].st \in {"SELECTING", "SM_EXIT"}

LinkInv ==
    /\ OneActiveLink
    /\ \A g \in Groups, k \in PolSlots : pol[g][k].pc = "loop" => LinkKnown(g, k)

(* The interfaces keep their groups.                                         *)
LEMMA LinksOfGroup ==
    ASSUME TypeOK, HandOverInv, NEW g \in Groups
    PROVE  \A i : i \in ActiveLinks(g) <=> i \in Ifaces /\ InitGroup[i] = g /\ iface[i].ActiveLink
  BY DEF ActiveLinks, InterfaceAvailable, HandOverInv, OwnInterfaces

(* A step that touches no ActiveLink and no thread, or starts one            *)
LEMMA SameLinks ==
    ASSUME TypeOK, TypeOK', HandOverInv, HandOverInv', LinkInv,
           \A i \in Ifaces : iface'[i].ActiveLink = iface[i].ActiveLink,
           \A g \in Groups, k \in PolSlots : pol'[g][k] = pol[g][k] \/ pol'[g][k].pc = "start"
    PROVE  LinkInv'
  <1>1. \A g \in Groups : ActiveLinks(g)' = ActiveLinks(g)
    BY DEF ActiveLinks, InterfaceAvailable, HandOverInv, OwnInterfaces
  <1> QED BY <1>1 DEF LinkInv, OneActiveLink, LinkKnown

(* A step of the selection thread (g, k)                                     *)
LEMMA LinkStep ==
    ASSUME TypeOK, TypeOK', HandOverInv, HandOverInv', LinkInv,
           NEW g \in Groups, NEW k \in PolSlots, OthersUntouched(g, k), PolLive(g, k),
           \A i \in Ifaces : InitGroup[i] # g => iface'[i].ActiveLink = iface[i].ActiveLink,
           \/ \A i \in Ifaces : InitGroup[i] = g /\ iface'[i].ActiveLink => i = pol'[g][k].idx
           \/ /\ \A i \in Ifaces : iface'[i].ActiveLink = iface[i].ActiveLink
              /\ \/ pol'[g][k].pc # "loop"
                 \/ ~ pol'[g][k].en /\ pol'[g][k].st \in {"SELECTING", "SM_EXIT"}
    PROVE  LinkInv'
  <1>3. \A l \in PolSlots \ {k} : pol'[g][l].pc = "none"
    BY DEF OthersUntouched, HandOverInv, SingleSelectionThread, PolLive
  <1>0. \A i \in Ifaces : iface'[i].Group = InitGroup[i] /\ iface[i].Group = InitGroup[i]
    BY DEF HandOverInv, OwnInterfaces
  <1>4. \A h \in Groups \ {g} : ActiveLinks(h)' = ActiveLinks(h)
    BY <1>0 DEF ActiveLinks, InterfaceAvailable
  <1>5. \/ ActiveLinks(g)' \subseteq {pol'[g][k].idx}
        \/ /\ ActiveLinks(g)' = ActiveLinks(g)
           /\ \/ pol'[g][k].pc # "loop"
              \/ ~ pol'[g][k].en /\ pol'[g][k].st \in {"SELECTING", "SM_EXIT"}
    <2>1. CASE \A i \in Ifaces : InitGroup[i] = g /\ iface'[i].ActiveLink => i = pol'[g][k].idx
      BY <1>0, <2>1 DEF ActiveLinks, InterfaceAvailable
    <2>2. CASE \A i \in Ifaces : iface'[i].ActiveLink = iface[i].ActiveLink
      <3>1. ActiveLinks(g)' = ActiveLinks(g)
        BY <1>0, <2>2 DEF ActiveLinks, InterfaceAvailable
      <3>2. CASE \/ pol'[g][k].pc # "loop"
                 \/ ~ pol'[g][k].en /\ pol'[g][k].st \in {"SELECTING", "SM_EXIT"}
        BY <3>1, <3>2
      <3> QED BY <2>1, <3>2
    <2> QED BY <2>1, <2>2
  <1>6. OneActiveLink'
    BY <1>4, <1>5 DEF LinkInv, OneActiveLink
  <1>7. ASSUME NEW h \in Groups, NEW l \in PolSlots, pol'[h][l].pc = "loop"
        PROVE  LinkKnown(h, l)'
    <2>1. CASE h = g
      BY <1>3, <1>5, <1>7, <2>1 DEF LinkKnown
    <2>2. CASE h # g
      BY <1>4, <1>7, <2>2 DEF LinkKnown, LinkInv, OthersUntouched
    <2> QED BY <2>1, <2>2
  <1> QED BY <1>6, <1>7 DEF LinkInv

(* The start of a thread: the only link there is becomes its interface, or   *)
(* is given up.                                                              *)
LEMMA StartLinks ==
    ASSUME TypeOK, HandOverInv, LinkInv, NEW g \in Groups, NEW k \in PolSlots, AWStart(g, k)
    PROVE  /\ \A i \in Ifaces : InitGroup[i] # g => iface'[i].ActiveLink = iface[i].ActiveLink
           /\ \/ \A i \in Ifaces : InitGroup[i] = g /\ iface'[i].ActiveLink => i = pol'[g][k].idx
              \/ /\ \A i \in Ifaces : iface'[i].ActiveLink = iface[i].ActiveLink
                 /\ ~ pol'[g][k].en /\ pol'[g][k].st \in {"SELECTING", "SM_EXIT"}
  <1> DEFINE prev == IF config.Enable THEN PrevSelectedInterface(g) ELSE NoIface
             keep == prev # NoIface /\ iface[prev].Enable
             next == IF keep THEN prev
                     ELSE IF config.Enable THEN HighPriorityIface(g) ELSE NoIface
  <1>0. /\ iface \in [Ifaces -> IfaceType] /\ Ifaces \subseteq Int /\ NoIface \notin Ifaces
        /\ keep \in BOOLEAN
    BY SizesAssumption DEF TypeOK, DataTypeOK, Ifaces, NoIface
  <1>1. /\ Goto(g, k, "SELECTING", next, FALSE)
        /\ iface' = [i \in Ifaces |-> IF i = prev
                            THEN [iface[i] EXCEPT !.ActiveLink = keep] ELSE iface[i]]
    BY DEF AWStart
  <1>2. EndsIn(g, k, "SELECTING", next)
    BY <1>1, GotoFields
  <1>3. CASE ~ config.Enable
    <2>1. prev = NoIface
      BY <1>3
    <2> HIDE DEF prev, keep, next
    <2>2. \A i \in Ifaces : iface'[i].ActiveLink = iface[i].ActiveLink
      BY <1>0, <1>1, <2>1 DEF IfaceType
    <2> QED BY <1>2, <1>3, <2>2 DEF EndsIn
  <1>4. CASE config.Enable
    <2>1. ASSUME NEW i \in ActiveLinks(g)
          PROVE  prev = i
      <3>1. \A j \in ActiveLinks(g) : i = j
        BY DEF LinkInv, OneActiveLink
      <3>2. i \in Ifaces
        BY DEF ActiveLinks, InterfaceAvailable
      <3>3. First(ActiveLinks(g), i) /\ \A j \in Ifaces : First(ActiveLinks(g), j) => j = i
        <4>1. i <= i
          BY <1>0, <3>2
        <4> QED BY <3>1, <4>1 DEF First
      <3> QED BY <1>4, <3>2, <3>3 DEF PrevSelectedInterface
    <2>2. \A i \in Ifaces : InitGroup[i] = g /\ iface[i].ActiveLink => i = prev
      BY <2>1, LinksOfGroup
    <2>3. prev # NoIface => InitGroup[prev] = g
      BY OfferedIsOwn
    <2>4. keep => next = prev
      OBVIOUS
    <2> HIDE DEF prev, keep, next
    <2>5. \A i \in Ifaces : iface'[i].ActiveLink = IF i = prev THEN keep ELSE iface[i].ActiveLink
      BY <1>0, <1>1 DEF IfaceType
    <2>6. \A i \in Ifaces : InitGroup[i] # g => iface'[i].ActiveLink = iface[i].ActiveLink
      BY <1>0, <2>3, <2>5
    <2>7. pol'[g][k].idx = next
      BY <1>2 DEF EndsIn
    <2> QED BY <2>2, <2>4, <2>5, <2>6, <2>7
  <1> QED BY <1>3, <1>4

(* The passes of the loop: a thread that knows the link keeps its interface, *)
(* which may get the link, or takes the link away ...                        *)
KeepsInterface(g, k) ==
    /\ pol'[g][k].idx = pol[g][k].idx
    /\ \A i \in Ifaces : i # pol[g][k].idx =>
          \/ iface'[i].ActiveLink = iface[i].ActiveLink
          \/ InitGroup[i] = g /\ ~ iface'[i].ActiveLink
TakesLink(g, k) ==
    \A i \in Ifaces : IF InitGroup[i] = g THEN ~ iface'[i].ActiveLink
                      ELSE iface'[i].ActiveLink = iface[i].ActiveLink

LEMMA ResetLinks ==
    ASSUME NEW T \in [Ifaces -> IfaceType], NEW g \in Groups, NEW i \in Ifaces
    PROVE  /\ ResetIfaceTable(T, g)[i].ActiveLink = T[i].ActiveLink
           /\ ResetIfaceTable(T, g) \in [Ifaces -> IfaceType]
           /\ ResetActiveLinkOnAllIface(T, g)[i].ActiveLink
                 = IF T[i].Group = g THEN FALSE ELSE T[i].ActiveLink
           /\ ResetActiveLinkOnAllIface(T, g) \in [Ifaces -> IfaceType]
  BY ZenonT(30) DEF ResetIfaceTable, ResetActiveLinkOnAllIface, IfaceType, IfaceStatuses

LEMMA KnownLinkStep ==
    ASSUME TypeOK, HandOverInv, LinkInv, NEW g \in Groups, NEW k \in PolSlots,
           AWNext(g, k) \/ AWTimerExpires(g, k), pol[g][k].pc = "loop",
           ActiveLinks(g) \subseteq {pol[g][k].idx}
    PROVE  \/ KeepsInterface(g, k)
           \/ TakesLink(g, k)
           \/ iface' = iface /\ pol[g][k].idx = NoIface
           \/ iface' = iface /\ pol'[g][k].pc # "loop"
  <1> DEFINE i == pol[g][k].idx
  <1>0. /\ iface \in [Ifaces -> IfaceType] /\ NoIface \notin Ifaces
        /\ pol \in [Groups -> [PolSlots -> PolType]]
        /\ \A j \in Ifaces : InitGroup[j] = g /\ iface[j].ActiveLink => j = i
        /\ \A j \in Ifaces : iface[j].Group = InitGroup[j]
        /\ i \in Ifaces \cup {NoIface}
        /\ i # NoIface => InitGroup[i] = g
    <2>1. /\ iface \in [Ifaces -> IfaceType]
          /\ pol \in [Groups -> [PolSlots -> PolType]]
          /\ \A j \in Ifaces : iface[j].Group = InitGroup[j]
          /\ i # NoIface => InitGroup[i] = g
      BY DEF TypeOK, DataTypeOK, PolTypeOK, HandOverInv, OwnInterfaces
    <2>2. \A j \in Ifaces : InitGroup[j] = g /\ iface[j].ActiveLink => j = i
      BY LinksOfGroup
    <2>3. i \in Ifaces \cup {NoIface}
      BY <2>1 DEF PolType
    <2>4. NoIface \notin Ifaces
      BY DEF Ifaces, NoIface
    <2> QED BY <2>1, <2>2, <2>3, <2>4
  <1> HIDE DEF i
  <1>1. ASSUME NEW s, NEW x, Goto(g, k, s, i, x), iface' = iface
        PROVE  KeepsInterface(g, k)
    <2>1. EndsIn(g, k, s, i)
      BY <1>1, GotoFields
    <2> QED BY <1>1, <2>1 DEF KeepsInterface, EndsIn, i
  <1>2. CASE InterfaceInvalid(g, k)
    <2>1. \A j \in Ifaces : iface'[j].ActiveLink = IF j = i THEN FALSE ELSE iface[j].ActiveLink
      <3>1. iface' = [iface EXCEPT ![i].Status = "INVALID", ![i].ActiveLink = FALSE]
        BY <1>2 DEF InterfaceInvalid, i
      <3> QED BY <1>0, <3>1, ZenonT(30) DEF IfaceType
    <2> QED BY <1>0, <2>1 DEF TakesLink
  <1>3. ASSUME NEW s, NEW x, Goto(g, k, s, i, x),
               \/ iface' = [iface EXCEPT ![i].Selection = "NOT_SELECTED"]
               \/ iface' = [iface EXCEPT ![i].Selection = "SELECTED"]
               \/ iface' = [iface EXCEPT ![i].ActiveLink = TRUE]
        PROVE  KeepsInterface(g, k)
    <2>1. EndsIn(g, k, s, i)
      BY <1>3, GotoFields
    <2>2. \A j \in Ifaces : j # i => iface'[j].ActiveLink = iface[j].ActiveLink
      BY <1>0, <1>3 DEF IfaceType
    <2> QED BY <2>1, <2>2 DEF KeepsInterface, EndsIn, i
  <1>4. CASE RestartSelectionInterface(g, k)
    <2> DEFINE T == ResetActiveLinkOnAllIface(iface, g)
    <2>1. /\ T \in [Ifaces -> IfaceType]
          /\ \A j \in Ifaces : T[j].ActiveLink = IF iface[j].Group = g THEN FALSE
                                                 ELSE iface[j].ActiveLink
      BY <1>0, ResetLinks DEF ResetActiveLinkOnAllIface, IfaceType
    <2>2. iface' = ResetIfaceTable(T, g)
      BY <1>4 DEF RestartSelectionInterface
    <2> HIDE DEF T
    <2>3. \A j \in Ifaces : iface'[j].ActiveLink = T[j].ActiveLink
      BY <2>1, <2>2, ResetLinks, ZenonT(60)
    <2> QED BY <1>0, <2>1, <2>3 DEF TakesLink
  <1>5. CASE AWUpdateControllerData(g, k) \/ AWTimerExpires(g, k)
    <2>1. iface' = iface /\ pol'[g][k].idx = pol[g][k].idx
      BY <1>0, <1>5 DEF AWUpdateControllerData, AWTimerExpires, PolType
    <2> QED BY <2>1 DEF KeepsInterface
  <1>6. CASE AWLeaveLoop(g, k) \/ AWThreadExit(g, k)
    BY <1>0, <1>6 DEF AWLeaveLoop, AWThreadExit, Outside
  <1>7. CASE AWSelecting(g, k)
    <2>1. CASE iface' = iface
      BY <1>1, <1>7, <2>1 DEF AWSelecting, i
    <2>2. CASE pol[g][k].idx = NoIface /\ iface' = ResetIfaceTable(iface, g)
      <3>1. \A j \in Ifaces : iface'[j].ActiveLink = iface[j].ActiveLink
        BY <1>0, <2>2 DEF ResetIfaceTable, IfaceType
      <3> QED BY <1>0, <2>2, <3>1 DEF TakesLink, i
    <2> QED BY <1>7, <2>1, <2>2 DEF AWSelecting
  <1>8. CASE AWWaitForInterface(g, k)
    BY <1>1, <1>2, <1>3, <1>8 DEF AWWaitForInterface, i
  <1>9. CASE AWScanning(g, k)
    BY <1>1, <1>3, <1>9 DEF AWScanning, InterfaceDeselect, InterfaceValidated, i
  <1>10. CASE AWWaitingForIfaceTearDown(g, k)
    BY <1>1, <1>2, <1>4, <1>10 DEF AWWaitingForIfaceTearDown, i
  <1>11. CASE AWReconfiguration(g, k) \/ AWRebootingPlatform(g, k)
    BY <1>1, <1>3, <1>11 DEF AWReconfiguration, AWRebootingPlatform, i
  <1>12. CASE AWInterfaceActive(g, k) \/ AWInterfaceDown(g, k)
    BY <1>1, <1>3, <1>12 DEF AWInterfaceActive, AWInterfaceDown, InterfaceDeselect, i
  <1>13. CASE AWTearingDown(g, k)
    <2> DEFINE D == [iface EXCEPT ![i].Selection = "NOT_SELECTED"]
               R == ResetIfaceTable(D, g)
    <2>1. PICK s : Goto(g, k, s, i, FALSE)
      BY <1>13 DEF AWTearingDown, i
    <2>0. EndsIn(g, k, s, i)
      BY <2>1, GotoFields
    <2>2. pol'[g][k].idx = pol[g][k].idx
      BY <2>0 DEF EndsIn, i
    <2>3. iface' = D \/ iface' = R \/ iface' = ResetActiveLinkOnAllIface(R, g)
      BY <1>13 DEF AWTearingDown, i
    <2>4. /\ D \in [Ifaces -> IfaceType]
          /\ \A j \in Ifaces : D[j].ActiveLink = iface[j].ActiveLink /\ D[j].Group = iface[j].Group
      <3>1. ASSUME NEW j \in Ifaces
            PROVE  /\ D[j] \in IfaceType
                   /\ D[j].ActiveLink = iface[j].ActiveLink /\ D[j].Group = iface[j].Group
        <4>1. D[j] = iface[j] \/ D[j] = [iface[j] EXCEPT !.Selection = "NOT_SELECTED"]
          BY <1>0
        <4> QED BY <1>0, <4>1 DEF IfaceType, SelectionStates
      <3>2. D = [j \in Ifaces |-> D[j]]
        BY <1>0
      <3> QED BY <3>1, <3>2
    <2> HIDE DEF D
    <2>5. /\ R \in [Ifaces -> IfaceType]
          /\ \A j \in Ifaces : R[j].ActiveLink = D[j].ActiveLink /\ R[j].Group = D[j].Group
      BY <2>4, ResetLinks, ResetFields DEF ResetIfaceTable, IfaceType, IfaceStatuses
    <2> HIDE DEF R
    <2>6. CASE iface' = ResetActiveLinkOnAllIface(R, g)
      <3>1. \A j \in Ifaces : iface'[j].ActiveLink = IF R[j].Group = g THEN FALSE
                                                     ELSE R[j].ActiveLink
        BY <2>5, <2>6 DEF ResetActiveLinkOnAllIface, IfaceType
      <3>2. \A j \in Ifaces : iface'[j].ActiveLink = IF InitGroup[j] = g THEN FALSE
                                                     ELSE iface[j].ActiveLink
        <4> SUFFICES ASSUME NEW j \in Ifaces
                     PROVE  iface'[j].ActiveLink = IF InitGroup[j] = g THEN FALSE
                                                   ELSE iface[j].ActiveLink
          OBVIOUS
        <4>1. R[j].Group = InitGroup[j] /\ R[j].ActiveLink = iface[j].ActiveLink
          BY <1>0, <2>4, <2>5
        <4> QED BY <3>1, <4>1
      <3> QED BY <3>2 DEF TakesLink
    <2> QED BY <2>2, <2>3, <2>4, <2>5, <2>6 DEF KeepsInterface
  <1>14. ~ AWStart(g, k)
    BY DEF AWStart
  <1> QED
    BY <1>5, <1>6, <1>7, <1>8, <1>9, <1>10, <1>11, <1>12, <1>13, <1>14 DEF AWNext

(* ... and one that does not know it leaves.                                 *)
LEMMA UnknownLinkStep ==
    ASSUME TypeOK, HandOverInv, NEW g \in Groups, NEW k \in PolSlots,
           AWNext(g, k) \/ AWTimerExpires(g, k), pol[g][k].pc = "loop",
           ~ pol[g][k].en, pol[g][k].st \in {"SELECTING", "SM_EXIT"}
    PROVE  /\ iface' = iface
           /\ \/ pol'[g][k].pc # "loop"
              \/ ~ pol'[g][k].en /\ pol'[g][k].st \in {"SELECTING", "SM_EXIT"}
  <1>0. pol \in [Groups -> [PolSlots -> PolType]] /\ ~ config.Enable
    BY DEF TypeOK, PolTypeOK, HandOverInv, RequestsStand
  <1>1. CASE AWUpdateControllerData(g, k)
    BY <1>0, <1>1 DEF AWUpdateControllerData, PolType
  <1>2. CASE AWSelecting(g, k)
    <2>1. iface' = iface /\ Goto(g, k, "SM_EXIT", pol[g][k].idx, FALSE)
      BY <1>2 DEF AWSelecting, Stopping
    <2>2. EndsIn(g, k, "SM_EXIT", pol[g][k].idx)
      BY <2>1, GotoFields
    <2> QED BY <1>0, <2>1, <2>2 DEF EndsIn
  <1>3. CASE AWLeaveLoop(g, k)
    BY <1>0, <1>3 DEF AWLeaveLoop, Outside
  <1> QED
    BY <1>1, <1>2, <1>3 DEF AWNext, AWTimerExpires, AWStart, AWThreadExit, Handling,
          AWWaitForInterface, AWScanning, AWWaitingForIfaceTearDown, AWReconfiguration,
          AWRebootingPlatform, AWInterfaceActive, AWInterfaceDown, AWTearingDown

LEMMA PolStepLinks ==
    ASSUME TypeOK, TypeOK', HandOverInv, HandOverInv', LinkInv,
           NEW g \in Groups, NEW k \in PolSlots, PolStep(g, k)
    PROVE  LinkInv'
  <1>0. /\ OthersUntouched(g, k) /\ PolLive(g, k)
        /\ AWNext(g, k) \/ AWTimerExpires(g, k)
        /\ \A i \in Ifaces : InitGroup[i] = g /\ iface[i].ActiveLink <=> i \in ActiveLinks(g)
    BY PolStepEffect, LinksOfGroup DEF OwnThread, PolStep
  <1>1. CASE pol[g][k].pc = "start"
    <2>1. AWStart(g, k)
      BY <1>0, <1>1 DEF AWNext, AWTimerExpires, AWThreadExit, Handling, AWUpdateControllerData,
          AWSelecting, AWWaitForInterface, AWScanning, AWWaitingForIfaceTearDown,
          AWReconfiguration, AWRebootingPlatform, AWInterfaceActive, AWInterfaceDown,
          AWTearingDown, AWLeaveLoop
    <2> QED BY <1>0, <2>1, StartLinks, LinkStep
  <1>2. CASE pol[g][k].pc = "exit"
    <2>1. AWThreadExit(g, k)
      BY <1>0, <1>2 DEF AWNext, AWTimerExpires, AWStart, Handling, AWUpdateControllerData,
          AWSelecting, AWWaitForInterface, AWScanning, AWWaitingForIfaceTearDown,
          AWReconfiguration, AWRebootingPlatform, AWInterfaceActive, AWInterfaceDown,
          AWTearingDown, AWLeaveLoop
    <2>2. iface' = iface /\ pol'[g][k].pc # "loop"
      BY <2>1 DEF AWThreadExit, TypeOK, PolTypeOK, Outside
    <2> QED BY <1>0, <2>2, LinkStep
  <1>3. CASE pol[g][k].pc = "loop" /\ ActiveLinks(g) \subseteq {pol[g][k].idx}
    <2>1. CASE KeepsInterface(g, k)
      <3>1. pol[g][k].idx # NoIface => InitGroup[pol[g][k].idx] = g
        BY DEF HandOverInv, OwnInterfaces
      <3>2. \A i \in Ifaces : i # NoIface
        BY DEF Ifaces, NoIface
      <3>3. \A i \in Ifaces : InitGroup[i] # g => iface'[i].ActiveLink = iface[i].ActiveLink
        BY <2>1, <3>1, <3>2 DEF KeepsInterface
      <3>4. \A i \in Ifaces : InitGroup[i] = g /\ iface'[i].ActiveLink => i = pol'[g][k].idx
        BY <1>0, <1>3, <2>1 DEF KeepsInterface
      <3> QED BY <1>0, <3>3, <3>4, LinkStep
    <2>2. CASE TakesLink(g, k)
      <3>1. /\ \A i \in Ifaces : InitGroup[i] # g => iface'[i].ActiveLink = iface[i].ActiveLink
            /\ \A i \in Ifaces : InitGroup[i] = g => ~ iface'[i].ActiveLink
        BY <2>2 DEF TakesLink
      <3> QED BY <1>0, <3>1, LinkStep
    <2>3. CASE iface' = iface /\ pol[g][k].idx = NoIface
      <3>1. \A i \in Ifaces : i # NoIface
        BY DEF Ifaces, NoIface
      <3>2. \A i \in Ifaces : InitGroup[i] = g => ~ iface'[i].ActiveLink
        BY <1>0, <1>3, <2>3, <3>1
      <3> QED BY <1>0, <2>3, <3>2, LinkStep
    <2>4. CASE iface' = iface /\ pol'[g][k].pc # "loop"
      BY <1>0, <2>4, LinkStep
    <2> QED BY <1>0, <1>3, <2>1, <2>2, <2>3, <2>4, KnownLinkStep
  <1>4. CASE /\ pol[g][k].pc = "loop"
             /\ ~ pol[g][k].en /\ pol[g][k].st \in {"SELECTING", "SM_EXIT"}
    <2>1. /\ iface' = iface
          /\ \/ pol'[g][k].pc # "loop"
             \/ ~ pol'[g][k].en /\ pol'[g][k].st \in {"SELECTING", "SM_EXIT"}
      BY <1>0, <1>4, UnknownLinkStep
    <2> QED BY <1>0, <2>1, LinkStep
  <1>5. pol[g][k].pc \in {"start", "loop", "exit"}
    BY <1>0 DEF TypeOK, PolTypeOK, PolType, PolLive
  <1>6. pol[g][k].pc = "loop" => LinkKnown(g, k)
    BY DEF LinkInv
  <1> QED BY <1>1, <1>2, <1>3, <1>4, <1>5, <1>6 DEF LinkKnown

-----------------------------------------------------------------------------
(* What the state machines, the environment and the failover thread do to    *)
(* the fields ActiveLink, Status and Reset: a state machine publishes UP for *)
(* an ACTIVE interface only.                                                 *)
LEMMA StatusAfterDown ==
    ASSUME NEW i \in Ifaces, NEW k \in ISMSlots, ism[i][k].st \in ISMLoop,
           NEW s \in StatusesAfterDown(i, k)
    PROVE  s = iface[i].Status \/ s = "INITIALISING"
  BY DEF StatusesAfterDown, ISMLoop

PublishesStatus(i) ==
    \E s : /\ s = "UP" => iface[i].Status = "UP" \/ iface[i].Selection = "ACTIVE"
           /\ \/ iface' = [iface EXCEPT ![i].Status = s]
              \/ iface' = [iface EXCEPT ![i].Reset = FALSE, ![i].Status = s]
              \/ iface' = [iface EXCEPT ![i].Status = s, ![i].SMRunning = TRUE]
              \/ iface' = [iface EXCEPT ![i].Status = s, ![i].Connectivity = TRUE]
              \/ iface' = [iface EXCEPT ![i].Status = s, ![i].Reset = FALSE,
                                        ![i].SMRunning = FALSE]

LEMMA ISMFields ==
    ASSUME TypeOK, NEW i \in Ifaces, NEW k \in ISMSlots, ISMStep(i, k) \/ LayerStep(i, k)
    PROVE  \A j \in Ifaces :
              /\ iface'[j].ActiveLink = iface[j].ActiveLink
              /\ iface'[j].Status = "UP" =>
                    iface[j].Status = "UP" \/ iface[j].Selection = "ACTIVE"
              /\ iface'[j].Reset => iface[j].Reset
  <1>0. /\ iface \in [Ifaces -> IfaceType]
        /\ ISMNext(i, k)
    BY DEF TypeOK, DataTypeOK, ISMStep, LayerStep, ISMNext
  <1>1. \/ iface' = iface
        \/ iface' = [iface EXCEPT ![i].Reset = FALSE]
        \/ PublishesStatus(i)
    <2>1. CASE ISMStart(i, k) \/ ISMValidated(i, k) \/ ISMStandby(i, k) \/ ISMWanUp(i, k)
               \/ ISMUp(i, k) \/ ISMDeactivated(i, k) \/ ISMExit(i, k)
      BY <2>1 DEF ISMStart, ISMValidated, ISMStandby, ISMWanUp, ISMUp, ISMDeactivated, ISMExit,
                  PublishesStatus
    <2>2. CASE ISMDown(i, k) \/ ISMReset(i, k) \/ ISMLinkLost(i, k) \/ ISMRefreshAborted(i, k)
      <3>1. ism[i][k].st \in ISMLoop
        BY <2>2 DEF ISMDown, ISMReset, ISMLinkLost, ISMRefreshAborted, ISMLoop
      <3>2. PICK s \in StatusesAfterDown(i, k) :
                \/ iface' = [iface EXCEPT ![i].Status = s]
                \/ iface' = [iface EXCEPT ![i].Reset = FALSE, ![i].Status = s]
        BY <2>2 DEF ISMDown, ISMReset, ISMLinkLost, ISMRefreshAborted, PhysicalInterfaceDown
      <3>3. s = iface[i].Status \/ s = "INITIALISING"
        BY <3>1, StatusAfterDown
      <3> QED BY <3>2, <3>3 DEF PublishesStatus
    <2>3. CASE ISMSample(i, k) \/ ISMEnd(i, k) \/ ISMRefreshed(i, k) \/ ISMFeatureSwitched(i, k)
      BY <2>3 DEF ISMSample, ISMEnd, ISMRefreshed, ISMFeatureSwitched
    <2>4. CASE ISMLeaseLost(i, k) \/ ISMModeChanged(i, k)
      BY <2>4 DEF ISMLeaseLost, ISMModeChanged, PublishesStatus
    <2> QED BY <1>0, <2>1, <2>2, <2>3, <2>4 DEF ISMNext, ISMControl, ISMDisturbed
  <1>2. CASE iface' = iface
    BY <1>2
  <1>3. CASE iface' = [iface EXCEPT ![i].Reset = FALSE]
    BY <1>0, <1>3 DEF IfaceType
  <1>4. CASE PublishesStatus(i)
    <2>1. PICK s : /\ s = "UP" => iface[i].Status = "UP" \/ iface[i].Selection = "ACTIVE"
                   /\ \/ iface' = [iface EXCEPT ![i].Status = s]
                      \/ iface' = [iface EXCEPT ![i].Reset = FALSE, ![i].Status = s]
                      \/ iface' = [iface EXCEPT ![i].Status = s, ![i].SMRunning = TRUE]
                      \/ iface' = [iface EXCEPT ![i].Status = s, ![i].Connectivity = TRUE]
                      \/ iface' = [iface EXCEPT ![i].Status = s, ![i].Reset = FALSE,
                                                ![i].SMRunning = FALSE]
      BY <1>4 DEF PublishesStatus
    <2>2. /\ \A j \in Ifaces \ {i} : iface'[j] = iface[j]
          /\ iface'[i].Status = s
          /\ iface'[i].ActiveLink = iface[i].ActiveLink
          /\ iface'[i].Reset = FALSE \/ iface'[i].Reset = iface[i].Reset
      BY <1>0, <2>1 DEF IfaceType
    <2> QED BY <2>1, <2>2
  <1> QED BY <1>1, <1>2, <1>3, <1>4

LEMMA EnvironmentFields ==
    ASSUME TypeOK, HandOverAssumed, Environment
    PROVE  \A j \in Ifaces : /\ iface'[j].ActiveLink = iface[j].ActiveLink
                             /\ iface'[j].Status = iface[j].Status
  <1>0. iface \in [Ifaces -> IfaceType]
    BY DEF TypeOK, DataTypeOK
  <1>1. \/ iface' = iface
        \/ \E i \in Ifaces : \/ iface' = [iface EXCEPT ![i].Enable = ~ @]
                             \/ iface' = [iface EXCEPT ![i].PhyUp = ~ @]
                             \/ iface' = [iface EXCEPT ![i].Connectivity = ~ @]
                             \/ iface' = [iface EXCEPT ![i].Reset = ~ @]
    BY DEF Environment, SetWanEnable, SetSelectionEnable, SetBaseInterfaceStatus,
           SetConnectivityStatus, SetInterfaceReset, SetResetSelectedInterface, SetPolicy,
           ClearResetSelectedInterface, SetSelectionGroup, HandOverAssumed, FixedGroups
  <1> QED BY <1>0, <1>1 DEF IfaceType

LEMMA FailOverFields ==
    ASSUME TypeOK, FOStep
    PROVE  \A j \in Ifaces : /\ iface'[j].ActiveLink = iface[j].ActiveLink
                             /\ iface'[j].Status = iface[j].Status
                             /\ iface'[j].Reset = iface[j].Reset
  <1>0. iface \in [Ifaces -> IfaceType]
    BY DEF TypeOK, DataTypeOK
  <1>1. \/ iface' = iface
        \/ \E i : iface' = [iface EXCEPT ![i].Selection = "SELECTED"]
        \/ \E i : iface' = [iface EXCEPT ![i].Selection = "ACTIVE"]
    BY FOActiveStep DEF DeactivateGroup
  <1> QED BY <1>0, <1>1 DEF IfaceType

-----------------------------------------------------------------------------
LEMMA LinkInductive ==
    ASSUME HandOverAssumed
    PROVE  TypeOK /\ TypeOK' /\ HandOverInv /\ HandOverInv' /\ LinkInv /\ [Next]_vars => LinkInv'
  <1> SUFFICES ASSUME TypeOK, TypeOK', HandOverInv, HandOverInv', LinkInv, [Next]_vars
               PROVE  LinkInv'
    OBVIOUS
  <1>1. ASSUME NEW i \in Ifaces, NEW k \in ISMSlots, ISMStep(i, k) \/ LayerStep(i, k)
        PROVE  LinkInv'
    BY <1>1, ISMFields, SameLinks DEF ISMStep, LayerStep
  <1>2. CASE Environment /\ UNCHANGED <<ism, pol, fo>>
    BY <1>2, EnvironmentFields, SameLinks
  <1>3. CASE UNCHANGED vars
    BY <1>3, SameLinks DEF vars
  <1>4. CASE FOStep
    <2>1. CASE FOIfaceGroupMonitor
      <3>1. ASSUME NEW g \in Groups, NEW k \in PolSlots
            PROVE  pol'[g][k] = pol[g][k] \/ pol'[g][k].pc = "start"
        <4>1. CASE pol'[g] = pol[g]
          BY <4>1
        <4>2. ASSUME NEW n \in PolSlots, pol'[g] = [pol[g] EXCEPT ![n] = Outside("start")]
              PROVE  pol'[g][k] = pol[g][k] \/ pol'[g][k].pc = "start"
          BY <4>2 DEF TypeOK, PolTypeOK, Outside
        <4> QED BY <2>1, <4>1, <4>2, MonitorStarts
      <3> QED BY <1>4, <3>1, FailOverFields, SameLinks
    <2>2. CASE ~ FOIfaceGroupMonitor
      BY <1>4, <2>2, FOStepKeepsThreads, FailOverFields, SameLinks
    <2> QED BY <2>1, <2>2
  <1>5. CASE \E g \in Groups, k \in PolSlots : PolStep(g, k)
    BY <1>5, PolStepLinks
  <1> QED BY <1>1, <1>2, <1>3, <1>4, <1>5 DEF Next, ThreadStep, EnvStep

(* At most one interface of a group has ActiveLink, which is written to PSM  *)
(* and read back by WanMgr_GetPrevSelectedInterface when the next thread of  *)
(* the group starts: InterfaceValidated marks an interface only when the     *)
(* mark of every other one was taken away, through resets, changes of the    *)
(* policy, a reboot of the platform and a disable.                           *)
THEOREM LinkIsUnique ==
    ASSUME HandOverAssumed
    PROVE  Spec => []OneActiveLink
  <1>1. Init => LinkInv
    BY DEF Init, DataInit, InitIfaces, PolInit, Outside, LinkInv, OneActiveLink, ActiveLinks,
           InterfaceAvailable
  <1>2. TypeOK /\ TypeOK' /\ HandOverInv /\ HandOverInv' /\ LinkInv /\ [Next]_vars => LinkInv'
    BY LinkInductive
  <1>3. LinkInv => OneActiveLink
    BY DEF LinkInv
  <1> QED BY <1>1, <1>2, <1>3, TypeCorrect, HandOver, PTL DEF Spec

-----------------------------------------------------------------------------
(* Nobody asks for a reset, another policy or a disable, and no interface    *)
(* needs a reboot: links, leases and connectivity checks do what they like.  *)
NoRequests ==
    /\ <<"disable", 0>> \notin Events
    /\ \A g \in Groups : <<"resetselected", g>> \notin Events /\ <<"policy", g>> \notin Events
    /\ \A i \in Ifaces : <<"reset", i>> \notin Events
    /\ RequiresReboot = {}

(* Then no thread ever sees one.                                             *)
TablesUnasked ==
    /\ config = [Enable |-> TRUE, ResetFailOverScan |-> FALSE]
    /\ \A g \in Groups : ~ group[g].ConfigChanged /\ ~ group[g].ResetSelectedInterface
    /\ \A i \in Ifaces : ~ iface[i].Reset
SelectionUnasked ==
    \A g \in Groups, k \in PolSlots :
        /\ pol[g][k].pc # "exit"
        /\ pol[g][k].pc = "loop" =>
              /\ pol[g][k].en /\ ~ pol[g][k].cfg /\ ~ pol[g][k].rst
              /\ pol[g][k].st \notin {"REBOOT_PLATFORM", "TEARING_DOWN", "SM_EXIT"}
FailOverUnasked ==
    /\ ~ fo.rs /\ fo.st # "EXIT" /\ fo.pc # "join"
    /\ fo.pc \in {"monitor", "state"} => fo.en
    /\ fo.pc = "off" => fo.cur = NoGroup

Unasked == TablesUnasked /\ SelectionUnasked /\ FailOverUnasked

(* An interface in service is the one of CurrentActiveGroup, and there is    *)
(* none when the next group is activated.                                    *)
UpIsCurrent ==
    \A i \in Ifaces : iface[i].Status = "UP" => fo.cur # NoGroup /\ Selected(fo.cur) = i
NoneUpAtActivation ==
    fo.pc = "activate" => \A i \in Ifaces : iface[i].Status # "UP"

ServiceInv == Unasked /\ UpIsCurrent /\ NoneUpAtActivation
(* A selection thread that was asked nothing stays in its loop, gives up no  *)
(* selected interface and puts nothing in service.                           *)
BadStates == {"REBOOT_PLATFORM", "TEARING_DOWN", "SM_EXIT"}

LEMMA UnaskedStates ==
    ASSUME NEW g \in Groups, NEW k \in PolSlots, Unasked, NoRequests, PolStep(g, k)
    PROVE  /\ ~ Stopping(g, k) \/ pol[g][k].pc # "loop"
           /\ \/ AWStart(g, k) \/ AWUpdateControllerData(g, k) \/ AWTimerExpires(g, k)
              \/ AWSelecting(g, k) \/ AWWaitForInterface(g, k) \/ AWScanning(g, k)
              \/ AWWaitingForIfaceTearDown(g, k) \/ AWReconfiguration(g, k)
              \/ AWInterfaceActive(g, k) \/ AWInterfaceDown(g, k)
  <1>1. ~ Stopping(g, k) \/ pol[g][k].pc # "loop"
    BY DEF Unasked, SelectionUnasked, Stopping
  <1>2. /\ ~ AWRebootingPlatform(g, k) /\ ~ AWTearingDown(g, k) /\ ~ AWLeaveLoop(g, k)
        /\ ~ AWThreadExit(g, k)
    BY DEF Unasked, SelectionUnasked, Handling, AWRebootingPlatform, AWTearingDown,
           AWLeaveLoop, AWThreadExit
  <1> QED BY <1>1, <1>2 DEF PolStep, AWNext

LEMMA UnaskedThread ==
    ASSUME TypeOK, HandOverInv, Unasked, NoRequests, NEW g \in Groups, NEW k \in PolSlots,
           PolStep(g, k)
    PROVE  \/ AWUpdateControllerData(g, k) \/ AWTimerExpires(g, k)
           \/ \E s, i : s \notin BadStates /\ EndsIn(g, k, s, i)
  <1>1. ASSUME NEW s, NEW i, NEW x, s \notin BadStates, Goto(g, k, s, i, x)
        PROVE  \E t, j : t \notin BadStates /\ EndsIn(g, k, t, j)
    BY <1>1, GotoFields
  <1>2. ~ Stopping(g, k) \/ pol[g][k].pc # "loop"
    BY UnaskedStates
  <1>3. pol[g][k].pc = "loop" => ~ pol[g][k].rst
    BY DEF Unasked, SelectionUnasked
  <1>4. CASE AWStart(g, k)
    BY <1>1, <1>4 DEF AWStart, BadStates
  <1>5. CASE AWSelecting(g, k)
    BY <1>1, <1>2, <1>5 DEF AWSelecting, BadStates, Handling
  <1>6. CASE AWWaitForInterface(g, k)
    <2>1. \/ Goto(g, k, "SELECTING", NoIface, FALSE)
          \/ Goto(g, k, "SCANNING", pol[g][k].idx, pol[g][k].expired)
          \/ Goto(g, k, "WAITING", pol[g][k].idx, pol[g][k].expired)
      BY <1>2, <1>6 DEF AWWaitForInterface, InterfaceInvalid, Handling
    <2>2. CASE Goto(g, k, "SELECTING", NoIface, FALSE)
      BY <1>1, <2>2 DEF BadStates
    <2>3. CASE Goto(g, k, "SCANNING", pol[g][k].idx, pol[g][k].expired)
      BY <1>1, <2>3 DEF BadStates
    <2>4. CASE Goto(g, k, "WAITING", pol[g][k].idx, pol[g][k].expired)
      BY <1>1, <2>4 DEF BadStates
    <2> QED BY <2>1, <2>2, <2>3, <2>4
  <1>7. CASE AWScanning(g, k)
    <2>1. \/ Goto(g, k, "TEARDOWN", pol[g][k].idx, FALSE)
          \/ Goto(g, k, "RECONFIGURATION", pol[g][k].idx, FALSE)
          \/ Goto(g, k, "WAITING", pol[g][k].idx, pol[g][k].expired)
          \/ Goto(g, k, "SCANNING", pol[g][k].idx, FALSE)
      BY <1>2, <1>7 DEF AWScanning, InterfaceDeselect, InterfaceValidated, Handling
    <2>2. CASE Goto(g, k, "TEARDOWN", pol[g][k].idx, FALSE)
      BY <1>1, <2>2 DEF BadStates
    <2>3. CASE Goto(g, k, "RECONFIGURATION", pol[g][k].idx, FALSE)
      BY <1>1, <2>3 DEF BadStates
    <2>4. CASE Goto(g, k, "WAITING", pol[g][k].idx, pol[g][k].expired)
      BY <1>1, <2>4 DEF BadStates
    <2>5. CASE Goto(g, k, "SCANNING", pol[g][k].idx, FALSE)
      BY <1>1, <2>5 DEF BadStates
    <2> QED BY <2>1, <2>2, <2>3, <2>4, <2>5
  <1>8. CASE AWWaitingForIfaceTearDown(g, k)
    BY <1>1, <1>2, <1>3, <1>8 DEF AWWaitingForIfaceTearDown, InterfaceInvalid, BadStates, Handling
  <1>9. CASE AWReconfiguration(g, k)
    BY <1>1, <1>9 DEF AWReconfiguration, NoRequests, BadStates
  <1>10. CASE AWInterfaceActive(g, k)
    BY <1>1, <1>10 DEF AWInterfaceActive, InterfaceDeselect, BadStates
  <1>11. CASE AWInterfaceDown(g, k)
    BY <1>1, <1>11 DEF AWInterfaceDown, InterfaceDeselect, BadStates
  <1> QED
    BY <1>4, <1>5, <1>6, <1>7, <1>8, <1>9, <1>10, <1>11, UnaskedStates

LEMMA UnaskedGroups ==
    ASSUME TypeOK, HandOverInv, Unasked, NoRequests, NEW g \in Groups, NEW k \in PolSlots,
           PolStep(g, k)
    PROVE  /\ config' = config
           /\ \A h \in Groups :
                 /\ group'[h].ConfigChanged = group[h].ConfigChanged
                 /\ group'[h].ResetSelectedInterface = group[h].ResetSelectedInterface
                 /\ Selected(h) # NoIface => group'[h].SelectedInterface = Selected(h)
  <1>0. group \in [Groups -> GroupType]
    BY DEF TypeOK, DataTypeOK
  <1>1. pol[g][k].pc = "loop" => ~ Stopping(g, k) /\ ~ pol[g][k].rst
    BY UnaskedStates DEF Unasked, SelectionUnasked
  <1>2. ASSUME UNCHANGED <<config, group>>
        PROVE  /\ config' = config
               /\ \A h \in Groups :
                     /\ group'[h].ConfigChanged = group[h].ConfigChanged
                     /\ group'[h].ResetSelectedInterface = group[h].ResetSelectedInterface
                     /\ Selected(h) # NoIface => group'[h].SelectedInterface = Selected(h)
    BY <1>2 DEF Selected
  <1>3. ASSUME config' = config, NEW b, group' = [group EXCEPT ![g].InitialScanComplete = b]
        PROVE  /\ config' = config
               /\ \A h \in Groups :
                     /\ group'[h].ConfigChanged = group[h].ConfigChanged
                     /\ group'[h].ResetSelectedInterface = group[h].ResetSelectedInterface
                     /\ Selected(h) # NoIface => group'[h].SelectedInterface = Selected(h)
    BY <1>0, <1>3 DEF GroupType, Selected
  <1>4. ASSUME config' = config, group' = SetGroupSelectedIface(group, g, pol[g][k].idx),
               pol[g][k].pc = "loop"
        PROVE  /\ config' = config
               /\ \A h \in Groups :
                     /\ group'[h].ConfigChanged = group[h].ConfigChanged
                     /\ group'[h].ResetSelectedInterface = group[h].ResetSelectedInterface
                     /\ Selected(h) # NoIface => group'[h].SelectedInterface = Selected(h)
    <2>1. Selected(g) # NoIface => pol[g][k].idx = Selected(g)
      BY <1>4 DEF HandOverInv, SelectedIsHeld
    <2> QED BY <1>0, <1>4, <2>1, SelectedFields DEF Selected
  <1>5. CASE AWSelecting(g, k) \/ AWWaitForInterface(g, k)
    BY <1>2, <1>3, <1>5 DEF AWSelecting, AWWaitForInterface, InterfaceInvalid
  <1>6. CASE AWScanning(g, k)
    BY <1>2, <1>4, <1>6 DEF AWScanning, InterfaceDeselect, InterfaceValidated, Handling
  <1>7. CASE AWWaitingForIfaceTearDown(g, k)
    BY <1>1, <1>2, <1>7 DEF AWWaitingForIfaceTearDown, InterfaceInvalid, Handling
  <1>8. CASE AWInterfaceActive(g, k) \/ AWInterfaceDown(g, k)
    BY <1>2, <1>4, <1>8 DEF AWInterfaceActive, AWInterfaceDown, InterfaceDeselect, Handling
  <1>9. CASE AWStart(g, k) \/ AWUpdateControllerData(g, k) \/ AWTimerExpires(g, k)
             \/ AWReconfiguration(g, k)
    BY <1>2, <1>9 DEF AWStart, AWUpdateControllerData, AWTimerExpires, AWReconfiguration
  <1> QED BY <1>5, <1>6, <1>7, <1>8, <1>9, UnaskedStates

LEMMA UnaskedInterfaces ==
    ASSUME TypeOK, HandOverInv, Unasked, NoRequests, NEW g \in Groups, NEW k \in PolSlots,
           PolStep(g, k)
    PROVE  \A j \in Ifaces : /\ iface'[j].Reset = iface[j].Reset
                             /\ iface'[j].Status = "UP" => iface[j].Status = "UP"
  <1>0. iface \in [Ifaces -> IfaceType]
    BY DEF TypeOK, DataTypeOK
  <1>1. pol[g][k].pc = "loop" => ~ Stopping(g, k) /\ ~ pol[g][k].rst
    BY UnaskedStates DEF Unasked, SelectionUnasked
  <1>2. CASE iface' = iface
    BY <1>2
  <1>3. CASE iface' = ResetIfaceTable(iface, g)
    BY <1>0, <1>3 DEF ResetIfaceTable, IfaceType
  <1>4. ASSUME NEW i, \/ iface' = [iface EXCEPT ![i].Selection = "NOT_SELECTED"]
                      \/ iface' = [iface EXCEPT ![i].Selection = "SELECTED"]
                      \/ iface' = [iface EXCEPT ![i].ActiveLink = TRUE]
                      \/ iface' = [iface EXCEPT ![i].Status = "INVALID", ![i].ActiveLink = FALSE]
        PROVE  \A j \in Ifaces : /\ iface'[j].Reset = iface[j].Reset
                                 /\ iface'[j].Status = "UP" => iface[j].Status = "UP"
    BY <1>0, <1>4 DEF IfaceType
  <1>5. CASE AWSelecting(g, k) \/ AWWaitForInterface(g, k)
    BY <1>2, <1>3, <1>4, <1>5 DEF AWSelecting, AWWaitForInterface, InterfaceInvalid
  <1>6. CASE AWScanning(g, k)
    BY <1>2, <1>4, <1>6 DEF AWScanning, InterfaceDeselect, InterfaceValidated
  <1>7. CASE AWWaitingForIfaceTearDown(g, k)
    BY <1>1, <1>2, <1>4, <1>7 DEF AWWaitingForIfaceTearDown, InterfaceInvalid, Handling
  <1>8. CASE AWInterfaceActive(g, k) \/ AWInterfaceDown(g, k) \/ AWReconfiguration(g, k)
    BY <1>2, <1>4, <1>8 DEF AWInterfaceActive, AWInterfaceDown, AWReconfiguration, InterfaceDeselect
  <1>9. CASE AWUpdateControllerData(g, k) \/ AWTimerExpires(g, k)
    BY <1>2, <1>9 DEF AWUpdateControllerData, AWTimerExpires
  <1>10. CASE AWStart(g, k)
    <2> DEFINE prev == IF config.Enable THEN PrevSelectedInterface(g) ELSE NoIface
               keep == prev # NoIface /\ iface[prev].Enable
    <2>1. iface' = [i \in Ifaces |-> IF i = prev
                            THEN [iface[i] EXCEPT !.ActiveLink = keep] ELSE iface[i]]
      BY <1>10 DEF AWStart
    <2> HIDE DEF prev, keep
    <2> QED BY <1>0, <2>1 DEF IfaceType
  <1> QED BY <1>5, <1>6, <1>7, <1>8, <1>9, <1>10, UnaskedStates

LEMMA UnaskedPolStep ==
    ASSUME TypeOK, HandOverInv, Unasked, NoRequests, NEW g \in Groups, NEW k \in PolSlots,
           PolStep(g, k)
    PROVE  Unasked'
  <1>1. TablesUnasked'
    BY UnaskedGroups, UnaskedInterfaces DEF Unasked, TablesUnasked
  <1>2. \A h \in Groups, l \in PolSlots : h # g \/ l # k => pol'[h][l] = pol[h][l]
    BY PolStepEffect DEF OthersUntouched
  <1>3. /\ pol'[g][k].pc # "exit"
        /\ pol'[g][k].pc = "loop" =>
              /\ pol'[g][k].en /\ ~ pol'[g][k].cfg /\ ~ pol'[g][k].rst
              /\ pol'[g][k].st \notin BadStates
    <2>0. pol \in [Groups -> [PolSlots -> PolType]]
      BY DEF TypeOK, PolTypeOK
    <2>1. config.Enable /\ ~ group[g].ConfigChanged /\ ~ group[g].ResetSelectedInterface
      BY DEF Unasked, TablesUnasked
    <2>2. ~ group'[g].ResetSelectedInterface
      BY <2>1, UnaskedGroups
    <2>3. ASSUME NEW s, NEW i, s \notin BadStates, EndsIn(g, k, s, i)
          PROVE  /\ pol'[g][k].pc = "loop" /\ pol'[g][k].st = s
                 /\ pol'[g][k].en /\ ~ pol'[g][k].cfg /\ ~ pol'[g][k].rst
      BY <2>1, <2>2, <2>3 DEF EndsIn
    <2>4. CASE AWUpdateControllerData(g, k)
      <3>1. /\ pol'[g][k].pc = "loop" /\ pol'[g][k].st = pol[g][k].st /\ pol[g][k].pc = "loop"
            /\ pol'[g][k].en = config.Enable
            /\ pol'[g][k].cfg = group[g].ConfigChanged
            /\ pol'[g][k].rst = group[g].ResetSelectedInterface
        BY <2>0, <2>4 DEF AWUpdateControllerData, PolType
      <3> QED BY <2>1, <3>1 DEF Unasked, SelectionUnasked, BadStates
    <2>5. CASE AWTimerExpires(g, k)
      <3>1. /\ pol'[g][k].pc = "loop" /\ pol'[g][k].st = pol[g][k].st /\ pol[g][k].pc = "loop"
            /\ pol'[g][k].en = pol[g][k].en
            /\ pol'[g][k].cfg = pol[g][k].cfg
            /\ pol'[g][k].rst = pol[g][k].rst
        BY <2>0, <2>5 DEF AWTimerExpires, PolType
      <3> QED BY <3>1 DEF Unasked, SelectionUnasked, BadStates
    <2> QED BY <2>3, <2>4, <2>5, UnaskedThread
  <1>4. SelectionUnasked'
    BY <1>2, <1>3 DEF Unasked, SelectionUnasked, BadStates
  <1>5. FailOverUnasked'
    BY DEF Unasked, FailOverUnasked, PolStep
  <1> QED BY <1>1, <1>4, <1>5 DEF Unasked

-----------------------------------------------------------------------------
(* The steps of the others but the failover thread                           *)
LEMMA UnaskedISM ==
    ASSUME TypeOK, Unasked, NEW i \in Ifaces, NEW k \in ISMSlots, ISMStep(i, k) \/ LayerStep(i, k)
    PROVE  Unasked'
  <1>0. /\ config \in ConfigType /\ ISMNext(i, k) /\ UNCHANGED <<pol, fo>>
        /\ ~ iface[i].Reset /\ ~ config.ResetFailOverScan
    BY DEF TypeOK, DataTypeOK, ISMStep, LayerStep, ISMNext, Unasked, TablesUnasked
  <1>1. group' = group
    BY <1>0 DEF ISMNext, ISMControl, ISMDisturbed, ISMStart, ISMSample, ISMDown, ISMReset,
                PhysicalInterfaceDown, ISMValidated, ISMStandby, ISMUp, ISMDeactivated,
                ISMRefreshAborted, ISMRefreshed, ISMExit, ISMEnd, ISMLinkLost,
                ISMLeaseLost, ISMWanUp, ISMFeatureSwitched, ISMModeChanged
  <1>2. config' = config
    <2>1. config' = config \/ config' = [config EXCEPT !.ResetFailOverScan = @ \/ iface[i].Reset]
      BY <1>0 DEF ISMNext, ISMControl, ISMDisturbed, ISMStart, ISMSample, ISMDown, ISMReset,
                PhysicalInterfaceDown, ISMValidated, ISMStandby, ISMUp, ISMDeactivated,
                ISMRefreshAborted, ISMRefreshed, ISMExit, ISMEnd, ISMLinkLost,
                ISMLeaseLost, ISMWanUp, ISMFeatureSwitched, ISMModeChanged
    <2>2. config = [Enable |-> TRUE, ResetFailOverScan |-> FALSE]
      BY DEF Unasked, TablesUnasked
    <2> QED BY <1>0, <2>1, <2>2
  <1>3. \A j \in Ifaces : ~ iface'[j].Reset
    BY ISMFields DEF Unasked, TablesUnasked
  <1> QED BY <1>0, <1>1, <1>2, <1>3 DEF Unasked, TablesUnasked, SelectionUnasked, FailOverUnasked

LEMMA UnaskedEnvironment ==
    ASSUME TypeOK, Unasked, NoRequests, HandOverAssumed, Environment, UNCHANGED <<ism, pol, fo>>
    PROVE  Unasked' /\ group' = group
  <1>0. iface \in [Ifaces -> IfaceType] /\ config.Enable
    BY DEF TypeOK, DataTypeOK, Unasked, TablesUnasked
  <1>1. PICK i \in Ifaces : \/ SetSelectionEnable(i) \/ SetBaseInterfaceStatus(i)
                            \/ SetConnectivityStatus(i)
    <2>1. ~ SetWanEnable
      BY <1>0 DEF SetWanEnable, NoRequests
    <2>2. \A i \in Ifaces : ~ SetInterfaceReset(i) /\ ~ SetSelectionGroup(i)
      BY DEF SetInterfaceReset, SetSelectionGroup, NoRequests, HandOverAssumed, FixedGroups
    <2>3. \A g \in Groups : /\ ~ SetResetSelectedInterface(g) /\ ~ SetPolicy(g)
                            /\ ~ ClearResetSelectedInterface(g)
      BY DEF SetResetSelectedInterface, SetPolicy, ClearResetSelectedInterface, NoRequests,
             HandOverAssumed, RequestsStay
    <2> QED BY <2>1, <2>2, <2>3 DEF Environment
  <1>2. UNCHANGED <<config, group>>
    BY <1>1 DEF SetSelectionEnable, SetBaseInterfaceStatus, SetConnectivityStatus
  <1>3. \A j \in Ifaces : iface'[j].Reset = iface[j].Reset
    BY <1>0, <1>1 DEF SetSelectionEnable, SetBaseInterfaceStatus, SetConnectivityStatus, IfaceType
  <1> QED BY <1>2, <1>3 DEF Unasked, TablesUnasked, SelectionUnasked, FailOverUnasked
-----------------------------------------------------------------------------
(* The failover thread                                                       *)
LEMMA FOGotoCopies ==
    ASSUME NEW f \in FOType, NEW s, FOGoto(f, s)
    PROVE  ~ fo'.rs
  BY DEF FOGoto, FOType

LEMMA MarkCopies ==
    ASSUME TypeOK, ~ fo.rs, NEW g \in Groups, NEW h \in Groups \cup {NoGroup}, MarkGroup(g, h)
    PROVE  ~ fo'.rs
  <1> DEFINE m == IF group[g].ConfigChanged THEN fo.cur ELSE Marked(h, g)
             f == [fo EXCEPT !.high = m]
  <1>1. fo \in FOType /\ m \in Groups \cup {NoGroup}
    BY MarkedType DEF TypeOK, FOTypeOK, FOType
  <1>2. Decide(f) \/ fo' = [f EXCEPT !.pc = "mark", !.idx = g + 1]
    BY DEF MarkGroup
  <1> HIDE DEF m
  <1>3. f \in FOType /\ ~ f.rs
    BY <1>1 DEF FOType
  <1> HIDE DEF f
  <1>4. CASE fo' = [f EXCEPT !.pc = "mark", !.idx = g + 1]
    BY <1>3, <1>4 DEF FOType
  <1>5. CASE Decide(f)
    <2> DEFINE e == [f EXCEPT !.timer = 0]
    <2>1. 0 \in 0 .. MaxTimer
      BY FailOverAssumption
    <2>2. e \in FOType
      BY <1>3, <2>1 DEF FOType
    <2>3. \/ fo' = [f EXCEPT !.pc = "activate", !.idx = NoGroup]
          \/ fo' = [f EXCEPT !.pc = "deactivate", !.idx = NoGroup]
          \/ FOGoto(e, "RESTORATION_WAIT")
          \/ FOGoto(f, f.st)
      BY <1>5 DEF Decide
    <2> HIDE DEF e
    <2>4. CASE \/ fo' = [f EXCEPT !.pc = "activate", !.idx = NoGroup]
               \/ fo' = [f EXCEPT !.pc = "deactivate", !.idx = NoGroup]
      BY <1>3, <2>4 DEF FOType
    <2> QED BY <1>3, <2>2, <2>3, <2>4, FOGotoCopies
  <1> QED BY <1>2, <1>4, <1>5

(* What it does when it was asked nothing: it never leaves its loop, and     *)
(* CurrentActiveGroup changes in an activation only, which comes when        *)
(* nothing is in service.                                                    *)
LEMMA UnaskedFailOver ==
    ASSUME TypeOK, ScanInv, Unasked, FOStep
    PROVE  /\ FailOverUnasked'
           /\ \/ fo'.cur = fo.cur
              \/ fo.pc = "activate" /\ fo'.pc # "activate"
           /\ fo'.pc = "activate" => fo.cur = NoGroup \/ CurrentGroupDeactivated
  <1>0. /\ fo \in FOType /\ 1 \in Groups /\ NoGroup \in Groups \cup {NoGroup}
        /\ fo.high \in Groups \cup {NoGroup} /\ fo.idx \in Groups \cup {NoGroup}
    BY SizesAssumption DEF TypeOK, FOTypeOK, FOType, Groups
  <1>1. /\ ~ fo.rs /\ fo.st # "EXIT" /\ fo.pc # "join"
        /\ fo.pc \in {"monitor", "state"} => fo.en
        /\ fo.pc = "off" => fo.cur = NoGroup
        /\ config.Enable /\ ~ config.ResetFailOverScan
    BY DEF Unasked, FailOverUnasked, TablesUnasked
  <1>2. ASSUME NEW s, s # "EXIT", FOGoto(fo, s)
        PROVE  FailOverUnasked' /\ fo'.cur = fo.cur /\ fo'.pc # "activate"
    <2>1. fo'.pc = "sample" /\ fo'.st = s /\ fo'.cur = fo.cur /\ ~ fo'.rs
      BY <1>0, <1>2, FOGotoFields, FOGotoCopies
    <2> QED BY <1>2, <2>1 DEF FailOverUnasked
  <1>3. ASSUME NEW g \in Groups, NEW h \in Groups \cup {NoGroup}, MarkGroup(g, h)
        PROVE  /\ FailOverUnasked' /\ fo'.cur = fo.cur
               /\ fo'.pc = "activate" => fo.cur = NoGroup
    <2>1. /\ fo'.cur = fo.cur
          /\ fo'.pc \in {"sample", "deactivate", "activate", "mark"}
          /\ fo'.pc = "activate" => fo.st = "SCANNING_GROUP"
          /\ fo'.st = fo.st \/ fo'.st = "RESTORATION_WAIT"
      BY <1>3, MarkGroupFields
    <2>2. ~ fo'.rs
      BY <1>1, <1>3, MarkCopies
    <2>3. fo.st = "SCANNING_GROUP" => fo.cur = NoGroup
      BY DEF ScanInv, PositionFits
    <2> QED BY <1>1, <2>1, <2>2, <2>3 DEF FailOverUnasked
  <1>4. CASE FOThreadStart
    <2>1. fo' = FOOutside("first") /\ fo.cur = NoGroup
      BY <1>1, <1>4 DEF FOThreadStart
    <2> QED BY <2>1 DEF FOOutside, FailOverUnasked
  <1>5. CASE FOUpdateControllerData
    <2>1. /\ fo'.pc = "monitor" /\ fo'.st = fo.st /\ fo'.cur = fo.cur
          /\ fo'.en = config.Enable /\ fo'.rs = config.ResetFailOverScan
      BY <1>0, <1>5 DEF FOUpdateControllerData, FOType
    <2> QED BY <1>1, <2>1 DEF FailOverUnasked
  <1>6. CASE FOIfaceGroupMonitor
    <2>1. /\ fo.pc \in {"first", "monitor"}
          /\ fo'.pc = IF fo.pc = "first" THEN "sample" ELSE "state"
          /\ fo'.st = fo.st /\ fo'.cur = fo.cur /\ fo'.rs = fo.rs
      BY <1>0, <1>6 DEF FOIfaceGroupMonitor, FOType
    <2>2. fo'.en = fo.en
      BY <1>0, <1>6 DEF FOIfaceGroupMonitor, FOType
    <2> QED BY <1>1, <2>1, <2>2 DEF FailOverUnasked
  <1>7. CASE FOTick
    <2>1. fo'.pc = "sample" /\ fo'.st = fo.st /\ fo'.cur = fo.cur /\ fo'.rs = fo.rs
      BY <1>0, <1>7 DEF FOTick, FOType
    <2> QED BY <1>1, <2>1 DEF FailOverUnasked
  <1>8. CASE FOScanningGroup
    <2>1. MarkGroup(1, NoGroup)
      BY <1>1, <1>8 DEF FOScanningGroup, FOHandling
    <2> QED BY <1>0, <1>3, <2>1
  <1>9. CASE FOMarkHighPriorityGroup
    <2>1. fo.idx \in Groups /\ MarkGroup(fo.idx, fo.high)
      BY <1>0, <1>9 DEF FOMarkHighPriorityGroup, ScanInv, PositionFits
    <2> QED BY <1>0, <1>3, <2>1
  <1>10. CASE FOGroupActive
    <2>1. MarkGroup(1, NoGroup)
      BY <1>1, <1>10 DEF FOGroupActive, FOHandling
    <2> QED BY <1>0, <1>3, <2>1
  <1>11. CASE FODeactivate \/ FORestorationWait
    <2>1. \E s \in InService : FOGoto(fo, s)
      BY <1>11 DEF FODeactivate, FORestorationWait, TransitionDeactivateGroup, InService
    <2> QED BY <1>2, <2>1 DEF InService
  <1>12. CASE FODeactivateGroup
    <2>1. \/ FOGoto(fo, "DEACTIVATE_GROUP")
          \/ CurrentGroupDeactivated /\ fo' = [fo EXCEPT !.pc = "activate"]
      BY <1>1, <1>12 DEF FODeactivateGroup, FOHandling
    <2>2. CASE FOGoto(fo, "DEACTIVATE_GROUP")
      BY <1>2, <2>2
    <2>3. CASE CurrentGroupDeactivated /\ fo' = [fo EXCEPT !.pc = "activate"]
      <3>1. fo'.pc = "activate" /\ fo'.st = fo.st /\ fo'.cur = fo.cur /\ fo'.rs = fo.rs
        BY <1>0, <2>3 DEF FOType
      <3> QED BY <1>1, <2>3, <3>1 DEF FailOverUnasked
    <2> QED BY <2>1, <2>2, <2>3
  <1>13. CASE FOActivateGroup
    <2> DEFINE e == [fo EXCEPT !.cur = fo.high]
    <2>1. e \in FOType
      BY <1>0 DEF FOType
    <2>2. FOGoto(e, "GROUP_ACTIVE") \/ FOGoto(fo, "GROUP_ACTIVE")
      BY <1>13 DEF FOActivateGroup
    <2> HIDE DEF e
    <2>3. fo'.pc = "sample" /\ fo'.st = "GROUP_ACTIVE" /\ ~ fo'.rs
      BY <1>0, <2>1, <2>2, FOGotoFields, FOGotoCopies
    <2> QED BY <1>13, <2>3 DEF FOActivateGroup, FailOverUnasked
  <1>14. ~ FOExit /\ ~ FOJoin
    BY <1>1 DEF FOExit, FOJoin, FOHandling
  <1> QED
    BY <1>4, <1>5, <1>6, <1>7, <1>8, <1>9, <1>10, <1>11, <1>12, <1>13, <1>14 DEF FOStep, FONext

LEMMA UnaskedFOStep ==
    ASSUME TypeOK, ScanInv, Unasked, FailOverType = "HOTSWAP", FOStep
    PROVE  /\ Unasked'
           /\ \A g \in Groups : group'[g].SelectedInterface = Selected(g)
  <1>0. config = [Enable |-> TRUE, ResetFailOverScan |-> FALSE]
    BY DEF Unasked, TablesUnasked
  <1>1. FailOverUnasked'
    BY UnaskedFailOver
  <1>2. \A j \in Ifaces : ~ iface'[j].Reset
    BY FailOverFields DEF Unasked, TablesUnasked
  <1>3. config' = config
    <2>1. config' = config \/ config' = [config EXCEPT !.ResetFailOverScan = FALSE]
      BY DEF FOStep, FONext, FOThreadStart, FOUpdateControllerData, FOScanningGroup,
                  FOMarkHighPriorityGroup, FOGroupActive, FODeactivate, FORestorationWait,
                  FODeactivateGroup, FOExit, FOJoin, FOTick, FOIfaceGroupMonitor, FOActivateGroup
    <2> QED BY <1>0, <2>1
  <1>4. ASSUME NEW g \in Groups
        PROVE  /\ ~ group'[g].ConfigChanged /\ ~ group'[g].ResetSelectedInterface
               /\ group'[g].SelectedInterface = Selected(g)
    <2>0. /\ group \in [Groups -> GroupType]
          /\ ~ group[g].ConfigChanged /\ ~ group[g].ResetSelectedInterface
      BY DEF TypeOK, DataTypeOK, Unasked, TablesUnasked
    <2>1. CASE FOIfaceGroupMonitor
      BY <2>0, <2>1, ZenonT(30) DEF FOIfaceGroupMonitor, GroupType, Selected
    <2>2. CASE ~ FOIfaceGroupMonitor
      BY <2>0, <2>2, FOReadsGroups DEF Selected
    <2> QED BY <2>1, <2>2
  <1>5. SelectionUnasked'
    <2>1. CASE FOIfaceGroupMonitor
      <3>1. ASSUME NEW g \in Groups, NEW k \in PolSlots
            PROVE  pol'[g][k] = pol[g][k] \/ pol'[g][k].pc = "start"
        <4>1. CASE pol'[g] = pol[g]
          BY <4>1
        <4>2. ASSUME NEW n \in PolSlots, pol'[g] = [pol[g] EXCEPT ![n] = Outside("start")]
              PROVE  pol'[g][k] = pol[g][k] \/ pol'[g][k].pc = "start"
          BY <4>2 DEF TypeOK, PolTypeOK, Outside
        <4> QED BY <2>1, <4>1, <4>2, MonitorStarts
      <3> QED BY <3>1 DEF Unasked, SelectionUnasked
    <2>2. CASE ~ FOIfaceGroupMonitor
      BY <2>2, FOStepKeepsThreads DEF Unasked, SelectionUnasked
    <2> QED BY <2>1, <2>2
  <1> QED BY <1>0, <1>1, <1>2, <1>3, <1>4, <1>5 DEF Unasked, TablesUnasked

-----------------------------------------------------------------------------
(* A step of another thread: an interface that comes into service was ACTIVE *)
(* and is therefore the one of CurrentActiveGroup.                           *)
LEMMA OthersKeepService ==
    ASSUME TypeOK, HandOverInv, UpIsCurrent, NoneUpAtActivation, fo' = fo,
           \A h \in Groups : Selected(h) # NoIface => group'[h].SelectedInterface = Selected(h),
           \A j \in Ifaces : iface'[j].Status = "UP" =>
                                iface[j].Status = "UP" \/ iface[j].Selection = "ACTIVE"
    PROVE  UpIsCurrent' /\ NoneUpAtActivation'
  <1>1. /\ fo.cur \in Groups \cup {NoGroup} /\ \A j \in Ifaces : j # NoIface
        /\ fo.pc = "activate" => \A j \in Ifaces : iface[j].Selection # "ACTIVE"
    BY DEF TypeOK, FOTypeOK, FOType, Ifaces, NoIface, HandOverInv, NoneActiveBetween,
           BetweenActivations
  <1>2. \A j \in Ifaces : iface[j].Status = "UP" \/ iface[j].Selection = "ACTIVE" =>
           fo.cur # NoGroup /\ Selected(fo.cur) = j
    BY DEF UpIsCurrent, HandOverInv, ActiveIsCurrent, Selected
  <1>3. UpIsCurrent'
    BY <1>1, <1>2 DEF UpIsCurrent, Selected
  <1>4. NoneUpAtActivation'
    BY <1>1 DEF NoneUpAtActivation
  <1> QED BY <1>3, <1>4

LEMMA FOStepService ==
    ASSUME TypeOK, ScanInv, ServiceInv, FailOverType = "HOTSWAP", FOStep
    PROVE  UpIsCurrent' /\ NoneUpAtActivation'
  <1>1. \A g \in Groups : group'[g].SelectedInterface = Selected(g)
    BY UnaskedFOStep DEF ServiceInv
  <1>2. \A j \in Ifaces : iface'[j].Status = iface[j].Status
    BY FailOverFields
  <1>3. /\ fo.cur \in Groups \cup {NoGroup} /\ \A j \in Ifaces : j # NoIface
    BY DEF TypeOK, FOTypeOK, FOType, Ifaces, NoIface
  <1>4. /\ \/ fo'.cur = fo.cur
           \/ fo.pc = "activate" /\ fo'.pc # "activate"
        /\ fo'.pc = "activate" => fo.cur = NoGroup \/ CurrentGroupDeactivated
    BY UnaskedFailOver DEF ServiceInv
  <1>5. UpIsCurrent'
    <2>1. CASE fo'.cur = fo.cur
      BY <1>1, <1>2, <1>3, <2>1 DEF ServiceInv, UpIsCurrent, Selected
    <2>2. CASE fo.pc = "activate"
      BY <1>2, <2>2 DEF ServiceInv, UpIsCurrent, NoneUpAtActivation
    <2> QED BY <1>4, <2>1, <2>2
  <1>6. NoneUpAtActivation'
    <2>1. fo.cur = NoGroup \/ CurrentGroupDeactivated =>
             \A j \in Ifaces : iface[j].Status # "UP"
      BY <1>3 DEF ServiceInv, UpIsCurrent, CurrentGroupDeactivated, CurrentInterface, Selected
    <2> QED BY <1>2, <1>4, <2>1 DEF NoneUpAtActivation
  <1> QED BY <1>5, <1>6

LEMMA ServiceInductive ==
    ASSUME HandOverAssumed, NoRequests
    PROVE  TypeOK /\ HandOverInv /\ ScanInv /\ ServiceInv /\ [Next]_vars => ServiceInv'
  <1> SUFFICES ASSUME TypeOK, HandOverInv, ScanInv, ServiceInv, [Next]_vars
               PROVE  ServiceInv'
    OBVIOUS
  <1>1. ASSUME NEW i \in Ifaces, NEW k \in ISMSlots, ISMStep(i, k) \/ LayerStep(i, k)
        PROVE  ServiceInv'
    <2>1. group' = group /\ fo' = fo
      BY <1>1 DEF ISMStep, LayerStep, ISMControl, ISMDisturbed, ISMStart, ISMSample, ISMDown,
                ISMReset, PhysicalInterfaceDown, ISMValidated, ISMStandby, ISMUp,
                ISMDeactivated, ISMRefreshAborted, ISMRefreshed, ISMExit, ISMEnd, ISMLinkLost,
                ISMLeaseLost, ISMWanUp, ISMFeatureSwitched, ISMModeChanged
    <2>2. UpIsCurrent' /\ NoneUpAtActivation'
      BY <1>1, <2>1, ISMFields, OthersKeepService DEF ServiceInv, Selected
    <2> QED BY <1>1, <2>2, UnaskedISM DEF ServiceInv
  <1>2. CASE Environment /\ UNCHANGED <<ism, pol, fo>>
    <2>1. Unasked' /\ group' = group
      BY <1>2, UnaskedEnvironment DEF ServiceInv
    <2>2. UpIsCurrent' /\ NoneUpAtActivation'
      BY <1>2, <2>1, EnvironmentFields, OthersKeepService DEF ServiceInv, Selected
    <2> QED BY <2>1, <2>2 DEF ServiceInv
  <1>3. CASE UNCHANGED vars
    BY <1>3 DEF vars, ServiceInv, Unasked, TablesUnasked, SelectionUnasked, FailOverUnasked,
                UpIsCurrent, NoneUpAtActivation, Selected
  <1>4. CASE FOStep
    BY <1>4, FOStepService, UnaskedFOStep DEF ServiceInv, HandOverAssumed
  <1>5. ASSUME NEW g \in Groups, NEW k \in PolSlots, PolStep(g, k)
        PROVE  ServiceInv'
    <2>1. Unasked'
      BY <1>5, UnaskedPolStep DEF ServiceInv
    <2>2. UpIsCurrent' /\ NoneUpAtActivation'
      BY <1>5, UnaskedGroups, UnaskedInterfaces, OthersKeepService DEF ServiceInv, PolStep
    <2> QED BY <2>1, <2>2 DEF ServiceInv
  <1> QED BY <1>1, <1>2, <1>3, <1>4, <1>5 DEF Next, ThreadStep, EnvStep

(* Break before make: State_DeactivateGroup waits for the old interface to   *)
(* leave UP before the next group is activated.  Whatever the links, the     *)
(* leases and the connectivity checks do, and however many state machine     *)
(* threads an interface has, two interfaces are never UP at once, as long as *)
(* nothing resets the scan (Transition_ResetScan does not wait).             *)
THEOREM BreaksBeforeMake ==
    ASSUME HandOverAssumed, NoRequests
    PROVE  Spec => []AtMostOneUp
  <1>1. Init => ServiceInv
    BY DEF Init, DataInit, InitConfig, InitGroups, InitIfaces, PolInit, Outside, FOInit, FOOutside,
           ServiceInv, Unasked, TablesUnasked, SelectionUnasked, FailOverUnasked, UpIsCurrent,
           NoneUpAtActivation
  <1>2. TypeOK /\ HandOverInv /\ ScanInv /\ ServiceInv /\ [Next]_vars => ServiceInv'
    BY ServiceInductive
  <1>3. ServiceInv => AtMostOneUp
    BY DEF ServiceInv, UpIsCurrent, AtMostOneUp
  <1>4. Spec => []ScanInv
    BY ScanInitially, ScanInductive, TypeCorrect, PTL DEF Spec
  <1> QED BY <1>1, <1>2, <1>3, <1>4, TypeCorrect, HandOver, PTL DEF Spec
=============================================================================
