-------------------------- MODULE WanManagerProofs --------------------------
(* Type correctness of the WAN Manager and the safety of its threads, for    *)
(* every number of groups and interfaces and every set of events: one        *)
(* selection thread per group, and valid indices.                            *)
EXTENDS WanManager, DataProofs

-----------------------------------------------------------------------------
(* The helpers return what the table entries they feed may hold.             *)
LEMMA HighPriorityIfaceType ==
    ASSUME NEW g \in Groups
    PROVE  HighPriorityIface(g) \in Ifaces \cup {NoIface}
  BY DEF HighPriorityIface

LEMMA PrevSelectedInterfaceType ==
    ASSUME NEW g \in Groups
    PROVE  PrevSelectedInterface(g) \in Ifaces \cup {NoIface}
  BY DEF PrevSelectedInterface

LEMMA InitType == Init => TypeOK
  <1> SUFFICES ASSUME Init PROVE TypeOK
    OBVIOUS
  <1>1. DataTypeOK
    <2>1. config \in ConfigType
      BY DEF Init, DataInit, InitConfig, ConfigType
    <2>2. group \in [Groups -> GroupType]
      BY DEF Init, DataInit, InitGroups, GroupType, GroupStates, NoIface
    <2>3. iface \in [Ifaces -> IfaceType]
      BY TablesAssumption DEF Init, DataInit, InitIfaces, IfaceType, SelectionStates, IfaceStatuses
    <2> QED BY <2>1, <2>2, <2>3 DEF DataTypeOK
  <1>2. ISMTypeOK
    BY DEF Init, ISMInit, ISMTypeOK, ISMType, NoISM, ISMPhases
  <1>3. PolTypeOK
    BY DEF Init, PolInit, PolTypeOK, PolType, Outside, AWStates, NoIface
  <1>4. FOTypeOK
    BY FailOverAssumption DEF Init, FOInit, FOTypeOK, FOType, FOOutside, FOStates, NoGroup
  <1> QED BY <1>1, <1>2, <1>3, <1>4 DEF TypeOK

(* An iteration of a selection thread that ends in a known state.            *)
LEMMA GotoType ==
    ASSUME PolTypeOK, config \in ConfigType, group \in [Groups -> GroupType],
           group' \in [Groups -> GroupType],
           NEW g \in Groups, NEW k \in PolSlots, NEW s \in AWStates,
           NEW i \in Ifaces \cup {NoIface}, NEW x \in BOOLEAN, Goto(g, k, s, i, x)
    PROVE  PolTypeOK'
  BY DEF PolTypeOK, PolType, Goto, ConfigType, GroupType, AWStates

-----------------------------------------------------------------------------
LEMMA EnvironmentType ==
    ASSUME TypeOK, Environment, UNCHANGED <<ism, pol, fo>>
    PROVE  TypeOK'
  BY EnvironmentDataType DEF TypeOK, ISMTypeOK, PolTypeOK, FOTypeOK

LEMMA ISMNextType ==
    ASSUME TypeOK, NEW i \in Ifaces, NEW k \in ISMSlots, ISMNext(i, k),
           UNCHANGED <<pol, fo>>
    PROVE  TypeOK'
  BY ISMDataType DEF TypeOK, PolTypeOK, FOTypeOK

-----------------------------------------------------------------------------
(* What the transitions of a selection thread write.                         *)
LEMMA ResetTablesType ==
    ASSUME NEW T \in [Ifaces -> IfaceType], NEW g \in Groups
    PROVE  /\ ResetIfaceTable(T, g) \in [Ifaces -> IfaceType]
           /\ ResetActiveLinkOnAllIface(T, g) \in [Ifaces -> IfaceType]
  <1>1. ASSUME NEW r \in IfaceType
        PROVE  /\ [r EXCEPT !.Status = "DISABLED"] \in IfaceType
               /\ [r EXCEPT !.ActiveLink = FALSE] \in IfaceType
    BY DEF IfaceType, IfaceStatuses
  <1> QED BY <1>1 DEF ResetIfaceTable, ResetActiveLinkOnAllIface

LEMMA PolWriteType ==
    ASSUME NEW P \in [Groups -> [PolSlots -> PolType]], NEW g \in Groups,
           NEW k \in PolSlots, NEW b \in BOOLEAN
    PROVE  /\ [P EXCEPT ![g][k].en = b] \in [Groups -> [PolSlots -> PolType]]
           /\ [P EXCEPT ![g][k].cfg = b] \in [Groups -> [PolSlots -> PolType]]
           /\ [P EXCEPT ![g][k].rst = b] \in [Groups -> [PolSlots -> PolType]]
           /\ [P EXCEPT ![g][k].expired = b] \in [Groups -> [PolSlots -> PolType]]
  <1>1. ASSUME NEW r \in PolType
        PROVE  /\ [r EXCEPT !.en = b] \in PolType
               /\ [r EXCEPT !.cfg = b] \in PolType
               /\ [r EXCEPT !.rst = b] \in PolType
               /\ [r EXCEPT !.expired = b] \in PolType
    BY DEF PolType
  <1>2. P[g][k] \in PolType
    OBVIOUS
  <1>3. ASSUME NEW r \in PolType
        PROVE  [P EXCEPT ![g][k] = r] \in [Groups -> [PolSlots -> PolType]]
    OBVIOUS
  <1> QED BY <1>1, <1>2, <1>3

(* A step that ends an iteration is well typed when what it writes is.       *)
LEMMA IterationType ==
    ASSUME TypeOK, NEW g \in Groups, NEW k \in PolSlots, NEW s \in AWStates,
           NEW i \in Ifaces \cup {NoIface}, NEW x \in BOOLEAN, Goto(g, k, s, i, x),
           config' \in ConfigType, group' \in [Groups -> GroupType],
           iface' \in [Ifaces -> IfaceType], ISMTypeOK', UNCHANGED fo
    PROVE  TypeOK'
  <1>1. PolTypeOK'
    BY GotoType DEF TypeOK, DataTypeOK
  <1> QED BY <1>1 DEF TypeOK, DataTypeOK, FOTypeOK

LEMMA PolFields ==
    ASSUME TypeOK, NEW g \in Groups, NEW k \in PolSlots
    PROVE  /\ pol[g][k].idx \in Ifaces \cup {NoIface}
           /\ pol[g][k].expired \in BOOLEAN
           /\ config \in ConfigType
           /\ group \in [Groups -> GroupType]
           /\ iface \in [Ifaces -> IfaceType]
           /\ ISMTypeOK
  BY DEF TypeOK, PolTypeOK, PolType, DataTypeOK

LEMMA TransitionType ==
    ASSUME TypeOK, NEW g \in Groups, NEW k \in PolSlots, UNCHANGED fo,
           \/ InterfaceInvalid(g, k)
           \/ InterfaceDeselect(g, k)
           \/ InterfaceValidated(g, k)
           \/ RestartSelectionInterface(g, k)
    PROVE  TypeOK'
  <1> DEFINE i == pol[g][k].idx
  <1> USE PolFields
  <1>1. CASE InterfaceInvalid(g, k)
    <2> DEFINE T1 == [iface EXCEPT ![i].Status = "INVALID"]
    <2>1. T1 \in [Ifaces -> IfaceType]
      BY IfaceWriteType DEF IfaceStatuses
    <2>2. iface' = [T1 EXCEPT ![i].ActiveLink = FALSE]
      BY <1>1 DEF InterfaceInvalid
    <2> HIDE DEF T1
    <2>3. iface' \in [Ifaces -> IfaceType]
      BY <2>1, <2>2, IfaceWriteType
    <2>4. Goto(g, k, "SELECTING", NoIface, FALSE) /\ UNCHANGED <<config, group, ism>>
      BY <1>1 DEF InterfaceInvalid
    <2>5. ISMTypeOK'
      BY <2>4 DEF ISMTypeOK
    <2> QED BY <2>3, <2>4, <2>5, IterationType DEF AWStates
  <1>2. CASE InterfaceDeselect(g, k)
    <2>1. iface' \in [Ifaces -> IfaceType]
      BY <1>2, IfaceWriteType DEF InterfaceDeselect, SelectionStates
    <2>2. Goto(g, k, "TEARDOWN", i, FALSE) /\ UNCHANGED <<config, group, ism>>
      BY <1>2 DEF InterfaceDeselect
    <2>3. ISMTypeOK'
      BY <2>2 DEF ISMTypeOK
    <2> QED BY <2>1, <2>2, <2>3, IterationType DEF AWStates
  <1>3. CASE InterfaceValidated(g, k)
    <2>1. iface' \in [Ifaces -> IfaceType]
      BY <1>3, IfaceWriteType DEF InterfaceValidated
    <2>2. group' \in [Groups -> GroupType]
      BY <1>3, SetGroupSelectedIfaceType DEF InterfaceValidated
    <2>3. Goto(g, k, "RECONFIGURATION", i, FALSE) /\ UNCHANGED <<config, ism>>
      BY <1>3 DEF InterfaceValidated
    <2>4. ISMTypeOK'
      BY <2>3 DEF ISMTypeOK
    <2> QED BY <2>1, <2>2, <2>3, <2>4, IterationType DEF AWStates
  <1>4. CASE RestartSelectionInterface(g, k)
    <2>1. iface' \in [Ifaces -> IfaceType]
      BY <1>4, ResetTablesType DEF RestartSelectionInterface
    <2> DEFINE T1 == [group EXCEPT ![g].ResetSelectedInterface = FALSE]
    <2>2. T1 \in [Groups -> GroupType]
      BY DEF GroupType
    <2>3. group' = SetGroupSelectedIface(T1, g, NoIface)
      BY <1>4 DEF RestartSelectionInterface
    <2> HIDE DEF T1
    <2>4. group' \in [Groups -> GroupType]
      BY <2>2, <2>3, SetGroupSelectedIfaceType
    <2>5. config' \in ConfigType
      BY <1>4 DEF RestartSelectionInterface, ConfigType
    <2>6. Goto(g, k, "SELECTING", NoIface, FALSE) /\ UNCHANGED ism
      BY <1>4 DEF RestartSelectionInterface
    <2>7. ISMTypeOK'
      BY <2>6 DEF ISMTypeOK
    <2> QED BY <2>1, <2>4, <2>5, <2>6, <2>7, IterationType DEF AWStates
  <1> QED BY <1>1, <1>2, <1>3, <1>4

(* An iteration that writes no shared data.                                  *)
LEMMA IdleIterationType ==
    ASSUME TypeOK, NEW g \in Groups, NEW k \in PolSlots, NEW s \in AWStates,
           NEW i \in Ifaces \cup {NoIface}, NEW x \in BOOLEAN, Goto(g, k, s, i, x),
           UNCHANGED <<config, group, iface, ism, fo>>
    PROVE  TypeOK'
  BY PolFields, IterationType DEF ISMTypeOK

LEMMA AWNextType ==
    ASSUME TypeOK, NEW g \in Groups, NEW k \in PolSlots, UNCHANGED fo,
           AWNext(g, k) \/ AWTimerExpires(g, k)
    PROVE  TypeOK'
  <1> DEFINE i == pol[g][k].idx
             x == pol[g][k].expired
  <1>0. /\ i \in Ifaces \cup {NoIface}
        /\ x \in BOOLEAN
        /\ config \in ConfigType
        /\ group \in [Groups -> GroupType]
        /\ iface \in [Ifaces -> IfaceType]
        /\ ISMTypeOK
    BY PolFields
  <1>a. UNCHANGED ism => ISMTypeOK'
    BY <1>0 DEF ISMTypeOK
  <1> HIDE DEF i, x
  <1>1. CASE AWStart(g, k)
    <2> DEFINE prev == IF config.Enable THEN PrevSelectedInterface(g) ELSE NoIface
               keep == prev # NoIface /\ iface[prev].Enable
               n == IF keep THEN prev
                    ELSE IF config.Enable THEN HighPriorityIface(g) ELSE NoIface
    <2>1. n \in Ifaces \cup {NoIface}
      BY HighPriorityIfaceType, PrevSelectedInterfaceType
    <2>2. keep \in BOOLEAN
      OBVIOUS
    <2>3. /\ Goto(g, k, "SELECTING", n, FALSE)
          /\ iface' = [j \in Ifaces |-> IF j = prev
                          THEN [iface[j] EXCEPT !.ActiveLink = keep] ELSE iface[j]]
          /\ UNCHANGED <<config, group, ism>>
      BY <1>1 DEF AWStart
    <2> HIDE DEF n, keep, prev
    <2>4. iface' \in [Ifaces -> IfaceType]
      BY <1>0, <2>2, <2>3 DEF IfaceType
    <2> QED BY <1>0, <1>a, <2>1, <2>3, <2>4, IterationType DEF AWStates
  <1>2. CASE AWUpdateControllerData(g, k)
    <2>1. /\ config.Enable \in BOOLEAN
          /\ group[g].ConfigChanged \in BOOLEAN
          /\ group[g].ResetSelectedInterface \in BOOLEAN
      BY <1>0 DEF ConfigType, GroupType
    <2> DEFINE P1 == [pol EXCEPT ![g][k].en = config.Enable]
               P2 == [P1 EXCEPT ![g][k].cfg = group[g].ConfigChanged]
    <2>2. P1 \in [Groups -> [PolSlots -> PolType]]
      BY <2>1, PolWriteType DEF TypeOK, PolTypeOK
    <2>3. pol' = [P2 EXCEPT ![g][k].rst = group[g].ResetSelectedInterface]
      BY <1>2 DEF AWUpdateControllerData
    <2> HIDE DEF P1
    <2>4. P2 \in [Groups -> [PolSlots -> PolType]]
      BY <2>1, <2>2, PolWriteType
    <2> HIDE DEF P2
    <2>5. PolTypeOK'
      BY <2>1, <2>3, <2>4, PolWriteType DEF PolTypeOK
    <2> QED BY <1>2, <2>5, <1>a, <1>0
            DEF AWUpdateControllerData, TypeOK, DataTypeOK, FOTypeOK
  <1>3. CASE AWTimerExpires(g, k)
    <2>1. PolTypeOK'
      BY <1>3, PolWriteType DEF AWTimerExpires, TypeOK, PolTypeOK
    <2> QED BY <1>3, <2>1, <1>a, <1>0 DEF AWTimerExpires, TypeOK, DataTypeOK, FOTypeOK
  <1>4. CASE AWSelecting(g, k)
    <2>1. HighPriorityIface(g) \in Ifaces \cup {NoIface}
      BY HighPriorityIfaceType
    <2>2. CASE UNCHANGED <<config, group, iface, ism>>
      BY <1>0, <1>4, <2>1, <2>2, IdleIterationType DEF AWSelecting, AWStates, i
    <2>3. CASE /\ group' = [group EXCEPT ![g].InitialScanComplete = TRUE]
               /\ iface' = ResetIfaceTable(iface, g)
               /\ UNCHANGED <<config, ism>>
               /\ Goto(g, k, "SELECTING", NoIface, FALSE)
      <3>1. group' \in [Groups -> GroupType]
        BY <1>0, <2>3 DEF GroupType
      <3>2. iface' \in [Ifaces -> IfaceType]
        BY <1>0, <2>3, ResetTablesType
      <3> QED BY <1>0, <1>a, <2>3, <3>1, <3>2, IterationType DEF AWStates
    <2> QED BY <1>4, <2>2, <2>3 DEF AWSelecting
  <1>5. CASE AWWaitForInterface(g, k)
    <2>1. CASE InterfaceInvalid(g, k)
      BY <2>1, TransitionType
    <2>2. CASE UNCHANGED <<config, group, iface, ism>> /\ Goto(g, k, "SM_EXIT", i, FALSE)
      BY <1>0, <2>2, IdleIterationType DEF AWStates
    <2>3. CASE /\ iface' = [iface EXCEPT ![i].Selection = "SELECTED"]
               /\ ism' = StartISM(i) /\ iface[i].Enable
               /\ UNCHANGED <<config, group>>
               /\ Goto(g, k, "SCANNING", i, x)
      <3>1. iface' \in [Ifaces -> IfaceType]
        BY <1>0, <2>3, IfaceWriteType DEF SelectionStates
      <3>2. ISMTypeOK'
        BY <1>0, <2>3 DEF ISMTypeOK, ISMType, StartISM, ISMPhases
      <3> QED BY <1>0, <2>3, <3>1, <3>2, IterationType DEF AWStates
    <2>4. CASE /\ group' = [group EXCEPT ![g].InitialScanComplete =
                                @ \/ OnlyPossibleWanLink(g, i)]
               /\ UNCHANGED <<config, iface, ism>>
               /\ Goto(g, k, "WAITING", i, x)
      <3>1. group' \in [Groups -> GroupType]
        BY <1>0, <2>4, ZenonT(30) DEF GroupType
      <3>2. UNCHANGED <<config, iface, ism>> /\ Goto(g, k, "WAITING", i, x)
        BY <2>4
      <3> QED BY <1>0, <1>a, <3>1, <3>2, IterationType DEF AWStates
    <2> QED BY <1>5, <2>1, <2>2, <2>3, <2>4 DEF AWWaitForInterface, i, x
  <1>6. CASE AWScanning(g, k)
    <2>1. CASE InterfaceDeselect(g, k) \/ InterfaceValidated(g, k)
      BY <2>1, TransitionType
    <2>2. CASE /\ UNCHANGED <<config, group, iface, ism>>
               /\ Goto(g, k, "WAITING", i, x) \/ Goto(g, k, "SCANNING", i, FALSE)
      BY <1>0, <2>2, IdleIterationType DEF AWStates
    <2> QED BY <1>6, <2>1, <2>2 DEF AWScanning, i, x
  <1>7. CASE AWWaitingForIfaceTearDown(g, k)
    <2>1. CASE InterfaceInvalid(g, k) \/ RestartSelectionInterface(g, k)
      BY <2>1, TransitionType
    <2>2. CASE /\ UNCHANGED <<config, group, iface, ism>>
               /\ Goto(g, k, "TEARDOWN", i, FALSE) \/ Goto(g, k, "TEARING_DOWN", i, FALSE)
      BY <1>0, <2>2, IdleIterationType DEF AWStates
    <2> QED BY <1>7, <2>1, <2>2 DEF AWWaitingForIfaceTearDown, i
  <1>8. CASE AWReconfiguration(g, k)
    <2>1. PICK s \in AWStates : Goto(g, k, s, i, FALSE)
      BY <1>8 DEF AWReconfiguration, AWStates, i
    <2>2. iface' \in [Ifaces -> IfaceType]
      <3>1. iface' = iface \/ iface' = [iface EXCEPT ![i].Selection = "NOT_SELECTED"]
        BY <1>8 DEF AWReconfiguration, i
      <3>2. [iface EXCEPT ![i].Selection = "NOT_SELECTED"] \in [Ifaces -> IfaceType]
        BY <1>0, IfaceWriteType DEF SelectionStates
      <3> QED BY <1>0, <3>1, <3>2
    <2>3. UNCHANGED <<config, group, ism>>
      BY <1>8 DEF AWReconfiguration
    <2> QED BY <1>0, <1>a, <2>1, <2>2, <2>3, IterationType
  <1>9. CASE AWRebootingPlatform(g, k)
    <2>1. PICK s \in AWStates : Goto(g, k, s, i, FALSE)
      BY <1>9 DEF AWRebootingPlatform, AWStates, i
    <2> QED BY <1>0, <1>9, <2>1, IdleIterationType DEF AWRebootingPlatform
  <1>10. CASE AWInterfaceActive(g, k)
    <2>1. CASE InterfaceDeselect(g, k)
      BY <2>1, TransitionType
    <2>2. CASE /\ group' = SetGroupSelectedIface(group, g, i)
               /\ UNCHANGED <<config, iface, ism>>
               /\ Goto(g, k, "DOWN", i, FALSE)
      BY <1>0, <1>a, <2>2, SetGroupSelectedIfaceType, IterationType DEF AWStates
    <2>3. CASE UNCHANGED <<config, group, iface, ism>> /\ Goto(g, k, "ACTIVE", i, FALSE)
      BY <1>0, <2>3, IdleIterationType DEF AWStates
    <2> QED BY <1>10, <2>1, <2>2, <2>3 DEF AWInterfaceActive, i
  <1>11. CASE AWInterfaceDown(g, k)
    <2>1. CASE InterfaceDeselect(g, k)
      BY <2>1, TransitionType
    <2>2. CASE /\ group' = SetGroupSelectedIface(group, g, i)
               /\ ism' = IF iface[i].SMRunning THEN ism ELSE StartISM(i)
               /\ UNCHANGED <<config, iface>>
               /\ Goto(g, k, IF iface[i].SMRunning THEN "DOWN" ELSE "ACTIVE", i, FALSE)
      <3>1. ISMTypeOK'
        BY <1>0, <2>2 DEF ISMTypeOK, ISMType, StartISM, ISMPhases
      <3>2. group' \in [Groups -> GroupType]
        BY <1>0, <2>2, SetGroupSelectedIfaceType
      <3>3. PICK s \in AWStates : Goto(g, k, s, i, FALSE)
        BY <2>2 DEF AWStates
      <3> QED BY <1>0, <2>2, <3>1, <3>2, <3>3, IterationType
    <2>3. CASE UNCHANGED <<config, group, iface, ism>> /\ Goto(g, k, "DOWN", i, FALSE)
      BY <1>0, <2>3, IdleIterationType DEF AWStates
    <2> QED BY <1>11, <2>1, <2>2, <2>3 DEF AWInterfaceDown, i
  <1>12. CASE AWTearingDown(g, k)
    <2> DEFINE deselected == [iface EXCEPT ![i].Selection = "NOT_SELECTED"]
    <2>1. deselected \in [Ifaces -> IfaceType]
      BY <1>0, IfaceWriteType DEF SelectionStates
    <2>2. CASE /\ iface' = deselected /\ UNCHANGED <<group, config, ism>>
               /\ Goto(g, k, "TEARING_DOWN", i, FALSE)
      BY <1>0, <1>a, <2>1, <2>2, IterationType DEF AWStates
    <2>3. CASE /\ iface' = IF pol[g][k].cfg
                      THEN ResetActiveLinkOnAllIface(ResetIfaceTable(deselected, g), g)
                      ELSE ResetIfaceTable(deselected, g)
               /\ group' = SetGroupSelectedIface(group, g, NoIface)
               /\ UNCHANGED <<config, ism>>
               /\ Goto(g, k, "SM_EXIT", i, FALSE)
      <3> HIDE DEF deselected
      <3>1. iface' \in [Ifaces -> IfaceType]
        BY <2>1, <2>3, ResetTablesType
      <3>2. group' \in [Groups -> GroupType]
        BY <1>0, <2>3, SetGroupSelectedIfaceType
      <3> QED BY <1>0, <1>a, <2>3, <3>1, <3>2, IterationType DEF AWStates
    <2> QED BY <1>12, <2>2, <2>3 DEF AWTearingDown, i
  <1>13. CASE AWLeaveLoop(g, k)
    <2>1. pol[g][k].cfg \in BOOLEAN
      BY DEF TypeOK, PolTypeOK, PolType
    <2>2. config' \in ConfigType
      BY <1>0, <1>13, <2>1 DEF AWLeaveLoop, ConfigType
    <2>3. PolTypeOK'
      BY <1>13 DEF AWLeaveLoop, TypeOK, PolTypeOK, PolType, Outside, AWStates
    <2> QED BY <1>0, <1>a, <1>13, <2>2, <2>3
            DEF AWLeaveLoop, TypeOK, DataTypeOK, FOTypeOK
  <1>14. CASE AWThreadExit(g, k)
    <2> DEFINE G1 == [group EXCEPT ![g].SelectedInterface = NoIface]
               G2 == [G1 EXCEPT ![g].ConfigChanged = FALSE]
    <2>1. G1 \in [Groups -> GroupType]
      BY <1>0 DEF GroupType
    <2>2. PICK s \in GroupStates : group' = [G2 EXCEPT ![g].State = s]
      BY <1>0, <1>14 DEF AWThreadExit, GroupStates, GroupType
    <2> HIDE DEF G1
    <2>3. G2 \in [Groups -> GroupType]
      BY <2>1 DEF GroupType
    <2> HIDE DEF G2
    <2>4. group' \in [Groups -> GroupType]
      BY <2>2, <2>3 DEF GroupType
    <2>5. PolTypeOK'
      BY <1>14 DEF AWThreadExit, TypeOK, PolTypeOK, PolType, Outside, AWStates
    <2> QED BY <1>0, <1>a, <1>14, <2>4, <2>5
            DEF AWThreadExit, TypeOK, DataTypeOK, FOTypeOK
  <1> QED
    BY <1>1, <1>2, <1>3, <1>4, <1>5, <1>6, <1>7, <1>8, <1>9, <1>10, <1>11, <1>12,
       <1>13, <1>14
    DEF AWNext

-----------------------------------------------------------------------------
(* The failover thread.                                                      *)
LEMMA FOGotoType ==
    ASSUME NEW f \in FOType, NEW s \in FOStates, FOGoto(f, s)
    PROVE  FOTypeOK'
  <1> DEFINE t == IF s \in {"SCANNING_GROUP", "RESTORATION_WAIT"} THEN f.timer ELSE 0
  <1>1. t \in 0 .. MaxTimer
    BY FailOverAssumption DEF FOType
  <1>2. fo' = [f EXCEPT !.pc = "sample", !.st = s, !.idx = NoGroup, !.en = FALSE,
                        !.rs = FALSE, !.timer = t]
    BY DEF FOGoto
  <1> HIDE DEF t
  <1>3. fo' = [pc |-> "sample", st |-> s, idx |-> NoGroup, cur |-> f.cur,
               high |-> f.high, en |-> FALSE, rs |-> FALSE, timer |-> t]
    BY <1>2 DEF FOType
  <1>4. f.cur \in Groups \cup {NoGroup} /\ f.high \in Groups \cup {NoGroup}
    BY DEF FOType
  <1> QED BY <1>1, <1>3, <1>4 DEF FOTypeOK, FOType

LEMMA FOOutsideType ==
    ASSUME NEW c \in {"off", "first", "join"}
    PROVE  FOOutside(c) \in FOType
  <1>1. 0 \in 0 .. MaxTimer /\ "SCANNING_GROUP" \in FOStates
    BY FailOverAssumption DEF FOStates
  <1> QED BY <1>1 DEF FOType, FOOutside

LEMMA MarkedType ==
    ASSUME TypeOK, NEW g \in Groups \cup {NoGroup}, NEW h \in Groups \cup {NoGroup}
    PROVE  Marked(h, g) \in Groups \cup {NoGroup}
  BY DEF Marked, TypeOK, FOTypeOK, FOType

LEMMA DecideType ==
    ASSUME NEW f \in FOType, Decide(f)
    PROVE  FOTypeOK'
  <1>1. CASE fo' = [f EXCEPT !.pc = "activate", !.idx = NoGroup]
    BY <1>1 DEF FOTypeOK, FOType
  <1>2. CASE fo' = [f EXCEPT !.pc = "deactivate", !.idx = NoGroup]
    BY <1>2 DEF FOTypeOK, FOType
  <1>3. CASE FOGoto([f EXCEPT !.timer = 0], "RESTORATION_WAIT")
    <2>1. [f EXCEPT !.timer = 0] \in FOType
      BY FailOverAssumption DEF FOType
    <2> QED BY <1>3, <2>1, FOGotoType DEF FOStates
  <1>4. CASE FOGoto(f, f.st)
    BY <1>4, FOGotoType DEF FOType
  <1> QED BY <1>1, <1>2, <1>3, <1>4 DEF Decide

LEMMA MarkGroupType ==
    ASSUME TypeOK, NEW g \in Groups \cup {NoGroup}, NEW h \in Groups \cup {NoGroup},
           MarkGroup(g, h), UNCHANGED <<config, iface, ism, pol>>
    PROVE  TypeOK'
  <1> DEFINE m == Marked(h, g)
             n == IF group[g].ConfigChanged THEN fo.cur ELSE m
             f == [fo EXCEPT !.high = n]
             last == group[g].ConfigChanged \/ WaitForHigherGroup(g) \/ g = NGroups
  <1>1. m \in Groups \cup {NoGroup}
    BY MarkedType
  <1>2. fo \in FOType /\ group \in [Groups -> GroupType]
    BY DEF TypeOK, FOTypeOK, DataTypeOK
  <1>3. n \in Groups \cup {NoGroup}
    BY <1>1, <1>2 DEF FOType
  <1>4. f \in FOType
    BY <1>2, <1>3 DEF FOType
  <1>5. \/ last /\ Decide(f)
        \/ ~ last /\ fo' = [f EXCEPT !.pc = "mark", !.idx = g + 1]
    BY DEF MarkGroup
  <1>6. group' = group \/ group' = [group EXCEPT ![g].State = "STOPPED"]
    BY DEF MarkGroup
  <1>7. ~ last => g + 1 \in Groups
    BY SizesAssumption DEF Groups, NoGroup
  <1> HIDE DEF last, f, n, m
  <1>8. FOTypeOK'
    <2>1. CASE Decide(f)
      BY <1>4, <2>1, DecideType
    <2>2. CASE ~ last /\ fo' = [f EXCEPT !.pc = "mark", !.idx = g + 1]
      BY <1>4, <1>7, <2>2 DEF FOTypeOK, FOType
    <2> QED BY <1>5, <2>1, <2>2
  <1>9. group' \in [Groups -> GroupType]
    BY <1>2, <1>6 DEF GroupType, GroupStates
  <1> QED BY <1>8, <1>9 DEF TypeOK, DataTypeOK, ISMTypeOK, PolTypeOK

LEMMA FOStepType ==
    ASSUME TypeOK, FOStep
    PROVE  TypeOK'
  <1>0. /\ fo \in FOType
        /\ config \in ConfigType
        /\ group \in [Groups -> GroupType]
        /\ iface \in [Ifaces -> IfaceType]
    BY DEF TypeOK, DataTypeOK, FOTypeOK
  <1>a. UNCHANGED pol => PolTypeOK'
    BY DEF TypeOK, PolTypeOK
  <1>b. UNCHANGED ism => ISMTypeOK'
    BY DEF TypeOK, ISMTypeOK
  <1>c. 1 \in Groups
    BY SizesAssumption DEF Groups
  <1>d. DeactivateGroup \in [Ifaces -> IfaceType]
    BY <1>0, IfaceWriteType DEF DeactivateGroup, SelectionStates
  <1> USE DEF TypeOK, DataTypeOK
  <1>1. CASE FOThreadStart
    <2>1. FOTypeOK'
      BY <1>1, FOOutsideType DEF FOThreadStart, FOTypeOK
    <2>2. config' \in ConfigType
      BY <1>0, <1>1 DEF FOThreadStart, ConfigType
    <2>3. group' \in [Groups -> GroupType]
      BY <1>0, <1>1 DEF FOThreadStart, GroupType, GroupStates
    <2> QED BY <1>a, <1>b, <1>1, <2>1, <2>2, <2>3 DEF FOThreadStart
  <1>2. CASE FOUpdateControllerData
    <2>1. config' \in ConfigType
      BY <1>0, <1>2 DEF FOUpdateControllerData, ConfigType
    <2>2. config.Enable \in BOOLEAN /\ config.ResetFailOverScan \in BOOLEAN
      BY <1>0 DEF ConfigType
    <2>3. fo' = [fo EXCEPT !.pc = "monitor", !.en = config.Enable,
                           !.rs = config.ResetFailOverScan]
      BY <1>2 DEF FOUpdateControllerData
    <2>4. FOTypeOK'
      BY <1>0, <2>2, <2>3 DEF FOTypeOK, FOType
    <2> QED BY <1>a, <1>b, <1>2, <2>1, <2>4 DEF FOUpdateControllerData
  <1>3. CASE FOIfaceGroupMonitor
    <2>1. FOTypeOK'
      BY <1>0, <1>3 DEF FOIfaceGroupMonitor, FOTypeOK, FOType
    <2>2. ASSUME NEW g \in Groups
          PROVE  /\ [group[g] EXCEPT !.InitialScanComplete = FALSE,
                                     !.Activated = FALSE,
                                     !.ConfigChanged = FALSE,
                                     !.State = IF Created(g) THEN "RUNNING" ELSE @]
                       \in GroupType
                 /\ group[g] \in GroupType
      BY <1>0 DEF GroupType, GroupStates
    <2>3. group' \in [Groups -> GroupType]
      BY <1>3, <2>2 DEF FOIfaceGroupMonitor
    <2>4. ASSUME NEW g \in Groups
          PROVE  StartPolicy(g) \in [PolSlots -> PolType] /\ pol[g] \in [PolSlots -> PolType]
      <3>1. Outside("start") \in PolType
        BY DEF Outside, PolType, AWStates
      <3> QED BY <3>1 DEF StartPolicy, PolTypeOK
    <2>5. PolTypeOK'
      BY <1>3, <2>4 DEF FOIfaceGroupMonitor, PolTypeOK
    <2> QED BY <1>b, <1>3, <2>1, <2>3, <2>5 DEF FOIfaceGroupMonitor
  <1>4. CASE FOScanningGroup
    <2>1. CASE FOGoto(fo, "EXIT") /\ UNCHANGED group
      BY <1>0, <1>a, <1>b, <1>4, <2>1, FOGotoType DEF FOScanningGroup, FOStates
    <2>2. CASE MarkGroup(1, NoGroup)
      BY <1>c, <1>4, <2>2, MarkGroupType DEF FOScanningGroup
    <2> QED BY <1>4, <2>1, <2>2 DEF FOScanningGroup
  <1>5. CASE FOMarkHighPriorityGroup
    <2>1. fo.idx \in Groups \cup {NoGroup} /\ fo.high \in Groups \cup {NoGroup}
      BY <1>0 DEF FOType
    <2> QED BY <1>5, <2>1, MarkGroupType DEF FOMarkHighPriorityGroup
  <1>6. ASSUME TransitionDeactivateGroup, UNCHANGED <<config, group, ism, pol>>
        PROVE  TypeOK'
    BY <1>0, <1>a, <1>b, <1>d, <1>6, FOGotoType DEF TransitionDeactivateGroup, FOStates
  <1>7. CASE FOGroupActive
    <2>1. CASE TransitionDeactivateGroup /\ UNCHANGED group
      BY <1>6, <1>7, <2>1 DEF FOGroupActive
    <2>2. CASE /\ iface' = DeactivateGroup
               /\ FOGoto([fo EXCEPT !.cur = NoGroup, !.high = NoGroup, !.timer = 0],
                         "SCANNING_GROUP")
               /\ UNCHANGED group
      <3>1. [fo EXCEPT !.cur = NoGroup, !.high = NoGroup, !.timer = 0] \in FOType
        <4> DEFINE F1 == [fo EXCEPT !.cur = NoGroup]
                   F2 == [F1 EXCEPT !.high = NoGroup]
        <4>1. F1 \in FOType
          BY <1>0 DEF FOType
        <4> HIDE DEF F1
        <4>2. F2 \in FOType
          BY <4>1 DEF FOType
        <4> HIDE DEF F2
        <4>3. [F2 EXCEPT !.timer = 0] \in FOType
          BY <4>2, FailOverAssumption DEF FOType
        <4> QED BY <4>3 DEF F1, F2
      <3>2. FOTypeOK'
        BY <2>2, <3>1, FOGotoType DEF FOStates
      <3> QED BY <1>0, <1>a, <1>b, <1>d, <1>7, <2>2, <3>2 DEF FOGroupActive
    <2>3. CASE MarkGroup(1, NoGroup) /\ UNCHANGED iface
      BY <1>c, <1>7, <2>3, MarkGroupType DEF FOGroupActive
    <2> QED BY <1>7, <2>1, <2>2, <2>3 DEF FOGroupActive
  <1>8. CASE FODeactivate
    BY <1>6, <1>8 DEF FODeactivate
  <1>9. CASE FORestorationWait
    <2>1. CASE TransitionDeactivateGroup
      BY <1>6, <1>9, <2>1 DEF FORestorationWait
    <2>2. CASE /\ FOGoto(fo, "GROUP_ACTIVE") \/ FOGoto(fo, "RESTORATION_WAIT")
               /\ UNCHANGED iface
      BY <1>0, <1>a, <1>b, <1>9, <2>2, FOGotoType DEF FORestorationWait, FOStates
    <2> QED BY <1>9, <2>1, <2>2 DEF FORestorationWait
  <1>10. CASE FODeactivateGroup
    <2>1. CASE FOGoto(fo, "DEACTIVATE_GROUP") \/ FOGoto(fo, "EXIT")
      BY <1>0, <1>a, <1>b, <1>10, <2>1, FOGotoType DEF FODeactivateGroup, FOStates
    <2>2. CASE fo' = [fo EXCEPT !.pc = "activate"]
      BY <1>0, <1>a, <1>b, <1>10, <2>2 DEF FODeactivateGroup, FOTypeOK, FOType
    <2> QED BY <1>10, <2>1, <2>2 DEF FODeactivateGroup
  <1>11. CASE FOActivateGroup
    <2> DEFINE i == group[fo.high].SelectedInterface
               activates == i # NoIface /\ iface[i].Selection = "SELECTED"
               stopped == {g \in Groups : /\ FailOverType = "COLDSWAP"
                                          /\ g > fo.high
                                          /\ group[g].State = "RUNNING"}
    <2>1. CASE /\ fo.high # NoGroup
               /\ iface' = IF activates THEN [iface EXCEPT ![i].Selection = "ACTIVE"]
                                        ELSE iface
               /\ group' = [g \in Groups |->
                      IF g \in stopped
                      THEN [group[g] EXCEPT !.State = "DEACTIVATED", !.ConfigChanged = TRUE]
                      ELSE IF g = fo.high
                      THEN [group[g] EXCEPT !.Activated = @ \/ activates]
                      ELSE group[g]]
               /\ FOGoto([fo EXCEPT !.cur = fo.high], "GROUP_ACTIVE")
      <3> HIDE DEF activates, stopped
      <3>1. [fo EXCEPT !.cur = fo.high] \in FOType
        BY <1>0 DEF FOType
      <3>2. FOTypeOK'
        BY <2>1, <3>1, FOGotoType DEF FOStates
      <3>3. iface' \in [Ifaces -> IfaceType]
        BY <1>0, <2>1, IfaceWriteType DEF SelectionStates
      <3>4. group' \in [Groups -> GroupType]
        BY <1>0, <2>1, ZenonT(30) DEF GroupType, GroupStates
      <3> QED BY <1>0, <1>a, <1>b, <1>11, <3>2, <3>3, <3>4 DEF FOActivateGroup
    <2>2. CASE FOGoto(fo, "GROUP_ACTIVE") /\ UNCHANGED <<group, iface>>
      BY <1>0, <1>a, <1>b, <1>11, <2>2, FOGotoType DEF FOActivateGroup, FOStates
    <2> QED BY <1>11, <2>1, <2>2 DEF FOActivateGroup
  <1>12. CASE FOExit \/ FOJoin
    <2>1. FOTypeOK'
      BY <1>12, FOOutsideType DEF FOExit, FOJoin, FOTypeOK
    <2> QED BY <1>0, <1>a, <1>b, <1>12, <2>1 DEF FOExit, FOJoin
  <1>13. CASE FOTick
    <2>1. FOTypeOK'
      BY <1>0, <1>13, FailOverAssumption DEF FOTick, FOTypeOK, FOType
    <2> QED BY <1>a, <1>b, <1>13, <2>1 DEF FOTick
  <1> QED
    BY <1>1, <1>2, <1>3, <1>4, <1>5, <1>7, <1>8, <1>9, <1>10, <1>11, <1>12, <1>13
    DEF FOStep, FONext

-----------------------------------------------------------------------------
LEMMA NextType == TypeOK /\ [Next]_vars => TypeOK'
  <1> SUFFICES ASSUME TypeOK, [Next]_vars PROVE TypeOK'
    OBVIOUS
  <1>1. CASE FOStep
    BY <1>1, FOStepType
  <1>2. ASSUME NEW g \in Groups, NEW k \in PolSlots, PolStep(g, k)
        PROVE  TypeOK'
    BY <1>2, AWNextType DEF PolStep
  <1>3. ASSUME NEW i \in Ifaces, NEW k \in ISMSlots, ISMStep(i, k) \/ LayerStep(i, k)
        PROVE  TypeOK'
    BY <1>3, ISMNextType DEF ISMStep, LayerStep, ISMNext
  <1>4. CASE Environment /\ UNCHANGED <<ism, pol, fo>>
    BY <1>4, EnvironmentType
  <1>5. CASE UNCHANGED vars
    BY <1>5 DEF vars, TypeOK, DataTypeOK, ISMTypeOK, PolTypeOK, FOTypeOK
  <1> QED BY <1>1, <1>2, <1>3, <1>4, <1>5 DEF Next, ThreadStep, EnvStep

(* Every shared structure and every thread's own state keep their types, for *)
(* any number of groups, interfaces and threads and under any events: no     *)
(* lock section of the failover, selection or interface threads writes a     *)
(* value another one does not expect.                                        *)
THEOREM TypeCorrect == Spec => []TypeOK
  <1>1. Init => TypeOK
    BY InitType
  <1>2. TypeOK /\ [Next]_vars => TypeOK'
    BY NextType
  <1> QED BY <1>1, <1>2, PTL DEF Spec

-----------------------------------------------------------------------------
(* A step of a selection thread either keeps the thread and the State of     *)
(* every group, or is the last one of the thread.                            *)
LEMMA GotoKeepsThread ==
    ASSUME TypeOK, NEW g \in Groups, NEW k \in PolSlots, NEW s, NEW i, NEW x,
           Goto(g, k, s, i, x)
    PROVE  \A h \in Groups, l \in PolSlots :
              pol'[h][l].pc = IF h = g /\ l = k THEN "loop" ELSE pol[h][l].pc
  BY DEF TypeOK, PolTypeOK, Goto

LEMMA SelectionKeepsState ==
    ASSUME TypeOK, NEW g \in Groups, NEW i, NEW h \in Groups
    PROVE  SetGroupSelectedIface(group, g, i)[h].State = group[h].State
  BY DEF TypeOK, DataTypeOK, GroupType, SetGroupSelectedIface

LEMMA PolStepKeepsThread ==
    ASSUME TypeOK, NEW g \in Groups, NEW k \in PolSlots,
           AWNext(g, k) \/ AWTimerExpires(g, k), ~ AWThreadExit(g, k)
    PROVE  /\ \A h \in Groups : group'[h].State = group[h].State
           /\ pol[g][k].pc # "none" /\ pol'[g][k].pc # "none"
           /\ \A h \in Groups, l \in PolSlots :
                 h # g \/ l # k => pol'[h][l].pc = pol[h][l].pc
  <1>0. /\ group \in [Groups -> GroupType]
        /\ pol \in [Groups -> [PolSlots -> PolType]]
    BY DEF TypeOK, DataTypeOK, PolTypeOK
  <1>1. CASE AWStart(g, k)
    <2>1. \E s, i, x : Goto(g, k, s, i, x)
      BY <1>1 DEF AWStart
    <2> QED BY <1>1, <2>1, GotoKeepsThread DEF AWStart
  <1>2. CASE AWUpdateControllerData(g, k)
    BY <1>0, <1>2, SMTT(30) DEF AWUpdateControllerData, PolType
  <1>3. CASE AWTimerExpires(g, k)
    BY <1>0, <1>3 DEF AWTimerExpires, PolType
  <1>4. CASE AWLeaveLoop(g, k)
    BY <1>0, <1>4 DEF AWLeaveLoop, Handling, Outside, PolType
  <1>5. ASSUME pol[g][k].pc = "loop", NEW s, NEW i, NEW x, Goto(g, k, s, i, x),
               \A h \in Groups : group'[h].State = group[h].State
        PROVE  /\ pol[g][k].pc # "none" /\ pol'[g][k].pc # "none"
               /\ \A h \in Groups, l \in PolSlots :
                     h # g \/ l # k => pol'[h][l].pc = pol[h][l].pc
    BY <1>5, GotoKeepsThread
  <1>6. ASSUME pol[g][k].pc = "loop",
               \/ InterfaceInvalid(g, k) \/ InterfaceDeselect(g, k)
               \/ InterfaceValidated(g, k) \/ RestartSelectionInterface(g, k)
        PROVE  /\ \A h \in Groups : group'[h].State = group[h].State
               /\ \E s, i, x : Goto(g, k, s, i, x)
    <2>1. \E s, i, x : Goto(g, k, s, i, x)
      BY <1>6 DEF InterfaceInvalid, InterfaceDeselect, InterfaceValidated,
                  RestartSelectionInterface
    <2>2. CASE InterfaceInvalid(g, k) \/ InterfaceDeselect(g, k)
      BY <2>1, <2>2 DEF InterfaceInvalid, InterfaceDeselect
    <2>3. CASE InterfaceValidated(g, k)
      BY <2>1, <2>3, SelectionKeepsState DEF InterfaceValidated
    <2>4. CASE RestartSelectionInterface(g, k)
      BY <1>0, <2>1, <2>4 DEF RestartSelectionInterface, SetGroupSelectedIface, GroupType
    <2> QED BY <1>6, <2>2, <2>3, <2>4
  <1>7. CASE AWSelecting(g, k)
    <2>1. pol[g][k].pc = "loop" /\ \E s, i, x : Goto(g, k, s, i, x)
      BY <1>7 DEF AWSelecting, Handling
    <2>2. \A h \in Groups : group'[h].State = group[h].State
      <3>1. \/ group' = group
            \/ group' = [group EXCEPT ![g].InitialScanComplete = TRUE]
        BY <1>7 DEF AWSelecting
      <3> QED BY <1>0, <3>1 DEF GroupType
    <2> QED BY <1>5, <2>1, <2>2
  <1>8. CASE AWWaitForInterface(g, k)
    <2>1. pol[g][k].pc = "loop"
      BY <1>8 DEF AWWaitForInterface, Handling
    <2>2. CASE InterfaceInvalid(g, k)
      BY <1>5, <1>6, <2>1, <2>2
    <2>3. CASE ~ InterfaceInvalid(g, k)
      <3>1. \E s, i, x : Goto(g, k, s, i, x)
        BY <1>8, <2>3 DEF AWWaitForInterface
      <3>2. \A h \in Groups : group'[h].State = group[h].State
        <4>1. \/ group' = group
              \/ group' = [group EXCEPT ![g].InitialScanComplete =
                               @ \/ OnlyPossibleWanLink(g, pol[g][k].idx)]
          BY <1>8, <2>3 DEF AWWaitForInterface
        <4> QED BY <1>0, <4>1 DEF GroupType
      <3> QED BY <1>5, <2>1, <3>1, <3>2
    <2> QED BY <2>2, <2>3
  <1>9. CASE AWScanning(g, k) \/ AWWaitingForIfaceTearDown(g, k)
    <2>1. pol[g][k].pc = "loop"
      BY <1>9 DEF AWScanning, AWWaitingForIfaceTearDown, Handling
    <2>2. CASE \/ InterfaceInvalid(g, k) \/ InterfaceDeselect(g, k)
               \/ InterfaceValidated(g, k) \/ RestartSelectionInterface(g, k)
      BY <1>5, <1>6, <2>1, <2>2
    <2>3. CASE UNCHANGED group /\ \E s, i, x : Goto(g, k, s, i, x)
      BY <1>5, <2>1, <2>3
    <2> QED BY <1>9, <2>2, <2>3 DEF AWScanning, AWWaitingForIfaceTearDown
  <1>10. CASE AWReconfiguration(g, k) \/ AWRebootingPlatform(g, k)
    BY <1>5, <1>10 DEF AWReconfiguration, AWRebootingPlatform, Handling
  <1>11. CASE AWInterfaceActive(g, k) \/ AWInterfaceDown(g, k)
    <2>1. pol[g][k].pc = "loop"
      BY <1>11 DEF AWInterfaceActive, AWInterfaceDown, Handling
    <2>2. CASE InterfaceDeselect(g, k)
      BY <1>5, <1>6, <2>1, <2>2
    <2>3. CASE /\ \/ group' = SetGroupSelectedIface(group, g, pol[g][k].idx)
                  \/ UNCHANGED group
               /\ \E s, i, x : Goto(g, k, s, i, x)
      BY <1>5, <2>1, <2>3, SelectionKeepsState
    <2> QED BY <1>11, <2>2, <2>3 DEF AWInterfaceActive, AWInterfaceDown
  <1>12. CASE AWTearingDown(g, k)
    <2>1. /\ pol[g][k].pc = "loop"
          /\ group' = SetGroupSelectedIface(group, g, NoIface) \/ UNCHANGED group
          /\ \E s, i, x : Goto(g, k, s, i, x)
      BY <1>12 DEF AWTearingDown, Handling
    <2> QED BY <1>5, <2>1, SelectionKeepsState
  <1> QED
    BY <1>1, <1>2, <1>3, <1>4, <1>7, <1>8, <1>9, <1>10, <1>11, <1>12 DEF AWNext

(* The steps that touch neither the threads nor the State of a group.        *)
LEMMA OtherStepsKeepThreads ==
    ASSUME TypeOK,
           \/ \E i \in Ifaces, k \in ISMSlots : ISMStep(i, k) \/ LayerStep(i, k)
           \/ Environment /\ UNCHANGED <<ism, pol, fo>>
           \/ UNCHANGED vars
    PROVE  /\ pol' = pol
           /\ \A h \in Groups : group'[h].State = group[h].State
  <1>0. group \in [Groups -> GroupType]
    BY DEF TypeOK, DataTypeOK
  <1>1. CASE UNCHANGED vars
    BY <1>1 DEF vars
  <1>2. ASSUME NEW i \in Ifaces, NEW k \in ISMSlots, ISMStep(i, k) \/ LayerStep(i, k)
        PROVE  pol' = pol /\ group' = group
    BY <1>2 DEF ISMStep, LayerStep, ISMControl, ISMDisturbed, ISMStart, ISMSample,
                ISMDown, ISMReset, PhysicalInterfaceDown, ISMValidated, ISMStandby,
                ISMUp, ISMDeactivated, ISMRefreshAborted, ISMRefreshed, ISMExit,
                ISMEnd, ISMLinkLost, ISMLeaseLost, ISMWanUp, ISMFeatureSwitched,
                ISMModeChanged
  <1>3. CASE Environment /\ UNCHANGED <<ism, pol, fo>>
    <2>1. \/ group' = group
          \/ \E g \in Groups : \/ \E b : group' = [group EXCEPT ![g].ResetSelectedInterface = b]
                               \/ group' = [group EXCEPT ![g].ConfigChanged = TRUE]
          \/ \E i \in Ifaces, g \in Groups :
                group' = [group EXCEPT ![g].ConfigChanged = TRUE,
                                       ![iface[i].Group].ConfigChanged = TRUE]
      BY <1>3 DEF Environment, SetWanEnable, SetSelectionEnable, SetBaseInterfaceStatus,
                  SetConnectivityStatus, SetInterfaceReset, SetResetSelectedInterface,
                  ClearResetSelectedInterface,
                  SetPolicy, SetSelectionGroup
    <2>2. ASSUME NEW g \in Groups, NEW h \in Groups, NEW b
          PROVE  /\ [group EXCEPT ![g].ResetSelectedInterface = b][h].State = group[h].State
                 /\ [group EXCEPT ![g].ConfigChanged = TRUE][h].State = group[h].State
      BY <1>0 DEF GroupType
    <2>3. ASSUME NEW h \in Groups
          PROVE  group'[h].State = group[h].State
      <3>1. CASE group' = group
        BY <3>1
      <3>2. ASSUME NEW g \in Groups, NEW b,
                   \/ group' = [group EXCEPT ![g].ResetSelectedInterface = b]
                   \/ group' = [group EXCEPT ![g].ConfigChanged = TRUE]
            PROVE  group'[h].State = group[h].State
        <4>1. CASE group' = [group EXCEPT ![g].ResetSelectedInterface = b]
          BY <4>1, <2>2
        <4>2. CASE group' = [group EXCEPT ![g].ConfigChanged = TRUE]
          BY <4>2, <2>2
        <4> QED BY <3>2, <4>1, <4>2
      <3>3. ASSUME NEW i \in Ifaces, NEW g \in Groups,
                   group' = [group EXCEPT ![g].ConfigChanged = TRUE,
                                          ![iface[i].Group].ConfigChanged = TRUE]
            PROVE  group'[h].State = group[h].State
        <4> DEFINE G1 == [group EXCEPT ![g].ConfigChanged = TRUE]
        <4>1. G1 \in [Groups -> GroupType] /\ G1[h].State = group[h].State
          BY <1>0 DEF GroupType
        <4>2. group' = [G1 EXCEPT ![iface[i].Group].ConfigChanged = TRUE]
          BY <3>3
        <4> HIDE DEF G1
        <4>3. group'[h].State = G1[h].State
          BY <4>1, <4>2 DEF GroupType
        <4> QED BY <4>1, <4>3
      <3> QED BY <2>1, <3>1, <3>2, <3>3
    <2>4. pol' = pol
      BY <1>3
    <2> QED BY <2>3, <2>4
  <1> QED BY <1>1, <1>2, <1>3

(* Of the failover thread only IfaceGroupMonitor creates threads; COLDSWAP   *)
(* moves the State of groups without one.                                    *)
LEMMA FOStepKeepsThreads ==
    ASSUME TypeOK, FOStep, ~ FOIfaceGroupMonitor
    PROVE  /\ pol' = pol
           /\ \A h \in Groups : group'[h].State = "RUNNING" => group[h].State = "RUNNING"
           /\ FailOverType = "HOTSWAP" =>
                 \A h \in Groups : group'[h].State = group[h].State
  <1>0. group \in [Groups -> GroupType]
    BY DEF TypeOK, DataTypeOK
  <1>1. ASSUME NEW g, NEW h, MarkGroup(g, h)
        PROVE  /\ \A n \in Groups : group'[n].State = "RUNNING" => group[n].State = "RUNNING"
               /\ FailOverType = "HOTSWAP" =>
                     \A n \in Groups : group'[n].State = group[n].State
    <2>1. \/ group' = group
          \/ FailOverType = "COLDSWAP" /\ group' = [group EXCEPT ![g].State = "STOPPED"]
      BY <1>1 DEF MarkGroup
    <2> QED BY <1>0, <2>1 DEF GroupType
  <1>2. CASE FOThreadStart
    BY <1>0, <1>2 DEF FOThreadStart, GroupType
  <1>3. CASE FOScanningGroup \/ FOMarkHighPriorityGroup \/ FOGroupActive
    BY <1>1, <1>3 DEF FOScanningGroup, FOMarkHighPriorityGroup, FOGroupActive
  <1>4. CASE FOActivateGroup
    <2>1. CASE UNCHANGED group
      BY <1>4, <2>1 DEF FOActivateGroup
    <2>2. CASE ~ UNCHANGED group
      <3> DEFINE i == group[fo.high].SelectedInterface
                 activates == i # NoIface /\ iface[i].Selection = "SELECTED"
                 stopped == {g \in Groups : /\ FailOverType = "COLDSWAP"
                                            /\ g > fo.high
                                            /\ group[g].State = "RUNNING"}
      <3>1. group' = [g \in Groups |->
                 IF g \in stopped
                 THEN [group[g] EXCEPT !.State = "DEACTIVATED", !.ConfigChanged = TRUE]
                 ELSE IF g = fo.high
                 THEN [group[g] EXCEPT !.Activated = @ \/ activates]
                 ELSE group[g]]
        BY <1>4, <2>2 DEF FOActivateGroup
      <3>2. FailOverType = "HOTSWAP" => stopped = {}
        OBVIOUS
      <3> HIDE DEF stopped, activates
      <3>3. \A h \in Groups : group'[h].State =
                IF h \in stopped THEN "DEACTIVATED" ELSE group[h].State
        BY <1>0, <3>1 DEF GroupType
      <3> QED BY <1>4, <3>2, <3>3 DEF FOActivateGroup
    <2> QED BY <2>1, <2>2
  <1> QED
    BY <1>2, <1>3, <1>4
    DEF FOStep, FONext, FOUpdateControllerData, FODeactivate, FORestorationWait,
        FODeactivateGroup, FOExit, FOJoin, FOTick

(* IfaceGroupMonitor starts a thread where the group is STOPPED.             *)
LEMMA MonitorStarts ==
    ASSUME TypeOK, FOIfaceGroupMonitor, NEW g \in Groups
    PROVE  \/ /\ pol'[g] = pol[g]
              /\ group'[g].State = group[g].State
           \/ /\ group[g].State = "STOPPED" /\ group'[g].State = "RUNNING"
              /\ \E n \in PolSlots :
                    /\ pol[g][n].pc = "none"
                    /\ pol'[g] = [pol[g] EXCEPT ![n] = Outside("start")]
  <1>0. /\ group \in [Groups -> GroupType]
        /\ pol \in [Groups -> [PolSlots -> PolType]]
    BY DEF TypeOK, DataTypeOK, PolTypeOK
  <1>1. CASE Created(g)
    <2>1. FreePolSlot(g) \in PolSlots /\ ~ PolLive(g, FreePolSlot(g))
      BY <1>1 DEF FreePolSlot, Created
    <2>2. pol'[g] = [pol[g] EXCEPT ![FreePolSlot(g)] = Outside("start")]
      BY <1>1 DEF FOIfaceGroupMonitor, StartPolicy
    <2>3. group'[g].State = "RUNNING" /\ group[g].State = "STOPPED"
      BY <1>0, <1>1 DEF FOIfaceGroupMonitor, Created, NeedsThread, GroupType
    <2> QED BY <2>1, <2>2, <2>3 DEF PolLive
  <1>2. CASE ~ Created(g)
    BY <1>0, <1>2, ZenonT(30) DEF FOIfaceGroupMonitor, GroupType
  <1> QED BY <1>1, <1>2

-----------------------------------------------------------------------------
(* A RUNNING group always has a thread.                                      *)
LEMMA JoinInductive == TypeOK /\ JoinWaitsForThread /\ [Next]_vars => JoinWaitsForThread'
  <1> SUFFICES ASSUME TypeOK, JoinWaitsForThread, [Next]_vars
               PROVE  JoinWaitsForThread'
    OBVIOUS
  <1> USE DEF JoinWaitsForThread, PolLive
  <1>1. CASE \/ \E i \in Ifaces, k \in ISMSlots : ISMStep(i, k) \/ LayerStep(i, k)
             \/ Environment /\ UNCHANGED <<ism, pol, fo>>
             \/ UNCHANGED vars
    BY <1>1, OtherStepsKeepThreads
  <1>2. CASE FOIfaceGroupMonitor
    <2> SUFFICES ASSUME NEW g \in Groups, group'[g].State = "RUNNING"
                 PROVE  \E k \in PolSlots : pol'[g][k].pc # "none"
      OBVIOUS
    <2>1. CASE pol'[g] = pol[g] /\ group'[g].State = group[g].State
      BY <2>1
    <2>2. ASSUME NEW n \in PolSlots, pol'[g] = [pol[g] EXCEPT ![n] = Outside("start")]
          PROVE  pol'[g][n].pc # "none"
      BY <2>2 DEF Outside, TypeOK, PolTypeOK
    <2> QED BY <1>2, <2>1, <2>2, MonitorStarts
  <1>3. CASE FOStep /\ ~ FOIfaceGroupMonitor
    BY <1>3, FOStepKeepsThreads
  <1>4. ASSUME NEW g \in Groups, NEW k \in PolSlots, AWThreadExit(g, k)
        PROVE  JoinWaitsForThread'
    <2>1. group'[g].State # "RUNNING"
      BY <1>4 DEF AWThreadExit, TypeOK, DataTypeOK, GroupType
    <2>2. \A h \in Groups \ {g} : group'[h] = group[h] /\ pol'[h] = pol[h]
      BY <1>4 DEF AWThreadExit, TypeOK, DataTypeOK, PolTypeOK
    <2> QED BY <2>1, <2>2
  <1>5. ASSUME NEW g \in Groups, NEW k \in PolSlots, PolStep(g, k), ~ AWThreadExit(g, k)
        PROVE  JoinWaitsForThread'
    <2>1. /\ \A h \in Groups : group'[h].State = group[h].State
          /\ pol[g][k].pc # "none" /\ pol'[g][k].pc # "none"
          /\ \A h \in Groups, l \in PolSlots :
                h # g \/ l # k => pol'[h][l].pc = pol[h][l].pc
      BY <1>5, PolStepKeepsThread DEF PolStep
    <2> QED BY <2>1
  <1> QED BY <1>1, <1>2, <1>3, <1>4, <1>5 DEF Next, ThreadStep, EnvStep

(* The loop at the end of WanMgr_FailOverThread, "Wait for All selection     *)
(* thread to exit", never waits for a thread that is gone: under HOTSWAP and *)
(* COLDSWAP alike, a group in STATE_GROUP_RUNNING has a selection thread.    *)
THEOREM JoinNeverWaitsInVain == Spec => []JoinWaitsForThread
  <1>1. Init => JoinWaitsForThread
    BY DEF Init, DataInit, InitGroups, JoinWaitsForThread
  <1>2. TypeOK /\ JoinWaitsForThread /\ [Next]_vars => JoinWaitsForThread'
    BY JoinInductive
  <1> QED BY <1>1, <1>2, TypeCorrect, PTL DEF Spec

-----------------------------------------------------------------------------
(* HOTSWAP: a thread lives exactly while its group is RUNNING.               *)
OneThread == SingleSelectionThread /\ ThreadsRunning

LEMMA OneThreadInductive ==
    ASSUME FailOverType = "HOTSWAP"
    PROVE  TypeOK /\ OneThread /\ [Next]_vars => OneThread'
  <1> SUFFICES ASSUME TypeOK, OneThread, [Next]_vars
               PROVE  OneThread'
    OBVIOUS
  <1> USE DEF OneThread, SingleSelectionThread, ThreadsRunning, PolLive
  <1>1. CASE \/ \E i \in Ifaces, k \in ISMSlots : ISMStep(i, k) \/ LayerStep(i, k)
             \/ Environment /\ UNCHANGED <<ism, pol, fo>>
             \/ UNCHANGED vars
    BY <1>1, OtherStepsKeepThreads
  <1>2. CASE FOIfaceGroupMonitor
    <2> SUFFICES ASSUME NEW g \in Groups
                 PROVE  /\ \A k, l \in PolSlots :
                              pol'[g][k].pc # "none" /\ pol'[g][l].pc # "none" => k = l
                        /\ \A k \in PolSlots :
                              pol'[g][k].pc # "none" => group'[g].State = "RUNNING"
      OBVIOUS
    <2>1. CASE pol'[g] = pol[g] /\ group'[g].State = group[g].State
      BY <2>1
    <2>2. ASSUME NEW n \in PolSlots, pol'[g] = [pol[g] EXCEPT ![n] = Outside("start")],
                 group[g].State = "STOPPED", group'[g].State = "RUNNING"
          PROVE  \A k, l \in PolSlots :
                    pol'[g][k].pc # "none" /\ pol'[g][l].pc # "none" => k = l
      <3>1. \A k \in PolSlots : pol[g][k].pc = "none"
        BY <2>2
      <3> QED BY <2>2, <3>1 DEF TypeOK, PolTypeOK
    <2> QED BY <1>2, <2>1, <2>2, MonitorStarts
  <1>3. CASE FOStep /\ ~ FOIfaceGroupMonitor
    BY <1>3, FOStepKeepsThreads
  <1>4. ASSUME NEW g \in Groups, NEW k \in PolSlots, AWThreadExit(g, k)
        PROVE  OneThread'
    <2>1. \A l \in PolSlots : pol'[g][l].pc = "none"
      <3>1. pol[g][k].pc # "none"
        BY <1>4 DEF AWThreadExit
      <3>2. \A l \in PolSlots \ {k} : pol'[g][l] = pol[g][l]
        BY <1>4 DEF AWThreadExit, TypeOK, PolTypeOK
      <3>3. pol'[g][k].pc = "none"
        BY <1>4 DEF AWThreadExit, TypeOK, PolTypeOK, Outside
      <3> QED BY <3>1, <3>2, <3>3
    <2>2. \A h \in Groups \ {g} : group'[h] = group[h] /\ pol'[h] = pol[h]
      BY <1>4 DEF AWThreadExit, TypeOK, DataTypeOK, PolTypeOK
    <2> QED BY <2>1, <2>2
  <1>5. ASSUME NEW g \in Groups, NEW k \in PolSlots, PolStep(g, k), ~ AWThreadExit(g, k)
        PROVE  OneThread'
    <2>1. /\ \A h \in Groups : group'[h].State = group[h].State
          /\ pol[g][k].pc # "none" /\ pol'[g][k].pc # "none"
          /\ \A h \in Groups, l \in PolSlots :
                h # g \/ l # k => pol'[h][l].pc = pol[h][l].pc
      BY <1>5, PolStepKeepsThread DEF PolStep
    <2> QED BY <2>1
  <1> QED BY <1>1, <1>2, <1>3, <1>4, <1>5 DEF Next, ThreadStep, EnvStep

(* README: "one instance [of the selection policy] per interface Group".     *)
(* Under HOTSWAP the State of a group, tested by IfaceGroupMonitor and reset *)
(* in the last lock section of the thread, keeps a second thread away.       *)
THEOREM OneThreadPerGroup ==
    ASSUME FailOverType = "HOTSWAP"
    PROVE  Spec => []SingleSelectionThread
  <1>1. Init => OneThread
    BY DEF Init, PolInit, OneThread, SingleSelectionThread, ThreadsRunning, PolLive, Outside
  <1>2. TypeOK /\ OneThread /\ [Next]_vars => OneThread'
    BY OneThreadInductive
  <1>3. OneThread => SingleSelectionThread
    BY DEF OneThread
  <1> QED BY <1>1, <1>2, <1>3, TypeCorrect, PTL DEF Spec

-----------------------------------------------------------------------------
(* An iteration that ends with an interface, or in a state that needs none.  *)
LEMMA GotoIndex ==
    ASSUME TypeOK, PolicyIndexValid, NEW g \in Groups, NEW k \in PolSlots,
           NEW s, NEW i, NEW x, Goto(g, k, s, i, x),
           s \in {"SELECTING", "SM_EXIT"} \/ i # NoIface
    PROVE  PolicyIndexValid'
  <1>0. pol \in [Groups -> [PolSlots -> PolType]]
    BY DEF TypeOK, PolTypeOK
  <1>1. /\ pol'[g][k].st = s /\ pol'[g][k].idx = i
        /\ \A h \in Groups, l \in PolSlots : h # g \/ l # k => pol'[h][l] = pol[h][l]
    BY <1>0 DEF Goto
  <1> QED BY <1>1 DEF PolicyIndexValid

(* Each state function, given an interface, hands one on or stops needing it. *)
LEMMA PolStepIndex ==
    ASSUME TypeOK, PolicyIndexValid, NEW g \in Groups, NEW k \in PolSlots, PolStep(g, k)
    PROVE  PolicyIndexValid'
  <1>0. pol \in [Groups -> [PolSlots -> PolType]]
    BY DEF TypeOK, PolTypeOK
  <1>1. CASE AWStart(g, k)
    <2>1. \E i : Goto(g, k, "SELECTING", i, FALSE)
      BY <1>1 DEF AWStart
    <2> QED BY <2>1, GotoIndex
  <1>2. CASE AWUpdateControllerData(g, k)
    <2>1. \A h \in Groups, l \in PolSlots :
             /\ pol'[h][l].pc = pol[h][l].pc
             /\ pol'[h][l].st = pol[h][l].st
             /\ pol'[h][l].idx = pol[h][l].idx
      BY <1>0, <1>2 DEF AWUpdateControllerData, PolType
    <2> QED BY <2>1 DEF PolicyIndexValid
  <1>3. CASE AWTimerExpires(g, k)
    <2>1. \A h \in Groups, l \in PolSlots :
             /\ pol'[h][l].pc = pol[h][l].pc
             /\ pol'[h][l].st = pol[h][l].st
             /\ pol'[h][l].idx = pol[h][l].idx
      BY <1>0, <1>3 DEF AWTimerExpires, PolType
    <2> QED BY <2>1 DEF PolicyIndexValid
  <1>4. CASE AWLeaveLoop(g, k) \/ AWThreadExit(g, k)
    <2>1. PICK c \in {"exit", "none"} : pol' = [pol EXCEPT ![g][k] = Outside(c)]
      BY <1>4 DEF AWLeaveLoop, AWThreadExit
    <2>2. /\ pol'[g][k].pc # "loop"
          /\ \A h \in Groups, l \in PolSlots : h # g \/ l # k => pol'[h][l] = pol[h][l]
      BY <1>0, <2>1 DEF Outside
    <2> QED BY <2>2 DEF PolicyIndexValid
  <1>5. CASE AWSelecting(g, k)
    <2>1. \/ Goto(g, k, "SM_EXIT", pol[g][k].idx, FALSE)
          \/ pol[g][k].idx # NoIface /\ Goto(g, k, "WAITING", pol[g][k].idx, FALSE)
          \/ Goto(g, k, "SELECTING", HighPriorityIface(g), FALSE)
          \/ Goto(g, k, "SELECTING", NoIface, FALSE)
      BY <1>5 DEF AWSelecting
    <2> QED BY <2>1, GotoIndex
  <1>6. ASSUME pol[g][k].pc = "loop", pol[g][k].st \notin {"SELECTING", "SM_EXIT"}
        PROVE  pol[g][k].idx # NoIface
    BY <1>6 DEF PolicyIndexValid
  <1>7. ASSUME InterfaceInvalid(g, k) \/ RestartSelectionInterface(g, k)
        PROVE  PolicyIndexValid'
    <2>1. Goto(g, k, "SELECTING", NoIface, FALSE)
      BY <1>7 DEF InterfaceInvalid, RestartSelectionInterface
    <2> QED BY <2>1, GotoIndex
  <1>8. ASSUME InterfaceDeselect(g, k) \/ InterfaceValidated(g, k),
               pol[g][k].idx # NoIface
        PROVE  PolicyIndexValid'
    <2>1. \E s : Goto(g, k, s, pol[g][k].idx, FALSE)
      BY <1>8 DEF InterfaceDeselect, InterfaceValidated
    <2> QED BY <1>8, <2>1, GotoIndex
  <1>9. CASE AWWaitForInterface(g, k)
    <2>1. pol[g][k].idx # NoIface
      BY <1>6, <1>9 DEF AWWaitForInterface, Handling
    <2>2. \/ InterfaceInvalid(g, k)
          \/ \E s, x : Goto(g, k, s, pol[g][k].idx, x)
      BY <1>9 DEF AWWaitForInterface
    <2> QED BY <1>7, <2>1, <2>2, GotoIndex
  <1>10. CASE AWScanning(g, k)
    <2>1. pol[g][k].idx # NoIface
      BY <1>6, <1>10 DEF AWScanning, Handling
    <2>2. \/ InterfaceDeselect(g, k) \/ InterfaceValidated(g, k)
          \/ \E s, x : Goto(g, k, s, pol[g][k].idx, x)
      BY <1>10 DEF AWScanning
    <2> QED BY <1>8, <2>1, <2>2, GotoIndex
  <1>11. CASE AWWaitingForIfaceTearDown(g, k)
    <2>1. pol[g][k].idx # NoIface
      BY <1>6, <1>11 DEF AWWaitingForIfaceTearDown, Handling
    <2>2. \/ InterfaceInvalid(g, k) \/ RestartSelectionInterface(g, k)
          \/ \E s, x : Goto(g, k, s, pol[g][k].idx, x)
      BY <1>11 DEF AWWaitingForIfaceTearDown
    <2> QED BY <1>7, <2>1, <2>2, GotoIndex
  <1>12. CASE \/ AWReconfiguration(g, k) \/ AWRebootingPlatform(g, k)
              \/ AWInterfaceActive(g, k) \/ AWInterfaceDown(g, k)
              \/ AWTearingDown(g, k)
    <2>1. pol[g][k].idx # NoIface
      BY <1>6, <1>12 DEF AWReconfiguration, AWRebootingPlatform, AWInterfaceActive,
                         AWInterfaceDown, AWTearingDown, Handling
    <2>2. \/ InterfaceDeselect(g, k)
          \/ \E s, x : Goto(g, k, s, pol[g][k].idx, x)
      BY <1>12 DEF AWReconfiguration, AWRebootingPlatform, AWInterfaceActive,
                   AWInterfaceDown, AWTearingDown
    <2> QED BY <1>8, <2>1, <2>2, GotoIndex
  <1> QED
    BY <1>1, <1>2, <1>3, <1>4, <1>5, <1>9, <1>10, <1>11, <1>12 DEF PolStep, AWNext

(* No state function of the AutoWAN policy that works on the selected        *)
(* interface is ever entered with activeInterfaceIdx = -1, whatever the data *)
(* model writes, HOTSWAP or COLDSWAP.                                        *)
THEOREM SelectionHasInterface == Spec => []PolicyIndexValid
  <1>1. Init => PolicyIndexValid
    BY DEF Init, PolInit, PolicyIndexValid, Outside
  <1>2. TypeOK /\ PolicyIndexValid /\ [Next]_vars => PolicyIndexValid'
    <2> SUFFICES ASSUME TypeOK, PolicyIndexValid, [Next]_vars
                 PROVE  PolicyIndexValid'
      OBVIOUS
    <2>1. CASE \/ \E i \in Ifaces, k \in ISMSlots : ISMStep(i, k) \/ LayerStep(i, k)
               \/ Environment /\ UNCHANGED <<ism, pol, fo>>
               \/ UNCHANGED vars
      <3>1. pol' = pol
        BY <2>1, OtherStepsKeepThreads
      <3> QED BY <3>1 DEF PolicyIndexValid
    <2>2. CASE FOIfaceGroupMonitor
      <3> SUFFICES ASSUME NEW g \in Groups, NEW l \in PolSlots,
                          pol'[g][l].pc = "loop"
                   PROVE  pol'[g][l] = pol[g][l]
        BY DEF PolicyIndexValid
      <3>1. ASSUME NEW n \in PolSlots, pol'[g] = [pol[g] EXCEPT ![n] = Outside("start")]
            PROVE  pol'[g][l] = pol[g][l]
        BY <3>1 DEF Outside, TypeOK, PolTypeOK
      <3> QED BY <2>2, <3>1, MonitorStarts
    <2>3. CASE FOStep /\ ~ FOIfaceGroupMonitor
      <3>1. pol' = pol
        BY <2>3, FOStepKeepsThreads
      <3> QED BY <3>1 DEF PolicyIndexValid
    <2> QED BY <2>1, <2>2, <2>3, PolStepIndex DEF Next, ThreadStep, EnvStep
  <1> QED BY <1>1, <1>2, TypeCorrect, PTL DEF Spec
=============================================================================
