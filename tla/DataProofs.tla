----------------------------- MODULE DataProofs -----------------------------
(* What the proofs about the selection policies share: the types of the      *)
(* data behind the mutex and of the state machine threads, kept by every     *)
(* write of the data model and every step of a state machine.                *)
EXTENDS IfaceSM, TLAPS

-----------------------------------------------------------------------------
(* An iteration of a state machine thread that ends in a known phase.        *)
LEMMA ISMGotoType ==
    ASSUME ISMTypeOK, NEW i \in Ifaces, NEW k \in ISMSlots, NEW s \in ISMPhases,
           config \in ConfigType, ISMGoto(i, k, s)
    PROVE  ISMTypeOK'
  BY DEF ISMTypeOK, ISMType, ISMGoto, ConfigType, ISMLoop, ISMPhases

LEMMA StartISMType ==
    ASSUME ISMTypeOK, NEW i \in Ifaces
    PROVE  StartISM(i) \in [Ifaces -> [ISMSlots -> ISMType]]
  BY DEF ISMTypeOK, ISMType, StartISM, ISMPhases

-----------------------------------------------------------------------------
(* Writes of the tables.                                                     *)
LEMMA SetGroupSelectedIfaceType ==
    ASSUME NEW T \in [Groups -> GroupType], NEW g \in Groups,
           NEW i \in Ifaces \cup {NoIface}
    PROVE  SetGroupSelectedIface(T, g, i) \in [Groups -> GroupType]
  <1> DEFINE T1 == [T EXCEPT ![g].SelectedInterface = i]
  <1>1. T1 \in [Groups -> GroupType]
    BY DEF GroupType
  <1>2. SetGroupSelectedIface(T, g, i) = [T1 EXCEPT ![g].InitialScanComplete = TRUE]
    BY DEF SetGroupSelectedIface
  <1> HIDE DEF T1
  <1> QED BY <1>1, <1>2 DEF GroupType

LEMMA IfaceWriteType ==
    ASSUME NEW T \in [Ifaces -> IfaceType], NEW i
    PROVE  /\ \A s \in IfaceStatuses : [T EXCEPT ![i].Status = s] \in [Ifaces -> IfaceType]
           /\ \A s \in SelectionStates :
                  [T EXCEPT ![i].Selection = s] \in [Ifaces -> IfaceType]
           /\ \A b \in BOOLEAN : [T EXCEPT ![i].ActiveLink = b] \in [Ifaces -> IfaceType]
  <1>1. ASSUME NEW r \in IfaceType
        PROVE  /\ \A s \in IfaceStatuses : [r EXCEPT !.Status = s] \in IfaceType
               /\ \A s \in SelectionStates : [r EXCEPT !.Selection = s] \in IfaceType
               /\ \A b \in BOOLEAN : [r EXCEPT !.ActiveLink = b] \in IfaceType
    BY DEF IfaceType
  <1> QED BY <1>1

-----------------------------------------------------------------------------
(* The data model and the state machines.                                    *)
LEMMA EnvironmentDataType ==
    ASSUME DataTypeOK, Environment
    PROVE  DataTypeOK'
  <1> USE DEF DataTypeOK
  <1>2. CASE SetWanEnable
    BY <1>2 DEF SetWanEnable, ConfigType
  <1>3. ASSUME NEW i \in Ifaces,
               \/ SetSelectionEnable(i)
               \/ SetBaseInterfaceStatus(i)
               \/ SetConnectivityStatus(i)
               \/ SetInterfaceReset(i)
        PROVE  DataTypeOK'
    <2>1. iface' \in [Ifaces -> IfaceType]
      <3>1. CASE SetSelectionEnable(i)
        BY <3>1, ZenonT(30) DEF SetSelectionEnable, IfaceType
      <3>2. CASE SetBaseInterfaceStatus(i)
        BY <3>2, ZenonT(30) DEF SetBaseInterfaceStatus, IfaceType
      <3>3. CASE SetConnectivityStatus(i)
        BY <3>3, ZenonT(30) DEF SetConnectivityStatus, IfaceType
      <3>4. CASE SetInterfaceReset(i)
        BY <3>4, ZenonT(30) DEF SetInterfaceReset, IfaceType
      <3> QED BY <1>3, <3>1, <3>2, <3>3, <3>4
    <2> QED BY <1>3, <2>1 DEF SetSelectionEnable, SetBaseInterfaceStatus,
                              SetConnectivityStatus, SetInterfaceReset
  <1>4. ASSUME NEW i \in Ifaces, SetSelectionGroup(i)
        PROVE  DataTypeOK'
    <2>1. PICK h \in Groups \ {iface[i].Group} :
              /\ group' = [group EXCEPT ![h].ConfigChanged = TRUE,
                                        ![iface[i].Group].ConfigChanged = TRUE]
              /\ iface' = [iface EXCEPT ![i].Group = h]
      BY <1>4 DEF SetSelectionGroup
    <2>2. iface' \in [Ifaces -> IfaceType]
      BY <2>1 DEF IfaceType
    <2>3. iface[i].Group \in Groups
      BY DEF IfaceType
    <2>4. group' \in [Groups -> GroupType]
      <3> DEFINE G1 == [group EXCEPT ![h].ConfigChanged = TRUE]
      <3>1. G1 \in [Groups -> GroupType]
        BY DEF GroupType
      <3>2. group' = [G1 EXCEPT ![iface[i].Group].ConfigChanged = TRUE]
        BY <2>1, <2>3
      <3> HIDE DEF G1
      <3> QED BY <3>1, <3>2, <2>3, ZenonT(30) DEF GroupType
    <2> QED BY <1>4, <2>2, <2>4 DEF SetSelectionGroup
  <1>5. ASSUME NEW g \in Groups,
               \/ SetResetSelectedInterface(g) \/ ClearResetSelectedInterface(g)
               \/ SetPolicy(g)
        PROVE  DataTypeOK'
    <2>1. CASE SetResetSelectedInterface(g)
      BY <2>1 DEF SetResetSelectedInterface, GroupType
    <2>2. CASE ClearResetSelectedInterface(g)
      BY <2>2 DEF ClearResetSelectedInterface, GroupType
    <2>3. CASE SetPolicy(g)
      BY <2>3 DEF SetPolicy, GroupType
    <2> QED BY <1>5, <2>1, <2>2, <2>3
  <1> QED BY <1>2, <1>3, <1>4, <1>5 DEF Environment

(* A state machine thread changes Status, Connectivity, Reset and SM_Running *)
(* of its interface, and asks for a reset of the failover scan.              *)
LEMMA ISMDataType ==
    ASSUME DataTypeOK, ISMTypeOK, NEW i \in Ifaces, NEW k \in ISMSlots, ISMNext(i, k)
    PROVE  DataTypeOK' /\ ISMTypeOK'
  <1> USE DEF DataTypeOK
  <1>2. CASE ISMSample(i, k)
    <2>1. config.Enable \in BOOLEAN
      BY DEF ConfigType
    <2>2. ISMTypeOK'
      BY <1>2, <2>1 DEF ISMSample, ISMTypeOK, ISMType
    <2> QED BY <1>2, <2>2 DEF ISMSample
  <1>3. CASE ISMStart(i, k)
    <2>1. ISMTypeOK'
      BY <1>3, ISMGotoType DEF ISMStart, ISMPhases
    <2>2. iface' \in [Ifaces -> IfaceType]
      <3> DEFINE F1 == [iface EXCEPT ![i].Status = "INITIALISING"]
      <3>1. F1 \in [Ifaces -> IfaceType]
        BY DEF IfaceType, IfaceStatuses
      <3>2. iface' = [F1 EXCEPT ![i].SMRunning = TRUE]
        BY <1>3 DEF ISMStart
      <3> HIDE DEF F1
      <3> QED BY <3>1, <3>2, ZenonT(30) DEF IfaceType
    <2> QED BY <1>3, <2>1, <2>2 DEF ISMStart
  <1>4. ASSUME NEW s \in {"refresh", "deconfig"}, ISMGoto(i, k, s),
               ism[i][k].st \in {"config", "obtain", "standby", "up"},
               NEW t \in StatusesAfterDown(i, k),
               iface' = [iface EXCEPT ![i].Status = t], UNCHANGED <<config, group>>
        PROVE  DataTypeOK' /\ ISMTypeOK'
    <2>1. ISMTypeOK'
      BY <1>4, ISMGotoType DEF ISMPhases
    <2>2. t \in IfaceStatuses
      BY <1>4 DEF StatusesAfterDown, IfaceStatuses, IfaceType
    <2> QED BY <1>4, <2>1, <2>2 DEF IfaceType
  <1>5. CASE ISMDown(i, k)
    BY <1>4, <1>5 DEF ISMDown, PhysicalInterfaceDown
  <1>6. CASE ISMReset(i, k)
    BY <1>4, <1>6 DEF ISMReset, PhysicalInterfaceDown
  <1>7. CASE ISMLinkLost(i, k)
    BY <1>4, <1>7 DEF ISMLinkLost
  <1>8. ASSUME NEW s \in ISMPhases, ISMGoto(i, k, s), NEW c \in BOOLEAN,
               NEW t \in IfaceStatuses, UNCHANGED <<config, group>>,
               iface' = [iface EXCEPT ![i].Status = t, ![i].Connectivity = c]
        PROVE  DataTypeOK' /\ ISMTypeOK'
    <2>1. ISMTypeOK'
      BY <1>8, ISMGotoType
    <2> QED BY <1>8, <2>1, ZenonT(30) DEF IfaceType
  <1>9. CASE ISMValidated(i, k)
    BY <1>8, <1>9 DEF ISMValidated, ISMPhases, IfaceStatuses
  <1>10. ASSUME NEW s \in ISMPhases, ISMGoto(i, k, s),
                NEW t \in IfaceStatuses, UNCHANGED <<config, group>>,
                iface' = [iface EXCEPT ![i].Status = t]
        PROVE  DataTypeOK' /\ ISMTypeOK'
    <2>1. ISMTypeOK'
      BY <1>10, ISMGotoType
    <2> QED BY <1>10, <2>1 DEF IfaceType
  <1>11. CASE \/ ISMStandby(i, k) \/ ISMUp(i, k) \/ ISMDeactivated(i, k)
              \/ ISMWanUp(i, k) \/ ISMModeChanged(i, k)
    BY <1>10, <1>11 DEF ISMStandby, ISMUp, ISMDeactivated, ISMWanUp, ISMModeChanged,
                        ISMPhases, IfaceStatuses
  <1>12. CASE ISMLeaseLost(i, k)
    <2>1. ISMTypeOK'
      BY <1>12, ISMGotoType DEF ISMLeaseLost, ISMPhases
    <2> QED BY <1>12, <2>1 DEF ISMLeaseLost, IfaceType, IfaceStatuses
  <1>13. CASE ISMRefreshAborted(i, k)
    <2>1. ISMTypeOK'
      BY <1>13, ISMGotoType DEF ISMRefreshAborted, ISMPhases
    <2>2. PICK t \in StatusesAfterDown(i, k) :
                 iface' = [iface EXCEPT ![i].Reset = FALSE, ![i].Status = t]
      BY <1>13 DEF ISMRefreshAborted
    <2>3. t \in IfaceStatuses
      BY <1>13, <2>2 DEF ISMRefreshAborted, StatusesAfterDown, IfaceStatuses, IfaceType
    <2>4. iface' \in [Ifaces -> IfaceType]
      BY <2>2, <2>3, ZenonT(30) DEF IfaceType
    <2> QED BY <1>13, <2>1, <2>4 DEF ISMRefreshAborted
  <1>17. CASE ISMFeatureSwitched(i, k)
    <2>1. ISMTypeOK'
      BY <1>17, ISMGotoType DEF ISMFeatureSwitched, ISMPhases
    <2> QED BY <1>17, <2>1 DEF ISMFeatureSwitched
  <1>14. CASE ISMRefreshed(i, k)
    <2>1. ISMTypeOK'
      BY <1>14, ISMGotoType DEF ISMRefreshed, ISMPhases
    <2>2. iface' \in [Ifaces -> IfaceType] /\ group' = group
      BY <1>14 DEF ISMRefreshed, IfaceType
    <2>3. config' \in ConfigType
      BY <1>14 DEF ISMRefreshed, IfaceType, ConfigType
    <2> QED BY <2>1, <2>2, <2>3
  <1>15. CASE ISMExit(i, k)
    <2>1. ISMTypeOK'
      BY <1>15, ISMGotoType DEF ISMExit, ISMPhases
    <2>2. iface' \in [Ifaces -> IfaceType]
      <3> DEFINE F1 == [iface EXCEPT ![i].Status = "DISABLED"]
                 F2 == [F1 EXCEPT ![i].Reset = FALSE]
      <3>1. F1 \in [Ifaces -> IfaceType]
        BY DEF IfaceType, IfaceStatuses
      <3>2. iface' = [F2 EXCEPT ![i].SMRunning = FALSE]
        BY <1>15 DEF ISMExit
      <3> HIDE DEF F1
      <3>3. F2 \in [Ifaces -> IfaceType]
        BY <3>1 DEF IfaceType
      <3> HIDE DEF F2
      <3> QED BY <3>2, <3>3, ZenonT(30) DEF IfaceType
    <2> QED BY <1>15, <2>1, <2>2 DEF ISMExit
  <1>16. CASE ISMEnd(i, k)
    <2>1. ISMTypeOK'
      BY <1>16, ISMGotoType DEF ISMEnd, ISMPhases
    <2> QED BY <1>16, <2>1 DEF ISMEnd
  <1> QED
    BY <1>2, <1>3, <1>5, <1>6, <1>7, <1>9, <1>11, <1>12, <1>13, <1>14, <1>15, <1>16, <1>17
    DEF ISMNext, ISMControl, ISMDisturbed

=============================================================================
