---------------------------- MODULE RemoteProofs ----------------------------
(* Proofs about the remote interfaces, for any set of devices, threads and   *)
(* events and any bound on the events: the two selection threads and the     *)
(* rows of the devices keep their types, the remote interface never takes    *)
(* over from a local one that is still ACTIVE, and the rows follow the       *)
(* devices.                                                                  *)
EXTENDS MCRemote, SequenceTheorems, TLAPS

-----------------------------------------------------------------------------
(* The inductive invariant of the policy.                                    *)
ModeType == [sel : {"PRIMARY", "SECONDARY", "AUTO"}, last : {"PRIMARY", "SECONDARY"},
             cur : {"UNKNOWN", "PRIMARY", "SECONDARY"}]

Wans == {w \in WanType : Len(w.req) <= 2}

\* The primary thread has an interface in every state that uses one.
HasInterface ==
    pri.st \in {"INIT", "EXIT"} \/ (pri.st = "SELECTING" /\ pri.op # "AUTO")
        \/ pri.idx \in Local

\* An ACTIVE local interface is the one of the primary thread in its state
\* ACTIVE: no other state leaves one behind.
ActiveIsMine ==
    \A i \in Local : ifc[i].Sel = "ACTIVE" => pri.st = "ACTIVE" /\ pri.idx = i

\* After FallBack the WAN service has still to stop, and then only gets as far
\* as standby: the way to ACTIVE goes through DnsCheckWaitForRemoteInActive.
FellBack ==
    /\ TAD /\ wan.check = "STARTING" /\ ~ wan.route
    /\ wan.status = "started" => wan.req = <<"stop", "start">>

\* On its way to ACTIVE the primary thread has told the backup thread.
Announced ==
    /\ pri.st \in {"CONFIGURING", "SCANNING", "VALIDATED", "ACTIVE"} => switch = "STOPED"
    /\ pri.st = "UP" => switch = "STOPED" \/ FellBack

-----------------------------------------------------------------------------
(* The helpers.                                                              *)
LEMMA LocalFacts ==
    /\ Local \subseteq Ifs /\ Remote \in Ifs /\ Remote \notin Local /\ NoIf \notin Ifs
    /\ \A i \in Ifs : i \in Local \/ i = Remote
  BY LocalAssumption DEF Local, Ifs, Remote, NoIf

LEMMA QueueType ==
    ASSUME NEW S, NEW q \in Seq(S), Len(q) <= 2, NEW r \in S
    PROVE  /\ Len(q) < 2 => Append(q, r) \in Seq(S) /\ Len(Append(q, r)) <= 2
           /\ Len(q) >= 2 => <<q[2], r>> \in Seq(S) /\ Len(<<q[2], r>>) <= 2
  <1>1. Len(q) < 2 => Append(q, r) \in Seq(S) /\ Len(Append(q, r)) <= 2
    OBVIOUS
  <1>2. ASSUME Len(q) >= 2 PROVE <<q[2], r>> \in Seq(S) /\ Len(<<q[2], r>>) <= 2
    <2>1. q[2] \in S
      BY <1>2
    <2> QED BY <2>1
  <1> QED BY <1>1, <1>2

LEMMA SendWanReq ==
    ASSUME NEW w \in WanType, NEW r
    PROVE  SendWan(w, r).req = IF w.req # <<>> /\ w.req[Len(w.req)] = r THEN w.req
                               ELSE IF Len(w.req) < 2 THEN Append(w.req, r)
                               ELSE <<w.req[2], r>>
  <1> DEFINE n == IF w.req # <<>> /\ w.req[Len(w.req)] = r THEN w.req
                  ELSE IF Len(w.req) < 2 THEN Append(w.req, r) ELSE <<w.req[2], r>>
  <1>1. SendWan(w, r) = [w EXCEPT !.req = n]
    BY DEF SendWan
  <1> HIDE DEF n
  <1>2. SendWan(w, r).req = n
    BY <1>1 DEF WanType
  <1> QED BY <1>2 DEF n

LEMMA SendWanType ==
    ASSUME NEW w \in WanType, Len(w.req) <= 2, NEW r \in {"start", "stop"}
    PROVE  /\ SendWan(w, r) \in WanType /\ Len(SendWan(w, r).req) <= 2
           /\ SendWan(w, r).status = w.status /\ SendWan(w, r).service = w.service
           /\ SendWan(w, r).route = w.route /\ SendWan(w, r).check = w.check
  <1> DEFINE S == {"start", "stop"}
             q == IF w.req # <<>> /\ w.req[Len(w.req)] = r THEN w.req
                  ELSE IF Len(w.req) < 2 THEN Append(w.req, r) ELSE <<w.req[2], r>>
  <1>1. SendWan(w, r) = [w EXCEPT !.req = q]
    BY DEF SendWan
  <1>2. w.req \in Seq(S) /\ Len(w.req) \in Nat
    BY DEF WanType
  <1>3. /\ Len(w.req) < 2 => Append(w.req, r) \in Seq(S) /\ Len(Append(w.req, r)) <= 2
        /\ Len(w.req) >= 2 => <<w.req[2], r>> \in Seq(S) /\ Len(<<w.req[2], r>>) <= 2
    <2> HIDE DEF S
    <2>1. r \in S
      BY DEF S
    <2> QED BY <1>2, <2>1, QueueType
  <1>4. q \in Seq(S) /\ Len(q) <= 2
    <2> HIDE DEF S
    <2>1. CASE w.req # <<>> /\ w.req[Len(w.req)] = r
      BY <1>2, <2>1
    <2>2. CASE ~ (w.req # <<>> /\ w.req[Len(w.req)] = r) /\ Len(w.req) < 2
      BY <1>3, <2>2, Zenon
    <2>3. CASE ~ (w.req # <<>> /\ w.req[Len(w.req)] = r) /\ ~ Len(w.req) < 2
      <3>1. q = <<w.req[2], r>>
        BY <2>3, Zenon
      <3>2. Len(w.req) >= 2
        BY <1>2, <2>3
      <3> QED BY <1>3, <3>1, <3>2, Zenon
    <2> QED BY <2>1, <2>2, <2>3, Zenon
  <1> HIDE DEF q
  <1> QED BY <1>1, <1>4 DEF WanType

\* What the primary thread sends to the WAN service.
LEMMA WanWrites ==
    ASSUME NEW w \in Wans
    PROVE  /\ SendWan(w, "start") \in Wans /\ SendWan(w, "stop") \in Wans
           /\ ConfigReset(w, TRUE) \in Wans /\ ConfigReset(w, FALSE) \in Wans
           /\ SetConnectivityCheckState(w, "DISABLED") \in Wans
           /\ SetConnectivityCheckState(w, "STARTING") \in Wans
           /\ SetConnectivityCheckState(w, "STARTED") \in Wans
           /\ SetConnectivityCheckState(w, "STOPPED") \in Wans
           /\ \A i, m : StartWanClients(w, i, m) \in Wans
  <1>1. \A x \in Wans : SendWan(x, "start") \in Wans /\ SendWan(x, "stop") \in Wans
    BY SendWanType DEF Wans
  <1>2. ConfigReset(w, TRUE) \in Wans /\ ConfigReset(w, FALSE) \in Wans
    BY DEF ConfigReset, Wans, WanType
  <1>3. \A c \in {"DISABLED", "STARTING", "STARTED", "STOPPED"} :
            SetConnectivityCheckState(w, c) \in Wans
    BY DEF SetConnectivityCheckState, Wans, WanType
  <1>4. \A i, m : StartWanClients(w, i, m) \in Wans
    BY <1>1 DEF StartWanClients
  <1> QED BY <1>1, <1>2, <1>3, <1>4

\* A write of one field of an interface.
LEMMA IfcWrites ==
    ASSUME NEW T \in [Ifs -> IfcType], NEW i
    PROVE  /\ \A v \in {"UP", "DOWN", "UNKNOWN"} :
                  /\ [T EXCEPT ![i].Phy = v] \in [Ifs -> IfcType]
                  /\ [T EXCEPT ![i].Ip = v] \in [Ifs -> IfcType]
           /\ \A v \in {"NOT_SELECTED", "SELECTED", "ACTIVE"} :
                  [T EXCEPT ![i].Sel = v] \in [Ifs -> IfcType]
           /\ \A v \in {"DISABLED", "UP"} : [T EXCEPT ![i].Status = v] \in [Ifs -> IfcType]
           /\ \A v \in BOOLEAN :
                  /\ [T EXCEPT ![i].Enable = v] \in [Ifs -> IfcType]
                  /\ [T EXCEPT ![i].ActiveLink = v] \in [Ifs -> IfcType]
                  /\ [T EXCEPT ![i].Scanned = v] \in [Ifs -> IfcType]
                  /\ [T EXCEPT ![i].Vlan = v] \in [Ifs -> IfcType]
                  /\ [T EXCEPT ![i].RemoteUp = v] \in [Ifs -> IfcType]
                  /\ [T EXCEPT ![i].Conn = v] \in [Ifs -> IfcType]
  <1>1. ASSUME NEW r \in IfcType
        PROVE  /\ \A v \in {"UP", "DOWN", "UNKNOWN"} :
                      [r EXCEPT !.Phy = v] \in IfcType /\ [r EXCEPT !.Ip = v] \in IfcType
               /\ \A v \in {"NOT_SELECTED", "SELECTED", "ACTIVE"} :
                      [r EXCEPT !.Sel = v] \in IfcType
               /\ \A v \in {"DISABLED", "UP"} : [r EXCEPT !.Status = v] \in IfcType
               /\ \A v \in BOOLEAN :
                      /\ [r EXCEPT !.Enable = v] \in IfcType
                      /\ [r EXCEPT !.ActiveLink = v] \in IfcType
                      /\ [r EXCEPT !.Scanned = v] \in IfcType
                      /\ [r EXCEPT !.Vlan = v] \in IfcType
                      /\ [r EXCEPT !.RemoteUp = v] \in IfcType
                      /\ [r EXCEPT !.Conn = v] \in IfcType
    BY DEF IfcType
  <1> QED BY <1>1

LEMMA LastKnownType ==
    ASSUME NEW m
    PROVE  LastKnownIf(m) \in Local \cup {NoIf}
  BY DEF LastKnownIf

-----------------------------------------------------------------------------
(* The types of the steps of the primary thread.                             *)
PriTyped ==
    /\ conf \in [Enable : BOOLEAN, AllowRemote : BOOLEAN]
    /\ ifc \in [Ifs -> IfcType] /\ link \in [Ifs -> BOOLEAN] /\ asked \subseteq Ifs
    /\ wan \in Wans /\ mode \in ModeType
    /\ switch \in {"NONE", "STARTED", "STOPED", "FAILED", "SUCCESS"}
    /\ pri \in PriType
    /\ HasInterface

(* What the types say of the fields the steps read.                          *)
LEMMA PriFields ==
    ASSUME PriTyped
    PROVE  /\ conf.Enable \in BOOLEAN
           /\ mode \in ModeType /\ mode.sel \in {"PRIMARY", "SECONDARY", "AUTO"}
           /\ ifc \in [Ifs -> IfcType] /\ asked \subseteq Ifs /\ wan \in Wans
           /\ pri \in PriType /\ pri.st \in PriStates
           /\ pri.idx \in Local \cup {NoIf} /\ HasInterface
  BY DEF PriTyped, ModeType, PriType

(* The transitions of the primary thread.                                    *)
LEMMA CheckedWans ==
    ASSUME NEW w \in Wans, TAD \in BOOLEAN
    PROVE  /\ SendWan(IF TAD THEN SetConnectivityCheckState(w, "STARTING") ELSE w, "start")
                 \in Wans
           /\ SendWan(IF TAD THEN SetConnectivityCheckState(ConfigReset(w, FALSE), "STOPPED")
                      ELSE w, "stop") \in Wans
  <1>1. CASE TAD
    <2>1. /\ SetConnectivityCheckState(w, "STARTING") \in Wans
          /\ SetConnectivityCheckState(ConfigReset(w, FALSE), "STOPPED") \in Wans
      BY WanWrites
    <2> QED BY <1>1, <2>1, WanWrites
  <1>2. CASE ~ TAD
    BY <1>2, WanWrites
  <1> QED BY <1>1, <1>2

LEMMA WanInterfaceUpFixedType ==
    ASSUME PriTyped, NEW i, WanInterfaceUpFixed(i)
    PROVE  ifc' \in [Ifs -> IfcType] /\ wan' \in Wans
  <1>1. ifc' = [ifc EXCEPT ![i].ActiveLink = TRUE, ![i].Status = "UP",
                          ![i].Sel = "SELECTED", ![i].Conn = @ \/ TAD]
    BY DEF WanInterfaceUpFixed
  <1>2. ifc' \in [Ifs -> IfcType]
    BY <1>1, PriFields, IfcWrites
  <1>3. wan' \in Wans
    BY PriFields, CheckedWans, LocalAssumption DEF WanInterfaceUpFixed
  <1> QED BY <1>2, <1>3

LEMMA WanInterfaceDownType ==
    ASSUME PriTyped, NEW i, WanInterfaceDown(i)
    PROVE  ifc' \in [Ifs -> IfcType] /\ wan' \in Wans
  <1>1. ifc' = [ifc EXCEPT ![i].Sel = "NOT_SELECTED", ![i].Status = "DISABLED",
                          ![i].Conn = @ /\ ~ TAD]
    BY DEF WanInterfaceDown
  <1>2. ifc' \in [Ifs -> IfcType]
    BY <1>1, PriFields, IfcWrites
  <1>3. wan' \in Wans
    BY PriFields, CheckedWans, LocalAssumption DEF WanInterfaceDown
  <1> QED BY <1>2, <1>3

LEMMA ValidatingType ==
    ASSUME PriTyped, NEW i \in Ifs, WanInterfaceValidating(i) \/ AutoWanInterfaceValidating(i)
    PROVE  ifc' \in [Ifs -> IfcType] /\ wan' \in Wans
  <1>1. wan' = wan
    BY DEF WanInterfaceValidating, AutoWanInterfaceValidating
  <1>2. CASE WanInterfaceValidating(i)
    <2>1. [ifc EXCEPT ![i].Sel = "SELECTED"] \in [Ifs -> IfcType]
      BY PriFields, IfcWrites
    <2>2. ifc' \in {ifc, [ifc EXCEPT ![i].Sel = "SELECTED"]}
      BY <1>2 DEF WanInterfaceValidating
    <2> QED BY <1>1, <2>1, <2>2, PriFields
  <1>3. CASE AutoWanInterfaceValidating(i)
    <2> DEFINE scanned == [ifc EXCEPT ![i].Scanned = @ \/ pri.st = "WAITING"]
    <2>1. PICK ok \in BOOLEAN :
              ifc' = [ifc EXCEPT ![i].Scanned = @ \/ pri.st = "WAITING",
                                 ![i].Sel = IF ok THEN "SELECTED" ELSE @]
      BY <1>3 DEF AutoWanInterfaceValidating
    <2>2. scanned \in [Ifs -> IfcType]
      BY PriFields, IfcWrites
    <2> HIDE DEF scanned
    <2>3. scanned[i].Sel \in {"NOT_SELECTED", "SELECTED", "ACTIVE"}
      BY <2>2 DEF IfcType
    <2>4. [scanned EXCEPT ![i].Sel = IF ok THEN "SELECTED" ELSE @] \in [Ifs -> IfcType]
      BY <2>2, <2>3, IfcWrites
    <2> QED BY <1>1, <2>1, <2>4, PriFields DEF scanned
  <1> QED BY <1>2, <1>3

LEMMA DnsCheckWaitForRemoteInActiveType ==
    ASSUME PriTyped, DnsCheckWaitForRemoteInActive
    PROVE  ifc' \in [Ifs -> IfcType] /\ wan' \in Wans
  <1>1. SetConnectivityCheckState(ConfigReset(wan, TRUE), "STARTED") \in Wans
    BY PriFields, WanWrites
  <1>2. wan' \in Wans
    BY <1>1, WanWrites DEF DnsCheckWaitForRemoteInActive
  <1> QED BY <1>2, PriFields DEF DnsCheckWaitForRemoteInActive

LEMMA WanInterfaceActiveType ==
    ASSUME PriTyped, pri.idx \in Ifs, WanInterfaceActive
    PROVE  ifc' \in [Ifs -> IfcType] /\ wan' \in Wans
  <1> DEFINE active == [ifc EXCEPT ![pri.idx].Sel = "ACTIVE"]
  <1>1. ifc' = [ifc EXCEPT ![pri.idx].Sel = "ACTIVE",
                          ![pri.idx].Status = IF AutoMode THEN "UP" ELSE @]
    BY DEF WanInterfaceActive
  <1>2. active \in [Ifs -> IfcType]
    BY PriFields, IfcWrites
  <1> HIDE DEF active
  <1>3. active[pri.idx].Status \in {"DISABLED", "UP"}
    BY <1>2 DEF IfcType
  <1>4. [active EXCEPT ![pri.idx].Status = IF AutoMode THEN "UP" ELSE @] \in [Ifs -> IfcType]
    BY <1>2, <1>3, IfcWrites
  <1> QED BY <1>1, <1>4, PriFields DEF WanInterfaceActive, active

LEMMA FallBackType ==
    ASSUME PriTyped, FallBack
    PROVE  ifc' \in [Ifs -> IfcType] /\ wan' \in Wans
  <1>1. ifc' \in [Ifs -> IfcType]
    BY PriFields, IfcWrites DEF FallBack, DnsConnectivityCheckUp
  <1>2. SendWan(ConfigReset(wan, FALSE), "stop") \in Wans
    BY PriFields, WanWrites
  <1>3. SetConnectivityCheckState(SendWan(ConfigReset(wan, FALSE), "stop"), "STARTING") \in Wans
    BY <1>2, WanWrites
  <1>4. wan' \in Wans
    BY <1>3, WanWrites DEF FallBack, DnsConnectivityCheckUp
  <1> QED BY <1>1, <1>4

LEMMA ScanningStartsType ==
    ASSUME PriTyped, NEW i, WanInterfacePhyUp(i) \/ WanInterfaceConfigured(i)
    PROVE  ifc' \in [Ifs -> IfcType] /\ wan' \in Wans
  <1>1. /\ [ifc EXCEPT ![i].Scanned = TRUE, ![i].Ip = "UNKNOWN", ![i].Sel = "SELECTED"]
               \in [Ifs -> IfcType]
        /\ [ifc EXCEPT ![i].Ip = "UNKNOWN", ![i].Sel = "SELECTED", ![i].Status = "DISABLED"]
               \in [Ifs -> IfcType]
    BY PriFields, IfcWrites
  <1>2. ifc' \in [Ifs -> IfcType]
    BY <1>1 DEF WanInterfacePhyUp, WanInterfaceConfigured
  <1>3. wan' = StartWanClients(wan, i, mode.last)
    BY DEF WanInterfacePhyUp, WanInterfaceConfigured
  <1> QED BY <1>2, <1>3, PriFields, WanWrites

LEMMA WanInterfaceUpAutoType ==
    ASSUME PriTyped, NEW w \in Wans, WanInterfaceUpAuto(w)
    PROVE  /\ ifc' \in [Ifs -> IfcType] /\ wan' \in Wans
           /\ mode' \in ModeType
           /\ pri' \in PriType /\ pri'.st = "UP" /\ pri'.idx = pri.idx
  <1> DEFINE i == pri.idx
             checked == IF TAD THEN SetConnectivityCheckState(w, "STARTING") ELSE w
             clients == IF mode.last # TypeOf(i) /\ NoReboot
                        THEN StartWanClients(checked, i, TypeOf(i)) ELSE checked
  <1>1. ifc' = [ifc EXCEPT ![i].Sel = "SELECTED", ![i].Conn = @ \/ TAD]
    BY DEF WanInterfaceUpAuto
  <1>2. ifc' \in [Ifs -> IfcType]
    BY <1>1, PriFields, IfcWrites
  <1>3. checked \in Wans
    BY WanWrites
  <1>4. wan' = IF TAD THEN SendWan(clients, "start") ELSE clients
    BY DEF WanInterfaceUpAuto
  <1> HIDE DEF checked
  <1>5. clients \in Wans
    BY <1>3, WanWrites
  <1> HIDE DEF clients
  <1>6. wan' \in Wans
    BY <1>4, <1>5, WanWrites
  <1>7. mode' \in ModeType
    BY PriFields DEF WanInterfaceUpAuto, SetCurrentWanMode, SetLastKnownWanMode, TypeOf, ModeType
  <1>8. pri' = [pri EXCEPT !.st = "UP", !.en = conf.Enable,
                     !.reboot = @ \/ (mode.last # TypeOf(i) /\ ~ NoReboot)]
    BY DEF WanInterfaceUpAuto
  <1>9. pri' \in PriType /\ pri'.st = "UP" /\ pri'.idx = pri.idx
    BY <1>8, PriFields DEF PriType, PriStates
  <1> QED BY <1>2, <1>6, <1>7, <1>9

(* The steps of the primary thread.                                          *)
LEMMA PriSampleType == PriTyped /\ PriSample => PriTyped'
  <1> SUFFICES ASSUME PriTyped, PriSample PROVE PriTyped'
    OBVIOUS
  <1>1. ifc' \in [Ifs -> IfcType]
    BY PriFields DEF PriSample, data
  <1>2. wan' \in Wans
    BY PriFields DEF PriSample, data
  <1>3. pri' \in PriType
    BY PriFields, LastKnownType DEF PriSample, data, PriType, PriStates
  <1>4. HasInterface'
    BY PriFields, <1>3, LastKnownType DEF HasInterface, PriSample, data, PriType, PriStates
  <1>5. mode' \in ModeType
    BY PriFields DEF PriSample, data, ModeType, SetCurrentWanMode, SetLastKnownWanMode
  <1>6. /\ conf' = conf /\ link' = link /\ asked' \subseteq Ifs
        /\ switch' \in {switch, "STARTED", "STOPED"}
    BY PriFields, LocalFacts, LastKnownType DEF PriSample, data, HasInterface
  <1> QED BY <1>1, <1>2, <1>3, <1>4, <1>5, <1>6 DEF PriTyped

LEMMA PriStartFixedType == PriTyped /\ PriStartFixed => PriTyped'
  <1> SUFFICES ASSUME PriTyped, PriStartFixed PROVE PriTyped'
    OBVIOUS
  <1>1. ifc' \in [Ifs -> IfcType]
    BY PriFields DEF PriStartFixed
  <1>2. wan' \in Wans
    BY PriFields, WanWrites DEF PriStartFixed
  <1>3. pri' \in PriType
    BY PriFields, LastKnownType DEF PriStartFixed, PriType, PriStates
  <1>4. HasInterface'
    BY PriFields, <1>3, LastKnownType DEF HasInterface, PriStartFixed, PriType, PriStates
  <1>5. mode' \in ModeType
    BY PriFields DEF PriStartFixed, ModeType, SetCurrentWanMode, SetLastKnownWanMode
  <1>6. /\ conf' = conf /\ link' = link /\ asked' \subseteq Ifs
        /\ switch' \in {switch, "STARTED", "STOPED"}
    BY PriFields, LocalFacts, LastKnownType DEF PriStartFixed, HasInterface
  <1> QED BY <1>1, <1>2, <1>3, <1>4, <1>5, <1>6 DEF PriTyped

LEMMA PriStartAutoType == PriTyped /\ PriStartAuto => PriTyped'
  <1> SUFFICES ASSUME PriTyped, PriStartAuto PROVE PriTyped'
    OBVIOUS
  <1>1. ifc' \in [Ifs -> IfcType]
    BY PriFields, IfcWrites DEF PriStartAuto
  <1>2. wan' \in Wans
    BY PriFields, WanWrites DEF PriStartAuto
  <1>3. pri' \in PriType
    BY PriFields, LastKnownType DEF PriStartAuto, PriType, PriStates
  <1>4. HasInterface'
    BY PriFields, <1>3, LastKnownType DEF HasInterface, PriStartAuto, PriType, PriStates
  <1>5. mode' \in ModeType
    BY PriFields DEF PriStartAuto, ModeType, SetCurrentWanMode, SetLastKnownWanMode
  <1>6. /\ conf' = conf /\ link' = link /\ asked' \subseteq Ifs
        /\ switch' \in {switch, "STARTED", "STOPED"}
    BY PriFields, LocalFacts, LastKnownType DEF PriStartAuto, HasInterface
  <1> QED BY <1>1, <1>2, <1>3, <1>4, <1>5, <1>6 DEF PriTyped

LEMMA PriSelectFixedType == PriTyped /\ PriSelectFixed => PriTyped'
  <1> SUFFICES ASSUME PriTyped, PriSelectFixed PROVE PriTyped'
    OBVIOUS
  <1>1. ifc' \in [Ifs -> IfcType]
    <2> DEFINE T == [ifc EXCEPT ![pri.idx].ActiveLink = FALSE, ![pri.idx].Vlan = FALSE,
                                ![pri.idx].Sel = "NOT_SELECTED"]
    <2>1. T \in [Ifs -> IfcType]
      BY PriFields, IfcWrites
    <2>2. ifc' \in {ifc, [T EXCEPT ![pri.idx].Scanned = TRUE, ![pri.idx].Ip = "UNKNOWN",
                                  ![pri.idx].Status = "DISABLED"]}
      BY DEF PriSelectFixed
    <2> HIDE DEF T
    <2>3. [T EXCEPT ![pri.idx].Scanned = TRUE, ![pri.idx].Ip = "UNKNOWN",
                    ![pri.idx].Status = "DISABLED"] \in [Ifs -> IfcType]
      BY <2>1, IfcWrites
    <2> QED BY <2>2, <2>3, PriFields
  <1>2. wan' \in Wans
    BY PriFields DEF PriSelectFixed, AutoMode
  <1>3. pri' \in PriType
    BY PriFields, LastKnownType DEF PriSelectFixed, AutoMode, PriType, PriStates
  <1>4. HasInterface'
    BY PriFields, <1>3, LastKnownType DEF HasInterface, PriSelectFixed, AutoMode, PriType, PriStates
  <1>5. mode' \in ModeType
    BY PriFields DEF PriSelectFixed, AutoMode, ModeType, SetCurrentWanMode, SetLastKnownWanMode
  <1>6. /\ conf' = conf /\ link' = link /\ asked' \subseteq Ifs
        /\ switch' \in {switch, "STARTED", "STOPED"}
    BY PriFields, LocalFacts, LastKnownType DEF PriSelectFixed, AutoMode, HasInterface
  <1> QED BY <1>1, <1>2, <1>3, <1>4, <1>5, <1>6 DEF PriTyped

LEMMA PriTearDownType == PriTyped /\ PriTearDown => PriTyped'
  <1> SUFFICES ASSUME PriTyped, PriTearDown PROVE PriTyped'
    OBVIOUS
  <1>1. ifc' \in [Ifs -> IfcType]
    <2>1. [ifc EXCEPT ![pri.idx].Phy = "UNKNOWN", ![pri.idx].Sel = "NOT_SELECTED",
                      ![pri.idx].Status = "DISABLED"] \in [Ifs -> IfcType]
      BY PriFields, IfcWrites
    <2> QED BY <2>1 DEF PriTearDown
  <1>2. wan' \in Wans
    BY PriFields, WanWrites DEF PriTearDown, PriGoto
  <1>3. pri' \in PriType
    BY PriFields, LastKnownType DEF PriTearDown, PriGoto, PriType, PriStates
  <1>4. HasInterface'
    BY PriFields, <1>3, LastKnownType DEF HasInterface, PriTearDown, PriGoto, PriType, PriStates
  <1>5. mode' \in ModeType
    BY PriFields DEF PriTearDown, PriGoto, ModeType, SetCurrentWanMode, SetLastKnownWanMode
  <1>6. /\ conf' = conf /\ link' = link /\ asked' \subseteq Ifs
        /\ switch' \in {switch, "STARTED", "STOPED"}
    BY PriFields, LocalFacts, LastKnownType DEF PriTearDown, PriGoto, HasInterface
  <1> QED BY <1>1, <1>2, <1>3, <1>4, <1>5, <1>6 DEF PriTyped

LEMMA PriTornDownType == PriTyped /\ PriTornDown => PriTyped'
  <1> SUFFICES ASSUME PriTyped, PriTornDown PROVE PriTyped'
    OBVIOUS
  <1>1. ifc' \in [Ifs -> IfcType]
    BY PriFields DEF PriTornDown, data, At, AutoMode, PriGoto
  <1>2. wan' \in Wans
    BY PriFields DEF PriTornDown, data, At, AutoMode, PriGoto
  <1>3. pri' \in PriType
    BY PriFields, LastKnownType DEF PriTornDown, data, At, AutoMode, PriGoto, PriType, PriStates
  <1>4. HasInterface'
    BY PriFields, <1>3, LastKnownType DEF HasInterface, PriTornDown, data, At, AutoMode, PriGoto, PriType, PriStates
  <1>5. mode' \in ModeType
    BY PriFields DEF PriTornDown, data, At, AutoMode, PriGoto, ModeType, SetCurrentWanMode, SetLastKnownWanMode
  <1>6. /\ conf' = conf /\ link' = link /\ asked' \subseteq Ifs
        /\ switch' \in {switch, "STARTED", "STOPED"}
    BY PriFields, LocalFacts, LastKnownType DEF PriTornDown, data, At, AutoMode, PriGoto, HasInterface
  <1> QED BY <1>1, <1>2, <1>3, <1>4, <1>5, <1>6 DEF PriTyped

LEMMA PriExitType == PriTyped /\ PriExit => PriTyped'
  <1> SUFFICES ASSUME PriTyped, PriExit PROVE PriTyped'
    OBVIOUS
  <1>1. ifc' \in [Ifs -> IfcType]
    BY PriFields DEF PriExit, data, PriGoto
  <1>2. wan' \in Wans
    BY PriFields DEF PriExit, data, PriGoto
  <1>3. pri' \in PriType
    BY PriFields, LastKnownType DEF PriExit, data, PriGoto, PriType, PriStates
  <1>4. HasInterface'
    BY PriFields, <1>3, LastKnownType DEF HasInterface, PriExit, data, PriGoto, PriType, PriStates
  <1>5. mode' \in ModeType
    BY PriFields DEF PriExit, data, PriGoto, ModeType, SetCurrentWanMode, SetLastKnownWanMode
  <1>6. /\ conf' = conf /\ link' = link /\ asked' \subseteq Ifs
        /\ switch' \in {switch, "STARTED", "STOPED"}
    BY PriFields, LocalFacts, LastKnownType DEF PriExit, data, PriGoto, HasInterface
  <1> QED BY <1>1, <1>2, <1>3, <1>4, <1>5, <1>6 DEF PriTyped

LEMMA PriDownFixedType == PriTyped /\ PriDownFixed => PriTyped'
  <1> SUFFICES ASSUME PriTyped, PriDownFixed PROVE PriTyped'
    OBVIOUS
  <1>0. pri.idx \in Ifs
    BY PriFields, LocalFacts DEF HasInterface, PriDownFixed, At
  <1>1. ifc' \in [Ifs -> IfcType] /\ wan' \in Wans
    BY <1>0, PriFields, WanInterfaceUpFixedType, ValidatingType DEF PriDownFixed, WanBusy, At
  <1>2. wan' \in Wans
    BY <1>1
  <1>3. pri' \in PriType
    BY PriFields, LastKnownType DEF PriDownFixed, At, AutoMode, PriGoto, WanBusy, WanInterfaceUpFixed, WanInterfaceValidating, PriType, PriStates
  <1>4. HasInterface'
    BY PriFields, <1>3, LastKnownType DEF HasInterface, PriDownFixed, At, AutoMode, PriGoto, WanBusy, WanInterfaceUpFixed, WanInterfaceValidating, PriType, PriStates
  <1>5. mode' \in ModeType
    BY PriFields DEF PriDownFixed, At, AutoMode, PriGoto, WanBusy, WanInterfaceUpFixed, WanInterfaceValidating, ModeType, SetCurrentWanMode, SetLastKnownWanMode
  <1>6. /\ conf' = conf /\ link' = link /\ asked' \subseteq Ifs
        /\ switch' \in {switch, "STARTED", "STOPED"}
    BY PriFields, LocalFacts, LastKnownType DEF PriDownFixed, At, AutoMode, PriGoto, WanBusy, WanInterfaceUpFixed, WanInterfaceValidating, HasInterface
  <1> QED BY <1>1, <1>2, <1>3, <1>4, <1>5, <1>6 DEF PriTyped

LEMMA PriValidatedFixedType == PriTyped /\ PriValidatedFixed => PriTyped'
  <1> SUFFICES ASSUME PriTyped, PriValidatedFixed PROVE PriTyped'
    OBVIOUS
  <1>0. pri.idx \in Ifs
    BY PriFields, LocalFacts DEF HasInterface, PriValidatedFixed, At
  <1>1. ifc' \in [Ifs -> IfcType] /\ wan' \in Wans
    BY <1>0, PriFields, WanInterfaceUpFixedType, WanInterfaceDownType DEF PriValidatedFixed
  <1>2. wan' \in Wans
    BY <1>1
  <1>3. pri' \in PriType
    BY PriFields, LastKnownType DEF PriValidatedFixed, At, AutoMode, PriGoto, WanInterfaceDown, WanInterfaceUpFixed, PriType, PriStates
  <1>4. HasInterface'
    BY PriFields, <1>3, LastKnownType DEF HasInterface, PriValidatedFixed, At, AutoMode, PriGoto, WanInterfaceDown, WanInterfaceUpFixed, PriType, PriStates
  <1>5. mode' \in ModeType
    BY PriFields DEF PriValidatedFixed, At, AutoMode, PriGoto, WanInterfaceDown, WanInterfaceUpFixed, ModeType, SetCurrentWanMode, SetLastKnownWanMode
  <1>6. /\ conf' = conf /\ link' = link /\ asked' \subseteq Ifs
        /\ switch' \in {switch, "STARTED", "STOPED"}
    BY PriFields, LocalFacts, LastKnownType DEF PriValidatedFixed, At, AutoMode, PriGoto, WanInterfaceDown, WanInterfaceUpFixed, HasInterface
  <1> QED BY <1>1, <1>2, <1>3, <1>4, <1>5, <1>6 DEF PriTyped

LEMMA PriUpFixedType == PriTyped /\ PriUpFixed => PriTyped'
  <1> SUFFICES ASSUME PriTyped, PriUpFixed PROVE PriTyped'
    OBVIOUS
  <1>0. pri.idx \in Ifs
    BY PriFields, LocalFacts DEF HasInterface, PriUpFixed, At
  <1>1. ifc' \in [Ifs -> IfcType] /\ wan' \in Wans
    BY <1>0, PriFields, WanInterfaceDownType, DnsCheckWaitForRemoteInActiveType, WanInterfaceActiveType DEF PriUpFixed, LinkDown
  <1>2. wan' \in Wans
    BY <1>1
  <1>3. pri' \in PriType
    BY PriFields, LastKnownType DEF PriUpFixed, At, AutoMode, PriGoto, LinkDown, WanInterfaceDown, DnsCheckWaitForRemoteInActive, WanInterfaceActive, PriType, PriStates
  <1>4. HasInterface'
    BY PriFields, <1>3, LastKnownType DEF HasInterface, PriUpFixed, At, AutoMode, PriGoto, LinkDown, WanInterfaceDown, DnsCheckWaitForRemoteInActive, WanInterfaceActive, PriType, PriStates
  <1>5. mode' \in ModeType
    BY PriFields DEF PriUpFixed, At, AutoMode, PriGoto, LinkDown, WanInterfaceDown, DnsCheckWaitForRemoteInActive, WanInterfaceActive, ModeType, SetCurrentWanMode, SetLastKnownWanMode
  <1>6. /\ conf' = conf /\ link' = link /\ asked' \subseteq Ifs
        /\ switch' \in {switch, "STARTED", "STOPED"}
    BY PriFields, LocalFacts, LastKnownType DEF PriUpFixed, At, AutoMode, PriGoto, LinkDown, WanInterfaceDown, DnsCheckWaitForRemoteInActive, WanInterfaceActive, HasInterface
  <1> QED BY <1>1, <1>2, <1>3, <1>4, <1>5, <1>6 DEF PriTyped

LEMMA PriUpAutoType == PriTyped /\ PriUpAuto => PriTyped'
  <1> SUFFICES ASSUME PriTyped, PriUpAuto PROVE PriTyped'
    OBVIOUS
  <1>0. pri.idx \in Ifs
    BY PriFields, LocalFacts DEF HasInterface, PriUpAuto, At
  <1>1. ifc' \in [Ifs -> IfcType] /\ wan' \in Wans
    BY <1>0, PriFields, WanInterfaceDownType, DnsCheckWaitForRemoteInActiveType, WanInterfaceActiveType DEF PriUpAuto, LinkDown
  <1>2. wan' \in Wans
    BY <1>1
  <1>3. pri' \in PriType
    BY PriFields, LastKnownType DEF PriUpAuto, At, AutoMode, PriGoto, LinkDown, WanInterfaceDown, DnsCheckWaitForRemoteInActive, WanInterfaceActive, PriType, PriStates
  <1>4. HasInterface'
    BY PriFields, <1>3, LastKnownType DEF HasInterface, PriUpAuto, At, AutoMode, PriGoto, LinkDown, WanInterfaceDown, DnsCheckWaitForRemoteInActive, WanInterfaceActive, PriType, PriStates
  <1>5. mode' \in ModeType
    BY PriFields DEF PriUpAuto, At, AutoMode, PriGoto, LinkDown, WanInterfaceDown, DnsCheckWaitForRemoteInActive, WanInterfaceActive, ModeType, SetCurrentWanMode, SetLastKnownWanMode
  <1>6. /\ conf' = conf /\ link' = link /\ asked' \subseteq Ifs
        /\ switch' \in {switch, "STARTED", "STOPED"}
    BY PriFields, LocalFacts, LastKnownType DEF PriUpAuto, At, AutoMode, PriGoto, LinkDown, WanInterfaceDown, DnsCheckWaitForRemoteInActive, WanInterfaceActive, HasInterface
  <1> QED BY <1>1, <1>2, <1>3, <1>4, <1>5, <1>6 DEF PriTyped

LEMMA PriActiveFixedType == PriTyped /\ PriActiveFixed => PriTyped'
  <1> SUFFICES ASSUME PriTyped, PriActiveFixed PROVE PriTyped'
    OBVIOUS
  <1>0. pri.idx \in Ifs
    BY PriFields, LocalFacts DEF HasInterface, PriActiveFixed, At
  <1>1. ifc' \in [Ifs -> IfcType] /\ wan' \in Wans
    BY <1>0, PriFields, WanInterfaceDownType, FallBackType DEF PriActiveFixed, LinkDown
  <1>2. wan' \in Wans
    BY <1>1
  <1>3. pri' \in PriType
    BY PriFields, LastKnownType DEF PriActiveFixed, At, AutoMode, PriGoto, LinkDown, WanInterfaceDown, FallBack, DnsConnectivityCheckUp, PriType, PriStates
  <1>4. HasInterface'
    BY PriFields, <1>3, LastKnownType DEF HasInterface, PriActiveFixed, At, AutoMode, PriGoto, LinkDown, WanInterfaceDown, FallBack, DnsConnectivityCheckUp, PriType, PriStates
  <1>5. mode' \in ModeType
    BY PriFields DEF PriActiveFixed, At, AutoMode, PriGoto, LinkDown, WanInterfaceDown, FallBack, DnsConnectivityCheckUp, ModeType, SetCurrentWanMode, SetLastKnownWanMode
  <1>6. /\ conf' = conf /\ link' = link /\ asked' \subseteq Ifs
        /\ switch' \in {switch, "STARTED", "STOPED"}
    BY PriFields, LocalFacts, LastKnownType DEF PriActiveFixed, At, AutoMode, PriGoto, LinkDown, WanInterfaceDown, FallBack, DnsConnectivityCheckUp, HasInterface
  <1> QED BY <1>1, <1>2, <1>3, <1>4, <1>5, <1>6 DEF PriTyped

LEMMA PriActiveAutoType == PriTyped /\ PriActiveAuto => PriTyped'
  <1> SUFFICES ASSUME PriTyped, PriActiveAuto PROVE PriTyped'
    OBVIOUS
  <1>0. pri.idx \in Ifs
    BY PriFields, LocalFacts DEF HasInterface, PriActiveAuto, At
  <1>1. ifc' \in [Ifs -> IfcType] /\ wan' \in Wans
    BY <1>0, PriFields, WanInterfaceDownType, FallBackType DEF PriActiveAuto, LinkDown
  <1>2. wan' \in Wans
    BY <1>1
  <1>3. pri' \in PriType
    BY PriFields, LastKnownType DEF PriActiveAuto, At, AutoMode, PriGoto, LinkDown, WanInterfaceDown, FallBack, DnsConnectivityCheckUp, PriType, PriStates
  <1>4. HasInterface'
    BY PriFields, <1>3, LastKnownType DEF HasInterface, PriActiveAuto, At, AutoMode, PriGoto, LinkDown, WanInterfaceDown, FallBack, DnsConnectivityCheckUp, PriType, PriStates
  <1>5. mode' \in ModeType
    BY PriFields DEF PriActiveAuto, At, AutoMode, PriGoto, LinkDown, WanInterfaceDown, FallBack, DnsConnectivityCheckUp, ModeType, SetCurrentWanMode, SetLastKnownWanMode
  <1>6. /\ conf' = conf /\ link' = link /\ asked' \subseteq Ifs
        /\ switch' \in {switch, "STARTED", "STOPED"}
    BY PriFields, LocalFacts, LastKnownType DEF PriActiveAuto, At, AutoMode, PriGoto, LinkDown, WanInterfaceDown, FallBack, DnsConnectivityCheckUp, HasInterface
  <1> QED BY <1>1, <1>2, <1>3, <1>4, <1>5, <1>6 DEF PriTyped

LEMMA PriWaitingType == PriTyped /\ PriWaiting => PriTyped'
  <1> SUFFICES ASSUME PriTyped, PriWaiting PROVE PriTyped'
    OBVIOUS
  <1>0. pri.idx \in Ifs
    BY PriFields, LocalFacts DEF HasInterface, PriWaiting, At
  <1>1. ifc' \in [Ifs -> IfcType] /\ wan' \in Wans
    <2>1. [ifc EXCEPT ![pri.idx].Scanned = TRUE] \in [Ifs -> IfcType]
      BY PriFields, IfcWrites
    <2>2. CASE AutoWanInterfaceValidating(pri.idx) \/ WanInterfacePhyUp(pri.idx)
      BY <1>0, <2>2, ValidatingType, ScanningStartsType
    <2>3. CASE ~ (AutoWanInterfaceValidating(pri.idx) \/ WanInterfacePhyUp(pri.idx))
      BY <2>1, <2>3, PriFields DEF PriWaiting
    <2> QED BY <2>2, <2>3
  <1>2. wan' \in Wans
    BY <1>1
  <1>3. pri' \in PriType
    BY PriFields, LastKnownType DEF PriWaiting, At, PriGoto, AutoWanInterfaceValidating, WanInterfacePhyUp, PriType, PriStates
  <1>4. HasInterface'
    BY PriFields, <1>3, LastKnownType DEF HasInterface, PriWaiting, At, PriGoto, AutoWanInterfaceValidating, WanInterfacePhyUp, PriType, PriStates
  <1>5. mode' \in ModeType
    BY PriFields DEF PriWaiting, At, PriGoto, AutoWanInterfaceValidating, WanInterfacePhyUp, ModeType, SetCurrentWanMode, SetLastKnownWanMode
  <1>6. /\ conf' = conf /\ link' = link /\ asked' \subseteq Ifs
        /\ switch' \in {switch, "STARTED", "STOPED"}
    BY PriFields, LocalFacts, LastKnownType DEF PriWaiting, At, PriGoto, AutoWanInterfaceValidating, WanInterfacePhyUp, HasInterface
  <1> QED BY <1>1, <1>2, <1>3, <1>4, <1>5, <1>6 DEF PriTyped

LEMMA PriConfiguringType == PriTyped /\ PriConfiguring => PriTyped'
  <1> SUFFICES ASSUME PriTyped, PriConfiguring PROVE PriTyped'
    OBVIOUS
  <1>0. pri.idx \in Ifs
    BY PriFields, LocalFacts DEF HasInterface, PriConfiguring, At
  <1>1. ifc' \in [Ifs -> IfcType] /\ wan' \in Wans
    BY <1>0, PriFields, ValidatingType, ScanningStartsType DEF PriConfiguring
  <1>2. wan' \in Wans
    BY <1>1
  <1>3. pri' \in PriType
    BY PriFields, LastKnownType DEF PriConfiguring, At, PriGoto, AutoWanInterfaceValidating, WanInterfaceConfigured, PriType, PriStates
  <1>4. HasInterface'
    BY PriFields, <1>3, LastKnownType DEF HasInterface, PriConfiguring, At, PriGoto, AutoWanInterfaceValidating, WanInterfaceConfigured, PriType, PriStates
  <1>5. mode' \in ModeType
    BY PriFields DEF PriConfiguring, At, PriGoto, AutoWanInterfaceValidating, WanInterfaceConfigured, ModeType, SetCurrentWanMode, SetLastKnownWanMode
  <1>6. /\ conf' = conf /\ link' = link /\ asked' \subseteq Ifs
        /\ switch' \in {switch, "STARTED", "STOPED"}
    BY PriFields, LocalFacts, LastKnownType DEF PriConfiguring, At, PriGoto, AutoWanInterfaceValidating, WanInterfaceConfigured, HasInterface
  <1> QED BY <1>1, <1>2, <1>3, <1>4, <1>5, <1>6 DEF PriTyped

LEMMA PriDeconfiguringType == PriTyped /\ PriDeconfiguring => PriTyped'
  <1> SUFFICES ASSUME PriTyped, PriDeconfiguring PROVE PriTyped'
    OBVIOUS
  <1>1. ifc' \in [Ifs -> IfcType]
    BY PriFields, IfcWrites DEF PriDeconfiguring, At, PriGoto
  <1>2. wan' \in Wans
    BY PriFields DEF PriDeconfiguring, At, PriGoto
  <1>3. pri' \in PriType
    BY PriFields, LastKnownType DEF PriDeconfiguring, At, PriGoto, PriType, PriStates
  <1>4. HasInterface'
    BY PriFields, <1>3, LastKnownType DEF HasInterface, PriDeconfiguring, At, PriGoto, PriType, PriStates
  <1>5. mode' \in ModeType
    BY PriFields DEF PriDeconfiguring, At, PriGoto, ModeType, SetCurrentWanMode, SetLastKnownWanMode
  <1>6. /\ conf' = conf /\ link' = link /\ asked' \subseteq Ifs
        /\ switch' \in {switch, "STARTED", "STOPED"}
    BY PriFields, LocalFacts, LastKnownType DEF PriDeconfiguring, At, PriGoto, HasInterface
  <1> QED BY <1>1, <1>2, <1>3, <1>4, <1>5, <1>6 DEF PriTyped

LEMMA PriSelectAlternateType == PriTyped /\ PriSelectAlternate => PriTyped'
  <1> SUFFICES ASSUME PriTyped, PriSelectAlternate PROVE PriTyped'
    OBVIOUS
  <1> DEFINE i == CHOOSE j \in Local : j # pri.idx
  <1>0. pri.idx \in Local /\ pri.st = "SELECTING"
    BY PriFields DEF PriSelectAlternate, AutoMode, HasInterface
  <1>1. CASE Local = {pri.idx}
    <2>1. ifc' = ifc /\ asked' = asked /\ PriGoto("WAITING")
          /\ UNCHANGED <<conf, link, wan, mode, switch>>
      BY <1>1 DEF PriSelectAlternate
    <2>2. pri' \in PriType /\ HasInterface'
      BY <1>0, <2>1, PriFields DEF PriGoto, PriType, PriStates, HasInterface
    <2> QED BY <2>1, <2>2 DEF PriTyped
  <1>2. CASE Local # {pri.idx}
    <2>1. i \in Local
      BY <1>0, <1>2
    <2>2. /\ pri' = [pri EXCEPT !.st = "WAITING", !.prev = pri.idx, !.idx = i, !.en = conf.Enable]
          /\ ifc' = [ifc EXCEPT ![i].ActiveLink = TRUE, ![i].Phy = "UNKNOWN",
                               ![i].Sel = "NOT_SELECTED", ![i].Status = "DISABLED"]
          /\ asked' = asked \cup {i}
          /\ UNCHANGED <<conf, link, wan, mode, switch>>
      BY <1>2 DEF PriSelectAlternate, WaitingForInterface
    <2> HIDE DEF i
    <2>3. pri' \in PriType /\ HasInterface'
      BY <1>0, <2>1, <2>2, PriFields DEF PriType, PriStates, HasInterface
    <2> DEFINE T == [ifc EXCEPT ![i].ActiveLink = TRUE, ![i].Phy = "UNKNOWN"]
    <2>4. T \in [Ifs -> IfcType] /\ ifc' = [T EXCEPT ![i].Sel = "NOT_SELECTED",
                                                   ![i].Status = "DISABLED"]
      BY <2>2, PriFields, IfcWrites
    <2> HIDE DEF T
    <2>5. ifc' \in [Ifs -> IfcType]
      BY <2>4, IfcWrites
    <2>6. asked' \subseteq Ifs
      BY <2>1, <2>2, PriFields, LocalFacts
    <2> QED BY <2>2, <2>3, <2>5, <2>6 DEF PriTyped
  <1> QED BY <1>1, <1>2

LEMMA PriScanningType == PriTyped /\ PriScanning => PriTyped'
  <1> SUFFICES ASSUME PriTyped, PriScanning PROVE PriTyped'
    OBVIOUS
  <1>0. pri.idx \in Local /\ UNCHANGED <<conf, link, asked, switch>>
    BY PriFields DEF PriScanning, At, HasInterface
  <1>1. CASE WanInterfaceUpAuto(wan)
    BY <1>0, <1>1, PriFields, WanInterfaceUpAutoType DEF PriTyped, HasInterface
  <1>2. CASE ~ WanInterfaceUpAuto(wan)
    <2>1. PriGoto("DECONFIGURING") /\ UNCHANGED <<ifc, mode, wan>>
      BY <1>2 DEF PriScanning
    <2>2. pri' \in PriType /\ HasInterface'
      BY <1>0, <2>1, PriFields DEF PriGoto, PriType, PriStates, HasInterface
    <2> QED BY <1>0, <2>1, <2>2 DEF PriTyped
  <1> QED BY <1>1, <1>2

LEMMA PriDownAutoType == PriTyped /\ PriDownAuto => PriTyped'
  <1> SUFFICES ASSUME PriTyped, PriDownAuto PROVE PriTyped'
    OBVIOUS
  <1>0. pri.idx \in Local /\ pri.st = "DOWN" /\ UNCHANGED <<conf, link, asked>> /\ switch' = "STOPED"
    BY PriFields DEF PriDownAuto, At, HasInterface
  <1>1. CASE WanInterfaceUpAuto(SendWan(wan, "start"))
    <2>1. SendWan(wan, "start") \in Wans
      BY PriFields, WanWrites
    <2> QED BY <1>0, <1>1, <2>1, PriFields, WanInterfaceUpAutoType DEF PriTyped, HasInterface
  <1>2. CASE WanBusy /\ UNCHANGED mode
    <2>1. PriGoto("DOWN") /\ UNCHANGED <<ifc, mode, wan>>
      BY <1>0, <1>2 DEF WanBusy
    <2>2. pri' \in PriType /\ HasInterface'
      BY <1>0, <2>1, PriFields DEF PriGoto, PriType, PriStates, HasInterface
    <2> QED BY <1>0, <2>1, <2>2 DEF PriTyped
  <1>3. CASE WanInterfaceValidating(pri.idx) /\ UNCHANGED mode
    <2>1. ifc' \in [Ifs -> IfcType] /\ wan' \in Wans
      BY <1>0, <1>3, LocalFacts, ValidatingType
    <2>2. pri' \in PriType /\ HasInterface'
      BY <1>0, <1>3, PriFields
         DEF WanInterfaceValidating, PriGoto, PriType, PriStates, HasInterface
    <2> QED BY <1>0, <1>3, <2>1, <2>2 DEF PriTyped
  <1> QED BY <1>1, <1>2, <1>3 DEF PriDownAuto

LEMMA PriValidatedAutoType == PriTyped /\ PriValidatedAuto => PriTyped'
  <1> SUFFICES ASSUME PriTyped, PriValidatedAuto PROVE PriTyped'
    OBVIOUS
  <1>0. pri.idx \in Local /\ UNCHANGED <<conf, link, asked, switch>>
    BY PriFields DEF PriValidatedAuto, At, HasInterface
  <1>1. SendWan(wan, "start") \in Wans
    BY PriFields, WanWrites
  <1>2. CASE WanInterfaceUpAuto(SendWan(wan, "start"))
    BY <1>0, <1>1, <1>2, PriFields, WanInterfaceUpAutoType DEF PriTyped, HasInterface
  <1>3. CASE ~ WanInterfaceUpAuto(SendWan(wan, "start"))
    <2> DEFINE T == [ifc EXCEPT ![pri.idx].Status = "DISABLED", ![pri.idx].Sel = "NOT_SELECTED"]
    <2>1. T \in [Ifs -> IfcType]
      BY PriFields, IfcWrites
    <2>2. /\ ifc' \in {ifc, T} /\ wan' \in {wan, SendWan(wan, "start")} /\ mode' = mode
          /\ PriGoto("DOWN") \/ PriGoto("VALIDATED")
      BY <1>3 DEF PriValidatedAuto
    <2>3. pri' \in PriType /\ HasInterface'
      BY <1>0, <2>2, PriFields DEF PriGoto, PriType, PriStates, HasInterface
    <2> HIDE DEF T
    <2> QED BY <1>0, <1>1, <2>1, <2>2, <2>3, PriFields DEF PriTyped
  <1> QED BY <1>2, <1>3

LEMMA PriNextType == PriTyped /\ PriNext => PriTyped'
  BY PriSampleType, PriStartFixedType, PriStartAutoType, PriSelectFixedType, PriTearDownType,
     PriTornDownType, PriExitType, PriDownFixedType, PriValidatedFixedType, PriUpFixedType,
     PriActiveFixedType, PriUpAutoType, PriActiveAutoType, PriWaitingType, PriConfiguringType,
     PriDeconfiguringType, PriSelectAlternateType, PriScanningType, PriDownAutoType,
     PriValidatedAutoType DEF PriNext

-----------------------------------------------------------------------------
(* The steps of the backup thread: their types, and that they make no local  *)
(* interface ACTIVE, never take back STOPED and take over only without it.   *)
PolicyTyped == PriTyped /\ bk \in BackupType

SwitchStates == {"NONE", "STARTED", "STOPED", "FAILED", "SUCCESS"}

Yields ==
    /\ \A i \in Local : ifc'[i].Sel \in {ifc[i].Sel, "NOT_SELECTED"}
    /\ switch = "STOPED" => switch' = "STOPED"
    /\ ifc[Remote].Sel # "ACTIVE" /\ ifc'[Remote].Sel = "ACTIVE"
          => bk.st = "WAITING" \/ switch # "STOPED"
    /\ UNCHANGED <<wan, pri>>

LEMMA BkFields ==
    ASSUME PolicyTyped
    PROVE  /\ conf.Enable \in BOOLEAN /\ conf.AllowRemote \in BOOLEAN
           /\ bk \in BackupType /\ switch \in SwitchStates
           /\ ifc \in [Ifs -> IfcType] /\ asked \subseteq Ifs
           /\ SwitchFailed \in SwitchStates /\ SwitchFailedIfAlone \in SwitchStates
           /\ switch = "STOPED" => SwitchFailed = "STOPED" /\ SwitchFailedIfAlone = "STOPED"
  BY DEF PolicyTyped, PriTyped, SwitchStates, SwitchFailed, SwitchFailedIfAlone

LEMMA RemoteRow == PolicyTyped => ifc[Remote] \in IfcType
  BY BkFields, LocalFacts

LEMMA BkGotoType ==
    ASSUME PolicyTyped, NEW s \in BackupStates, BkGoto(s)
    PROVE  bk' \in BackupType
  BY BkFields DEF BkGoto, BackupType

LEMMA BkSelectingType == PolicyTyped /\ BkSelecting => bk' \in BackupType
  BY BkFields DEF BkSelecting, BackupType, BackupStates

\* Writes to the remote interface leave the local ones alone.
LEMMA RemoteWrites ==
    ASSUME NEW T \in [Ifs -> IfcType], NEW r \in IfcType, NEW i \in Local
    PROVE  [T EXCEPT ![Remote] = r] \in [Ifs -> IfcType] /\ [T EXCEPT ![Remote] = r][i] = T[i]
  BY LocalFacts

LEMMA BkDownType ==
    ASSUME PolicyTyped, NEW T \in [Ifs -> IfcType], BkDown(T)
    PROVE  /\ ifc' \in [Ifs -> IfcType] /\ bk' \in BackupType
           /\ \A i \in Local : ifc'[i] = T[i]
           /\ ifc'[Remote].Sel = "NOT_SELECTED"
  <1>1. BkGoto("WAITING") \/ BkGoto("DOWN")
    BY DEF BkDown
  <1>2. bk' \in BackupType
    BY <1>1, BkGotoType DEF BackupStates
  <1>3. CASE Keeps(T)
    <2> DEFINE r == [T[Remote] EXCEPT !.Sel = "NOT_SELECTED"]
    <2>1. r \in IfcType /\ r.Sel = "NOT_SELECTED"
      BY LocalFacts DEF IfcType
    <2>2. ifc' = [T EXCEPT ![Remote] = r]
      BY <1>3, LocalFacts DEF BkDown
    <2> HIDE DEF r
    <2> QED BY <1>2, <2>1, <2>2, RemoteWrites, LocalFacts
  <1>4. CASE ~ Keeps(T)
    <2> DEFINE r == [T[Remote] EXCEPT !.Sel = "NOT_SELECTED", !.Status = "DISABLED",
                        !.ActiveLink = FALSE, !.Vlan = FALSE, !.Ip = "UNKNOWN",
                        !.Conn = @ /\ ~ TAD]
    <2>1. r \in IfcType /\ r.Sel = "NOT_SELECTED"
      BY LocalFacts, ZenonT(30) DEF IfcType
    <2>2. ifc' = [T EXCEPT ![Remote] = r]
      BY <1>4, LocalFacts DEF BkDown
    <2> HIDE DEF r
    <2> QED BY <1>2, <2>1, <2>2, RemoteWrites, LocalFacts
  <1> QED BY <1>3, <1>4

\* A step that writes the remote interface only, and what is no one else's.
LEMMA RemoteStep ==
    ASSUME PolicyTyped, ifc' \in [Ifs -> IfcType], bk' \in BackupType,
           \A i \in Local : ifc'[i] = ifc[i],
           switch' \in {switch, SwitchFailed, SwitchFailedIfAlone},
           asked' \in {asked, asked \cup {Remote}},
           UNCHANGED <<conf, link, wan, mode, pri>>
    PROVE  /\ PolicyTyped'
           /\ (ifc[Remote].Sel # "ACTIVE" /\ ifc'[Remote].Sel = "ACTIVE"
                  => bk.st = "WAITING" \/ switch # "STOPED") => Yields
  <1>1. /\ switch' \in SwitchStates /\ asked' \subseteq Ifs
        /\ switch = "STOPED" => switch' = "STOPED"
    BY BkFields, LocalFacts
  <1>2. PriTyped'
    BY <1>1 DEF PolicyTyped, PriTyped, HasInterface, SwitchStates
  <1> QED BY <1>1, <1>2 DEF PolicyTyped, Yields

LEMMA BkQuietType ==
    PolicyTyped /\ (BkSample \/ BkTimer \/ BkDownState) => PolicyTyped' /\ Yields
  <1> SUFFICES ASSUME PolicyTyped, BkSample \/ BkTimer \/ BkDownState
               PROVE  PolicyTyped' /\ Yields
    OBVIOUS
  <1>1. CASE BkSample \/ BkTimer
    <2>1. bk' \in BackupType
      BY <1>1, BkFields DEF BkSample, BkTimer, BackupType
    <2> QED BY <1>1, <2>1, BkFields, RemoteStep DEF BkSample, BkTimer, data
  <1>2. CASE BkDownState
    <2>1. bk' \in BackupType
      BY <1>2, BkGotoType, BkSelectingType
         DEF BkDownState, ValidatingBackupWanInterface, BackupStates
    <2>2. /\ UNCHANGED <<conf, ifc, link, wan, mode, pri>>
          /\ switch' \in {switch, SwitchFailedIfAlone}
          /\ asked' \in {asked, asked \cup {Remote}}
      BY <1>2 DEF BkDownState, ValidatingBackupWanInterface
    <2> QED BY <2>1, <2>2, BkFields, RemoteStep
  <1> QED BY <1>1, <1>2

LEMMA BkSelectType == PolicyTyped /\ BkSelect => PolicyTyped' /\ Yields
  <1> SUFFICES ASSUME PolicyTyped, BkSelect PROVE PolicyTyped' /\ Yields
    OBVIOUS
  <1> DEFINE r == [ifc[Remote] EXCEPT !.ActiveLink = FALSE, !.Vlan = FALSE,
                      !.Sel = "NOT_SELECTED", !.Ip = "UNKNOWN", !.Status = "DISABLED"]
  <1>1. bk' \in BackupType
    BY BkFields DEF BkSelect, BackupType, BackupStates
  <1>2. r \in IfcType /\ r.Sel = "NOT_SELECTED"
    BY RemoteRow DEF IfcType
  <1>3. ifc' \in {ifc, [ifc EXCEPT ![Remote] = r]}
    BY BkFields, LocalFacts DEF BkSelect, BackupWanInterfaceSelected
  <1>4. /\ UNCHANGED <<conf, link, asked, wan, mode, pri>>
        /\ switch' \in {switch, SwitchFailedIfAlone}
    BY DEF BkSelect
  <1> HIDE DEF r
  <1> QED BY <1>1, <1>2, <1>3, <1>4, BkFields, LocalFacts, RemoteWrites, RemoteStep

LEMMA BkValidatingType == PolicyTyped /\ BkValidating => PolicyTyped' /\ Yields
  <1> SUFFICES ASSUME PolicyTyped, BkValidating PROVE PolicyTyped' /\ Yields
    OBVIOUS
  <1> DEFINE r == [ifc[Remote] EXCEPT !.ActiveLink = TRUE, !.Sel = "SELECTED",
                      !.Status = "DISABLED", !.Conn = @ \/ TAD]
  <1>1. /\ UNCHANGED <<conf, link, asked, wan, mode, pri>>
        /\ switch' \in {switch, SwitchFailedIfAlone}
    BY DEF BkValidating
  <1>2. CASE BkDown(ifc)
    BY <1>1, <1>2, BkFields, BkDownType, RemoteStep
  <1>3. CASE BackupWanAvailable
    <2>1. r \in IfcType /\ r.Sel = "SELECTED"
      BY RemoteRow DEF IfcType
    <2>2. ifc' = [ifc EXCEPT ![Remote] = r]
      BY <1>3, BkFields, LocalFacts DEF BackupWanAvailable
    <2>3. bk' \in BackupType
      BY <1>3, BkGotoType DEF BackupWanAvailable, BackupStates
    <2> HIDE DEF r
    <2> QED BY <1>1, <2>1, <2>2, <2>3, BkFields, LocalFacts, RemoteWrites, RemoteStep
  <1>4. CASE (BkSelecting \/ BkGoto("VALIDATING")) /\ UNCHANGED ifc
    <2>1. bk' \in BackupType
      BY <1>4, BkGotoType, BkSelectingType DEF BackupStates
    <2> QED BY <1>1, <1>4, <2>1, BkFields, RemoteStep
  <1> QED BY <1>2, <1>3, <1>4 DEF BkValidating

LEMMA BkAvailableType == PolicyTyped /\ BkAvailable => PolicyTyped' /\ Yields
  <1> SUFFICES ASSUME PolicyTyped, BkAvailable PROVE PolicyTyped' /\ Yields
    OBVIOUS
  <1> DEFINE r == [ifc[Remote] EXCEPT !.Vlan = TRUE, !.Status = "UP"]
  <1>1. UNCHANGED <<conf, link, asked, wan, mode, switch, pri>>
    BY DEF BkAvailable
  <1>2. CASE BkDown(ifc)
    BY <1>1, <1>2, BkFields, BkDownType, RemoteStep
  <1>3. CASE BackupWanInterfaceUp
    <2>1. r \in IfcType /\ r.Sel = ifc[Remote].Sel
      BY RemoteRow DEF IfcType
    <2>2. ifc' \in {ifc, [ifc EXCEPT ![Remote] = r]}
      BY <1>3, BkFields, LocalFacts DEF BackupWanInterfaceUp
    <2>3. bk' \in BackupType
      BY <1>3, BkGotoType DEF BackupWanInterfaceUp, BackupStates
    <2> HIDE DEF r
    <2> QED BY <1>1, <2>1, <2>2, <2>3, BkFields, LocalFacts, RemoteWrites, RemoteStep
  <1> QED BY <1>2, <1>3 DEF BkAvailable

LEMMA BkActivateType ==
    ASSUME PolicyTyped, BkActivate, UNCHANGED <<conf, link, asked, wan, mode, pri>>
    PROVE  /\ PolicyTyped'
           /\ bk.st = "WAITING" \/ switch # "STOPED" => Yields
  <1> DEFINE r == [ifc[Remote] EXCEPT !.Sel = "ACTIVE", !.Status = "UP"]
             active == [ifc EXCEPT ![Remote] = r]
  <1>1. r \in IfcType
    BY RemoteRow DEF IfcType
  <1>2. active \in [Ifs -> IfcType] /\ \A i \in Local : active[i] = ifc[i]
    <2> HIDE DEF r
    <2> QED BY <1>1, BkFields, RemoteWrites, LocalFacts
  <1>3. active = [ifc EXCEPT ![Remote].Sel = "ACTIVE", ![Remote].Status = "UP"]
    BY BkFields, LocalFacts
  <1>4. \/ BkDown(ifc) /\ switch' = SwitchFailed
        \/ BkDown(active) /\ UNCHANGED switch
        \/ /\ ifc' = active /\ BkGoto("ACTIVE")
           /\ switch' = IF switch \in {"STARTED", "FAILED"} THEN "SUCCESS" ELSE switch
    BY <1>3 DEF BkActivate
  <1> HIDE DEF r, active
  <1>5. CASE BkDown(ifc) /\ switch' = SwitchFailed
    BY <1>5, BkFields, BkDownType, RemoteStep
  <1>6. CASE BkDown(active) /\ UNCHANGED switch
    BY <1>2, <1>6, BkFields, BkDownType, RemoteStep
  <1>7. CASE /\ ifc' = active /\ BkGoto("ACTIVE")
             /\ switch' = IF switch \in {"STARTED", "FAILED"} THEN "SUCCESS" ELSE switch
    <2>1. bk' \in BackupType
      BY <1>7, BkGotoType DEF BackupStates
    <2>2. switch' \in SwitchStates /\ (switch = "STOPED" => switch' = "STOPED")
      BY <1>7, BkFields DEF SwitchStates
    <2>3. PriTyped'
      BY <1>2, <1>7, <2>2 DEF PolicyTyped, PriTyped, HasInterface, SwitchStates
    <2> QED BY <1>2, <1>7, <2>1, <2>2, <2>3 DEF PolicyTyped, Yields
  <1> QED BY <1>4, <1>5, <1>6, <1>7

LEMMA BkTakesOverType ==
    PolicyTyped /\ (BkUp \/ BkInActive \/ BkWaiting) => PolicyTyped' /\ Yields
  <1> SUFFICES ASSUME PolicyTyped, BkUp \/ BkInActive \/ BkWaiting
               PROVE  PolicyTyped' /\ Yields
    OBVIOUS
  <1>1. UNCHANGED <<conf, link, asked, wan, mode, pri>>
    BY DEF BkUp, BkInActive, BkWaiting
  <1>2. \/ BkDown(ifc) /\ UNCHANGED switch
        \/ BkActivate /\ (bk.st = "WAITING" \/ switch # "STOPED")
        \/ BkSelecting /\ UNCHANGED <<ifc, switch>>
    BY DEF BkUp, BkInActive, BkWaiting, TakesOver
  <1>3. CASE BkDown(ifc) /\ UNCHANGED switch
    BY <1>1, <1>3, BkFields, BkDownType, RemoteStep
  <1>4. CASE BkActivate /\ (bk.st = "WAITING" \/ switch # "STOPED")
    BY <1>1, <1>4, BkActivateType
  <1>5. CASE BkSelecting /\ UNCHANGED <<ifc, switch>>
    BY <1>1, <1>5, BkFields, BkSelectingType, RemoteStep
  <1> QED BY <1>2, <1>3, <1>4, <1>5

LEMMA BkActiveStateType == PolicyTyped /\ BkActiveState => PolicyTyped' /\ Yields
  <1> SUFFICES ASSUME PolicyTyped, BkActiveState PROVE PolicyTyped' /\ Yields
    OBVIOUS
  <1> DEFINE r == [ifc[Remote] EXCEPT !.Sel = "SELECTED"]
  <1>1. UNCHANGED <<conf, link, asked, wan, mode, switch, pri>>
    BY DEF BkActiveState
  <1>2. CASE BkDown(ifc)
    BY <1>1, <1>2, BkFields, BkDownType, RemoteStep
  <1>3. CASE BkDeactivate
    <2>1. r \in IfcType /\ r.Sel = "SELECTED"
      BY RemoteRow DEF IfcType
    <2>2. ifc' = [ifc EXCEPT ![Remote] = r]
      BY <1>3, BkFields, LocalFacts DEF BkDeactivate
    <2>3. bk' \in BackupType
      BY <1>3, BkFields DEF BkDeactivate, BackupType, BackupStates
    <2> HIDE DEF r
    <2> QED BY <1>1, <2>1, <2>2, <2>3, BkFields, LocalFacts, RemoteWrites, RemoteStep
  <1>4. CASE ~ BkDown(ifc) /\ ~ BkDeactivate
    <2>1. bk' \in BackupType
      BY <1>4, BkFields DEF BkActiveState, BackupType, BackupStates
    <2>2. \/ ifc' = ifc
          \/ ifc' = [ifc EXCEPT ![FirstLocalUp].Sel = "NOT_SELECTED"]
      BY <1>4 DEF BkActiveState, ReTriggerValidation
    <2>3. ifc' \in [Ifs -> IfcType]
      <3>1. [ifc EXCEPT ![FirstLocalUp].Sel = "NOT_SELECTED"] \in [Ifs -> IfcType]
        BY BkFields, IfcWrites
      <3> QED BY <2>2, <3>1, BkFields
    <2>4. \A i \in Ifs : ifc'[i].Sel \in {ifc[i].Sel, "NOT_SELECTED"}
      <3> SUFFICES ASSUME NEW i \in Ifs
                   PROVE  ifc'[i].Sel \in {ifc[i].Sel, "NOT_SELECTED"}
        OBVIOUS
      <3>1. ifc \in [Ifs -> IfcType] /\ ifc[i] \in IfcType
        BY BkFields
      <3> QED BY <2>2, <3>1 DEF IfcType
    <2>5. PriTyped'
      BY <1>1, <2>3 DEF PolicyTyped, PriTyped, HasInterface
    <2>6. Yields
      BY <1>1, <2>4, LocalFacts DEF Yields
    <2> QED BY <2>1, <2>5, <2>6 DEF PolicyTyped
  <1> QED BY <1>2, <1>3, <1>4

-----------------------------------------------------------------------------
(* What the steps of the primary thread do to the Selection.Status of the    *)
(* local interfaces and to what the backup thread is told.                   *)
Writes(i, S) ==
    /\ i \in Local
    /\ ifc'[i].Sel \in S
    /\ \A j \in Ifs \ {i} : ifc'[j] = ifc[j]

Passive(i) == Writes(i, {ifc[i].Sel, "NOT_SELECTED", "SELECTED"})

PriSafe == PriTyped /\ ActiveIsMine /\ Announced

RemoteKept == ifc'[Remote] = ifc[Remote]

LEMMA GotoFields ==
    ASSUME PriTyped, NEW s, PriGoto(s)
    PROVE  pri'.st = s /\ pri'.idx = pri.idx
  BY PriFields DEF PriGoto, PriType

LEMMA MineTyped == PriTyped => \A i \in Local : i \in Ifs /\ ifc[i] \in IfcType
  BY PriFields, LocalFacts

\* Outside its state ACTIVE the primary thread has no ACTIVE interface.
LEMMA PassiveStep ==
    ASSUME PriSafe, pri.st # "ACTIVE", ifc' = ifc \/ \E i \in Local : Passive(i)
    PROVE  ActiveIsMine' /\ RemoteKept
  BY LocalFacts DEF PriSafe, ActiveIsMine, Passive, Writes, RemoteKept

\* When it leaves that state its interface is not ACTIVE any more.
LEMMA LeavingStep ==
    ASSUME PriSafe, Writes(pri.idx, {"NOT_SELECTED", "SELECTED"})
    PROVE  ActiveIsMine' /\ RemoteKept
  BY LocalFacts DEF PriSafe, ActiveIsMine, Writes, RemoteKept

LEMMA DownWrites ==
    ASSUME PriTyped, NEW i \in Local, WanInterfaceDown(i)
    PROVE  Writes(i, {"NOT_SELECTED", "SELECTED"}) /\ Passive(i)
           /\ pri'.st = "DOWN" /\ switch' = "STARTED"
  BY MineTyped, PriFields, GotoFields DEF WanInterfaceDown, Writes, Passive, IfcType

LEMMA UpFixedWrites ==
    ASSUME PriTyped, NEW i \in Local, WanInterfaceUpFixed(i)
    PROVE  Passive(i)
  BY MineTyped, PriFields DEF WanInterfaceUpFixed, Writes, Passive, IfcType

LEMMA ValidatingWrites ==
    ASSUME PriTyped, NEW i \in Local,
           WanInterfaceValidating(i) \/ AutoWanInterfaceValidating(i)
    PROVE  (ifc' = ifc \/ Passive(i)) /\ pri'.st \in {pri.st, "VALIDATED"}
  <1>1. pri'.st \in {pri.st, "VALIDATED"}
    BY GotoFields DEF WanInterfaceValidating, AutoWanInterfaceValidating
  <1>2. CASE WanInterfaceValidating(i)
    BY <1>1, <1>2, MineTyped, PriFields DEF WanInterfaceValidating, Writes, Passive, IfcType
  <1>3. CASE AutoWanInterfaceValidating(i)
    BY <1>1, <1>3, MineTyped, PriFields DEF AutoWanInterfaceValidating, Writes, Passive, IfcType
  <1> QED BY <1>2, <1>3

LEMMA ScanningWrites ==
    ASSUME PriTyped, NEW i \in Local, WanInterfacePhyUp(i) \/ WanInterfaceConfigured(i)
    PROVE  Passive(i) /\ pri'.st = "SCANNING"
  BY MineTyped, PriFields, GotoFields
     DEF WanInterfacePhyUp, WanInterfaceConfigured, Writes, Passive, IfcType

LEMMA UpAutoWrites ==
    ASSUME PriTyped, pri.idx \in Local, NEW w, WanInterfaceUpAuto(w)
    PROVE  Passive(pri.idx) /\ pri'.st = "UP"
  BY MineTyped, PriFields DEF WanInterfaceUpAuto, Writes, Passive, IfcType, PriType

\* The three ways out of UP and the two out of ACTIVE, for both kinds of mode.
LEMMA UpSteps ==
    ASSUME PriSafe, pri.idx \in Local, pri.st = "UP",
           LinkDown \/ DnsCheckWaitForRemoteInActive \/ WanInterfaceActive
    PROVE  ActiveIsMine' /\ Announced' /\ RemoteKept
  <1>0. PriTyped
    BY DEF PriSafe
  <1>1. CASE LinkDown
    <2>1. WanInterfaceDown(pri.idx)
      BY <1>1 DEF LinkDown
    <2>2. /\ Writes(pri.idx, {"NOT_SELECTED", "SELECTED"})
          /\ pri'.st = "DOWN"
      BY <1>0, <2>1, DownWrites
    <2> QED BY <2>2, LeavingStep DEF Announced
  <1>2. CASE DnsCheckWaitForRemoteInActive
    <2>1. pri'.st = "UP" /\ switch' = "STOPED" /\ ifc' = ifc
      BY <1>0, <1>2, GotoFields DEF DnsCheckWaitForRemoteInActive
    <2> QED BY <2>1, PassiveStep DEF Announced
  <1>3. CASE WanInterfaceActive
    <2>1. pri'.st = "ACTIVE" /\ pri'.idx = pri.idx /\ switch' = switch
      BY <1>0, <1>3, GotoFields DEF WanInterfaceActive
    <2>2. switch = "STOPED"
      BY <1>3 DEF WanInterfaceActive, PriSafe, Announced, FellBack
    <2>3. Writes(pri.idx, {"ACTIVE"})
      BY <1>0, <1>3, MineTyped, PriFields DEF WanInterfaceActive, Writes, IfcType
    <2>4. ActiveIsMine'
      BY <2>1, <2>3, LocalFacts DEF PriSafe, ActiveIsMine, Writes
    <2>5. RemoteKept
      BY <2>3, LocalFacts DEF Writes, RemoteKept
    <2> QED BY <2>1, <2>2, <2>4, <2>5 DEF Announced
  <1> QED BY <1>1, <1>2, <1>3

\* FallBack queues a stop and a start, whatever is queued.
LEMMA RestartQueued ==
    ASSUME NEW w \in Wans
    PROVE  SendWan(SendWan(w, "stop"), "start").req = <<"stop", "start">>
  <1> DEFINE q == w.req
             p == SendWan(w, "stop").req
  <1>1. /\ q \in Seq({"start", "stop"}) /\ w \in WanType
        /\ Len(q) \in Nat /\ Len(q) <= 2
    <2>1. w \in WanType /\ Len(q) <= 2
      BY DEF Wans
    <2>2. q \in Seq({"start", "stop"})
      BY <2>1 DEF WanType
    <2>3. Len(q) \in Nat
      BY <2>2
    <2> QED BY <2>1, <2>2, <2>3, Zenon
  <1>2. p = IF q # <<>> /\ q[Len(q)] = "stop" THEN q
            ELSE IF Len(q) < 2 THEN Append(q, "stop") ELSE <<q[2], "stop">>
    BY <1>1, SendWanReq
  <1>3. p \in Seq({"start", "stop"}) /\ (Len(p) = 1 \/ Len(p) = 2) /\ p[Len(p)] = "stop"
    <2>1. CASE q # <<>> /\ q[Len(q)] = "stop"
      <3>1. p = q
        BY <1>2, <2>1, Zenon
      <3> HIDE DEF p, q
      <3>2. Len(q) = 1 \/ Len(q) = 2
        <4> DEFINE S == {"start", "stop"}
        <4>1. q \in Seq(S)
          BY <1>1
        <4> HIDE DEF S
        <4>2. Len(q) # 0
          BY <2>1, <4>1
        <4> DEFINE n == Len(q)
        <4>3. n # 0 /\ n \in Nat /\ n <= 2
          BY <1>1, <4>2
        <4> HIDE DEF n
        <4>4. n = 1 \/ n = 2
          BY <4>3
        <4> QED BY <4>4 DEF n
      <3> QED BY <1>1, <2>1, <3>1, <3>2
    <2>2. CASE ~ (q # <<>> /\ q[Len(q)] = "stop") /\ Len(q) < 2
      <3>1. p = Append(q, "stop")
        BY <1>2, <2>2, Zenon
      <3> HIDE DEF p, q
      <3>2. Append(q, "stop") \in Seq({"start", "stop"})
        BY <1>1
      <3>3. Len(Append(q, "stop")) = Len(q) + 1 /\ Append(q, "stop")[Len(q) + 1] = "stop"
        BY <1>1
      <3> QED BY <1>1, <2>2, <3>1, <3>2, <3>3
    <2>3. CASE ~ (q # <<>> /\ q[Len(q)] = "stop") /\ ~ Len(q) < 2
      <3>1. q[2] \in {"start", "stop"}
        BY <1>1, <2>3
      <3> QED BY <1>2, <2>3, <3>1
    <2> QED BY <2>1, <2>2, <2>3
  <1>4. SendWan(w, "stop") \in WanType
    BY <1>1, SendWanType DEF Wans
  <1> DEFINE v == SendWan(w, "stop")
  <1>5. SendWan(v, "start").req = IF Len(p) < 2 THEN Append(p, "start") ELSE <<p[2], "start">>
    <2> HIDE DEF v
    <2>1. v \in WanType /\ v.req = p
      BY <1>4 DEF v
    <2> HIDE DEF p
    <2>2. p # <<>> /\ p[Len(p)] # "start"
      BY <1>3
    <2> QED BY <2>1, <2>2, SendWanReq
  <1> HIDE DEF p, q, v
  <1>6. CASE Len(p) = 1
    <2>1. p = <<"stop">>
      BY <1>3, <1>6
    <2> QED BY <1>5, <1>6, <2>1 DEF v
  <1>7. CASE Len(p) = 2
    BY <1>3, <1>5, <1>7 DEF v
  <1> QED BY <1>3, <1>6, <1>7

LEMMA ActiveSteps ==
    ASSUME PriSafe, pri.idx \in Local, pri.st = "ACTIVE", LinkDown \/ FallBack
    PROVE  ActiveIsMine' /\ Announced' /\ RemoteKept
  <1>0. PriTyped
    BY DEF PriSafe
  <1>1. CASE LinkDown
    <2>1. WanInterfaceDown(pri.idx)
      BY <1>1 DEF LinkDown
    <2>2. /\ Writes(pri.idx, {"NOT_SELECTED", "SELECTED"})
          /\ pri'.st = "DOWN"
      BY <1>0, <2>1, DownWrites
    <2> QED BY <2>2, LeavingStep DEF Announced
  <1>2. CASE FallBack
    <2>1. pri'.st = "UP"
      BY <1>0, <1>2, GotoFields DEF FallBack, DnsConnectivityCheckUp
    <2>2. Writes(pri.idx, {"NOT_SELECTED", "SELECTED"})
      BY <1>0, <1>2, MineTyped, PriFields DEF FallBack, DnsConnectivityCheckUp, Writes, IfcType
    <2> DEFINE w == ConfigReset(wan, FALSE)
               v == SendWan(w, "stop")
               u == SetConnectivityCheckState(v, "STARTING")
    <2>3. w \in Wans /\ v \in Wans /\ u \in Wans
      BY <1>0, PriFields, WanWrites
    <2>4. wan' = SendWan(u, "start")
      BY <1>2 DEF FallBack, DnsConnectivityCheckUp
    <2>5. w.route = FALSE
      BY <1>0, PriFields DEF ConfigReset, Wans, WanType
    <2>6. v.route = FALSE
      BY <2>3, <2>5, SendWanType DEF Wans
    <2>7. u.route = FALSE /\ u.check = "STARTING" /\ u.req = v.req
      BY <2>3, <2>6 DEF SetConnectivityCheckState, Wans, WanType
    <2> HIDE DEF u
    <2>8. wan'.route = FALSE /\ wan'.check = "STARTING"
      BY <2>3, <2>4, <2>7, SendWanType DEF Wans
    <2>9. SendWan(v, "start").req = <<"stop", "start">>
      BY <2>3, RestartQueued
    <2>10. wan'.req = SendWan(v, "start").req
      <3> HIDE DEF v
      <3>1. u \in WanType /\ v \in WanType
        BY <2>3 DEF Wans
      <3>2. SendWan(u, "start").req = SendWan(v, "start").req
        <4> DEFINE last(q) == q # <<>> /\ q[Len(q)] = "start"
                   sent(q) == IF last(q) THEN q ELSE IF Len(q) < 2 THEN Append(q, "start")
                                                ELSE <<q[2], "start">>
        <4>1. SendWan(u, "start").req = sent(u.req) /\ SendWan(v, "start").req = sent(v.req)
          BY <3>1, SendWanReq
        <4> HIDE DEF sent
        <4> QED BY <2>7, <4>1
      <3> QED BY <2>4, <3>2
    <2>11. TAD
      BY <1>2 DEF FallBack, ConnectivityLost
    <2>12. FellBack'
      BY <2>8, <2>9, <2>10, <2>11 DEF FellBack
    <2> QED BY <2>1, <2>2, <2>12, LeavingStep DEF Announced
  <1> QED BY <1>1, <1>2

\* The steps that leave ACTIVE and UP alone, by the states they lead to.
LEMMA QuietSteps ==
    ASSUME PriSafe, pri.st # "ACTIVE", ifc' = ifc \/ (\E i \in Local : Passive(i)),
           \/ switch' = "STOPED"
           \/ pri'.st \notin {"CONFIGURING", "SCANNING", "VALIDATED", "ACTIVE", "UP"}
           \/ pri.st \in {"CONFIGURING", "SCANNING", "VALIDATED"} /\ switch' = switch
    PROVE  ActiveIsMine' /\ Announced' /\ RemoteKept
  BY PassiveStep DEF Announced, PriSafe

LEMMA PriSampleSafe == PriSafe /\ PriSample => ActiveIsMine' /\ Announced' /\ RemoteKept
  <1> SUFFICES ASSUME PriSafe, PriSample PROVE ActiveIsMine' /\ Announced' /\ RemoteKept
    OBVIOUS
  <1>1. pri'.st = pri.st /\ pri'.idx = pri.idx
    BY PriFields DEF PriSample, PriSafe, PriType
  <1>2. UNCHANGED data
    BY DEF PriSample
  <1> QED BY <1>1, <1>2 DEF data, PriSafe, ActiveIsMine, Announced, FellBack, RemoteKept

LEMMA PriTearDownSafe == PriSafe /\ PriTearDown => ActiveIsMine' /\ Announced' /\ RemoteKept
  <1> SUFFICES ASSUME PriSafe, PriTearDown PROVE ActiveIsMine' /\ Announced' /\ RemoteKept
    OBVIOUS
  <1>0. PriTyped /\ pri.idx \in Local
    BY PriFields DEF PriSafe, PriTearDown, HasInterface
  <1>1. pri'.st = "TEARDOWN"
    BY <1>0, GotoFields DEF PriTearDown
  <1>2. Writes(pri.idx, {"NOT_SELECTED", "SELECTED"})
    BY <1>0, MineTyped, PriFields DEF PriTearDown, Writes, IfcType
  <1> QED BY <1>1, <1>2, LeavingStep DEF Announced

\* The steps between and before the runs of the state machine.
LEMMA PriIdleSafe ==
    PriSafe /\ (PriStartFixed \/ PriStartAuto \/ PriSelectFixed \/ PriTornDown \/ PriExit)
        => ActiveIsMine' /\ Announced' /\ RemoteKept
  <1> SUFFICES ASSUME PriSafe, PriStartFixed \/ PriStartAuto \/ PriSelectFixed
                                   \/ PriTornDown \/ PriExit
               PROVE  ActiveIsMine' /\ Announced' /\ RemoteKept
    OBVIOUS
  <1>0. PriTyped
    BY DEF PriSafe
  <1>1. CASE PriStartFixed
    <2>1. pri'.st = "SELECTING" /\ pri.st = "INIT" /\ ifc' = ifc
      BY <1>0, <1>1, PriFields DEF PriStartFixed, PriType
    <2> QED BY <2>1, QuietSteps
  <1>2. CASE PriStartAuto
    <2> DEFINE i == LastKnownIf(mode.last)
    <2>1. i \in Local
      BY <1>2, LastKnownType DEF PriStartAuto
    <2>2. pri'.st = "WAITING" /\ pri.st = "INIT"
      BY <1>0, <1>2, PriFields DEF PriStartAuto, PriType
    <2>3. ifc' = [ifc EXCEPT ![i].ActiveLink = TRUE, ![i].Phy = "UNKNOWN"]
      BY <1>2 DEF PriStartAuto
    <2> HIDE DEF i
    <2>4. Passive(i)
      BY <1>0, <2>1, <2>3, MineTyped, PriFields DEF Passive, Writes, IfcType
    <2> QED BY <2>1, <2>2, <2>4, QuietSteps
  <1>3. CASE PriSelectFixed
    <2>1. pri'.st \in {"DOWN", "SELECTING"} /\ pri.st = "SELECTING"
      BY <1>0, <1>3, PriFields DEF PriSelectFixed, PriType
    <2>2. ifc' = ifc \/ Passive(pri.idx)
      BY <1>0, <1>3, MineTyped, PriFields, ZenonT(30) DEF PriSelectFixed, Passive, Writes, IfcType
    <2> QED BY <1>0, <2>1, <2>2, QuietSteps, PriFields DEF Passive, Writes
  <1>4. CASE PriTornDown \/ PriExit
    <2>1. pri'.st \in {"EXIT", "SELECTING", "DOWN", "INIT"} /\ pri.st \in {"TEARDOWN", "EXIT"}
      <3>1. CASE PriTornDown
        <4>1. PriGoto("EXIT") \/ PriGoto("SELECTING") \/ PriGoto("DOWN")
          BY <3>1 DEF PriTornDown
        <4> QED BY <1>0, <3>1, <4>1, GotoFields DEF PriTornDown, At
      <3>2. CASE PriExit
        BY <1>0, <3>2, GotoFields DEF PriExit
      <3> QED BY <1>4, <3>1, <3>2
    <2>2. ifc' = ifc
      BY <1>4 DEF PriTornDown, PriExit, data
    <2> QED BY <2>1, <2>2, QuietSteps
  <1> QED BY <1>1, <1>2, <1>3, <1>4

LEMMA PriDownFixedSafe ==
    PriSafe /\ PriDownFixed => ActiveIsMine' /\ Announced' /\ RemoteKept
  <1> SUFFICES ASSUME PriSafe, PriDownFixed PROVE ActiveIsMine' /\ Announced' /\ RemoteKept
    OBVIOUS
  <1>0. PriTyped /\ pri.idx \in Local /\ pri.st = "DOWN" /\ switch' = "STOPED"
    BY PriFields DEF PriSafe, PriDownFixed, At, HasInterface
  <1>1. ifc' = ifc \/ Passive(pri.idx)
    BY <1>0, UpFixedWrites, ValidatingWrites DEF PriDownFixed, WanBusy
  <1> QED BY <1>0, <1>1, QuietSteps

LEMMA PriDownAutoSafe ==
    PriSafe /\ PriDownAuto => ActiveIsMine' /\ Announced' /\ RemoteKept
  <1> SUFFICES ASSUME PriSafe, PriDownAuto PROVE ActiveIsMine' /\ Announced' /\ RemoteKept
    OBVIOUS
  <1>0. PriTyped /\ pri.idx \in Local /\ pri.st = "DOWN" /\ switch' = "STOPED"
    BY PriFields DEF PriSafe, PriDownAuto, At, HasInterface
  <1>1. ifc' = ifc \/ Passive(pri.idx)
    BY <1>0, UpAutoWrites, ValidatingWrites DEF PriDownAuto, WanBusy
  <1> QED BY <1>0, <1>1, QuietSteps

LEMMA PriValidatedFixedSafe ==
    PriSafe /\ PriValidatedFixed => ActiveIsMine' /\ Announced' /\ RemoteKept
  <1> SUFFICES ASSUME PriSafe, PriValidatedFixed
               PROVE  ActiveIsMine' /\ Announced' /\ RemoteKept
    OBVIOUS
  <1>0. PriTyped /\ pri.idx \in Local /\ pri.st = "VALIDATED"
    BY PriFields DEF PriSafe, PriValidatedFixed, At, HasInterface
  <1>1. CASE WanInterfaceDown(pri.idx)
    BY <1>0, <1>1, DownWrites, QuietSteps
  <1>2. CASE WanInterfaceUpFixed(pri.idx) /\ switch' = switch
    BY <1>0, <1>2, UpFixedWrites, QuietSteps
  <1> QED BY <1>1, <1>2 DEF PriValidatedFixed

LEMMA PriValidatedAutoSafe ==
    PriSafe /\ PriValidatedAuto => ActiveIsMine' /\ Announced' /\ RemoteKept
  <1> SUFFICES ASSUME PriSafe, PriValidatedAuto
               PROVE  ActiveIsMine' /\ Announced' /\ RemoteKept
    OBVIOUS
  <1>0. /\ PriTyped /\ pri.idx \in Local /\ pri.st = "VALIDATED" /\ switch' = switch
        /\ pri.idx \in Ifs /\ ifc[pri.idx] \in IfcType /\ ifc \in [Ifs -> IfcType]
    BY PriFields, LocalFacts DEF PriSafe, PriValidatedAuto, At, HasInterface
  <1>1. CASE WanInterfaceUpAuto(SendWan(wan, "start"))
    BY <1>0, <1>1, UpAutoWrites, QuietSteps
  <1>2. CASE ~ WanInterfaceUpAuto(SendWan(wan, "start"))
    <2>1. ifc' \in {ifc, [ifc EXCEPT ![pri.idx].Status = "DISABLED",
                                     ![pri.idx].Sel = "NOT_SELECTED"]}
      BY <1>2 DEF PriValidatedAuto
    <2>2. ifc' = ifc \/ Passive(pri.idx)
      BY <1>0, <2>1 DEF Passive, Writes, IfcType
    <2> QED BY <1>0, <2>2, QuietSteps
  <1> QED BY <1>1, <1>2

LEMMA PriUpSafe ==
    PriSafe /\ (PriUpFixed \/ PriUpAuto) => ActiveIsMine' /\ Announced' /\ RemoteKept
  BY UpSteps, PriFields DEF PriSafe, PriUpFixed, PriUpAuto, At, HasInterface

LEMMA PriActiveSafe ==
    PriSafe /\ (PriActiveFixed \/ PriActiveAuto)
        => ActiveIsMine' /\ Announced' /\ RemoteKept
  BY ActiveSteps, PriFields DEF PriSafe, PriActiveFixed, PriActiveAuto, At, HasInterface

\* The steps of the scan of one interface after the other.
LEMMA PriScanSafe ==
    PriSafe /\ (PriWaiting \/ PriConfiguring \/ PriDeconfiguring \/ PriScanning)
        => ActiveIsMine' /\ Announced' /\ RemoteKept
  <1> SUFFICES ASSUME PriSafe,
                      PriWaiting \/ PriConfiguring \/ PriDeconfiguring \/ PriScanning
               PROVE  ActiveIsMine' /\ Announced' /\ RemoteKept
    OBVIOUS
  <1>0. /\ PriTyped /\ pri.idx \in Local
        /\ pri.idx \in Ifs /\ ifc[pri.idx] \in IfcType /\ ifc \in [Ifs -> IfcType]
    BY PriFields, LocalFacts
       DEF PriSafe, PriWaiting, PriConfiguring, PriDeconfiguring, PriScanning, At, HasInterface
  <1> DEFINE scanned == [ifc EXCEPT ![pri.idx].Scanned = TRUE]
             unlinked == [ifc EXCEPT ![pri.idx].ActiveLink = FALSE]
  <1>1. ASSUME ifc' = scanned \/ ifc' = unlinked
        PROVE  Passive(pri.idx)
    BY <1>0, <1>1 DEF Passive, Writes, IfcType
  <1> HIDE DEF scanned, unlinked
  <1>2. CASE PriWaiting
    <2>1. /\ pri.st = "WAITING"
          /\ switch' = "STOPED" \/ PriGoto("DECONFIGURING")
          /\ \/ ifc' = scanned
             \/ AutoWanInterfaceValidating(pri.idx)
             \/ WanInterfacePhyUp(pri.idx)
      BY <1>2 DEF PriWaiting, At, scanned
    <2>2. ifc' = ifc \/ Passive(pri.idx)
      BY <1>0, <1>1, <2>1, ValidatingWrites, ScanningWrites
    <2>3. PriGoto("DECONFIGURING") => pri'.st = "DECONFIGURING"
      BY <1>0, GotoFields
    <2> QED BY <1>0, <2>1, <2>2, <2>3, QuietSteps
  <1>3. CASE PriConfiguring
    <2>1. /\ pri.st = "CONFIGURING" /\ switch' = switch
          /\ \/ ifc' = ifc
             \/ AutoWanInterfaceValidating(pri.idx)
             \/ WanInterfaceConfigured(pri.idx)
      BY <1>3 DEF PriConfiguring, At
    <2>2. ifc' = ifc \/ Passive(pri.idx)
      BY <1>0, <2>1, ValidatingWrites, ScanningWrites
    <2> QED BY <1>0, <2>1, <2>2, QuietSteps
  <1>4. CASE PriDeconfiguring
    <2>1. pri.st = "DECONFIGURING" /\ pri'.st = "SELECTING" /\ ifc' = unlinked
      BY <1>0, <1>4, GotoFields DEF PriDeconfiguring, At, unlinked
    <2> QED BY <1>0, <1>1, <2>1, QuietSteps
  <1>5. CASE PriScanning
    <2>1. /\ pri.st = "SCANNING" /\ switch' = switch
          /\ ifc' = ifc \/ WanInterfaceUpAuto(wan)
      BY <1>5 DEF PriScanning, At
    <2> QED BY <1>0, <2>1, UpAutoWrites, QuietSteps
  <1> QED BY <1>2, <1>3, <1>4, <1>5

LEMMA PriSelectAlternateSafe ==
    PriSafe /\ PriSelectAlternate => ActiveIsMine' /\ Announced' /\ RemoteKept
  <1> SUFFICES ASSUME PriSafe, PriSelectAlternate
               PROVE  ActiveIsMine' /\ Announced' /\ RemoteKept
    OBVIOUS
  <1>0. PriTyped /\ pri.st = "SELECTING" /\ pri.idx \in Local
    BY PriFields DEF PriSafe, PriSelectAlternate, HasInterface, AutoMode
  <1>1. pri'.st = "WAITING"
    BY <1>0, PriFields DEF PriSelectAlternate, PriGoto, PriType
  <1>2. CASE Local = {pri.idx}
    BY <1>0, <1>1, <1>2, QuietSteps DEF PriSelectAlternate
  <1>3. CASE Local # {pri.idx}
    <2> DEFINE i == CHOOSE j \in Local : j # pri.idx
    <2>1. i \in Local
      BY <1>0, <1>3
    <2>2. WaitingForInterface(i)
      BY <1>3 DEF PriSelectAlternate
    <2> HIDE DEF i
    <2>3. Passive(i)
      BY <1>0, <2>1, <2>2, MineTyped, PriFields
         DEF WaitingForInterface, Passive, Writes, IfcType
    <2> QED BY <1>0, <1>1, <2>1, <2>3, QuietSteps
  <1> QED BY <1>2, <1>3

LEMMA PriNextSafe == PriSafe /\ PriNext => PriSafe' /\ RemoteKept
  BY PriNextType, PriSampleSafe, PriTearDownSafe, PriIdleSafe, PriDownFixedSafe,
     PriDownAutoSafe, PriValidatedFixedSafe, PriValidatedAutoSafe, PriUpSafe, PriActiveSafe,
     PriScanSafe, PriSelectAlternateSafe DEF PriNext, PriSafe

-----------------------------------------------------------------------------
(* The whole of the policy: the components around the threads, the writes of *)
(* the data model, and the theorem.                                          *)
PolicyInv == PolicyTyped /\ ActiveIsMine /\ Announced

LEMMA PolicyInit == RemoteInit => PolicyInv
  <1> SUFFICES ASSUME RemoteInit PROVE PolicyInv
    OBVIOUS
  <1>1. ifc \in [Ifs -> IfcType] /\ \A i \in Ifs : ifc[i].Sel = "NOT_SELECTED"
    BY DEF RemoteInit, PrimaryInit, IfcType
  <1>2. wan \in Wans
    <2>1. wan.req = <<>> /\ Len(wan.req) = 0
      BY DEF RemoteInit, PrimaryInit
    <2>2. wan \in WanType
      BY DEF RemoteInit, PrimaryInit, WanType
    <2> QED BY <2>1, <2>2 DEF Wans
  <1>3. mode \in ModeType /\ pri \in PriType /\ pri.st = "INIT"
    BY LocalAssumption DEF RemoteInit, PrimaryInit, ModeType, PriType, PriStates
  <1>4. bk \in BackupType
    BY DEF RemoteInit, BackupInit, BackupType, BackupStates
  <1>5. PriTyped
    BY <1>1, <1>2, <1>3 DEF RemoteInit, PrimaryInit, PriTyped, HasInterface
  <1>6. ActiveIsMine /\ Announced
    BY <1>1, <1>3, LocalFacts DEF ActiveIsMine, Announced
  <1> QED BY <1>4, <1>5, <1>6 DEF PolicyInv, PolicyTyped

\* Nothing around the threads selects an interface.
SelKept == \A i \in Ifs : ifc'[i].Sel = ifc[i].Sel

LEMMA AroundStep ==
    ASSUME PolicyInv, ifc' \in [Ifs -> IfcType], SelKept,
           UNCHANGED <<wan, switch, pri, bk>>,
           conf' \in [Enable : BOOLEAN, AllowRemote : BOOLEAN], link' \in [Ifs -> BOOLEAN],
           asked' \subseteq Ifs, mode' \in ModeType
    PROVE  PolicyInv'
  <1>1. PolicyTyped'
    BY DEF PolicyInv, PolicyTyped, PriTyped, HasInterface
  <1>2. ActiveIsMine' /\ Announced'
    BY LocalFacts DEF PolicyInv, SelKept, ActiveIsMine, Announced, FellBack
  <1> QED BY <1>1, <1>2 DEF PolicyInv

LEMMA AroundFields ==
    ASSUME PolicyInv
    PROVE  /\ ifc \in [Ifs -> IfcType] /\ \A i \in Ifs : ifc[i] \in IfcType
           /\ link \in [Ifs -> BOOLEAN] /\ asked \subseteq Ifs /\ mode \in ModeType
           /\ conf \in [Enable : BOOLEAN, AllowRemote : BOOLEAN]
  BY DEF PolicyInv, PolicyTyped, PriTyped

LEMMA IfcEventSafe ==
    ASSUME PolicyInv, NEW i \in Ifs,
           Report(i) \/ LinkChange(i) \/ SetIfcEnable(i) \/ SetConnectivity(i) \/ SetRemoteStatus
    PROVE  PolicyInv' /\ SelKept
  <1>0. ifc \in [Ifs -> IfcType] /\ ifc[i] \in IfcType /\ ifc[Remote] \in IfcType
    BY AroundFields, LocalFacts
  <1>1. CASE Report(i)
    <2>1. PICK ok \in BOOLEAN :
              ifc' = [ifc EXCEPT ![i].Phy = PhyOf(link[i]),
                       ![i].Ip = IF i \in {Remote} \cup Scanned THEN PhyOf(ok) ELSE @]
      BY <1>1 DEF Report
    <2> DEFINE r == [ifc[i] EXCEPT !.Phy = PhyOf(link[i]),
                       !.Ip = IF i \in {Remote} \cup Scanned THEN PhyOf(ok) ELSE @]
    <2>2. r \in IfcType /\ r.Sel = ifc[i].Sel
      BY <1>0, ZenonT(30) DEF IfcType, PhyOf
    <2>3. ifc' = [ifc EXCEPT ![i] = r]
      BY <1>0, <2>1
    <2> HIDE DEF r
    <2>4. ifc' \in [Ifs -> IfcType] /\ SelKept
      BY <1>0, <2>2, <2>3 DEF SelKept
    <2> QED BY <1>1, <2>4, AroundFields, AroundStep DEF Report
  <1>2. CASE LinkChange(i)
    <2> DEFINE r == [ifc[i] EXCEPT !.Phy = PhyOf(~ link[i])]
    <2>1. r \in IfcType /\ r.Sel = ifc[i].Sel
      BY <1>0 DEF IfcType, PhyOf
    <2>2. ifc' = [ifc EXCEPT ![i] = r]
      BY <1>0, <1>2 DEF LinkChange
    <2> HIDE DEF r
    <2>3. ifc' \in [Ifs -> IfcType] /\ SelKept
      BY <1>0, <2>1, <2>2 DEF SelKept
    <2>4. link' \in [Ifs -> BOOLEAN]
      BY <1>2, AroundFields DEF LinkChange
    <2> QED BY <1>2, <2>3, <2>4, AroundFields, AroundStep DEF LinkChange
  <1>3. CASE SetIfcEnable(i)
    <2> DEFINE r == [ifc[i] EXCEPT !.Enable = ~ @]
    <2>1. r \in IfcType /\ r.Sel = ifc[i].Sel
      BY <1>0 DEF IfcType
    <2>2. ifc' = [ifc EXCEPT ![i] = r]
      BY <1>0, <1>3 DEF SetIfcEnable
    <2> HIDE DEF r
    <2>3. ifc' \in [Ifs -> IfcType] /\ SelKept
      BY <1>0, <2>1, <2>2 DEF SelKept
    <2> QED BY <1>3, <2>3, AroundFields, AroundStep DEF SetIfcEnable
  <1>4. CASE SetConnectivity(i)
    <2> DEFINE r == [ifc[i] EXCEPT !.Conn = ~ @]
    <2>1. r \in IfcType /\ r.Sel = ifc[i].Sel
      BY <1>0, ZenonT(30) DEF IfcType
    <2>2. ifc' = [ifc EXCEPT ![i] = r]
      BY <1>0, <1>4 DEF SetConnectivity
    <2> HIDE DEF r
    <2>3. ifc' \in [Ifs -> IfcType] /\ SelKept
      BY <1>0, <2>1, <2>2 DEF SelKept
    <2> QED BY <1>4, <2>3, AroundFields, AroundStep DEF SetConnectivity
  <1>5. CASE SetRemoteStatus
    <2> DEFINE r == [ifc[Remote] EXCEPT !.RemoteUp = ~ @]
    <2>1. r \in IfcType /\ r.Sel = ifc[Remote].Sel
      BY <1>0 DEF IfcType
    <2>2. ifc' = [ifc EXCEPT ![Remote] = r]
      BY <1>0, <1>5 DEF SetRemoteStatus
    <2> HIDE DEF r
    <2>3. ifc' \in [Ifs -> IfcType] /\ SelKept
      BY <1>0, <2>1, <2>2 DEF SelKept
    <2> QED BY <1>5, <2>3, AroundFields, AroundStep DEF SetRemoteStatus
  <1> QED BY <1>1, <1>2, <1>3, <1>4, <1>5

LEMMA ModelWriteSafe ==
    ASSUME PolicyInv,
           SetEnable \/ SetAllowRemote
               \/ \E m \in {"PRIMARY", "SECONDARY", "AUTO"} : SetSelectedMode(m)
    PROVE  PolicyInv' /\ SelKept
  <1>1. UNCHANGED <<ifc, link, asked, wan, switch, pri, bk>>
    BY DEF SetEnable, SetAllowRemote, SetSelectedMode
  <1>2. conf' \in [Enable : BOOLEAN, AllowRemote : BOOLEAN]
    BY AroundFields DEF SetEnable, SetAllowRemote, SetSelectedMode
  <1>3. mode' \in ModeType
    BY AroundFields DEF SetEnable, SetAllowRemote, SetSelectedMode, ModeType
  <1>4. SelKept
    BY <1>1 DEF SelKept
  <1> QED BY <1>1, <1>2, <1>3, <1>4, AroundFields, AroundStep

\* The WAN service, too, leaves the way to ACTIVE closed after FallBack.
LEMMA WanServiceSafe == PolicyInv /\ WanServiceStep => PolicyInv' /\ SelKept
  <1> SUFFICES ASSUME PolicyInv, WanServiceStep PROVE PolicyInv' /\ SelKept
    OBVIOUS
  <1>0. /\ UNCHANGED <<conf, ifc, link, asked, mode, switch, pri, bk>>
        /\ SelKept
    BY DEF WanServiceStep, WanService, WanServiceStarts, WanServiceStops, WanRouteUp, SelKept
  <1>1. wan \in WanType /\ wan.req \in Seq({"start", "stop"}) /\ Len(wan.req) <= 2
    BY DEF PolicyInv, PolicyTyped, PriTyped, Wans, WanType
  <1>2. wan.req # <<>> => /\ Tail(wan.req) \in Seq({"start", "stop"})
                          /\ Len(Tail(wan.req)) <= 2
    <2> DEFINE S == {"start", "stop"}
               q == wan.req
    <2>1. q \in Seq(S) /\ Len(q) <= 2
      BY <1>1
    <2> HIDE DEF S, q
    <2>2. q # <<>> => Tail(q) \in Seq(S) /\ Len(Tail(q)) <= 2
      BY <2>1
    <2> QED BY <2>2 DEF S, q
  <1>3. wan' \in Wans /\ (FellBack => FellBack')
    <2>1. CASE WanServiceStarts /\ wan.service = "stopped"
      <3>1. wan' = [wan EXCEPT !.service = "starting"]
        BY <2>1 DEF WanServiceStarts
      <3> QED BY <1>1, <3>1 DEF FellBack, Wans, WanType
    <2>2. CASE WanServiceStarts /\ wan.service # "stopped"
      <3>1. /\ wan' = [wan EXCEPT !.service = "started", !.req = Tail(@),
                         !.status = IF wan.check = "STARTING" THEN "standby" ELSE "started"]
            /\ wan.req # <<>>
        BY <2>2 DEF WanServiceStarts
      <3> QED BY <1>1, <1>2, <3>1 DEF FellBack, Wans, WanType
    <2>3. CASE WanServiceStops
      <3>1. /\ wan' = [wan EXCEPT !.service = "stopped", !.status = "stopped",
                                  !.req = Tail(@), !.route = FALSE]
            /\ wan.req # <<>>
        BY <2>3 DEF WanServiceStops
      <3> QED BY <1>1, <1>2, <3>1 DEF FellBack, Wans, WanType
    <2>4. CASE WanRouteUp
      <3>1. wan.status = "started" /\ wan.req = <<>> /\ wan' = [wan EXCEPT !.route = TRUE]
        BY <2>4 DEF WanRouteUp
      <3>2. ~ FellBack
        BY <3>1 DEF FellBack
      <3> QED BY <1>1, <3>1, <3>2 DEF Wans, WanType
    <2> QED BY <2>1, <2>2, <2>3, <2>4 DEF WanServiceStep, WanService
  <1>4. PolicyTyped'
    BY <1>0, <1>3 DEF PolicyInv, PolicyTyped, PriTyped, HasInterface
  <1>5. ActiveIsMine' /\ Announced'
    BY <1>0, <1>3 DEF PolicyInv, ActiveIsMine, Announced
  <1> QED BY <1>0, <1>4, <1>5 DEF PolicyInv

LEMMA RebootSafe ==
    PolicyInv /\ RebootStep
        => PolicyInv' /\ \A i \in Ifs : ifc'[i].Sel = "NOT_SELECTED"
  <1> SUFFICES ASSUME PolicyInv, RebootStep
               PROVE  PolicyInv' /\ \A i \in Ifs : ifc'[i].Sel = "NOT_SELECTED"
    OBVIOUS
  <1>1. ifc' \in [Ifs -> IfcType] /\ \A i \in Ifs : ifc'[i].Sel = "NOT_SELECTED"
    BY AroundFields DEF RebootStep, Reboot, IfcType
  <1>2. wan' \in Wans
    <2>1. wan'.req = <<>> /\ Len(wan'.req) = 0
      BY DEF RebootStep, Reboot
    <2>2. wan' \in WanType
      BY DEF RebootStep, Reboot, WanType
    <2> QED BY <2>1, <2>2 DEF Wans
  <1>3. mode' \in ModeType /\ pri' \in PriType /\ pri'.st = "INIT"
    BY AroundFields DEF RebootStep, Reboot, ModeType, PriType, PriStates
  <1>4. bk' \in BackupType
    BY DEF RebootStep, BackupType, BackupStates
  <1>5. PriTyped'
    BY <1>1, <1>2, <1>3, AroundFields DEF RebootStep, Reboot, PriTyped, HasInterface
  <1>6. ActiveIsMine' /\ Announced'
    BY <1>1, <1>3, LocalFacts DEF ActiveIsMine, Announced
  <1> QED BY <1>1, <1>4, <1>5, <1>6 DEF PolicyInv, PolicyTyped

LEMMA BkNextSafe == PolicyInv /\ (BkNext \/ BkTimer) => PolicyInv' /\ Yields
  <1> SUFFICES ASSUME PolicyInv, BkNext \/ BkTimer PROVE PolicyInv' /\ Yields
    OBVIOUS
  <1>1. PolicyTyped' /\ Yields
    BY BkQuietType, BkSelectType, BkValidatingType, BkAvailableType, BkTakesOverType,
       BkActiveStateType DEF BkNext, PolicyInv
  <1>2. ActiveIsMine' /\ Announced'
    BY <1>1 DEF PolicyInv, Yields, ActiveIsMine, Announced, FellBack
  <1> QED BY <1>1, <1>2 DEF PolicyInv

LEMMA PriStepSafe == PolicyInv /\ PriStep => PolicyInv' /\ RemoteKept
  BY PriNextSafe DEF PriStep, PolicyInv, PolicyTyped, PriSafe

\* The remote interface takes over in a step of the backup thread only.
TakesOverLast ==
    bk.st # "WAITING" /\ ifc[Remote].Sel # "ACTIVE" /\ ifc'[Remote].Sel = "ACTIVE"
        => \A i \in Local : ifc[i].Sel # "ACTIVE"

LEMMA PolicyStep == PolicyInv /\ RemoteNext => PolicyInv' /\ TakesOverLast
  <1> SUFFICES ASSUME PolicyInv, RemoteNext PROVE PolicyInv' /\ TakesOverLast
    OBVIOUS
  <1>1. CASE PriStep
    BY <1>1, PriStepSafe DEF RemoteKept, TakesOverLast
  <1>2. CASE BkStep \/ BkTimer
    <2>1. PolicyInv' /\ Yields
      BY <1>2, BkNextSafe DEF BkStep
    <2> QED BY <2>1 DEF PolicyInv, Yields, ActiveIsMine, Announced, TakesOverLast
  <1>3. CASE WanServiceStep
    BY <1>3, WanServiceSafe, LocalFacts DEF SelKept, TakesOverLast
  <1>4. CASE RebootStep
    BY <1>4, RebootSafe, LocalFacts DEF TakesOverLast
  <1>5. CASE \E i \in Ifs : Report(i) \/ LinkChange(i) \/ SetIfcEnable(i) \/ SetConnectivity(i)
    BY <1>5, IfcEventSafe, LocalFacts DEF SelKept, TakesOverLast
  <1>6. CASE SetRemoteStatus
    BY <1>6, IfcEventSafe, LocalFacts DEF SelKept, TakesOverLast
  <1>7. CASE \/ SetEnable \/ SetAllowRemote
             \/ \E m \in {"PRIMARY", "SECONDARY", "AUTO"} : SetSelectedMode(m)
    BY <1>7, ModelWriteSafe, LocalFacts DEF SelKept, TakesOverLast
  <1> QED BY <1>1, <1>2, <1>3, <1>4, <1>5, <1>6, <1>7 DEF RemoteNext, RemoteThreads, RemoteEvent

LEMMA PolicyUnchanged == PolicyInv /\ UNCHANGED rvars => PolicyInv'
  <1> SUFFICES ASSUME PolicyInv, UNCHANGED rvars PROVE PolicyInv'
    OBVIOUS
  <1> USE DEF rvars
  <1>1. PolicyTyped'
    BY DEF PolicyInv, PolicyTyped, PriTyped, HasInterface
  <1>2. ActiveIsMine' /\ Announced'
    BY DEF PolicyInv, ActiveIsMine, Announced, FellBack
  <1> QED BY <1>1, <1>2 DEF PolicyInv

LEMMA PolicyAlways == MCSpec => []PolicyInv /\ [][TakesOverLast]_rvars
  <1>1. MCInitOne => PolicyInv
    BY PolicyInit DEF MCInitOne, MCInit
  <1>2. PolicyInv /\ [MCNext]_mcvars => PolicyInv' /\ [TakesOverLast]_rvars
    <2> SUFFICES ASSUME PolicyInv, [MCNext]_mcvars
                 PROVE  PolicyInv' /\ [TakesOverLast]_rvars
      OBVIOUS
    <2>1. CASE RemoteNext
      BY <2>1, PolicyStep
    <2>2. CASE UNCHANGED rvars
      BY <2>2, PolicyUnchanged
    <2> QED BY <2>1, <2>2 DEF MCNext, mcvars, rvars, RemoteNext
  <1> QED BY <1>1, <1>2, PTL DEF MCSpec

(* Break before make: the remote interface never takes over from a local     *)
(* interface that is still ACTIVE, although the two threads never talk to    *)
(* each other.  (State_BackupWanInterfaceWaitingPrimaryUp is left out.)      *)
THEOREM RemoteBreaksBeforeMake == MCSpec => BreakBeforeMake
  BY PolicyAlways, PTL DEF BreakBeforeMake, TakesOverLast

-----------------------------------------------------------------------------
(* The rows of the remote devices.  The inductive invariant: types, one row  *)
(* for a device, the mutex and those that wait for it, what a thread at work *)
(* has found, and the last word on a device, which is a report on the way,   *)
(* else the youngest thread that waits, else the thread that holds the       *)
(* mutex, else the row.                                                      *)
BootType == [pc : {"start", "read", "spawn", "done"}, todo : SUBSET Macs, mac : Macs,
             available : BOOLEAN]
ReportType == [mac : Macs, available : BOOLEAN]
RequestType == {q \in {"get", "subscribe"} \X Macs \X Followed : q[3] \in RemoteDMs(q[1])}

DevTyped ==
    /\ DevicesTypeOK
    /\ boot \in BootType /\ reports \in Seq(ReportType) /\ requests \subseteq RequestType

HasRow(m) == \E i \in DOMAIN table : table[i].mac = m

OneRow == \A i, j \in DOMAIN table : table[i].mac = table[j].mac => i = j

MutexHeld == \A k \in Slots : threads[k].pc \in Locked <=> holder = k

Queued ==
    /\ \A n, p \in DOMAIN waiting : waiting[n] = waiting[p] => n = p
    /\ \A k \in Slots : threads[k].pc = "lock" <=> \E n \in DOMAIN waiting : waiting[n] = k

\* What a thread has found out holds until it gives the mutex back.
AtWork ==
    \A k \in Slots :
        /\ threads[k].pc = "add" => threads[k].available /\ ~ HasRow(threads[k].mac)
        /\ threads[k].pc \in {"register", "enable"} => HasRow(threads[k].mac)
        /\ threads[k].pc = "register" =>
              /\ threads[k].available
              /\ \A i \in DOMAIN table : table[i].mac = threads[k].mac => table[i].Enable

TableKept ==
    /\ Len(table) <= places
    /\ remoteGroup \in [InterfaceAvailable : {DOMAIN table}, ConfigChanged : BOOLEAN]

LastReport ==
    \A n \in DOMAIN reports :
        (\A p \in DOMAIN reports : p > n => reports[p].mac # reports[n].mac)
            => reports[n].available = (reports[n].mac \in present)

\* The start-up has still to start a thread for the device.
Pending(m) ==
    \/ boot.pc = "start" /\ m \in present
    \/ boot.pc \in {"read", "spawn"} /\ m \in boot.todo
    \/ boot.pc = "spawn" /\ boot.mac = m

WaitsFor(n, m) == threads[waiting[n]].mac = m

Youngest(n, m) ==
    WaitsFor(n, m) /\ \A p \in DOMAIN waiting : p > n => ~ WaitsFor(p, m)

RowIsRight(m) ==
    IF HasRow(m)
    THEN \A i \in DOMAIN table : table[i].mac = m => table[i].Enable = (m \in present)
    ELSE m \notin present

LastWord(m) ==
    IF \E n \in DOMAIN waiting : WaitsFor(n, m)
    THEN \A n \in DOMAIN waiting :
            Youngest(n, m) => threads[waiting[n]].available = (m \in present)
    ELSE IF holder # 0 /\ threads[holder].mac = m
    THEN threads[holder].available = (m \in present)
    ELSE RowIsRight(m)

DevicesFollowed ==
    ~ lostLock => \A m \in Macs \ stale : OnTheWay(m) \/ Pending(m) \/ LastWord(m)

DevInv ==
    /\ DevTyped /\ OneRow /\ MutexHeld /\ Queued /\ AtWork /\ TableKept
    /\ LastReport /\ DevicesFollowed

-----------------------------------------------------------------------------
(* The helpers.                                                              *)
LEMMA IndexFacts ==
    ASSUME DevTyped, OneRow, NEW m
    PROVE  /\ HasRow(m) => /\ IndexOf(m) \in DOMAIN table /\ IndexOf(m) # 0
                           /\ table[IndexOf(m)].mac = m
           /\ ~ HasRow(m) => IndexOf(m) = 0
  <1> DEFINE I == {i \in 1 .. Len(table) : table[i].mac = m}
  <1>1. table \in Seq(RowType) /\ DOMAIN table = 1 .. Len(table) /\ Len(table) \in Nat
    BY DEF DevTyped, DevicesTypeOK
  <1>2. IndexOf(m) = IF I # {} THEN Min(I) ELSE 0
    BY DEF IndexOf, SelectInSeq
  <1>3. ASSUME NEW i \in I PROVE I = {i}
    BY <1>1, <1>3 DEF OneRow
  <1>4. ASSUME NEW i \in Int PROVE Min({i}) = i
    BY DEF Min
  <1>5. ASSUME HasRow(m)
        PROVE  IndexOf(m) \in 1 .. Len(table) /\ table[IndexOf(m)].mac = m
    <2>1. PICK i \in I : TRUE
      BY <1>1, <1>5 DEF HasRow
    <2>2. I = {i} /\ i \in Int
      BY <1>3
    <2>3. Min(I) = i
      BY <1>4, <2>2
    <2> HIDE DEF I
    <2>4. IndexOf(m) = i
      BY <1>2, <2>1, <2>3
    <2> QED BY <2>1, <2>4 DEF I
  <1>6. ASSUME ~ HasRow(m) PROVE IndexOf(m) = 0
    BY <1>1, <1>2, <1>6 DEF HasRow
  <1> QED BY <1>1, <1>5, <1>6

LEMMA RemoveAtFacts ==
    ASSUME NEW S, NEW q \in Seq(S), NEW n \in DOMAIN q
    PROVE  /\ RemoveAt(q, n) \in Seq(S) /\ Len(RemoveAt(q, n)) = Len(q) - 1
           /\ \A i \in DOMAIN RemoveAt(q, n) :
                  RemoveAt(q, n)[i] = IF i < n THEN q[i] ELSE q[i + 1]
  <1>1. n \in 1 .. Len(q) /\ Len(q) \in Nat
    OBVIOUS
  <1>2. /\ SubSeq(q, 1, n - 1) \in Seq(S) /\ Len(SubSeq(q, 1, n - 1)) = n - 1
        /\ \A i \in 1 .. n - 1 : SubSeq(q, 1, n - 1)[i] = q[i]
    BY <1>1, SubSeqProperties
  <1>3. /\ SubSeq(q, n + 1, Len(q)) \in Seq(S) /\ Len(SubSeq(q, n + 1, Len(q))) = Len(q) - n
        /\ \A i \in 1 .. Len(q) - n : SubSeq(q, n + 1, Len(q))[i] = q[n + i]
    BY <1>1, SubSeqProperties
  <1> DEFINE a == SubSeq(q, 1, n - 1)
             b == SubSeq(q, n + 1, Len(q))
  <1>4. a \in Seq(S) /\ Len(a) = n - 1 /\ \A i \in 1 .. n - 1 : a[i] = q[i]
    BY <1>2
  <1>5. b \in Seq(S) /\ Len(b) = Len(q) - n /\ \A i \in 1 .. Len(q) - n : b[i] = q[n + i]
    BY <1>3
  <1>6. RemoveAt(q, n) = a \o b
    BY DEF RemoveAt
  <1> HIDE DEF a, b
  <1>7. /\ a \o b \in Seq(S) /\ Len(a \o b) = Len(a) + Len(b)
        /\ \A i \in 1 .. Len(a) + Len(b) :
              (a \o b)[i] = IF i <= Len(a) THEN a[i] ELSE b[i - Len(a)]
    BY <1>4, <1>5, ConcatProperties
  <1> DEFINE r == RemoveAt(q, n)
  <1>8. r \in Seq(S) /\ Len(r) = Len(q) - 1
    BY <1>1, <1>4, <1>5, <1>6, <1>7
  <1>9. ASSUME NEW i \in 1 .. Len(q) - 1
        PROVE  r[i] = IF i < n THEN q[i] ELSE q[i + 1]
    <2>1. CASE i < n
      <3>1. i \in 1 .. n - 1 /\ i <= Len(a) /\ i \in 1 .. Len(a) + Len(b)
        BY <1>1, <1>4, <1>5, <2>1
      <3>2. r[i] = a[i]
        BY <1>6, <1>7, <3>1
      <3> QED BY <1>4, <2>1, <3>1, <3>2
    <2>2. CASE ~ i < n
      <3>1. i - Len(a) \in 1 .. Len(q) - n /\ n + (i - Len(a)) = i + 1
        BY <1>1, <1>4, <2>2
      <3>2. i \in 1 .. Len(a) + Len(b) /\ ~ i <= Len(a)
        BY <1>1, <1>4, <1>5, <2>2
      <3>3. r[i] = b[i - Len(a)]
        BY <1>6, <1>7, <3>2
      <3>4. b[i - Len(a)] = q[n + (i - Len(a))]
        BY <1>5, <3>1
      <3> QED BY <2>2, <3>1, <3>3, <3>4
    <2> QED BY <2>1, <2>2
  <1>10. DOMAIN r = 1 .. Len(q) - 1
    BY <1>8
  <1> HIDE DEF r
  <1>11. /\ r \in Seq(S) /\ Len(r) = Len(q) - 1
         /\ \A i \in DOMAIN r : r[i] = IF i < n THEN q[i] ELSE q[i + 1]
    BY <1>8, <1>9, <1>10
  <1> QED BY <1>11 DEF r

LEMMA NewRowType ==
    ASSUME NEW m \in Macs
    PROVE  NewRow(m) \in RowType /\ NewRow(m).mac = m /\ NewRow(m).Enable
  BY DEF NewRow, RowType, Values

LEMMA StoredType ==
    ASSUME NEW r \in RowType, NEW p \in Followed, NEW v \in Values
    PROVE  /\ Stored(r, p, v) \in RowType
           /\ Stored(r, p, v).mac = r.mac /\ Stored(r, p, v).Enable = r.Enable
  <1>1. p \in {"Alias", "Phy", "Status", "Link"}
    BY DevicesAssumption
  <1> QED BY <1>1 DEF Stored, RowType, Values

LEMMA DevFields ==
    ASSUME DevTyped
    PROVE  /\ threads \in [Slots -> ThreadType] /\ \A k \in Slots : threads[k] \in ThreadType
           /\ table \in Seq(RowType) /\ DOMAIN table = 1 .. Len(table) /\ Len(table) \in Nat
           /\ \A i \in DOMAIN table : table[i] \in RowType
           /\ waiting \in Seq(Slots) /\ DOMAIN waiting = 1 .. Len(waiting)
           /\ Len(waiting) \in Nat /\ \A n \in DOMAIN waiting : waiting[n] \in Slots
           /\ reports \in Seq(ReportType) /\ DOMAIN reports = 1 .. Len(reports)
           /\ Len(reports) \in Nat /\ \A n \in DOMAIN reports : reports[n] \in ReportType
           /\ holder \in Slots \cup {0} /\ 0 \notin Slots
           /\ boot \in BootType /\ present \subseteq Macs /\ stale \subseteq Macs
  BY DevicesAssumption DEF DevTyped, DevicesTypeOK

LEMMA NoThreadType == NoThread \in ThreadType /\ NoThread.pc = "none"
  <1>1. (CHOOSE m \in Macs : TRUE) \in Macs
    BY DevicesAssumption
  <1> QED BY <1>1 DEF NoThread, ThreadType, Dmls

\* A thread goes on, or ends, and the others stand still.
Others(k) == \A j \in Slots \ {k} : threads'[j] = threads[j]

Moves(k, s) ==
    /\ threads' \in [Slots -> ThreadType] /\ Others(k)
    /\ threads'[k].pc = s
    /\ threads'[k].mac = threads[k].mac /\ threads'[k].available = threads[k].available

Ends(k) ==
    threads' \in [Slots -> ThreadType] /\ Others(k) /\ threads'[k].pc = "none"

LEMMA MovesWrite ==
    ASSUME DevTyped, NEW k \in Slots,
           NEW s \in {"lock", "find", "add", "register", "enable", "version", "clear", "fill",
                      "get", "subscribe"},
           threads' = [threads EXCEPT ![k].pc = s]
    PROVE  Moves(k, s)
  <1> DEFINE t == [threads[k] EXCEPT !.pc = s]
  <1>1. threads[k] \in ThreadType /\ threads \in [Slots -> ThreadType]
    BY DevFields
  <1>2. t \in ThreadType /\ t.pc = s /\ t.mac = threads[k].mac
        /\ t.available = threads[k].available
    BY <1>1 DEF ThreadType, Locked
  <1>3. threads' = [threads EXCEPT ![k] = t]
    BY <1>1
  <1> HIDE DEF t
  <1> QED BY <1>1, <1>2, <1>3 DEF Moves, Others

LEMMA EndsWrite ==
    ASSUME DevTyped, NEW k \in Slots, threads' = [threads EXCEPT ![k] = NoThread]
    PROVE  Ends(k)
  BY DevFields, NoThreadType DEF Ends, Others

-----------------------------------------------------------------------------
(* What the parts of the invariant depend on.                                *)
RowsKept ==
    /\ DOMAIN table' = DOMAIN table
    /\ \A i \in DOMAIN table : table'[i].mac = table[i].mac /\ table'[i].Enable = table[i].Enable

LEMMA RowsKeptFacts ==
    ASSUME RowsKept, present' = present
    PROVE  /\ OneRow => OneRow'
           /\ \A m : HasRow(m)' = HasRow(m) /\ RowIsRight(m)' = RowIsRight(m)
  BY DEF RowsKept, OneRow, HasRow, RowIsRight

\* The last word on a device does not change with the threads outside the
\* mutex and its queue.
LEMMA LastWordKept ==
    ASSUME DevTyped, NEW m, waiting' = waiting, holder' = holder, present' = present,
           RowIsRight(m)' = RowIsRight(m),
           \A n \in DOMAIN waiting :
               /\ threads'[waiting[n]].mac = threads[waiting[n]].mac
               /\ threads'[waiting[n]].available = threads[waiting[n]].available,
           holder # 0 => /\ threads'[holder].mac = threads[holder].mac
                         /\ threads'[holder].available = threads[holder].available
    PROVE  LastWord(m) => LastWord(m)'
  BY DEF LastWord, Youngest, WaitsFor

\* Steps that touch neither rows, queue, mutex nor reports.
LEMMA IdleStep ==
    ASSUME DevInv, DevTyped', RowsKept, TableKept',
           UNCHANGED <<waiting, holder, lostLock, boot, present, reports, stale>>,
           \A j \in Slots :
               \/ threads'[j] = threads[j]
               \/ threads[j].pc \notin Locked \cup {"lock"}
                  /\ threads'[j].pc \notin Locked \cup {"lock"}
    PROVE  DevInv'
  <1>0. DevTyped /\ OneRow /\ MutexHeld /\ Queued /\ AtWork /\ LastReport /\ DevicesFollowed
    BY DEF DevInv
  <1>1. OneRow' /\ \A m : HasRow(m)' = HasRow(m) /\ RowIsRight(m)' = RowIsRight(m)
    BY <1>0, RowsKeptFacts
  <1>2. MutexHeld'
    BY <1>0 DEF MutexHeld
  <1>3. Queued'
    BY <1>0 DEF Queued
  <1>4. AtWork'
    <2> SUFFICES ASSUME NEW k \in Slots
                 PROVE  /\ threads'[k].pc = "add" =>
                              threads'[k].available /\ ~ HasRow(threads[k].mac)
                        /\ threads'[k].pc \in {"register", "enable"} => HasRow(threads[k].mac)
                        /\ threads'[k].pc = "register" =>
                              /\ threads'[k].available
                              /\ \A i \in DOMAIN table :
                                    table[i].mac = threads[k].mac => table[i].Enable
                        /\ threads'[k].pc \in {"add", "register", "enable"} =>
                              threads'[k] = threads[k]
      BY <1>1 DEF AtWork, RowsKept, HasRow
    <2>1. CASE threads'[k] = threads[k]
      BY <1>0, <2>1 DEF AtWork
    <2>2. CASE threads'[k].pc \notin Locked
      BY <2>2 DEF Locked
    <2> QED BY <2>1, <2>2
  <1>5. LastReport'
    BY <1>0 DEF LastReport
  <1>6. DevicesFollowed'
    <2> SUFFICES ASSUME ~ lostLock, NEW m \in Macs \ stale
                 PROVE  OnTheWay(m)' \/ Pending(m)' \/ LastWord(m)'
      BY DEF DevicesFollowed
    <2>1. OnTheWay(m)' = OnTheWay(m) /\ Pending(m)' = Pending(m)
      BY DEF OnTheWay, Pending
    <2>2. \A n \in DOMAIN waiting : threads'[waiting[n]] = threads[waiting[n]]
      BY <1>0, DevFields DEF Queued
    <2>3. holder # 0 => threads'[holder] = threads[holder]
      BY <1>0, DevFields DEF MutexHeld
    <2>4. LastWord(m) => LastWord(m)'
      BY <1>0, <1>1, <2>2, <2>3, LastWordKept
    <2> QED BY <1>0, <2>1, <2>4 DEF DevicesFollowed
  <1> QED BY <1>1, <1>2, <1>3, <1>4, <1>5, <1>6 DEF DevInv

-----------------------------------------------------------------------------
(* The steps outside the mutex.                                              *)
LEMMA TableUntouched ==
    ASSUME DevInv, UNCHANGED <<table, places, lostLock, remoteGroup>>
    PROVE  RowsKept /\ TableKept'
  BY DEF DevInv, RowsKept, TableKept

\* The answers and changes write no mac and no Enable.
LEMMA AnswerTable ==
    ASSUME DevInv, NEW m \in Macs, NEW p \in Followed, NEW v \in Values, IndexOf(m) # 0,
           table' = [table EXCEPT ![IndexOf(m)] = Stored(@, p, v)],
           UNCHANGED <<places, lostLock, remoteGroup>>
    PROVE  table' \in Seq(RowType) /\ RowsKept /\ TableKept'
  <1> DEFINE i == IndexOf(m)
  <1>1. i \in DOMAIN table /\ DevTyped
    BY IndexFacts DEF DevInv
  <1>2. table \in Seq(RowType) /\ table[i] \in RowType
    BY <1>1, DevFields
  <1> DEFINE r == Stored(table[i], p, v)
  <1>3. r \in RowType /\ r.mac = table[i].mac /\ r.Enable = table[i].Enable
    BY <1>2, StoredType
  <1>4. table' = [table EXCEPT ![i] = r]
    BY <1>1, <1>2
  <1> HIDE DEF i, r
  <1>5. table' \in Seq(RowType) /\ Len(table') = Len(table) /\ DOMAIN table' = DOMAIN table
    <2>1. [table EXCEPT ![i] = r] \in Seq(RowType) /\ Len([table EXCEPT ![i] = r]) = Len(table)
      BY <1>1, <1>2, <1>3, ExceptSeq
    <2>2. DOMAIN [table EXCEPT ![i] = r] = DOMAIN table
      OBVIOUS
    <2> QED BY <1>4, <2>1, <2>2
  <1>6. RowsKept
    BY <1>1, <1>2, <1>3, <1>4, <1>5 DEF RowsKept
  <1>7. TableKept'
    BY <1>5 DEF DevInv, TableKept
  <1> QED BY <1>5, <1>6, <1>7

LEMMA AnswerSafe ==
    ASSUME DevInv, NEW q \in requests, NEW v \in Values, Answer(q[1], q[2], q[3], v)
    PROVE  DevInv'
  <1>1. /\ q \in RequestType /\ q[1] \in {"get", "subscribe"} /\ q[2] \in Macs
        /\ q[3] \in Followed /\ q[3] \in RemoteDMs(q[1])
    BY DEF DevInv, DevTyped, RequestType
  <1>2. /\ UNCHANGED <<places, nwmode, remoteGroup, threads, waiting, holder, lostLock,
                       queryList, boot, present, reports, stale>>
        /\ IndexOf(q[2]) # 0
        /\ table' = [table EXCEPT ![IndexOf(q[2])] = Stored(@, q[3], v)]
        /\ requests' \subseteq requests
    BY DEF Answer
  <1>3. table' \in Seq(RowType) /\ RowsKept /\ TableKept'
    BY <1>1, <1>2, AnswerTable
  <1>4. subscribed' \subseteq Macs \X RemoteDMs("subscribe")
    BY <1>1 DEF Answer, DevInv, DevTyped, DevicesTypeOK
  <1>5. DevTyped'
    BY <1>2, <1>3, <1>4 DEF DevInv, DevTyped, DevicesTypeOK, RequestType
  <1> QED BY <1>2, <1>3, <1>5, IdleStep

LEMMA RemoteInvokeSafe ==
    ASSUME DevInv, NEW s \in subscribed, NEW v \in Values, RemoteInvoke(s[1], s[2], v)
    PROVE  DevInv'
  <1>1. s[1] \in Macs /\ s[2] \in Followed
    <2>1. RemoteDMs("subscribe") \subseteq Followed
      BY DEF RemoteDMs
    <2> QED BY <2>1 DEF DevInv, DevTyped, DevicesTypeOK
  <1>2. /\ UNCHANGED <<places, nwmode, remoteGroup, threads, waiting, holder, lostLock,
                       queryList, boot, present, reports, requests, subscribed, stale>>
        /\ IndexOf(s[1]) # 0
        /\ table' = [table EXCEPT ![IndexOf(s[1])] = Stored(@, s[2], v)]
    BY DEF RemoteInvoke
  <1>3. table' \in Seq(RowType) /\ RowsKept /\ TableKept'
    BY <1>1, <1>2, AnswerTable
  <1>4. DevTyped'
    BY <1>2, <1>3 DEF DevInv, DevTyped, DevicesTypeOK, RequestType
  <1> QED BY <1>2, <1>3, <1>4, IdleStep

LEMMA NetworkingModeSafe == DevInv /\ NetworkingMode => DevInv'
  <1> SUFFICES ASSUME DevInv, NetworkingMode PROVE DevInv'
    OBVIOUS
  <1>1. /\ UNCHANGED <<places, table, remoteGroup, threads, waiting, holder, lostLock,
                       queryList, boot, present, reports, requests, subscribed, stale>>
        /\ nwmode' \in {"GATEWAY", "MODEM"}
    BY DEF NetworkingMode
  <1>2. DevTyped'
    BY <1>1 DEF DevInv, DevTyped, DevicesTypeOK, RequestType
  <1> QED BY <1>1, <1>2, TableUntouched, IdleStep

LEMMA QueriesSafe ==
    ASSUME DevInv, NEW k \in Slots, Version(k) \/ FillQueryList(k) \/ Query(k)
    PROVE  DevInv'
  <1>0. DevTyped /\ threads[k] \in ThreadType /\ threads \in [Slots -> ThreadType]
    BY DevFields DEF DevInv
  <1>1. UNCHANGED <<places, nwmode, table, remoteGroup, waiting, holder, lostLock, boot,
                    present, reports, subscribed, stale>>
    BY DEF Version, FillQueryList, Query
  <1>2. PICK t \in ThreadType : /\ threads' = [threads EXCEPT ![k] = t]
                                /\ t.pc \in {"clear", "fill", "get", "subscribe", "none"}
    <2>1. CASE Version(k)
      <3>1. PICK d \in Dmls : threads' = [threads EXCEPT ![k].dml = d, ![k].pc = "clear"]
        BY <2>1 DEF Version, Dmls
      <3>2. [threads[k] EXCEPT !.dml = d, !.pc = "clear"] \in ThreadType
        BY <1>0 DEF ThreadType
      <3> QED BY <1>0, <3>1, <3>2 DEF ThreadType
    <2>2. CASE FillQueryList(k)
      <3>1. \/ threads' = [threads EXCEPT ![k].pc = "fill"]
            \/ threads' = [threads EXCEPT ![k].pc = "get"]
        BY <2>2 DEF FillQueryList
      <3>2. /\ [threads[k] EXCEPT !.pc = "fill"] \in ThreadType
            /\ [threads[k] EXCEPT !.pc = "get"] \in ThreadType
        BY <1>0 DEF ThreadType
      <3> QED BY <1>0, <3>1, <3>2 DEF ThreadType
    <2>3. CASE Query(k)
      <3>1. threads' = [threads EXCEPT ![k] =
               IF threads[k].pc = "get" THEN [threads[k] EXCEPT !.pc = "subscribe"]
               ELSE NoThread]
        BY <2>3 DEF Query
      <3>2. [threads[k] EXCEPT !.pc = "subscribe"] \in ThreadType
            /\ [threads[k] EXCEPT !.pc = "subscribe"].pc = "subscribe"
        BY <1>0 DEF ThreadType
      <3> QED BY <3>1, <3>2, NoThreadType
    <2> QED BY <2>1, <2>2, <2>3
  <1>3. queryList' \in {"none"} \cup Dmls
    BY <1>0 DEF DevTyped, DevicesTypeOK, Version, FillQueryList, Query, ThreadType
  <1>4. requests' \subseteq RequestType
    <2>1. CASE Query(k)
      <3>1. /\ threads[k].pc \in {"get", "subscribe"} /\ threads[k].mac \in Macs
            /\ requests' \subseteq requests \cup
                 {threads[k].pc} \X {threads[k].mac} \X RemoteDMs(threads[k].pc)
        BY <1>0, <2>1 DEF Query, ThreadType
      <3>2. RemoteDMs(threads[k].pc) \subseteq Followed
        BY DEF RemoteDMs
      <3> HIDE DEF RemoteDMs
      <3>3. {threads[k].pc} \X {threads[k].mac} \X RemoteDMs(threads[k].pc)
               \subseteq RequestType
        BY <3>1, <3>2 DEF RequestType
      <3> QED BY <1>0, <3>1, <3>3 DEF DevTyped
    <2>2. CASE Version(k) \/ FillQueryList(k)
      BY <1>0, <2>2 DEF Version, FillQueryList, DevTyped
    <2> QED BY <2>1, <2>2
  <1>5. threads' \in [Slots -> ThreadType]
    BY <1>0, <1>2
  <1>6. DevTyped'
    <2>1. requests' \subseteq {"get", "subscribe"} \X Macs \X Followed
      BY <1>4 DEF RequestType
    <2> QED BY <1>0, <1>1, <1>3, <1>4, <1>5, <2>1 DEF DevTyped, DevicesTypeOK, RequestType
  <1>7. threads[k].pc \notin Locked \cup {"lock"}
    BY DEF Version, FillQueryList, Query, Locked
  <1>8. \A j \in Slots : \/ threads'[j] = threads[j]
                         \/ threads[j].pc \notin Locked \cup {"lock"}
                            /\ threads'[j].pc \notin Locked \cup {"lock"}
    BY <1>0, <1>2, <1>7 DEF Locked
  <1> QED BY <1>1, <1>6, <1>8, TableUntouched, IdleStep

-----------------------------------------------------------------------------
(* The steps of the thread that holds the mutex.                             *)
LEMMA Holder ==
    ASSUME DevInv, NEW k \in Slots, threads[k].pc \in Locked
    PROVE  /\ holder = k /\ holder # 0 /\ threads[k].mac \in Macs
           /\ threads[k].available \in BOOLEAN
           /\ \A j \in Slots \ {k} : threads[j].pc \notin Locked
           /\ \A n \in DOMAIN waiting : waiting[n] \in Slots \ {k}
  <1>1. holder = k /\ holder # 0
    BY DevFields DEF DevInv, MutexHeld
  <1>2. \A j \in Slots \ {k} : threads[j].pc \notin Locked
    BY <1>1 DEF DevInv, MutexHeld
  <1>3. threads[k].mac \in Macs /\ threads[k].available \in BOOLEAN
    BY DevFields DEF DevInv, ThreadType
  <1>4. \A n \in DOMAIN waiting : waiting[n] \in Slots \ {k}
    <2>1. threads[k].pc # "lock"
      BY DEF Locked
    <2> QED BY <2>1, DevFields DEF DevInv, Queued
  <1> QED BY <1>1, <1>2, <1>3, <1>4

LEMMA HolderStep ==
    ASSUME DevInv, NEW k \in Slots, threads[k].pc \in Locked, Others(k),
           NEW m, m = threads[k].mac,
           UNCHANGED <<waiting, boot, present, reports, stale>>, lostLock => lostLock',
           DevTyped', OneRow', AtWork', TableKept',
           \/ /\ threads'[k].pc \in Locked /\ holder' = holder
              /\ threads'[k].mac = threads[k].mac
              /\ threads'[k].available = threads[k].available
           \/ /\ threads'[k].pc \notin Locked \cup {"lock"} /\ holder' = 0
              /\ \/ lostLock'
                 \/ threads[k].available = (m \in present) => RowIsRight(m)',
           \A d \in Macs \ {m} : RowIsRight(d) => RowIsRight(d)'
    PROVE  DevInv'
  <1>0. DevTyped /\ MutexHeld /\ Queued /\ LastReport /\ DevicesFollowed /\ 0 \notin Slots
    BY DevFields DEF DevInv
  <1>1. /\ holder = k /\ holder # 0
        /\ \A j \in Slots \ {k} : threads[j].pc \notin Locked /\ threads'[j] = threads[j]
        /\ \A n \in DOMAIN waiting : threads'[waiting[n]] = threads[waiting[n]]
    BY Holder DEF Others
  <1>2. MutexHeld'
    BY <1>0, <1>1 DEF MutexHeld
  <1>3. Queued'
    <2>1. threads[k].pc # "lock" /\ threads'[k].pc # "lock"
      BY DEF Locked
    <2> QED BY <1>0, <1>1, <2>1 DEF Queued
  <1>4. LastReport'
    BY <1>0 DEF LastReport
  <1>5. DevicesFollowed'
    <2> SUFFICES ASSUME ~ lostLock, ~ lostLock', NEW d \in Macs \ stale,
                        LastWord(d)
                 PROVE  LastWord(d)'
      <3>1. \A d \in Macs : OnTheWay(d)' = OnTheWay(d) /\ Pending(d)' = Pending(d)
        BY DEF OnTheWay, Pending
      <3>2. stale' = stale /\ (lostLock => lostLock')
        OBVIOUS
      <3> QED BY <1>0, <3>1, <3>2 DEF DevicesFollowed
    <2>1. \A n \in DOMAIN waiting : WaitsFor(n, d)' = WaitsFor(n, d)
                                    /\ Youngest(n, d)' = Youngest(n, d)
      BY <1>1 DEF WaitsFor, Youngest
    <2>2. CASE \E n \in DOMAIN waiting : WaitsFor(n, d)
      BY <1>1, <2>1, <2>2 DEF LastWord
    <2>3. CASE ~ \E n \in DOMAIN waiting : WaitsFor(n, d)
      <3>1. CASE m = d
        <4>1. threads[k].available = (d \in present)
          BY <1>1, <2>3, <3>1 DEF LastWord
        <4>2. ~ \E n \in DOMAIN waiting' : WaitsFor(n, d)'
          BY <2>1, <2>3
        <4>3. CASE threads'[k].pc \in Locked
          <5>1. /\ holder' = k /\ holder' # 0 /\ threads'[holder'].mac = d
                /\ threads'[holder'].available = (d \in present')
            BY <1>1, <3>1, <4>1, <4>3
          <5> QED BY <4>2, <5>1 DEF LastWord
        <4>4. CASE threads'[k].pc \notin Locked
          BY <3>1, <4>1, <4>2, <4>4 DEF LastWord
        <4> QED BY <4>3, <4>4
      <3>2. CASE m # d
        <4>1. RowIsRight(d)
          BY <1>1, <2>3, <3>2 DEF LastWord
        <4>2. RowIsRight(d)'
          BY <3>2, <4>1
        <4> QED BY <1>1, <2>1, <2>3, <3>2, <4>2 DEF LastWord
      <3> QED BY <3>1, <3>2
    <2> QED BY <2>2, <2>3
  <1> QED BY <1>2, <1>3, <1>4, <1>5 DEF DevInv

\* The holder is the only one at work.
LEMMA HolderAtWork ==
    ASSUME DevInv, NEW k \in Slots, threads[k].pc \in Locked, Others(k),
           threads'[k].pc = "add" => threads'[k].available /\ ~ HasRow(threads[k].mac)',
           threads'[k].pc \in {"register", "enable"} => HasRow(threads[k].mac)',
           threads'[k].pc = "register" =>
              /\ threads'[k].available
              /\ \A i \in DOMAIN table' : table'[i].mac = threads'[k].mac => table'[i].Enable
    PROVE  AtWork'
  <1>1. \A j \in Slots \ {k} : threads'[j].pc \notin Locked
    BY Holder DEF Others
  <1> QED BY <1>1 DEF AtWork, Locked

LEMMA FindSafe == ASSUME DevInv, NEW k \in Slots, Find(k) PROVE DevInv'
  <1>m. PICK m : m = threads[k].mac
    OBVIOUS
  <1>0. DevTyped /\ OneRow /\ threads[k].pc = "find" /\ threads[k].pc \in Locked
    BY DEF DevInv, Find, Locked
  <1>1. UNCHANGED <<places, nwmode, table, remoteGroup, waiting, lostLock, queryList, boot,
                    present, reports, requests, subscribed, stale>>
    BY DEF Find
  <1>2. RowsKept /\ TableKept' /\ OneRow'
    BY <1>0, <1>1, TableUntouched, RowsKeptFacts
  <1>3. \A d : HasRow(d)' = HasRow(d) /\ RowIsRight(d)' = RowIsRight(d)
    BY <1>1, <1>2, RowsKeptFacts
  <1>4. \/ HasRow(m) /\ Moves(k, "enable") /\ holder' = holder
        \/ ~ HasRow(m) /\ threads[k].available /\ Moves(k, "add")
              /\ holder' = holder
        \/ ~ HasRow(m) /\ ~ threads[k].available /\ Ends(k) /\ holder' = 0
    BY <1>0, <1>m, IndexFacts, MovesWrite, EndsWrite DEF Find, Leave
  <1>5. DevTyped'
    BY <1>0, <1>1, <1>4, DevFields DEF Moves, Ends, DevTyped, DevicesTypeOK, RequestType
  <1>6. AtWork'
    BY <1>0, <1>3, <1>m, <1>4, HolderAtWork DEF Moves, Ends
  <1>7. CASE threads'[k].pc \in {"enable", "add"} /\ Moves(k, threads'[k].pc) /\ holder' = holder
    BY <1>0, <1>1, <1>2, <1>3, <1>m, <1>5, <1>6, <1>7, HolderStep DEF Moves, Locked
  <1>8. CASE ~ HasRow(m) /\ ~ threads[k].available /\ Ends(k) /\ holder' = 0
    <2>1. threads[k].available = (m \in present) => RowIsRight(m)
      BY <1>8 DEF RowIsRight
    <2>2. threads[k].available = (m \in present) => RowIsRight(m)'
      BY <1>3, <2>1
    <2>3. threads'[k].pc \notin Locked \cup {"lock"}
      BY <1>8 DEF Ends, Locked
    <2> QED BY <1>0, <1>1, <1>2, <1>3, <1>m, <1>5, <1>6, <1>8, <2>2, <2>3, HolderStep DEF Ends
  <1> QED BY <1>4, <1>7, <1>8 DEF Moves

LEMMA RegisterSafe == ASSUME DevInv, NEW k \in Slots, Register(k) PROVE DevInv'
  <1>m. PICK m : m = threads[k].mac
    OBVIOUS
  <1>0. DevTyped /\ OneRow /\ threads[k].pc = "register" /\ threads[k].pc \in Locked
    BY DEF DevInv, Register, Locked
  <1>1. UNCHANGED <<places, nwmode, table, remoteGroup, waiting, lostLock, queryList, boot,
                    present, reports, requests, subscribed, stale>>
    BY DEF Register
  <1>2. RowsKept /\ TableKept' /\ OneRow'
    BY <1>0, <1>1, TableUntouched, RowsKeptFacts
  <1>3. \A d : HasRow(d)' = HasRow(d) /\ RowIsRight(d)' = RowIsRight(d)
    BY <1>1, <1>2, RowsKeptFacts
  <1>4. /\ threads[k].available /\ HasRow(m)
        /\ \A i \in DOMAIN table : table[i].mac = m => table[i].Enable
    BY <1>0, <1>m DEF DevInv, AtWork
  <1>5. \/ Moves(k, "enable") /\ holder' = holder
        \/ Ends(k) /\ holder' = 0
    BY <1>0, MovesWrite, EndsWrite DEF Register, Leave
  <1>6. DevTyped'
    BY <1>0, <1>1, <1>5, DevFields DEF Moves, Ends, DevTyped, DevicesTypeOK, RequestType
  <1>7. AtWork'
    BY <1>0, <1>3, <1>m, <1>4, <1>5, HolderAtWork DEF Moves, Ends
  <1>8. CASE Moves(k, "enable") /\ holder' = holder
    BY <1>0, <1>1, <1>2, <1>3, <1>m, <1>6, <1>7, <1>8, HolderStep DEF Moves, Locked
  <1>9. CASE Ends(k) /\ holder' = 0
    <2>1. \A i \in DOMAIN table : table[i].Enable \in BOOLEAN
      BY <1>0, DevFields DEF RowType
    <2>2. threads[k].available = (m \in present) => RowIsRight(m)
      BY <1>4, <2>1 DEF RowIsRight
    <2>3. threads'[k].pc \notin Locked \cup {"lock"} /\ Others(k)
      BY <1>9 DEF Ends, Locked
    <2>4. threads[k].available = (m \in present) => RowIsRight(m)'
      BY <1>3, <2>2
    <2> QED BY <1>0, <1>1, <1>2, <1>3, <1>m, <1>6, <1>7, <1>9, <2>3, <2>4, HolderStep
  <1> QED BY <1>5, <1>8, <1>9

LEMMA EnableSafe == ASSUME DevInv, NEW k \in Slots, Enable(k) PROVE DevInv'
  <1>m. PICK m : m = threads[k].mac
    OBVIOUS
  <1>0. /\ DevTyped /\ OneRow /\ threads[k].pc = "enable" /\ threads[k].pc \in Locked
        /\ HasRow(m)
    BY <1>m DEF DevInv, AtWork, Enable, Locked
  <1>1. UNCHANGED <<places, nwmode, remoteGroup, waiting, lostLock, queryList, boot, present,
                    reports, requests, subscribed, stale>>
    BY DEF Enable
  <1>2. PICK i \in DOMAIN table : i = IndexOf(m) /\ table[i].mac = m /\ table[i] \in RowType
    BY <1>0, IndexFacts, DevFields
  <1> DEFINE on == [table[i] EXCEPT !.Enable = TRUE]
             off == [table[i] EXCEPT !.Enable = FALSE, !.Phy = "Down"]
  <1>3. /\ on \in RowType /\ on.mac = m /\ on.Enable = TRUE
        /\ off \in RowType /\ off.mac = m /\ off.Enable = FALSE
    BY <1>2 DEF RowType, Values
  <1>4. table \in Seq(RowType)
    BY <1>0, DevFields
  <1>5. /\ holder' = 0
        /\ \/ threads[k].available /\ Moves(k, "version") /\ table' = [table EXCEPT ![i] = on]
           \/ ~ threads[k].available /\ Ends(k) /\ table' = [table EXCEPT ![i] = off]
    <2>1. CASE threads[k].available
      <3>1. /\ table' = [table EXCEPT ![i].Enable = TRUE] /\ holder' = 0
            /\ threads' = [threads EXCEPT ![k].pc = "version"]
        BY <1>m, <1>2, <2>1 DEF Enable
      <3>2. table' = [table EXCEPT ![i] = on]
        BY <1>4, <3>1
      <3> QED BY <1>0, <2>1, <3>1, <3>2, MovesWrite
    <2>2. CASE ~ threads[k].available
      <3>1. /\ table' = [table EXCEPT ![i].Enable = FALSE, ![i].Phy = "Down"] /\ holder' = 0
            /\ threads' = [threads EXCEPT ![k] = NoThread]
        BY <1>m, <1>2, <2>2 DEF Enable, Leave
      <3>2. table' = [table EXCEPT ![i] = off]
        BY <1>4, <3>1
      <3> QED BY <1>0, <2>2, <3>1, <3>2, EndsWrite
    <2> QED BY <2>1, <2>2
  <1>6. PICK r \in {on, off} :
            table' = [table EXCEPT ![i] = r] /\ r.Enable = threads[k].available
    <2>1. threads[k].available \in BOOLEAN
      BY <1>0, Holder
    <2> QED BY <1>3, <1>5, <2>1
  <1>7. r \in RowType /\ r.mac = m
    BY <1>3
  <1> HIDE DEF on, off
  <1>8. /\ table' \in Seq(RowType) /\ DOMAIN table' = DOMAIN table /\ Len(table') = Len(table)
        /\ \A j \in DOMAIN table : table'[j].mac = table[j].mac
        /\ \A j \in DOMAIN table : j # i => table'[j] = table[j]
        /\ table'[i] = r
    BY <1>2, <1>4, <1>6, <1>7
  <1>9. OneRow' /\ TableKept'
    BY <1>0, <1>1, <1>8 DEF DevInv, OneRow, TableKept
  <1>10. threads[k].available = (m \in present) => RowIsRight(m)'
    BY <1>0, <1>1, <1>2, <1>6, <1>8 DEF OneRow, RowIsRight, HasRow
  <1>11. \A d \in Macs \ {m} : RowIsRight(d) => RowIsRight(d)'
    <2> SUFFICES ASSUME NEW d \in Macs \ {m}, RowIsRight(d) PROVE RowIsRight(d)'
      OBVIOUS
    <2>1. table'[i].mac # d
      BY <1>7, <1>8
    <2> QED BY <1>1, <1>2, <1>8, <2>1 DEF RowIsRight, HasRow
  <1>12. /\ threads'[k].pc \notin Locked \cup {"lock"} /\ Others(k)
         /\ threads' \in [Slots -> ThreadType]
    BY <1>5 DEF Moves, Ends, Locked
  <1>13. DevTyped'
    BY <1>0, <1>1, <1>5, <1>8, <1>12 DEF DevTyped, DevicesTypeOK, RequestType
  <1>14. AtWork'
    BY <1>0, <1>12, HolderAtWork DEF Locked
  <1> QED BY <1>0, <1>m, <1>1, <1>5, <1>9, <1>10, <1>11, <1>12, <1>13, <1>14, HolderStep

LEMMA AddSafe == ASSUME DevInv, NEW k \in Slots, Add(k) PROVE DevInv'
  <1>m. PICK m : m = threads[k].mac
    OBVIOUS
  <1>0. /\ DevTyped /\ OneRow /\ threads[k].pc = "add" /\ threads[k].pc \in Locked
        /\ threads[k].available /\ ~ HasRow(m)
    BY <1>m DEF DevInv, AtWork, Add, Locked
  <1>1. UNCHANGED <<places, nwmode, waiting, queryList, boot, present, reports, requests,
                    subscribed, stale>>
    BY DEF Add
  <1>2. /\ m \in Macs /\ table \in Seq(RowType) /\ Len(table) \in Nat
        /\ DOMAIN table = 1 .. Len(table)
    BY <1>0, <1>m, DevFields, Holder
  <1>3. places \in Nat
    BY <1>0, DevicesAssumption DEF DevTyped, DevicesTypeOK
  <1>4. CASE /\ Len(table) < places
             /\ table' = Append(table, NewRow(m))
             /\ remoteGroup' = [remoteGroup EXCEPT
                                   !.InterfaceAvailable = @ \cup {Len(table) + 1},
                                   !.ConfigChanged = @ \/ ~ Deactivated]
             /\ threads' = [threads EXCEPT ![k].pc = "register"]
             /\ UNCHANGED <<holder, lostLock>>
    <2> DEFINE r == NewRow(m)
    <2>1. r \in RowType /\ r.mac = m /\ r.Enable
      BY <1>2, NewRowType
    <2>2. /\ table' = Append(table, r) /\ UNCHANGED <<holder, lostLock>>
          /\ threads' = [threads EXCEPT ![k].pc = "register"]
          /\ remoteGroup' = [remoteGroup EXCEPT !.InterfaceAvailable = @ \cup {Len(table) + 1},
                                                !.ConfigChanged = @ \/ ~ Deactivated]
      BY <1>4
    <2> HIDE DEF r
    <2>3. /\ table' \in Seq(RowType) /\ Len(table') = Len(table) + 1
          /\ DOMAIN table' = 1 .. Len(table) + 1
          /\ \A i \in DOMAIN table : table'[i] = table[i]
          /\ table'[Len(table) + 1] = r
      BY <1>2, <2>1, <2>2
    <2>4. DOMAIN table' = DOMAIN table \cup {Len(table) + 1} /\ Len(table) + 1 \notin DOMAIN table
      BY <1>2, <2>3
    <2>5. Moves(k, "register")
      BY <1>0, <2>2, MovesWrite
    <2>6. TableKept'
      <3>1. remoteGroup \in [InterfaceAvailable : {DOMAIN table}, ConfigChanged : BOOLEAN]
        BY DEF DevInv, TableKept
      <3>2. remoteGroup' \in [InterfaceAvailable : {DOMAIN table'}, ConfigChanged : BOOLEAN]
        BY <2>2, <2>4, <3>1
      <3> QED BY <1>1, <1>2, <1>3, <1>4, <2>3, <3>2 DEF TableKept
    <2>7. OneRow'
      BY <1>0, <2>1, <2>3, <2>4 DEF OneRow, HasRow
    <2>8. \A d \in Macs \ {m} : RowIsRight(d) => RowIsRight(d)'
      <3> SUFFICES ASSUME NEW d \in Macs \ {m}, RowIsRight(d) PROVE RowIsRight(d)'
        OBVIOUS
      <3>1. \A i \in DOMAIN table' : table'[i].mac = d => i \in DOMAIN table
        BY <2>1, <2>3, <2>4
      <3> QED BY <1>1, <2>3, <2>4, <3>1 DEF RowIsRight, HasRow
    <2>9. AtWork'
      <3>1. threads'[k].pc = "register" /\ threads'[k].mac = m /\ threads'[k].available
            /\ Others(k)
        BY <1>0, <1>m, <2>5 DEF Moves
      <3>2. HasRow(threads[k].mac)'
        BY <2>1, <2>3, <2>4, <3>1 DEF HasRow
      <3>3. \A i \in DOMAIN table' : table'[i].mac = m => table'[i].Enable
        BY <1>0, <2>1, <2>3, <2>4 DEF HasRow
      <3> QED BY <1>0, <3>1, <3>2, <3>3, HolderAtWork
    <2>10. DevTyped'
      BY <1>0, <1>1, <2>2, <2>3, <2>5 DEF Moves, DevTyped, DevicesTypeOK, RequestType
    <2>11. threads'[k].pc \in Locked
      BY <2>5 DEF Moves, Locked
    <2> QED BY <1>0, <1>m, <1>1, <2>2, <2>5, <2>6, <2>7, <2>8, <2>9, <2>10, <2>11, HolderStep
            DEF Moves
  <1>5. CASE lostLock' = TRUE /\ Leave(k) /\ UNCHANGED <<table, remoteGroup>>
    <2>1. UNCHANGED <<table, remoteGroup>> /\ lostLock' = TRUE /\ holder' = 0 /\ Ends(k)
      BY <1>0, <1>5, EndsWrite DEF Leave
    <2>3. TableKept' /\ OneRow'
      BY <1>0, <1>1, <2>1 DEF DevInv, TableKept, OneRow
    <2>4. threads'[k].pc \notin Locked \cup {"lock"} /\ Others(k)
      BY <2>1 DEF Ends, Locked
    <2>5. AtWork'
      BY <1>0, <2>4, HolderAtWork DEF Locked
    <2>6. DevTyped'
      BY <1>0, <1>1, <2>1 DEF Ends, DevTyped, DevicesTypeOK, RequestType
    <2>7. \A d \in Macs \ {m} : RowIsRight(d) => RowIsRight(d)'
      BY <1>1, <2>1 DEF RowIsRight, HasRow
    <2> QED BY <1>0, <1>m, <1>1, <2>1, <2>3, <2>4, <2>5, <2>6, <2>7, HolderStep
  <1> QED BY <1>m, <1>4, <1>5 DEF Add

-----------------------------------------------------------------------------
(* The queue for the mutex.                                                  *)
LEMMA LockSafe == ASSUME DevInv, NEW k \in Slots, Lock(k) PROVE DevInv'
  <1>m. PICK m : m = threads[k].mac
    OBVIOUS
  <1>0. /\ DevTyped /\ OneRow /\ MutexHeld /\ Queued /\ AtWork /\ LastReport /\ DevicesFollowed
        /\ threads[k].pc = "lock" /\ holder = 0 /\ m \in Macs
        /\ waiting \in Seq(Slots) /\ DOMAIN waiting = 1 .. Len(waiting) /\ Len(waiting) \in Nat
    BY <1>m, DevFields DEF DevInv, Lock, Locks, ThreadType
  <1>1. /\ UNCHANGED <<places, nwmode, table, remoteGroup, lostLock, queryList, boot,
                       present, reports, requests, subscribed>>
        /\ holder' = k
        /\ threads' = [threads EXCEPT ![k].pc = "find"]
    BY DEF Lock, Locks
  <1>2. PICK n \in DOMAIN waiting :
            /\ waiting[n] = k
            /\ waiting' = RemoveAt(waiting, n)
            /\ stale' = IF \E p \in 1 .. n - 1 : threads[waiting[p]].mac = m
                        THEN stale \cup {m} ELSE stale
    BY <1>m DEF Lock, Locks
  <1>3. /\ waiting' \in Seq(Slots) /\ Len(waiting') = Len(waiting) - 1
        /\ \A i \in DOMAIN waiting' :
               waiting'[i] = IF i < n THEN waiting[i] ELSE waiting[i + 1]
    BY <1>0, <1>2, RemoveAtFacts
  <1>4. DOMAIN waiting' = 1 .. Len(waiting) - 1
    BY <1>3
  <1> DEFINE Old(i) == IF i < n THEN i ELSE i + 1
             New(p) == IF p < n THEN p ELSE p - 1
  <1>5. \A i \in DOMAIN waiting' :
            /\ Old(i) \in DOMAIN waiting /\ Old(i) # n /\ waiting'[i] = waiting[Old(i)]
            /\ \A j \in DOMAIN waiting' : /\ Old(i) = Old(j) => i = j
                                          /\ j > i => Old(j) > Old(i)
    BY <1>0, <1>2, <1>3, <1>4
  <1>6. \A p \in DOMAIN waiting \ {n} : New(p) \in DOMAIN waiting' /\ Old(New(p)) = p
    BY <1>0, <1>2, <1>4
  <1>7. \A i \in DOMAIN waiting', p \in DOMAIN waiting \ {n} : p > Old(i) => New(p) > i
    BY <1>0, <1>2, <1>4
  <1> HIDE DEF Old, New
  <1>8. Moves(k, "find")
    BY <1>0, <1>1, MovesWrite
  <1>9. \A j \in Slots \ {k} : threads'[j] = threads[j]
    BY <1>8 DEF Moves, Others
  <1>10. \A p \in DOMAIN waiting \ {n} : waiting[p] \in Slots \ {k}
    BY <1>0, <1>2, DevFields DEF Queued
  <1>11. DevTyped'
    BY <1>0, <1>1, <1>2, <1>3, <1>8 DEF Moves, DevTyped, DevicesTypeOK, RequestType
  <1>12. MutexHeld'
    BY <1>0, <1>1, <1>8, <1>9, DevFields DEF MutexHeld, Moves, Locked
  <1>13. Queued'
    <2>1. \A i, j \in DOMAIN waiting' : waiting'[i] = waiting'[j] => i = j
      BY <1>0, <1>5 DEF Queued
    <2>2. ASSUME NEW j \in Slots
          PROVE  threads'[j].pc = "lock" <=> \E i \in DOMAIN waiting' : waiting'[i] = j
      <3>1. CASE j = k
        BY <1>2, <1>5, <1>8, <1>10, <3>1 DEF Moves
      <3>2. CASE j # k
        BY <1>0, <1>2, <1>5, <1>6, <1>9, <3>2 DEF Queued
      <3> QED BY <3>1, <3>2
    <2> QED BY <2>1, <2>2 DEF Queued
  <1>14. AtWork'
    <2>1. threads[k].pc \notin Locked /\ threads'[k].pc = "find"
      BY <1>0, <1>8 DEF Moves, Locked
    <2> QED BY <1>0, <1>1, <1>9, <2>1 DEF AtWork, HasRow
  <1>15. DevicesFollowed'
    <2> SUFFICES ASSUME ~ lostLock, NEW d \in Macs \ stale', LastWord(d)
                 PROVE  LastWord(d)'
      <3>1. \A e \in Macs : OnTheWay(e)' = OnTheWay(e) /\ Pending(e)' = Pending(e)
        BY <1>1 DEF OnTheWay, Pending
      <3>2. stale \subseteq stale'
        BY <1>2
      <3> QED BY <1>0, <1>1, <3>1, <3>2 DEF DevicesFollowed
    <2>1. \A i \in DOMAIN waiting' : threads'[waiting'[i]] = threads[waiting[Old(i)]]
      BY <1>5, <1>9, <1>10
    <2>2. \A i \in DOMAIN waiting' : WaitsFor(i, d)' = WaitsFor(Old(i), d)
      BY <2>1 DEF WaitsFor
    <2>3. \A p \in DOMAIN waiting \ {n} : WaitsFor(p, d) => WaitsFor(New(p), d)'
      BY <1>6, <2>2
    <2>4. CASE \E i \in DOMAIN waiting' : WaitsFor(i, d)'
      <3> SUFFICES ASSUME NEW i \in DOMAIN waiting', Youngest(i, d)'
                   PROVE  threads'[waiting'[i]].available = (d \in present)
        BY <1>1, <2>4 DEF LastWord
      <3>1. WaitsFor(Old(i), d) /\ Old(i) \in DOMAIN waiting
        BY <1>5, <2>2 DEF Youngest
      <3>2. \A p \in DOMAIN waiting \ {n} : p > Old(i) => ~ WaitsFor(p, d)
        BY <1>6, <1>7, <2>3 DEF Youngest
      <3>3. n > Old(i) => ~ WaitsFor(n, d)
        <4>1. SUFFICES ASSUME n > Old(i), WaitsFor(n, d) PROVE FALSE
          OBVIOUS
        <4>2. d = m
          BY <1>2, <1>m, <4>1 DEF WaitsFor
        <4>3. Old(i) \in 1 .. n - 1 /\ threads[waiting[Old(i)]].mac = m
          BY <1>0, <1>2, <3>1, <4>1, <4>2 DEF WaitsFor
        <4> QED BY <1>2, <4>2, <4>3
      <3>4. Youngest(Old(i), d)
        BY <3>1, <3>2, <3>3 DEF Youngest
      <3>5. threads[waiting[Old(i)]].available = (d \in present)
        BY <3>1, <3>4 DEF LastWord
      <3> QED BY <2>1, <3>5
    <2>5. CASE ~ \E i \in DOMAIN waiting' : WaitsFor(i, d)'
      <3>1. \A p \in DOMAIN waiting \ {n} : ~ WaitsFor(p, d)
        BY <1>6, <2>3, <2>5
      <3>2. CASE d = m
        <4>1. Youngest(n, d)
          BY <1>0, <1>2, <1>m, <3>1, <3>2 DEF WaitsFor, Youngest
        <4>2. threads[k].available = (d \in present)
          BY <1>2, <4>1 DEF LastWord, Youngest
        <4>3. /\ holder' # 0 /\ threads'[holder'].mac = d
              /\ threads'[holder'].available = (d \in present')
          BY <1>0, <1>1, <1>m, <1>8, <3>2, <4>2, DevFields DEF Moves
        <4> QED BY <2>5, <4>3 DEF LastWord
      <3>3. CASE d # m
        <4>1. ~ \E p \in DOMAIN waiting : WaitsFor(p, d)
          BY <1>2, <1>m, <3>1, <3>3 DEF WaitsFor
        <4>2. RowIsRight(d)
          BY <1>0, <4>1 DEF LastWord
        <4>3. RowIsRight(d)'
          BY <1>1, <4>2 DEF RowIsRight, HasRow
        <4>4. ~ (holder' # 0 /\ threads'[holder'].mac = d)
          BY <1>1, <1>m, <1>8, <3>3 DEF Moves
        <4> QED BY <2>5, <4>3, <4>4 DEF LastWord
      <3> QED BY <3>2, <3>3
    <2> QED BY <2>4, <2>5
  <1> QED BY <1>0, <1>1, <1>11, <1>12, <1>13, <1>14, <1>15
         DEF DevInv, OneRow, TableKept, LastReport

LEMMA ThreadSafe == ASSUME DevInv, NEW k \in Slots, Thread(k) PROVE DevInv'
  BY LockSafe, FindSafe, AddSafe, RegisterSafe, EnableSafe, QueriesSafe DEF Thread

-----------------------------------------------------------------------------
(* The reports and the start-up.                                             *)
LEMMA QuietStep ==
    ASSUME DevInv,
           UNCHANGED <<table, places, lostLock, remoteGroup, threads, waiting, holder>>
    PROVE  /\ OneRow' /\ MutexHeld' /\ Queued' /\ AtWork' /\ TableKept'
           /\ \A d : (d \in present') = (d \in present) /\ LastWord(d) => LastWord(d)'
  <1>1. OneRow' /\ MutexHeld' /\ Queued' /\ TableKept'
    BY DEF DevInv, OneRow, MutexHeld, Queued, TableKept
  <1>2. AtWork'
    BY DEF DevInv, AtWork, HasRow
  <1>3. ASSUME NEW d, (d \in present') = (d \in present), LastWord(d) PROVE LastWord(d)'
    <2>1. RowIsRight(d) => RowIsRight(d)'
      BY <1>3 DEF RowIsRight, HasRow
    <2> QED BY <1>3, <2>1 DEF LastWord, Youngest, WaitsFor
  <1> QED BY <1>1, <1>2, <1>3

\* A thread that is started is the youngest of its device, and waits.
LEMMA StartThreadFacts ==
    ASSUME DevInv, NEW m \in Macs, NEW a \in BOOLEAN, StartThread(m, a),
           UNCHANGED <<table, places, lostLock, remoteGroup, holder, present>>
    PROVE  /\ threads' \in [Slots -> ThreadType] /\ waiting' \in Seq(Slots)
           /\ OneRow' /\ MutexHeld' /\ Queued' /\ AtWork' /\ TableKept'
           /\ \A d \in Macs : d # m /\ LastWord(d) => LastWord(d)'
           /\ a = (m \in present) => LastWord(m)'
  <1>0. /\ DevTyped /\ OneRow /\ MutexHeld /\ Queued /\ AtWork /\ TableKept
        /\ threads \in [Slots -> ThreadType] /\ 0 \notin Slots
        /\ waiting \in Seq(Slots) /\ DOMAIN waiting = 1 .. Len(waiting) /\ Len(waiting) \in Nat
        /\ \A n \in DOMAIN waiting : waiting[n] \in Slots
    BY DevFields DEF DevInv
  <1>l. PICK l \in Nat : l = Len(waiting) + 1
    BY <1>0
  <1> DEFINE t == [NoThread EXCEPT !.pc = "lock", !.mac = m, !.available = a]
  <1>1. PICK k \in Slots : /\ threads[k].pc = "none"
                           /\ threads' = [threads EXCEPT ![k] = t]
                           /\ waiting' = Append(waiting, k)
    BY DEF StartThread
  <1>2. t \in ThreadType /\ t.pc = "lock" /\ t.mac = m /\ t.available = a
    BY NoThreadType DEF ThreadType
  <1> HIDE DEF t
  <1>3. /\ threads' \in [Slots -> ThreadType] /\ threads'[k] = t
        /\ \A j \in Slots \ {k} : threads'[j] = threads[j]
    BY <1>0, <1>1, <1>2
  <1>4. /\ waiting' \in Seq(Slots) /\ DOMAIN waiting' = DOMAIN waiting \cup {l}
        /\ \A n \in DOMAIN waiting : waiting'[n] = waiting[n] /\ l > n /\ ~ n > l
        /\ waiting'[l] = k /\ l \notin DOMAIN waiting /\ ~ l > l
    BY <1>0, <1>1, <1>l
  <1>5. \A n \in DOMAIN waiting : waiting[n] \in Slots \ {k}
    BY <1>0, <1>1 DEF Queued
  <1>6. OneRow' /\ TableKept'
    BY <1>0 DEF OneRow, TableKept
  <1>7. MutexHeld'
    BY <1>0, <1>1, <1>2, <1>3 DEF MutexHeld, Locked
  <1>8. Queued'
    <2>1. \A i, j \in DOMAIN waiting' : waiting'[i] = waiting'[j] => i = j
      BY <1>0, <1>4, <1>5 DEF Queued
    <2>2. ASSUME NEW j \in Slots
          PROVE  threads'[j].pc = "lock" <=> \E i \in DOMAIN waiting' : waiting'[i] = j
      <3>1. CASE j = k
        BY <1>2, <1>3, <1>4, <3>1
      <3>2. CASE j # k
        BY <1>0, <1>3, <1>4, <3>2 DEF Queued
      <3> QED BY <3>1, <3>2
    <2> QED BY <2>1, <2>2 DEF Queued
  <1>9. AtWork'
    BY <1>0, <1>2, <1>3 DEF AtWork, HasRow
  <1>10. \A n \in DOMAIN waiting : threads'[waiting'[n]] = threads[waiting[n]]
    BY <1>3, <1>4, <1>5
  <1>11. threads'[waiting'[l]] = t
    BY <1>3, <1>4
  <1>12. ASSUME NEW d \in Macs, d # m, LastWord(d) PROVE LastWord(d)'
    <2>1. /\ \A n \in DOMAIN waiting : WaitsFor(n, d)' = WaitsFor(n, d)
          /\ ~ WaitsFor(l, d)'
      BY <1>2, <1>10, <1>11, <1>12 DEF WaitsFor
    <2>2. CASE \E n \in DOMAIN waiting' : WaitsFor(n, d)'
      <3> SUFFICES ASSUME NEW n \in DOMAIN waiting', Youngest(n, d)'
                   PROVE  threads'[waiting'[n]].available = (d \in present)
        BY <2>2 DEF LastWord
      <3>1. n \in DOMAIN waiting /\ Youngest(n, d)
        BY <1>4, <2>1 DEF Youngest
      <3>2. threads[waiting[n]].available = (d \in present)
        BY <1>12, <3>1 DEF LastWord, Youngest
      <3> QED BY <1>10, <3>1, <3>2
    <2>3. CASE ~ \E n \in DOMAIN waiting' : WaitsFor(n, d)'
      <3>1. ~ \E n \in DOMAIN waiting : WaitsFor(n, d)
        BY <1>4, <2>1, <2>3
      <3>2. holder # 0 => threads'[holder] = threads[holder]
        BY <1>0, <1>1, <1>3, DevFields DEF MutexHeld, Locked
      <3>3. RowIsRight(d) => RowIsRight(d)'
        BY DEF RowIsRight, HasRow
      <3> QED BY <1>12, <2>3, <3>1, <3>2, <3>3 DEF LastWord
    <2> QED BY <2>2, <2>3
  <1>13. ASSUME a = (m \in present) PROVE LastWord(m)'
    <2>1. WaitsFor(l, m)' /\ l \in DOMAIN waiting'
      BY <1>2, <1>4, <1>11 DEF WaitsFor
    <2>2. ASSUME NEW n \in DOMAIN waiting', Youngest(n, m)'
          PROVE  threads'[waiting'[n]].available = (m \in present')
      <3>1. n = l
        BY <1>4, <2>1, <2>2 DEF Youngest
      <3> QED BY <1>2, <1>11, <1>13, <3>1
    <2> QED BY <2>1, <2>2 DEF LastWord
  <1> QED BY <1>3, <1>4, <1>6, <1>7, <1>8, <1>9, <1>12, <1>13

LEMMA BootStartSafe == DevInv /\ BootStart => DevInv'
  <1> SUFFICES ASSUME DevInv, BootStart PROVE DevInv'
    OBVIOUS
  <1>1. PICK todo \in SUBSET Macs :
            /\ boot' = [boot EXCEPT !.pc = IF todo = {} THEN "done" ELSE "read", !.todo = todo]
            /\ stale' = stale \cup (present \ todo)
    <2>1. PICK known \in SUBSET Macs :
              LET todo == IF nwmode = "GATEWAY" THEN known ELSE {} IN
              /\ boot' = [boot EXCEPT !.pc = IF todo = {} THEN "done" ELSE "read", !.todo = todo]
              /\ stale' = stale \cup (present \ todo)
      BY DEF BootStart
    <2> QED BY <2>1
  <1>2. /\ UNCHANGED <<places, nwmode, table, remoteGroup, threads, waiting, holder, lostLock,
                       queryList, present, reports, requests, subscribed>>
        /\ boot.pc = "start"
    BY DEF BootStart
  <1>3. boot \in BootType /\ present \subseteq Macs /\ stale \subseteq Macs
    BY DevFields DEF DevInv
  <1>4. /\ boot' \in BootType /\ boot'.todo = todo
        /\ boot'.pc = (IF todo = {} THEN "done" ELSE "read")
    BY <1>1, <1>3 DEF BootType
  <1>5. DevTyped'
    BY <1>1, <1>2, <1>3, <1>4 DEF DevInv, DevTyped, DevicesTypeOK, RequestType
  <1>6. /\ OneRow' /\ MutexHeld' /\ Queued' /\ AtWork' /\ TableKept'
        /\ \A d : LastWord(d) => LastWord(d)'
    BY <1>2, QuietStep
  <1>7. DevicesFollowed'
    <2> SUFFICES ASSUME ~ lostLock, NEW d \in Macs \ stale'
                 PROVE  OnTheWay(d)' \/ Pending(d)' \/ LastWord(d)'
      BY <1>2 DEF DevicesFollowed
    <2>1. d \in Macs \ stale /\ (d \in present => d \in todo)
      BY <1>1
    <2>2. OnTheWay(d) \/ Pending(d) \/ LastWord(d)
      BY <2>1 DEF DevInv, DevicesFollowed
    <2>3. Pending(d) => Pending(d)'
      BY <1>2, <1>4, <2>1 DEF Pending
    <2>4. OnTheWay(d) => OnTheWay(d)'
      BY <1>2 DEF OnTheWay
    <2> QED BY <1>6, <2>2, <2>3, <2>4
  <1> QED BY <1>2, <1>5, <1>6, <1>7 DEF DevInv, LastReport

LEMMA BootReadSafe == ASSUME DevInv, NEW m \in Macs, BootRead(m) PROVE DevInv'
  <1>1. PICK a \in {FALSE, (m \in present)} :
            boot' = [pc |-> "spawn", todo |-> boot.todo \ {m}, mac |-> m, available |-> a]
    BY DEF BootRead
  <1>2. /\ UNCHANGED <<places, nwmode, table, remoteGroup, threads, waiting, holder, lostLock,
                       queryList, present, reports, requests, subscribed, stale>>
        /\ boot.pc = "read"
    BY DEF BootRead
  <1>3. boot \in BootType /\ boot.todo \subseteq Macs
    BY DevFields DEF DevInv, BootType
  <1>4. a \in BOOLEAN
    <2>1. CASE m \in present
      <3>1. (m \in present) = TRUE
        BY <2>1
      <3>2. a \in {FALSE, TRUE}
        BY <3>1, Zenon
      <3> QED BY <3>2
    <2>2. CASE m \notin present
      <3>1. (m \in present) = FALSE
        BY <2>2
      <3>2. a \in {FALSE, FALSE}
        BY <3>1, Zenon
      <3> QED BY <3>2
    <2> QED BY <2>1, <2>2
  <1>5. boot' \in BootType
    BY <1>1, <1>3, <1>4 DEF BootType
  <1>6. DevTyped'
    BY <1>2, <1>5 DEF DevInv, DevTyped, DevicesTypeOK, RequestType
  <1>7. /\ OneRow' /\ MutexHeld' /\ Queued' /\ AtWork' /\ TableKept'
        /\ \A d : LastWord(d) => LastWord(d)'
    BY <1>2, QuietStep
  <1>8. DevicesFollowed'
    <2> SUFFICES ASSUME ~ lostLock, NEW d \in Macs \ stale
                 PROVE  OnTheWay(d)' \/ Pending(d)' \/ LastWord(d)'
      BY <1>2 DEF DevicesFollowed
    <2>1. OnTheWay(d) \/ Pending(d) \/ LastWord(d)
      BY DEF DevInv, DevicesFollowed
    <2>2. Pending(d) => Pending(d)'
      BY <1>1, <1>2 DEF Pending
    <2>3. OnTheWay(d) => OnTheWay(d)'
      BY <1>2 DEF OnTheWay
    <2> QED BY <1>7, <2>1, <2>2, <2>3
  <1> QED BY <1>2, <1>6, <1>7, <1>8 DEF DevInv, LastReport

LEMMA BootSpawnSafe == DevInv /\ BootSpawn => DevInv'
  <1> SUFFICES ASSUME DevInv, BootSpawn PROVE DevInv'
    OBVIOUS
  <1>1. boot \in BootType /\ boot.mac \in Macs /\ boot.available \in BOOLEAN
    BY DevFields DEF DevInv, BootType
  <1>2. PICK m \in Macs, a \in BOOLEAN : m = boot.mac /\ a = boot.available
    BY <1>1
  <1>3. /\ boot' = [boot EXCEPT !.pc = IF boot.todo = {} THEN "done" ELSE "read"]
        /\ \/ /\ StartThread(m, a)
              /\ stale' = IF a = (m \in present) \/ OnTheWay(m) THEN stale ELSE stale \cup {m}
           \/ /\ NoThreadStarted
              /\ stale' = IF OnTheWay(m) THEN stale ELSE stale \cup {m}
    BY <1>2 DEF BootSpawn
  <1>4. /\ UNCHANGED <<places, nwmode, table, remoteGroup, holder, lostLock, queryList,
                       present, reports, requests, subscribed>>
        /\ boot.pc = "spawn"
    BY DEF BootSpawn
  <1>5. /\ boot' \in BootType /\ boot'.todo = boot.todo
        /\ boot'.pc = (IF boot.todo = {} THEN "done" ELSE "read")
    BY <1>1, <1>3 DEF BootType
  <1>6. /\ threads' \in [Slots -> ThreadType] /\ waiting' \in Seq(Slots)
        /\ OneRow' /\ MutexHeld' /\ Queued' /\ AtWork' /\ TableKept'
        /\ \A d \in Macs : d # m /\ LastWord(d) => LastWord(d)'
        /\ m \in stale' \/ OnTheWay(m) \/ LastWord(m)'
    <2>1. CASE StartThread(m, a) /\ (m \in stale' \/ OnTheWay(m) \/ a = (m \in present))
      BY <1>4, <2>1, StartThreadFacts
    <2>2. CASE NoThreadStarted /\ (m \in stale' \/ OnTheWay(m))
      <3>1. UNCHANGED <<threads, waiting>>
        BY <2>2 DEF NoThreadStarted
      <3>2. threads \in [Slots -> ThreadType] /\ waiting \in Seq(Slots)
        BY DevFields DEF DevInv
      <3> QED BY <1>4, <2>2, <3>1, <3>2, QuietStep
    <2> QED BY <1>3, <2>1, <2>2
  <1>7. stale' \subseteq Macs /\ stale \subseteq stale'
    BY <1>3, DevFields DEF DevInv
  <1>8. DevTyped'
    BY <1>4, <1>5, <1>6, <1>7 DEF DevInv, DevTyped, DevicesTypeOK, RequestType
  <1>9. DevicesFollowed'
    <2> SUFFICES ASSUME ~ lostLock, NEW d \in Macs \ stale'
                 PROVE  OnTheWay(d)' \/ Pending(d)' \/ LastWord(d)'
      BY <1>4 DEF DevicesFollowed
    <2>1. OnTheWay(d)' = OnTheWay(d)
      BY <1>4 DEF OnTheWay
    <2>2. CASE d # m
      <3>1. OnTheWay(d) \/ Pending(d) \/ LastWord(d)
        BY <1>7 DEF DevInv, DevicesFollowed
      <3>2. Pending(d) => Pending(d)'
        BY <1>2, <1>4, <1>5, <2>2 DEF Pending
      <3> QED BY <1>6, <2>1, <2>2, <3>1, <3>2
    <2>3. CASE d = m
      BY <1>6, <2>1, <2>3
    <2> QED BY <2>2, <2>3
  <1> QED BY <1>4, <1>6, <1>8, <1>9 DEF DevInv, LastReport

\* The report at the head is taken off.
LEMMA TailFacts ==
    ASSUME DevInv, reports # <<>>, reports' = Tail(reports), present' = present,
           NEW m, m = reports[1].mac
    PROVE  /\ Head(reports) = reports[1] /\ reports[1] \in ReportType /\ 1 \in DOMAIN reports
           /\ reports' \in Seq(ReportType) /\ LastReport'
           /\ \A d : OnTheWay(d) /\ m # d => OnTheWay(d)'
           /\ OnTheWay(m)' \/ reports[1].available = (m \in present)
  <1>1. /\ reports \in Seq(ReportType) /\ DOMAIN reports = 1 .. Len(reports)
        /\ Len(reports) \in Nat \ {0} /\ LastReport
    BY DevFields, EmptySeq DEF DevInv
  <1>2. /\ reports' \in Seq(ReportType) /\ DOMAIN reports' = 1 .. Len(reports) - 1
        /\ \A n \in DOMAIN reports' : reports'[n] = reports[n + 1] /\ n + 1 \in DOMAIN reports
    BY <1>1
  <1>3. Head(reports) = reports[1] /\ reports[1] \in ReportType /\ 1 \in DOMAIN reports
    BY <1>1
  <1>4. \A p \in DOMAIN reports \ {1} :
            p - 1 \in DOMAIN reports' /\ reports'[p - 1] = reports[p]
    BY <1>1, <1>2
  <1>5. LastReport'
    <2> SUFFICES ASSUME NEW n \in DOMAIN reports',
                        \A p \in DOMAIN reports' : p > n => reports'[p].mac # reports'[n].mac
                 PROVE  reports'[n].available = (reports'[n].mac \in present)
      BY DEF LastReport
    <2>1. \A p \in DOMAIN reports : p > n + 1 => reports[p].mac # reports[n + 1].mac
      <3> SUFFICES ASSUME NEW p \in DOMAIN reports, p > n + 1
                   PROVE  reports[p].mac # reports[n + 1].mac
        OBVIOUS
      <3>1. p # 1 /\ p - 1 > n
        BY <1>1, <1>2
      <3> QED BY <1>2, <1>4, <3>1
    <2> QED BY <1>1, <1>2, <2>1 DEF LastReport
  <1>6. \A d : OnTheWay(d) /\ m # d => OnTheWay(d)'
    BY <1>4 DEF OnTheWay
  <1>7. CASE \E p \in DOMAIN reports : p > 1 /\ reports[p].mac = reports[1].mac
    <2>1. PICK p \in DOMAIN reports \ {1} : reports[p].mac = reports[1].mac
      BY <1>1, <1>7
    <2>2. p - 1 \in DOMAIN reports' /\ reports'[p - 1].mac = m
      BY <1>4, <2>1
    <2> QED BY <1>2, <1>3, <1>5, <1>6, <2>2 DEF OnTheWay
  <1>8. CASE ~ \E p \in DOMAIN reports : p > 1 /\ reports[p].mac = reports[1].mac
    <2>1. reports[1].available = (reports[1].mac \in present)
      BY <1>1, <1>3, <1>8 DEF LastReport
    <2> QED BY <1>2, <1>3, <1>5, <1>6, <2>1
  <1> QED BY <1>7, <1>8

LEMMA DeviceChangeSafe == DevInv /\ DeviceChange => DevInv'
  <1> SUFFICES ASSUME DevInv, DeviceChange PROVE DevInv'
    OBVIOUS
  <1>1. /\ reports # <<>> /\ reports' = Tail(reports)
        /\ UNCHANGED <<places, nwmode, table, remoteGroup, holder, lostLock, queryList, boot,
                       present, requests, subscribed>>
    BY DEF DeviceChange
  <1>2. PICK m : m = reports[1].mac
    OBVIOUS
  <1>3. /\ Head(reports) = reports[1] /\ reports[1] \in ReportType /\ 1 \in DOMAIN reports
        /\ reports' \in Seq(ReportType) /\ LastReport'
        /\ \A d : OnTheWay(d) /\ m # d => OnTheWay(d)'
        /\ OnTheWay(m)' \/ reports[1].available = (m \in present)
    BY <1>1, <1>2, TailFacts
  <1>4. PICK a \in BOOLEAN : a = reports[1].available
    BY <1>3 DEF ReportType
  <1>5. m \in Macs
    BY <1>2, <1>3 DEF ReportType
  <1>6. stale \subseteq Macs
    BY DevFields DEF DevInv
  <1>7. \A d : Pending(d)' = Pending(d)
    BY <1>1 DEF Pending
  <1>8. CASE /\ StartThread(m, a)
             /\ stale' = IF Applying(m) THEN stale ELSE stale \ {m}
    <2>1. /\ StartThread(m, a)
          /\ stale' = IF Applying(m) THEN stale ELSE stale \ {m}
      BY <1>8
    <2>2. /\ threads' \in [Slots -> ThreadType] /\ waiting' \in Seq(Slots)
          /\ OneRow' /\ MutexHeld' /\ Queued' /\ AtWork' /\ TableKept'
          /\ \A d \in Macs : d # m /\ LastWord(d) => LastWord(d)'
          /\ a = (m \in present) => LastWord(m)'
      BY <1>1, <1>5, <2>1, StartThreadFacts
    <2>3. stale' \subseteq Macs /\ \A d \in Macs \ stale' : d = m \/ d \notin stale
      BY <1>6, <2>1
    <2>4. DevTyped'
      BY <1>1, <1>3, <2>2, <2>3 DEF DevInv, DevTyped, DevicesTypeOK, RequestType
    <2>5. DevicesFollowed'
      <3> SUFFICES ASSUME ~ lostLock, NEW d \in Macs \ stale'
                   PROVE  OnTheWay(d)' \/ Pending(d)' \/ LastWord(d)'
        BY <1>1 DEF DevicesFollowed
      <3>1. CASE d # m
        <4>1. OnTheWay(d) \/ Pending(d) \/ LastWord(d)
          BY <2>3, <3>1 DEF DevInv, DevicesFollowed
        <4> QED BY <1>3, <1>7, <2>2, <3>1, <4>1
      <3>2. CASE d = m
        BY <1>3, <1>4, <2>2, <3>2
      <3> QED BY <3>1, <3>2
    <2> QED BY <1>3, <2>2, <2>4, <2>5 DEF DevInv
  <1>9. CASE NoThreadStarted /\ stale' = stale \cup {m}
    <2>1. stale' = stale \cup {m} /\ UNCHANGED <<threads, waiting>>
      BY <1>9 DEF NoThreadStarted
    <2>2. DevTyped'
      BY <1>1, <1>3, <1>5, <1>6, <2>1 DEF DevInv, DevTyped, DevicesTypeOK, RequestType
    <2>3. /\ OneRow' /\ MutexHeld' /\ Queued' /\ AtWork' /\ TableKept'
          /\ \A d : LastWord(d) => LastWord(d)'
      BY <1>1, <2>1, QuietStep
    <2>4. DevicesFollowed'
      <3> SUFFICES ASSUME ~ lostLock, NEW d \in Macs \ stale'
                   PROVE  OnTheWay(d)' \/ Pending(d)' \/ LastWord(d)'
        BY <1>1 DEF DevicesFollowed
      <3>1. d # m /\ d \in Macs \ stale
        BY <2>1
      <3>2. OnTheWay(d) \/ Pending(d) \/ LastWord(d)
        BY <3>1 DEF DevInv, DevicesFollowed
      <3> QED BY <1>3, <1>7, <2>3, <3>1, <3>2
    <2> QED BY <1>3, <2>2, <2>3, <2>4 DEF DevInv
  <1> QED BY <1>2, <1>3, <1>4, <1>8, <1>9 DEF DeviceChange

LEMMA DeviceMovesSafe == ASSUME DevInv, NEW m \in Macs, DeviceMoves(m) PROVE DevInv'
  <1>1. /\ present' = IF m \in present THEN present \ {m} ELSE present \cup {m}
        /\ UNCHANGED <<places, nwmode, table, remoteGroup, threads, waiting, holder, lostLock,
                       queryList, boot, requests, subscribed, stale>>
    BY DEF DeviceMoves
  <1>2. PICK a \in BOOLEAN : a = (m \notin present)
    OBVIOUS
  <1>3. PICK e \in ReportType : /\ e.mac = m /\ e.available = a
                                /\ reports' = Append(reports, e)
    <2>1. reports' = Append(reports, [mac |-> m, available |-> a])
      BY <1>2 DEF DeviceMoves
    <2>2. [mac |-> m, available |-> a] \in ReportType
      BY DEF ReportType
    <2> QED BY <2>1, <2>2
  <1>4. /\ reports \in Seq(ReportType) /\ DOMAIN reports = 1 .. Len(reports)
        /\ Len(reports) \in Nat /\ present \subseteq Macs
    BY DevFields DEF DevInv
  <1>5. PICK l \in Nat : l = Len(reports) + 1
    BY <1>4
  <1>6. /\ reports' \in Seq(ReportType) /\ DOMAIN reports' = DOMAIN reports \cup {l}
        /\ reports'[l] = e /\ \A n \in DOMAIN reports : reports'[n] = reports[n] /\ l > n
    BY <1>3, <1>4, <1>5
  <1>7. a = (m \in present')
    BY <1>1, <1>2
  <1>8. \A d : d # m => (d \in present') = (d \in present)
    BY <1>1
  <1>9. present' \subseteq Macs
    BY <1>1, <1>4
  <1>10. DevTyped'
    BY <1>1, <1>6, <1>9 DEF DevInv, DevTyped, DevicesTypeOK, RequestType
  <1>11. /\ OneRow' /\ MutexHeld' /\ Queued' /\ AtWork' /\ TableKept'
         /\ \A d : d # m /\ LastWord(d) => LastWord(d)'
    BY <1>1, <1>8, QuietStep
  <1>12. LastReport'
    <2> SUFFICES ASSUME NEW n \in DOMAIN reports',
                        \A p \in DOMAIN reports' : p > n => reports'[p].mac # reports'[n].mac
                 PROVE  reports'[n].available = (reports'[n].mac \in present')
      BY DEF LastReport
    <2>1. CASE n = l
      BY <1>3, <1>6, <1>7, <2>1
    <2>2. CASE n # l
      <3>1. n \in DOMAIN reports /\ reports'[n] = reports[n] /\ reports[n].mac # m
        BY <1>3, <1>6, <2>2
      <3>2. \A p \in DOMAIN reports : p > n => reports[p].mac # reports[n].mac
        BY <1>6, <3>1
      <3>3. reports[n].available = (reports[n].mac \in present)
        BY <3>1, <3>2 DEF DevInv, LastReport
      <3> QED BY <1>8, <3>1, <3>3
    <2> QED BY <2>1, <2>2
  <1>13. DevicesFollowed'
    <2> SUFFICES ASSUME ~ lostLock, NEW d \in Macs \ stale
                 PROVE  OnTheWay(d)' \/ Pending(d)' \/ LastWord(d)'
      BY <1>1 DEF DevicesFollowed
    <2>1. CASE d = m
      BY <1>3, <1>6, <2>1 DEF OnTheWay
    <2>2. CASE d # m
      <3>1. OnTheWay(d) \/ Pending(d) \/ LastWord(d)
        BY DEF DevInv, DevicesFollowed
      <3>2. OnTheWay(d) => OnTheWay(d)'
        BY <1>6 DEF OnTheWay
      <3>3. Pending(d) => Pending(d)'
        BY <1>1, <1>8, <2>2 DEF Pending
      <3> QED BY <1>11, <2>2, <3>1, <3>2, <3>3
    <2> QED BY <2>1, <2>2
  <1> QED BY <1>10, <1>11, <1>12, <1>13 DEF DevInv

LEMMA DevStep == DevInv /\ DevNext => DevInv'
  BY ThreadSafe, BootStartSafe, BootReadSafe, BootSpawnSafe, DeviceChangeSafe, DeviceMovesSafe,
     NetworkingModeSafe, AnswerSafe, RemoteInvokeSafe DEF DevNext, DevThreads, DevEvents

LEMMA DevUnchanged == DevInv /\ UNCHANGED devVars => DevInv'
  <1> SUFFICES ASSUME DevInv, UNCHANGED devVars PROVE DevInv'
    OBVIOUS
  <1>1. DevTyped'
    BY DEF devVars, DevInv, DevTyped, DevicesTypeOK, RequestType
  <1> QED BY <1>1, TableUntouched, IdleStep DEF devVars

LEMMA DevStart == DevInit => DevInv
  <1> SUFFICES ASSUME DevInit PROVE DevInv
    OBVIOUS
  <1>1. /\ places \in Places /\ nwmode \in {"GATEWAY", "MODEM"}
        /\ table = <<>> /\ remoteGroup = [InterfaceAvailable |-> {}, ConfigChanged |-> FALSE]
        /\ threads = [k \in Slots |-> NoThread] /\ waiting = <<>> /\ holder = 0
        /\ lostLock = FALSE /\ queryList = "none"
        /\ present \in SUBSET Macs /\ reports = <<>> /\ requests = {} /\ subscribed = {}
        /\ boot = [pc |-> "start", todo |-> {}, mac |-> NoThread.mac, available |-> FALSE]
        /\ stale = {}
    BY DEF DevInit
  <1>2. threads \in [Slots -> ThreadType] /\ \A k \in Slots : threads[k].pc = "none"
    BY <1>1, NoThreadType
  <1>3. NoThread.mac \in Macs /\ places \in Nat /\ 0 \notin Slots
    BY <1>1, NoThreadType, DevicesAssumption DEF ThreadType
  <1>4. boot \in BootType
    BY <1>1, <1>3 DEF BootType
  <1>5. DevTyped
    <2>1. table \in Seq(RowType) /\ waiting \in Seq(Slots) /\ reports \in Seq(ReportType)
      BY <1>1
    <2>2. DevicesTypeOK
      BY <1>1, <1>2, <2>1 DEF DevicesTypeOK
    <2>3. requests \subseteq RequestType
      BY <1>1
    <2> QED BY <1>4, <2>1, <2>2, <2>3 DEF DevTyped
  <1>6. OneRow /\ LastReport
    BY <1>1 DEF OneRow, LastReport
  <1>7. MutexHeld /\ Queued /\ AtWork
    BY <1>1, <1>2, <1>3 DEF MutexHeld, Queued, AtWork, Locked
  <1>8. TableKept
    BY <1>1, <1>3 DEF TableKept
  <1>9. DevicesFollowed
    BY <1>1 DEF DevicesFollowed, OnTheWay, Pending, LastWord, RowIsRight, HasRow
  <1> QED BY <1>5, <1>6, <1>7, <1>8, <1>9 DEF DevInv

LEMMA DevAlways == MCSpec => []DevInv
  <1>1. MCInitOne => DevInv
    BY DevStart DEF MCInitOne, MCInit
  <1>2. DevInv /\ [MCNext]_mcvars => DevInv'
    <2> SUFFICES ASSUME DevInv, [MCNext]_mcvars PROVE DevInv'
      OBVIOUS
    <2>1. CASE DevNext
      BY <2>1, DevStep
    <2>2. CASE UNCHANGED devVars
      BY <2>2, DevUnchanged
    <2> QED BY <2>1, <2>2 DEF MCNext, mcvars, DevNext
  <1> QED BY <1>1, <1>2, PTL DEF MCSpec

-----------------------------------------------------------------------------
(* The variables of the policy and the rows, the threads and the reports of  *)
(* the remote devices keep their types, however many events happen.          *)
THEOREM RemoteStatesTyped == MCSpec => []RemoteStateOK
  <1>1. PolicyInv /\ DevInv => RemoteStateOK
    <2> SUFFICES ASSUME PolicyInv, DevInv PROVE RemoteTypeOK /\ DevicesTypeOK
      BY DEF RemoteStateOK
    <2>1. PriTyped /\ bk \in BackupType
      BY DEF PolicyInv, PolicyTyped
    <2>2. /\ wan.status \in {"stopped", "started", "standby"}
          /\ wan.service \in {"stopped", "starting", "started"}
          /\ Len(wan.req) <= 2
      BY <2>1 DEF PriTyped, Wans, WanType
    <2>3. RemoteTypeOK
      BY <2>1, <2>2 DEF RemoteTypeOK, PriTyped
    <2>4. DevicesTypeOK
      BY DEF DevInv, DevTyped
    <2> QED BY <2>3, <2>4
  <1> QED BY <1>1, PolicyAlways, DevAlways, PTL

(* The rows follow the devices: WanMgr_WanRemoteIfaceConfigure_thread never  *)
(* gives a device two rows, and when all reports are dealt with the Enable   *)
(* of a row tells whether its device is there.  That holds of the devices    *)
(* whose last report was not dropped, lost, overtaken or read too early (not *)
(* in stale), and as long as no thread has ended with gDataMutex locked.     *)
THEOREM RowsFollow == MCSpec => []RowsFollowDevices
  <1>1. DevInv => RowsFollowDevices
    <2> SUFFICES ASSUME DevInv PROVE RowsFollowDevices
      OBVIOUS
    <2>1. DevTyped /\ OneRow /\ MutexHeld /\ Queued /\ TableKept /\ DevicesFollowed
      BY DEF DevInv
    <2>2. remoteGroup.InterfaceAvailable = DOMAIN table
      BY <2>1 DEF TableKept
    <2>3. ASSUME Settled, ~ lostLock, NEW m \in Macs \ stale
          PROVE  IF IndexOf(m) = 0 THEN m \notin present
                 ELSE table[IndexOf(m)].Enable = (m \in present)
      <3>1. \A k \in Slots : threads[k].pc \notin Locked \cup {"lock"}
        BY <2>1, <2>3, DevFields DEF Settled, Applying, ThreadType
      <3>2. holder = 0
        BY <2>1, <3>1, DevFields DEF MutexHeld
      <3>3. DOMAIN waiting = {}
        BY <2>1, <3>1, DevFields DEF Queued
      <3>4. ~ OnTheWay(m) /\ ~ Pending(m)
        BY <2>3 DEF Settled, OnTheWay, Pending
      <3>5. RowIsRight(m)
        BY <2>1, <2>3, <3>2, <3>3, <3>4 DEF DevicesFollowed, LastWord
      <3>6. CASE HasRow(m)
        BY <2>1, <3>5, <3>6, IndexFacts DEF RowIsRight
      <3>7. CASE ~ HasRow(m)
        BY <2>1, <3>5, <3>7, IndexFacts DEF RowIsRight
      <3> QED BY <3>6, <3>7
    <2> QED BY <2>1, <2>2, <2>3 DEF OneRow, TableKept, RowsFollowDevices
  <1> QED BY <1>1, DevAlways, PTL
=============================================================================
