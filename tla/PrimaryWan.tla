------------------------------ MODULE PrimaryWan ------------------------------
(* The WAN selection of the builds without the unified WAN Manager           *)
(* (wanmgr_policy_autowan_impl.c): the primary thread, which brings up one   *)
(* of the local interfaces (DOCSIS or Ethernet), and the data it shares with *)
(* the backup thread of module BackupWan.                                    *)
(*                                                                           *)
(* A thread copies Enable in one lock section and runs a whole state         *)
(* function, with the transition it calls, in the next: one action each.     *)
(* The WAN itself is started and stopped by a service outside the program:   *)
(* the thread sends the sysevents wan-start and wan-stop and reads           *)
(* wan-status, wan_service-status and the routing table back.                *)
EXTENDS Integers, Sequences

CONSTANTS
    NLocal,      \* number of LOCAL_IFACE interfaces; 1 is PRIMARY, 2 SECONDARY
    TAD,         \* ConnectivityCheckType is WAN_CONNECTIVITY_TYPE_TAD
    SelectedAtBoot, \* the values of syscfg selected_wan_mode at boot
    LastAtBoot,  \* syscfg last_wan_mode at boot
    NoReboot,    \* ENABLE_WANMODECHANGE_NOREBOOT
    LinkAtBoot,  \* interfaces whose link is up at boot
    Happens      \* the events a run explores: pairs <<kind, object>>

Local == 1 .. NLocal
Remote == NLocal + 1                 \* the one REMOTE_IFACE interface
Ifs == 1 .. NLocal + 1
NoIf == 0

ASSUME LocalAssumption ==
    /\ NLocal \in 1 .. 2
    /\ TAD \in BOOLEAN /\ NoReboot \in BOOLEAN
    /\ SelectedAtBoot \subseteq {"PRIMARY", "SECONDARY", "AUTO"}
    /\ LastAtBoot \in {"PRIMARY", "SECONDARY"}
    /\ LinkAtBoot \subseteq Ifs

VARIABLES
    conf,    \* Enable and AllowRemoteInterfaces
    ifc,     \* the interfaces with their first virtual interface
    link,    \* the links as they are: BaseInterfaceStatus follows them
    asked,   \* interfaces whose status was requested and not yet reported
    wan,     \* the WAN service: sysevents, requests on their way, default route
    mode,    \* syscfg selected_wan_mode and last_wan_mode, g_CurrentWanMode
    switch,  \* TelemetryBackUpStatus
    pri      \* the primary thread

data == <<conf, ifc, link, asked, wan, mode, switch>>

(* Ip stands for OperationalStatus and the IP states of the scan; Conn is    *)
(* "Ipv4ConnectivityStatus or Ipv6ConnectivityStatus is UP".                 *)
IfcType == [Enable : BOOLEAN, Phy : {"UP", "DOWN", "UNKNOWN"},
            Sel : {"NOT_SELECTED", "SELECTED", "ACTIVE"},
            Status : {"DISABLED", "UP"}, ActiveLink : BOOLEAN,
            Scanned : BOOLEAN, Vlan : BOOLEAN, RemoteUp : BOOLEAN,
            Conn : BOOLEAN, Ip : {"UNKNOWN", "UP", "DOWN"}]

WanType == [status : {"stopped", "started", "standby"},
            service : {"stopped", "starting", "started"},
            req : Seq({"start", "stop"}), route : BOOLEAN,
            check : {"DISABLED", "STARTING", "STARTED", "STOPPED"}]

PriStates == {"INIT", "SELECTING", "WAITING", "CONFIGURING", "SCANNING",
              "DECONFIGURING", "VALIDATED", "UP", "ACTIVE", "DOWN",
              "TEARDOWN", "EXIT"}

PriType == [st : PriStates, idx : Local \cup {NoIf}, prev : Local \cup {NoIf},
            op : {"PRIMARY", "SECONDARY", "AUTO"}, en : BOOLEAN, reboot : BOOLEAN]

TypeOf(i) == IF i = 2 THEN "SECONDARY" ELSE "PRIMARY"

-----------------------------------------------------------------------------
(* WanMgr_IfaceData_Init and the syscfg of the last session.                 *)
PrimaryInit ==
    /\ conf = [Enable |-> TRUE, AllowRemote |-> TRUE]
    /\ link = [i \in Ifs |-> i \in LinkAtBoot]
    /\ ifc = [i \in Ifs |->
                [Enable |-> TRUE,
                 Phy |-> IF i \in LinkAtBoot THEN "UP" ELSE "DOWN",
                 Sel |-> "NOT_SELECTED", Status |-> "DISABLED",
                 ActiveLink |-> FALSE, Scanned |-> FALSE, Vlan |-> FALSE,
                 RemoteUp |-> i = Remote /\ i \in LinkAtBoot, Conn |-> FALSE,
                 Ip |-> "UNKNOWN"]]
    /\ asked = {}
    /\ wan = [status |-> "stopped", service |-> "stopped", req |-> <<>>,
              route |-> FALSE, check |-> "DISABLED"]
    /\ \E m \in SelectedAtBoot :
          /\ mode = [sel |-> m, last |-> LastAtBoot, cur |-> "UNKNOWN"]
          /\ pri = [st |-> "INIT", idx |-> NoIf, prev |-> NoIf, op |-> m, en |-> FALSE,
                    reboot |-> FALSE]
    /\ switch = "NONE"

-----------------------------------------------------------------------------
(* wanmgr_setwanstart, wanmgr_setwanstop: a sysevent; the service handles    *)
(* them in order, and of an older request only the last opposite one matters *)
SendWan(w, r) ==
    [w EXCEPT !.req = IF @ # <<>> /\ @[Len(@)] = r THEN @
                      ELSE IF Len(@) < 2 THEN Append(@, r) ELSE <<@[2], r>>]

(* WanMgr_Sysevent_SetConnectivityCheckState: the service reads it.          *)
SetConnectivityCheckState(w, c) == [w EXCEPT !.check = c]

(* WanMgr_ConfigReset: "configure" sets the default route of the interface,  *)
(* "deconfigure" removes it.                                                 *)
ConfigReset(w, configure) == [w EXCEPT !.route = configure]

(* SetCurrentWanMode, SetLastKnownWanMode                                    *)
SetCurrentWanMode(m, t) == [m EXCEPT !.cur = t]
SetLastKnownWanMode(m, t) == [m EXCEPT !.last = t]

(* The WAN service (external).  With a connectivity check in preparation it  *)
(* only gets as far as standby, without a default route.                     *)
WanServiceStarts ==
    /\ wan.req # <<>> /\ Head(wan.req) = "start"
    /\ wan' = IF wan.service = "stopped"
              THEN [wan EXCEPT !.service = "starting"]
              ELSE [wan EXCEPT !.service = "started", !.req = Tail(@),
                     !.status = IF wan.check = "STARTING" THEN "standby"
                                ELSE "started"]
    /\ UNCHANGED <<conf, ifc, link, asked, mode, switch, pri>>

WanServiceStops ==
    /\ wan.req # <<>> /\ Head(wan.req) = "stop"
    /\ wan' = [wan EXCEPT !.service = "stopped", !.status = "stopped",
                          !.req = Tail(@), !.route = FALSE]
    /\ UNCHANGED <<conf, ifc, link, asked, mode, switch, pri>>

(* The DHCP client of the WAN service got a lease: the default route.        *)
WanRouteUp ==
    /\ wan.status = "started" /\ wan.req = <<>> /\ ~ wan.route
    /\ \E i \in Local : link[i]
    /\ wan' = [wan EXCEPT !.route = TRUE]
    /\ UNCHANGED <<conf, ifc, link, asked, mode, switch, pri>>

WanService == WanServiceStarts \/ WanServiceStops \/ WanRouteUp

WanUp == wan.status = "started" /\ wan.service = "started"

(* WanMgr_GetWanRoutedStatus() == 0                                          *)
WanNotRouted == wan.status = "stopped"

(* isAnyRemoteInterfaceActive                                                *)
RemoteSel == IF ifc[Remote].Enable THEN ifc[Remote].Sel ELSE "UNKNOWN"

(* WanMgr_Policy_BackupWan_IsConnectivityCheckGood                           *)
BackupConnGood == TAD /\ ifc[Remote].Enable /\ ifc[Remote].Conn

(* WanMgr_Policy_AutoWan_GetLastKnownModeInterfaceIndex                      *)
LastKnownIf(m) ==
    IF \E i \in Local : TypeOf(i) = m THEN CHOOSE i \in Local : TypeOf(i) = m
    ELSE NoIf

(* WanMgr_Policy_CheckAndStartUDHCPClientOverWanInterface: the exit code of  *)
(* udhcpc, which gets no lease without a link ("nolease": nor with one)      *)
Udhcpc(i, ok) == IF ok THEN link[i] ELSE ~ link[i] \/ <<"nolease", i>> \in Happens

-----------------------------------------------------------------------------
(* The end of an iteration: the next one copies Enable first.                *)
PriGoto(s) == pri' = [pri EXCEPT !.st = s, !.en = conf.Enable]

PriSample ==
    /\ pri.en # conf.Enable
    /\ pri' = [pri EXCEPT !.en = conf.Enable]
    /\ UNCHANGED data

At(s) == pri.st = s /\ pri.en
Mine == ifc[pri.idx]
AutoMode == pri.op = "AUTO"

(* IntializeAutoWanConfig, Wanmgr_StartPrimaryWan and Wanmgr_StartSecondaryWan *)
(* with Transition_Start                                                     *)
PriStartFixed ==
    /\ pri.st = "INIT"
    /\ mode.sel # "AUTO"
    /\ mode' = SetCurrentWanMode(SetLastKnownWanMode(mode, mode.sel), mode.sel)
    /\ pri' = [pri EXCEPT !.st = "SELECTING", !.idx = NoIf, !.prev = NoIf,
                          !.op = mode.sel, !.en = conf.Enable]
    /\ wan' = SetConnectivityCheckState(wan, "DISABLED")
    /\ UNCHANGED <<conf, ifc, link, asked, switch>>

(* Wanmgr_WanAutoMode_StartStateMachine with Transition_StartAuto            *)
PriStartAuto ==
    /\ pri.st = "INIT"
    /\ mode.sel = "AUTO"
    /\ mode' = SetCurrentWanMode(mode, "UNKNOWN")
    /\ LET i == LastKnownIf(mode.last)
       IN  /\ i # NoIf
           /\ pri' = [pri EXCEPT !.st = "WAITING", !.idx = i, !.prev = i,
                                 !.op = "AUTO", !.en = conf.Enable]
           /\ ifc' = [ifc EXCEPT ![i].ActiveLink = TRUE, ![i].Phy = "UNKNOWN"]
           /\ asked' = asked \cup {i}
    /\ wan' = SetConnectivityCheckState(wan, "DISABLED")
    /\ UNCHANGED <<conf, link, switch>>

(* State_SelectingWanInterface with Transition_WanInterfaceSelected, which   *)
(* finds the interface of the previous iteration                             *)
PriSelectFixed ==
    /\ pri.st = "SELECTING" /\ ~ AutoMode
    /\ LET i == LastKnownIf(mode.last)
       IN  pri' = [pri EXCEPT !.idx = i, !.en = conf.Enable,
                     !.st = IF i # NoIf /\ pri.idx # NoIf THEN "DOWN" ELSE @]
    /\ ifc' = IF pri.idx = NoIf THEN ifc
              ELSE [ifc EXCEPT ![pri.idx].ActiveLink = FALSE,
                               ![pri.idx].Vlan = FALSE,
                               ![pri.idx].Sel = "NOT_SELECTED",
                               ![pri.idx].Scanned = TRUE,
                               ![pri.idx].Ip = "UNKNOWN",
                               ![pri.idx].Status = "DISABLED"]
    /\ UNCHANGED <<conf, link, asked, wan, mode, switch>>

(* Transition_WanInterfaceTearDown: every state function checks Enable first *)
PriTearDown ==
    /\ pri.st \in {"WAITING", "CONFIGURING", "SCANNING", "DECONFIGURING",
                   "VALIDATED", "UP", "ACTIVE", "DOWN"}
    /\ ~ pri.en
    /\ ifc' = [ifc EXCEPT ![pri.idx].Phy = "UNKNOWN",
                          ![pri.idx].Sel = "NOT_SELECTED",
                          ![pri.idx].Status = "DISABLED"]
    /\ wan' = SendWan(wan, "stop")
    /\ PriGoto("TEARDOWN")
    /\ UNCHANGED <<conf, link, asked, mode, switch>>

(* State_WanInterfaceTearDown                                                *)
PriTornDown ==
    /\ At("TEARDOWN")
    /\ PriGoto(CASE pri.op # mode.sel -> "EXIT"
                 [] AutoMode /\ mode.cur = "UNKNOWN" -> "SELECTING"
                 [] OTHER -> "DOWN")
    /\ UNCHANGED data

(* The state machine function returns and WanMgr_Policy_AutoWan starts over. *)
PriExit ==
    /\ pri.st = "EXIT"
    /\ PriGoto("INIT")
    /\ UNCHANGED data

-----------------------------------------------------------------------------
(* Transition_FixedWanInterfaceUp                                            *)
WanInterfaceUpFixed(i) ==
    /\ ifc' = [ifc EXCEPT ![i].ActiveLink = TRUE, ![i].Status = "UP",
                          ![i].Sel = "SELECTED", ![i].Conn = @ \/ TAD]
    /\ wan' = SendWan(IF TAD THEN SetConnectivityCheckState(wan, "STARTING") ELSE wan,
                       "start")

(* Mutant: the backup thread is not told                                     *)
WanInterfaceDownUnannounced(i) ==
    /\ ifc' = [ifc EXCEPT ![i].Sel = "NOT_SELECTED", ![i].Status = "DISABLED",
                          ![i].Conn = @ /\ ~ TAD]
    /\ wan' = SendWan(IF TAD
                      THEN SetConnectivityCheckState(ConfigReset(wan, FALSE), "STOPPED")
                      ELSE wan, "stop")
    /\ PriGoto("DOWN")
    /\ UNCHANGED <<conf, link, asked, mode, switch>>

(* Transition_FixedWanInterfaceDown; State_WanInterfaceActive and            *)
(* State_WanInterfaceUp do the same in line                                  *)
WanInterfaceDown(i) ==
    /\ ifc' = [ifc EXCEPT ![i].Sel = "NOT_SELECTED", ![i].Status = "DISABLED",
                          ![i].Conn = @ /\ ~ TAD]
    /\ wan' = SendWan(IF TAD
                      THEN SetConnectivityCheckState(ConfigReset(wan, FALSE), "STOPPED")
                      ELSE wan, "stop")
    /\ switch' = "STARTED"
    /\ PriGoto("DOWN")
    /\ UNCHANGED <<conf, link, asked, mode>>

(* Transition_FixedWanInterfaceValidating: a DHCP client is tried on an      *)
(* enabled interface with a link.                                            *)
Validated(i, ok) ==
    IF ifc[i].Enable /\ ifc[i].Phy # "DOWN" THEN Udhcpc(i, ok) ELSE ~ ok

(* Transition_WanInterfaceValidating                                         *)
WanInterfaceValidating(i) ==
    /\ \E ok \in BOOLEAN :
          /\ Validated(i, ok)
          /\ ifc' = IF ok THEN [ifc EXCEPT ![i].Sel = "SELECTED"] ELSE ifc
          /\ PriGoto(IF ok THEN "VALIDATED" ELSE pri.st)
    /\ UNCHANGED wan

(* Transition_AutoWanInterfaceValidating, of an interface that is waited for *)
(* or configured                                                             *)
AutoWanInterfaceValidating(i) ==
    /\ \E ok \in BOOLEAN :
          /\ Validated(i, ok)
          /\ ifc' = [ifc EXCEPT ![i].Scanned = @ \/ pri.st = "WAITING",
                                ![i].Sel = IF ok THEN "SELECTED" ELSE @]
          /\ PriGoto(IF ok THEN "VALIDATED" ELSE pri.st)
    /\ UNCHANGED <<wan, asked>>

(* A local interface may start at once unless the remote one carries the WAN *)
RemoteNotActive == RemoteSel # "ACTIVE" \/ TAD

MayStart == ~ TAD \/ wan.status = "stopped"

WanBusy == ~ MayStart /\ PriGoto(pri.st) /\ UNCHANGED <<ifc, wan>>

(* State_FixedWanInterfaceDown                                               *)
PriDownFixed ==
    /\ At("DOWN") /\ ~ AutoMode
    /\ Mine.Phy = "UP" /\ Mine.Status = "DISABLED"
    /\ switch' = "STOPED"
    /\ \/ /\ RemoteNotActive /\ MayStart
          /\ WanInterfaceUpFixed(pri.idx)
          /\ PriGoto("UP")
       \/ RemoteNotActive /\ WanBusy
       \/ ~ RemoteNotActive /\ WanInterfaceValidating(pri.idx)
    /\ UNCHANGED <<conf, link, asked, mode>>

(* State_FixedWanInterfaceValidated                                          *)
PriValidatedFixed ==
    /\ At("VALIDATED") /\ ~ AutoMode
    /\ \/ /\ Mine.Phy = "DOWN" \/ Mine.Sel = "NOT_SELECTED"
          /\ WanInterfaceDown(pri.idx)
       \/ /\ Mine.Phy # "DOWN" /\ Mine.Sel # "NOT_SELECTED"
          /\ RemoteSel \in {"NOT_SELECTED", "SELECTED"}
          /\ WanInterfaceUpFixed(pri.idx)
          /\ PriGoto("UP")
          /\ UNCHANGED <<conf, link, asked, mode, switch>>

(* The first part of State_FixedWanInterfaceUp, State_FixedWanInterfaceActive, *)
(* State_WanInterfaceUp and State_WanInterfaceActive                         *)
LinkGone == Mine.Phy = "DOWN" /\ (~ TAD \/ wan.service = "started")

LinkDown == LinkGone /\ WanInterfaceDown(pri.idx)

(* WanMgr_DnsCheckWaitForRemoteInActive: the last part of the way from       *)
(* standby is free as soon as the remote interface does not carry the WAN    *)
DnsCheckWaitForRemoteInActive ==
    /\ TAD /\ ~ LinkGone
    /\ Mine.Conn
    /\ wan.check = "STARTING" /\ wan.status = "standby"
    /\ RemoteSel # "ACTIVE"
    /\ switch' = "STOPED"
    /\ wan' = SendWan(SetConnectivityCheckState(ConfigReset(wan, TRUE), "STARTED"),
                      "start")
    /\ PriGoto("UP")
    /\ UNCHANGED <<conf, ifc, link, asked, mode>>

(* Transition_WanInterfaceActive; the fixed modes leave Status alone         *)
WanInterfaceActive ==
    /\ ~ LinkGone /\ WanUp /\ wan.route
    /\ ifc' = [ifc EXCEPT ![pri.idx].Sel = "ACTIVE",
                          ![pri.idx].Status = IF AutoMode THEN "UP" ELSE @]
    /\ PriGoto("ACTIVE")
    /\ UNCHANGED <<conf, link, asked, wan, mode, switch>>

(* No connectivity, and a backup that has it                                 *)
ConnectivityLost ==
    /\ TAD /\ ~ LinkGone
    /\ RemoteSel \in {"SELECTED", "ACTIVE"} /\ BackupConnGood
    /\ ~ Mine.Conn

(* Transition_DnsConnectivityCheckUp, Transition_FixedDnsConnectivityCheckUp *)
DnsConnectivityCheckUp(w) ==
    /\ ifc' = [ifc EXCEPT ![pri.idx].Sel = "SELECTED"]
    /\ wan' = SendWan(SetConnectivityCheckState(w, "STARTING"), "start")
    /\ PriGoto("UP")

FallBack ==
    /\ ConnectivityLost
    /\ DnsConnectivityCheckUp(SendWan(ConfigReset(wan, FALSE), "stop"))
    /\ switch' = "STARTED"
    /\ UNCHANGED <<conf, link, asked, mode>>

(* State_FixedWanInterfaceUp                                                 *)
PriUpFixed ==
    /\ At("UP") /\ ~ AutoMode
    /\ LinkDown \/ DnsCheckWaitForRemoteInActive \/ WanInterfaceActive

(* State_FixedWanInterfaceActive                                             *)
PriActiveFixed == At("ACTIVE") /\ ~ AutoMode /\ (LinkDown \/ FallBack)

(* State_WanInterfaceUp                                                      *)
PriUpAuto ==
    /\ At("UP") /\ AutoMode
    /\ LinkDown \/ DnsCheckWaitForRemoteInActive \/ WanInterfaceActive

(* State_WanInterfaceActive                                                  *)
PriActiveAuto == At("ACTIVE") /\ AutoMode /\ (LinkDown \/ FallBack)

-----------------------------------------------------------------------------
(* StartWanClients: the WAN is started on an interface of the last mode, and *)
(* stopped before if the previous interface was of the other type; on an     *)
(* interface of the other type only a DHCP client is started                 *)
StartWanClients(w, i, last) ==
    IF TypeOf(i) # last THEN w
    ELSE IF TypeOf(pri.prev) # last THEN SendWan(SendWan(w, "stop"), "start")
    ELSE SendWan(w, "start")

(* Transition_WanInterfacePhyUp, of a scanned interface                      *)
WanInterfacePhyUp(i) ==
    /\ ifc' = [ifc EXCEPT ![i].Scanned = TRUE, ![i].Ip = "UNKNOWN",
                          ![i].Sel = "SELECTED"]
    /\ wan' = StartWanClients(wan, i, mode.last)
    /\ asked' = asked \cup {i}
    /\ PriGoto("SCANNING")

(* Transition_WanInterfaceConfigured                                         *)
WanInterfaceConfigured(i) ==
    /\ ifc' = [ifc EXCEPT ![i].Ip = "UNKNOWN", ![i].Sel = "SELECTED",
                          ![i].Status = "DISABLED"]
    /\ wan' = StartWanClients(wan, i, mode.last)
    /\ asked' = asked \cup {i}
    /\ PriGoto("SCANNING")

(* State_WaitingForInterface                                                 *)
PriWaiting ==
    /\ At("WAITING")
    /\ \/ /\ Mine.Phy = "DOWN"
          /\ ifc' = [ifc EXCEPT ![pri.idx].Scanned = TRUE]
          /\ PriGoto("DECONFIGURING")
          /\ UNCHANGED <<wan, asked, switch>>
       \/ /\ Mine.Phy = "UP"
          /\ switch' = "STOPED"
          /\ \/ /\ pri.idx # pri.prev
                /\ ifc' = [ifc EXCEPT ![pri.idx].Scanned = TRUE]
                /\ PriGoto("CONFIGURING")
                /\ UNCHANGED <<wan, asked>>
             \/ /\ pri.idx = pri.prev /\ ~ RemoteNotActive
                /\ AutoWanInterfaceValidating(pri.idx)
             \/ /\ pri.idx = pri.prev /\ RemoteNotActive /\ MayStart
                /\ WanInterfacePhyUp(pri.idx)
             \/ /\ pri.idx = pri.prev /\ RemoteNotActive /\ ~ MayStart
                /\ ifc' = [ifc EXCEPT ![pri.idx].Scanned = TRUE]
                /\ PriGoto("WAITING")
                /\ UNCHANGED <<wan, asked>>
    /\ UNCHANGED <<conf, link, mode>>

(* State_WanConfiguringInterface: the requests to configure the WAN side of  *)
(* the interface may fail ("configure" events)                               *)
PriConfiguring ==
    /\ At("CONFIGURING")
    /\ \/ /\ <<"configure", pri.idx>> \in Happens
          /\ PriGoto("DECONFIGURING")
          /\ UNCHANGED <<ifc, wan, asked>>
       \/ /\ RemoteSel = "ACTIVE"
          /\ AutoWanInterfaceValidating(pri.idx)
       \/ /\ RemoteSel # "ACTIVE"
          /\ WanInterfaceConfigured(pri.idx)
    /\ UNCHANGED <<conf, link, mode, switch>>

(* State_WanDeConfiguringInterface                                           *)
PriDeconfiguring ==
    /\ At("DECONFIGURING")
    /\ ifc' = [ifc EXCEPT ![pri.idx].ActiveLink = FALSE]
    /\ PriGoto("SELECTING")
    /\ UNCHANGED <<conf, link, asked, wan, mode, switch>>

(* Transition_WaitingForInterface                                            *)
WaitingForInterface(i) ==
    /\ ifc' = [ifc EXCEPT ![i].ActiveLink = TRUE, ![i].Phy = "UNKNOWN",
                 ![i].Sel = "NOT_SELECTED", ![i].Status = "DISABLED"]
    /\ asked' = asked \cup {i}

(* WanMgr_Policy_AutoWan_SelectAlternateInterface with                       *)
(* Transition_WaitingForInterface; it does not look at Enable                *)
PriSelectAlternate ==
    /\ pri.st = "SELECTING" /\ AutoMode
    /\ IF Local = {pri.idx}
       THEN PriGoto("WAITING") /\ UNCHANGED <<ifc, asked>>
       ELSE LET i == CHOOSE j \in Local : j # pri.idx
            IN  /\ pri' = [pri EXCEPT !.st = "WAITING", !.prev = pri.idx, !.idx = i,
                                      !.en = conf.Enable]
                /\ WaitingForInterface(i)
    /\ UNCHANGED <<conf, link, wan, mode, switch>>

(* Transition_WanInterfaceUp: the type of the interface becomes the mode;    *)
(* where it was another one the device reboots (AutoWan_BkupAndReboot), or   *)
(* the clients are started                                                   *)
WanInterfaceUpAuto(w) ==
    LET i == pri.idx
        checked == IF TAD THEN SetConnectivityCheckState(w, "STARTING") ELSE w
        clients == IF mode.last # TypeOf(i) /\ NoReboot
                   THEN StartWanClients(checked, i, TypeOf(i)) ELSE checked
    IN  /\ ifc' = [ifc EXCEPT ![i].Sel = "SELECTED", ![i].Conn = @ \/ TAD]
        /\ mode' = SetCurrentWanMode(SetLastKnownWanMode(mode, TypeOf(i)), TypeOf(i))
        /\ wan' = IF TAD THEN SendWan(clients, "start") ELSE clients
        /\ pri' = [pri EXCEPT !.st = "UP", !.en = conf.Enable,
                     !.reboot = @ \/ (mode.last # TypeOf(i) /\ ~ NoReboot)]

(* State_WanScanningInterface                                                *)
PriScanning ==
    /\ At("SCANNING")
    /\ \/ /\ Mine.Ip = "UP"
          /\ WanInterfaceUpAuto(wan)
       \/ /\ Mine.Ip = "DOWN"
          /\ PriGoto("DECONFIGURING")
          /\ UNCHANGED <<ifc, mode, wan>>
    /\ UNCHANGED <<conf, link, asked, switch>>

(* State_WanInterfaceDown                                                    *)
PriDownAuto ==
    /\ At("DOWN") /\ AutoMode
    /\ Mine.Phy = "UP"
    /\ switch' = "STOPED"
    /\ \/ RemoteNotActive /\ MayStart /\ WanInterfaceUpAuto(SendWan(wan, "start"))
       \/ RemoteNotActive /\ WanBusy /\ UNCHANGED mode
       \/ ~ RemoteNotActive /\ WanInterfaceValidating(pri.idx) /\ UNCHANGED mode
    /\ UNCHANGED <<conf, link, asked>>

(* State_WanInterfaceValidated: wan-start is sent until the service starts   *)
PriValidatedAuto ==
    /\ At("VALIDATED") /\ AutoMode
    /\ \/ /\ Mine.Phy = "DOWN" \/ Mine.Sel = "NOT_SELECTED"
          /\ ifc' = [ifc EXCEPT ![pri.idx].Status = "DISABLED",
                                ![pri.idx].Sel = "NOT_SELECTED"]
          /\ PriGoto("DOWN")
          /\ UNCHANGED <<wan, mode>>
       \/ /\ Mine.Phy # "DOWN" /\ Mine.Sel # "NOT_SELECTED"
          /\ RemoteSel \in {"NOT_SELECTED", "SELECTED"}
          /\ IF wan.service # "stopped"
             THEN WanInterfaceUpAuto(SendWan(wan, "start"))
             ELSE /\ wan' = SendWan(wan, "start")
                  /\ PriGoto("VALIDATED")
                  /\ UNCHANGED <<ifc, mode>>
    /\ UNCHANGED <<conf, link, asked, switch>>

-----------------------------------------------------------------------------
(* The device carries the reboot out (external).  syscfg survives.           *)
Reboot ==
    /\ pri.reboot
    /\ ifc' = [i \in Ifs |->
                 [Enable |-> ifc[i].Enable, Phy |-> IF link[i] THEN "UP" ELSE "DOWN",
                  Sel |-> "NOT_SELECTED", Status |-> "DISABLED",
                  ActiveLink |-> FALSE, Scanned |-> FALSE, Vlan |-> FALSE,
                  RemoteUp |-> ifc[i].RemoteUp, Conn |-> FALSE, Ip |-> "UNKNOWN"]]
    /\ asked' = {}
    /\ wan' = [status |-> "stopped", service |-> "stopped", req |-> <<>>,
               route |-> FALSE, check |-> "DISABLED"]
    /\ mode' = [mode EXCEPT !.cur = "UNKNOWN"]
    /\ switch' = "NONE"
    /\ pri' = [st |-> "INIT", idx |-> NoIf, prev |-> NoIf, op |-> mode.sel,
               en |-> FALSE, reboot |-> FALSE]
    /\ UNCHANGED <<conf, link>>

PriNext ==
    \/ PriSample \/ PriStartFixed \/ PriStartAuto \/ PriSelectFixed
    \/ PriTearDown \/ PriTornDown \/ PriExit
    \/ PriDownFixed \/ PriValidatedFixed \/ PriUpFixed \/ PriActiveFixed
    \/ PriUpAuto \/ PriActiveAuto
    \/ PriWaiting \/ PriConfiguring \/ PriDeconfiguring \/ PriSelectAlternate
    \/ PriScanning \/ PriDownAuto \/ PriValidatedAuto
=============================================================================
