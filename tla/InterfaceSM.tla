----------------------------- MODULE InterfaceSM ------------------------------
(* The state machine of one virtual interface (wanmgr_interface_sm.c) in     *)
(* detail: the states of eWanState_t, the layers below it (VLAN, PPP, the    *)
(* DHCP clients, MAP-T, the connectivity check), the system events it sets   *)
(* for the rest of the device, and the messages of the DHCP Manager          *)
(* (FEATURE_RDKB_DHCP_MANAGER), which a thread of its own delivers each.     *)
(*                                                                           *)
(* IfaceSM is what the selection and failover threads rely on; the property  *)
(* ImplementsIfaceSM states that the machine that follows implements it.     *)
(*                                                                           *)
(* A transition is a function of the data of the virtual interface, since    *)
(* the code composes them: wan_transition_physical_interface_down runs three *)
(* others before it.  Every state function is one lock section.              *)
EXTENDS Integers, FiniteSets

CONSTANTS
    Profiles,      \* the settings of the interface a run explores
    Modes,         \* the values of IP.Mode that are written
    Happens,       \* the kinds of events a run explores
    MaxPending     \* bound: event threads that wait for the mutex at once

(* vlan, ppp, mapt: VLAN.Enable, PPP.Enable (and then IP.IPv4Source = PPP),  *)
(* EnableMAPT; maptMode: IP.SelectedMode = MAPT_MODE; tad: the connectivity  *)
(* check is TAD, else IHC; vlans: VLAN.NoOfInterfaceEntries > 1.             *)
Profile == [vlan : BOOLEAN, vlans : BOOLEAN, ppp : BOOLEAN, mapt : BOOLEAN,
            maptMode : BOOLEAN, tad : BOOLEAN]

ASSUME StackAssumption ==
    /\ Profiles \subseteq Profile
    /\ Modes \subseteq {"NO_IP", "IPV4_ONLY", "IPV6_ONLY", "DUAL_STACK"}
    /\ MaxPending \in Nat

VARIABLES
    prof,  \* the settings, which do not change
    ctl,   \* the thread's copies: WanEnable and DeviceNwModeChanged
    adm,   \* what other threads write: Enable, Selection, BaseInterfaceStatus
    w,     \* DML_VIRTUAL_IFACE, the state of its machine and its system events
    msgs   \* the event threads of the DHCP Manager that wait for the mutex

svars == <<prof, ctl, adm, w, msgs>>

Configuring == {"VLAN_CONFIGURING", "PPP_CONFIGURING", "VALIDATING"}
Leased == {"IPV4_LEASED", "IPV6_LEASED", "DUAL_STACK", "MAPT_ACTIVE"}
Loop == Configuring \cup Leased \cup {"OBTAINING", "STANDBY", "REFRESHING"}
SMStates == Loop \cup {"none", "created", "DECONFIGURING", "EXIT"}
LinkStates == {"DOWN", "CONFIGURING", "UP"}

(* Messages per address family; STOPPED stands for STOPPED and FAILED, MAPT  *)
(* is an UPDATE with MAP-T parameters.                                       *)
Messages == {4, 6} \X {"UPDATE", "RENEW", "DEL", "STARTED", "STOPPED"} \cup {<<6, "MAPT">>}

AdmType == [Enable : BOOLEAN, NwModeChanged : BOOLEAN, ResetScan : BOOLEAN,
            IfEnable : BOOLEAN, Sel : {"NOT_SELECTED", "SELECTED", "ACTIVE"},
            Phy : BOOLEAN]

(* vlanReq and pppReq are the last request to the VLAN and PPP managers;     *)
(* d4 and d6 are Dhcp4cStatus and Dhcp6cStatus = STARTED, run4 and run6 the  *)
(* clients themselves; conn4, conn6 and wan are the system events            *)
(* ipv4_connection_state, ipv6_connection_state and wan-status; dns are the  *)
(* address families whose name servers are in resolv.conf, which can always  *)
(* be written; late says that a message arrived after what it reports was    *)
(* over: a client stopped or started since, a lease lost.                    *)
WType == [st : SMStates, SMRunning : BOOLEAN,
          Status : {"DISABLED", "INITIALISING", "VALIDATING", "STANDBY", "UP"},
          Reset : BOOLEAN, VReset : BOOLEAN, Expired : BOOLEAN,
          VLAN : LinkStates, PPP : LinkStates, V6CP : BOOLEAN,
          vlanReq : BOOLEAN, pppReq : BOOLEAN,
          Mode : {"NO_IP", "IPV4_ONLY", "IPV6_ONLY", "DUAL_STACK"}, Refresh : BOOLEAN,
          v4 : BOOLEAN, v6 : BOOLEAN, mapt : BOOLEAN,
          ch4 : BOOLEAN, ch6 : BOOLEAN, chM : BOOLEAN,
          feature : BOOLEAN, featureChanged : BOOLEAN,
          d4 : BOOLEAN, d6 : BOOLEAN, run4 : BOOLEAN, run6 : BOOLEAN,
          timer : {"NOTSTARTED", "RUNNING", "EXPIRED", "COMPLETE"},
          Conn : BOOLEAN, check : BOOLEAN,
          conn4 : BOOLEAN, conn6 : BOOLEAN, wan : BOOLEAN, dns : SUBSET {4, 6},
          late : BOOLEAN]

StackTypeOK ==
    /\ prof \in Profiles
    /\ ctl \in [en : BOOLEAN, nw : BOOLEAN]
    /\ adm \in AdmType
    /\ w \in WType
    /\ msgs \subseteq Messages

(* WanMgr_VirtIface_Init and WanMgr_IfaceData_Init                           *)
StackInit ==
    /\ prof \in Profiles
    /\ ctl = [en |-> FALSE, nw |-> FALSE]
    /\ adm = [Enable |-> TRUE, NwModeChanged |-> FALSE, ResetScan |-> FALSE,
              IfEnable |-> TRUE, Sel |-> "SELECTED", Phy |-> TRUE]
    /\ \E m \in Modes :
         w = [st |-> "none", SMRunning |-> FALSE, Status |-> "DISABLED",
              Reset |-> FALSE, VReset |-> FALSE, Expired |-> FALSE,
              VLAN |-> "DOWN", PPP |-> "DOWN", V6CP |-> FALSE,
              vlanReq |-> FALSE, pppReq |-> FALSE, Mode |-> m, Refresh |-> FALSE,
              v4 |-> FALSE, v6 |-> FALSE, mapt |-> FALSE,
              ch4 |-> FALSE, ch6 |-> FALSE, chM |-> FALSE,
              feature |-> TRUE, featureChanged |-> FALSE,
              d4 |-> FALSE, d6 |-> FALSE, run4 |-> FALSE, run6 |-> FALSE,
              timer |-> "NOTSTARTED", Conn |-> FALSE, check |-> FALSE,
              conn4 |-> FALSE, conn6 |-> FALSE, wan |-> FALSE,
              dns |-> {}, late |-> FALSE]
    /\ msgs = {}

-----------------------------------------------------------------------------
(* The conditions of the state functions.                                    *)
IfDown == ~ ctl.en \/ ~ adm.IfEnable \/ adm.Sel = "NOT_SELECTED" \/ ~ adm.Phy
Active == adm.Sel = "ACTIVE"
VlanDown(x) == prof.vlan /\ x.VLAN = "DOWN"
PppNotUp(x) == prof.ppp /\ x.PPP # "UP"
Wants4(x) == ~ prof.ppp /\ x.Mode \in {"IPV4_ONLY", "DUAL_STACK"}
Wants6(x) == x.Mode \in {"IPV6_ONLY", "DUAL_STACK"}
MustStop(x) == IfDown \/ x.Reset \/ x.VReset

Goto(x, s) == [x EXCEPT !.st = s]

(* WanManager_StartDhcpv4Client .. WanManager_StopDhcpv6Client               *)
Start4(x) == [x EXCEPT !.d4 = TRUE, !.run4 = TRUE]
Start6(x) == [x EXCEPT !.d6 = TRUE, !.run6 = TRUE]
Stop4(x) == [x EXCEPT !.d4 = FALSE, !.run4 = FALSE]
Stop6(x) == [x EXCEPT !.d6 = FALSE, !.run6 = FALSE]
StopStarted4(x) == IF x.d4 THEN Stop4(x) ELSE x
StopStarted6(x) == IF x.d6 THEN Stop6(x) ELSE x

(* WanManager_UpdateInterfaceStatus                                          *)
ConnectionDown4(x) == [x EXCEPT !.v4 = FALSE, !.ch4 = FALSE]
ConnectionDown6(x) ==
    [x EXCEPT !.v6 = FALSE, !.ch6 = FALSE, !.mapt = FALSE, !.chM = FALSE]

(* WanManager_ClearDHCPData: the statuses of the clients, not the clients    *)
ClearDHCPData(x) ==
    [x EXCEPT !.v4 = FALSE, !.ch4 = FALSE, !.v6 = FALSE, !.ch6 = FALSE,
              !.d4 = FALSE, !.d6 = FALSE]

(* WanMgr_StartConnectivityCheck: IHC only runs on an interface in service   *)
StartCheck(x) == [x EXCEPT !.check = @ \/ prof.tad \/ x.Status = "UP"]

StopCheck(x) == [x EXCEPT !.check = FALSE]

(* The other address family has its name servers when its status is UP.      *)
Families(x) == {f \in {4, 6} : IF f = 4 THEN x.v4 ELSE x.v6}
(* Mutant: only the family that came up is written                           *)
AddDNSOnly(x, f) == [x EXCEPT !.dns = {f}]
AddDNS(x, f) == [x EXCEPT !.dns = Families(x) \cup {f}]
RemoveDNS(x, f) == [x EXCEPT !.dns = Families(x) \ {f}]

SetUpIPv4(x) == StartCheck([AddDNS(x, 4) EXCEPT !.conn4 = TRUE, !.wan = TRUE])
SetUpIPv6(x) == StartCheck([AddDNS(x, 6) EXCEPT !.conn6 = TRUE, !.wan = TRUE])
TearDownIPv4(x) == [RemoveDNS(x, 4) EXCEPT !.conn4 = FALSE, !.wan = @ /\ x.v6]
TearDownIPv6(x) == [RemoveDNS(x, 6) EXCEPT !.conn6 = FALSE, !.wan = @ /\ (x.v4 \/ x.mapt)]

(* A changed lease: tear down, set up.  r is the first call that fails; the  *)
(* mark of the change then stays and the next iteration tries again.         *)
Results == {"ok", "teardown", "setup"}
Reconfigure4(x, r) ==
    LET down == TearDownIPv4(x)
    IN  CASE r = "teardown" -> down
          [] r = "setup"    -> SetUpIPv4(down)
          [] r = "ok"       -> [SetUpIPv4(down) EXCEPT !.ch4 = FALSE]
Reconfigure6(x, r) ==
    LET down == TearDownIPv6(x)
    IN  CASE r = "teardown" -> down
          [] r = "setup"    -> SetUpIPv6(down)
          [] r = "ok"       -> [SetUpIPv6(down) EXCEPT !.ch6 = FALSE]

-----------------------------------------------------------------------------
(* wan_transition_...                                                        *)
Ipv4Up(x) ==
    LET up == [SetUpIPv4([x EXCEPT !.Status = "UP"]) EXCEPT !.ch4 = FALSE]
    IN  Goto(up, IF up.v6 /\ up.conn6 THEN "DUAL_STACK" ELSE "IPV4_LEASED")

Ipv6Up(x) ==
    LET up == SetUpIPv6([x EXCEPT !.Status = "UP"])
    IN  Goto(up, IF up.v4 /\ up.conn4 THEN "DUAL_STACK" ELSE "IPV6_LEASED")

BackToObtaining(x) == [x EXCEPT !.Status = "VALIDATING", !.st = "OBTAINING"]

Ipv4Down(x) ==
    LET client == IF MustStop(x) \/ VlanDown(x) \/ (x.Refresh /\ ~ Wants4(x))
                  THEN StopStarted4(x)
                  ELSE IF ~ x.d4 /\ ~ prof.ppp /\ ~ (prof.mapt /\ Active /\ x.mapt)
                  THEN Start4(x) ELSE x
        gone == ConnectionDown4(client)
        down == IF x.Status = "UP" THEN TearDownIPv4(gone) ELSE gone
    IN  IF down.v6 /\ down.conn6 THEN Goto(down, "IPV6_LEASED") ELSE BackToObtaining(down)

Ipv6Down(x) ==
    LET client == IF MustStop(x) \/ VlanDown(x) \/ PppNotUp(x) \/ (x.Refresh /\ ~ Wants6(x))
                  THEN Stop6(x)
                  ELSE IF ~ x.d6 THEN Start6(x) ELSE x
        gone == ConnectionDown6(client)
        down == IF x.Status = "UP" THEN TearDownIPv6(gone) ELSE gone
    IN  IF down.v4 /\ down.conn4 THEN Goto(down, "IPV4_LEASED") ELSE BackToObtaining(down)

(* Status is VALIDATING before the two run, so neither tears anything down.  *)
DualStackDown(x) ==
    Goto(Ipv6Down(Ipv4Down([x EXCEPT !.Status = "VALIDATING"])), "OBTAINING")

(* The MAP-T feature was switched: the DHCPv6 client starts over.            *)
MaptFeatureRefresh(x) ==
    LET down == [Ipv6Down(x) EXCEPT !.featureChanged = FALSE]
    IN  Goto(IF Wants6(x) THEN Start6(down) ELSE down, "OBTAINING")

(* r: WanManager_VerifyMAPTConfiguration, the first step, or                 *)
(* WanManager_ProcessMAPTConfiguration, the last one, fails.                 *)
MaptUp(x, r) ==
    LET seen == [x EXCEPT !.chM = FALSE]
        up   == StopStarted4(IF seen.ch4 /\ seen.v4 THEN Ipv4Up(seen) ELSE seen)
        done == [IF up.v4 THEN Ipv4Down(up) ELSE up EXCEPT !.pppReq = FALSE]
    IN  CASE r = "teardown" -> x
          [] r = "setup"    -> Goto(done, x.st)
          [] r = "ok"       -> Goto(done, "MAPT_ACTIVE")

MaptDown(x) ==
    LET down == ConnectionDown4([x EXCEPT !.mapt = FALSE, !.chM = FALSE])
    IN  Goto(IF MustStop(x) \/ ~ Active THEN down
             ELSE IF prof.ppp THEN [down EXCEPT !.pppReq = TRUE] ELSE Start4(down),
             "IPV6_LEASED")

Standby(x) == Goto(StartCheck([x EXCEPT !.Status = "STANDBY"]), "STANDBY")

(* The addresses go while Ipv4Status and Ipv6Status stay UP.                 *)
StandbyDeconfigIps(x) ==
    LET check == IF prof.tad THEN x ELSE StopCheck(x)
        no4   == IF x.v4 THEN TearDownIPv4(check) ELSE check
        no6   == IF x.v6 THEN [TearDownIPv6(no4) EXCEPT !.ch6 = TRUE] ELSE no4
    IN  [no6 EXCEPT !.Status = "STANDBY", !.st = "STANDBY"]

(* Mutant: the clients keep running                                          *)
PhysicalDownKeepsClients(x) ==
    LET no4 == IF x.v4 THEN Ipv4Down(x) ELSE x
        no6 == IF no4.v6 THEN Ipv6Down(no4) ELSE no4
    IN  Goto([no6 EXCEPT !.vlanReq = FALSE, !.check = FALSE,
                         !.VLAN = IF @ = "CONFIGURING" THEN "DOWN" ELSE @],
             IF x.Reset \/ x.VReset \/ x.Expired THEN "REFRESHING" ELSE "DECONFIGURING")
PhysicalInterfaceDown(x) ==
    LET noMapt == IF x.mapt THEN MaptDown(x) ELSE x
        no4    == IF noMapt.v4 THEN Ipv4Down(noMapt) ELSE noMapt
        no6    == IF no4.v6 THEN Ipv6Down(no4) ELSE no4
        none   == StopStarted6(StopStarted4(no6))
    IN  Goto([StopCheck(none) EXCEPT !.timer = "NOTSTARTED",
                          !.pppReq = FALSE, !.vlanReq = FALSE,
                          !.PPP = IF @ = "CONFIGURING" THEN "DOWN" ELSE @,
                          !.VLAN = IF @ = "CONFIGURING" THEN "DOWN" ELSE @],
             IF x.Reset \/ x.VReset \/ x.Expired THEN "REFRESHING" ELSE "DECONFIGURING")

Expire(x) == PhysicalInterfaceDown([x EXCEPT !.Expired = TRUE])

ConfigureVlan(x) ==
    IF prof.vlan /\ x.VLAN = "DOWN"
    THEN [x EXCEPT !.VLAN = "CONFIGURING", !.vlanReq = TRUE] ELSE x

ConfigurePpp(x) ==
    Goto(IF prof.ppp /\ x.PPP = "DOWN"
         THEN [x EXCEPT !.PPP = "CONFIGURING", !.pppReq = TRUE] ELSE x,
         "PPP_CONFIGURING")

(* With MAP-T preferred only DHCPv6 is started, and a timer; when it expires *)
(* this runs again and starts the rest.                                      *)
WanValidated(x) ==
    LET clean == [IF x.timer = "EXPIRED" THEN x ELSE ClearDHCPData(x) EXCEPT !.Conn = TRUE]
        with4 == IF Wants4(x) THEN Start4(clean) ELSE clean
    IN  Goto(IF prof.maptMode /\ x.timer # "EXPIRED"
             THEN [Start6(clean) EXCEPT !.timer = "RUNNING"]
             ELSE IF Wants6(x) /\ ~ with4.d6 THEN Start6(with4) ELSE with4,
             "OBTAINING")

(* Mutant: the transition returns no state of the machine                    *)
WanRefreshedReturnsFailure(x) ==
    Goto([ConfigureVlan(x) EXCEPT !.Reset = FALSE, !.VReset = FALSE, !.Expired = FALSE], "-1")
WanRefreshed(x) ==
    Goto([ConfigureVlan(x) EXCEPT !.Reset = FALSE, !.VReset = FALSE, !.Expired = FALSE],
         "VLAN_CONFIGURING")

(* WanMgr_MonitorDhcpApps: a request to refresh DHCP is done when the        *)
(* clients that run are those the mode asks for.                             *)
MonitorDhcp(x) ==
    IF ~ ctl.en \/ adm.Sel = "NOT_SELECTED" \/ ~ adm.IfEnable THEN x
    ELSE [x EXCEPT !.Refresh = @ /\ <<x.d4, x.d6>> #
              CASE x.Mode = "NO_IP"      -> <<FALSE, FALSE>>
                [] x.Mode = "IPV6_ONLY"  -> <<FALSE, TRUE>>
                [] x.Mode = "IPV4_ONLY"  -> <<TRUE, FALSE>>
                [] x.Mode = "DUAL_STACK" -> <<TRUE, TRUE>>]

-----------------------------------------------------------------------------
(* wan_state_...: late is "the timer of the VLAN (or of MAP-T) ran out",     *)
(* ready the answer of checkIpv6LanAddressIsReadyToUse: whether the kernel   *)
(* has an IPv6 default route, once duplicate address detection was waited    *)
(* for; without one it asks for a router advertisement.                      *)
Ready == BOOLEAN
VlanTimeout(x, late) == prof.vlans /\ (x.VReset \/ late)

(* EnableMAPT, the feature just switched on, MAP-T not in use                *)
MaptSwitchedOn(x) == prof.mapt /\ Active /\ x.featureChanged /\ x.feature /\ ~ x.mapt

VlanConfiguring(x, late) ==
    IF IfDown THEN PhysicalInterfaceDown(x)
    ELSE IF VlanTimeout(x, late) THEN Expire(x)
    ELSE IF prof.vlan /\ x.VLAN # "UP" THEN x
    ELSE ConfigurePpp(x)

PppConfiguring(x, late) ==
    IF IfDown THEN PhysicalInterfaceDown(x)
    ELSE IF VlanTimeout(x, late) THEN Expire(x)
    ELSE IF prof.ppp /\ ~ (x.PPP = "UP" /\ (Wants6(x) => x.V6CP)) THEN x
    ELSE [x EXCEPT !.Status = "VALIDATING", !.st = "VALIDATING"]

ValidatingWan(x, late) ==
    IF IfDown THEN PhysicalInterfaceDown(x)
    ELSE IF VlanTimeout(x, late) THEN Expire(x)
    ELSE WanValidated(x)

RefreshClients(x) ==
    LET with4 == IF ~ Wants4(x) THEN StopStarted4(x)
                 ELSE IF x.d4 THEN x ELSE Start4(x)
        with6 == IF ~ Wants6(x) THEN StopStarted6(with4)
                 ELSE IF x.d6 THEN with4 ELSE Start6(with4)
    IN  [with6 EXCEPT !.Refresh = FALSE,
                      !.Status = IF ~ with6.d4 /\ ~ with6.d6 THEN "VALIDATING" ELSE @]

Lease(x, ready) ==
    IF x.v4 THEN IF Active THEN Ipv4Up(x) ELSE Standby(x)
    ELSE IF x.v6 /\ ~ Active THEN Standby(x)
    ELSE IF x.v6 /\ x.ch6 THEN [x EXCEPT !.ch6 = FALSE]
    ELSE IF x.v6 /\ ready THEN Ipv6Up(x)
    ELSE IF ~ x.v6 /\ MaptSwitchedOn(x) THEN MaptFeatureRefresh(x)
    ELSE x

ObtainingIp(x, late, ready) ==
    LET y == IF prof.maptMode /\ x.mapt THEN [x EXCEPT !.timer = "COMPLETE"] ELSE x
    IN  IF IfDown \/ x.VLAN = "CONFIGURING" \/ x.PPP = "CONFIGURING" \/ x.Reset
        THEN PhysicalInterfaceDown(x)
        ELSE IF VlanTimeout(x, late) \/ VlanDown(x) \/ (prof.ppp /\ x.PPP = "DOWN")
        THEN Expire(x)
        ELSE IF prof.maptMode /\ y.timer = "RUNNING"
        THEN IF late \/ y.v6 THEN WanValidated([y EXCEPT !.timer = "EXPIRED"]) ELSE y
        ELSE IF y.Refresh THEN RefreshClients(y)
        ELSE Lease(MonitorDhcp(y), ready)

StandbyActive(x, ready) ==
    LET seen == IF x.v6 THEN [x EXCEPT !.ch6 = FALSE] ELSE x
        six  == IF x.v6 /\ ready THEN Ipv6Up(seen) ELSE seen
    IN  IF x.v4 THEN Ipv4Up(six) ELSE six

(* Mutant: the state of the interface is not looked at                       *)
InStandbyUnguarded(x, ready) ==
    LET y == MonitorDhcp(x)
    IN  IF VlanDown(y) \/ PppNotUp(y) \/ (~ y.v4 /\ ~ y.v6) \/ y.Refresh
        THEN Goto(y, "OBTAINING")
        ELSE IF Active THEN StandbyActive(y, ready) ELSE y
InStandby(x, ready) ==
    LET y == MonitorDhcp(x)
    IN  IF IfDown THEN PhysicalInterfaceDown(x)
        ELSE IF VlanDown(y) \/ PppNotUp(y) \/ (~ y.v4 /\ ~ y.v6) \/ y.Refresh
        THEN Goto(y, "OBTAINING")
        ELSE IF Active THEN StandbyActive(y, ready) ELSE y

Ipv4Leased(x, ready, r) ==
    LET y == MonitorDhcp(IF x.Refresh /\ x.Mode = "DUAL_STACK" /\ ~ x.d6
                         THEN Start6(x) ELSE x)
    IN  IF MustStop(y) THEN PhysicalInterfaceDown(y)
        ELSE IF ~ y.v4 \/ VlanDown(y) \/ PppNotUp(y) \/ (y.Refresh /\ ~ Wants4(y))
        THEN Ipv4Down(y)
        ELSE IF ~ Active \/ ctl.nw THEN StandbyDeconfigIps(y)
        ELSE IF y.ch4 THEN Reconfigure4(y, r)
        ELSE IF y.v6 /\ y.ch6 THEN [y EXCEPT !.ch6 = FALSE]
        ELSE IF y.v6 THEN IF ready THEN Ipv6Up(y) ELSE y
        ELSE IF MaptSwitchedOn(y) THEN MaptFeatureRefresh(y) ELSE y

Ipv6Leased(x, ready, r) ==
    LET y == MonitorDhcp(IF x.Refresh /\ Wants4(x) /\ x.Mode = "DUAL_STACK"
                               /\ x.timer # "COMPLETE" /\ ~ x.d4
                         THEN Start4(x) ELSE x)
    IN  IF MustStop(y) THEN PhysicalInterfaceDown(y)
        ELSE IF ~ y.v6 \/ VlanDown(y) \/ PppNotUp(y) \/ (y.Refresh /\ ~ Wants6(y))
        THEN Ipv6Down(y)
        ELSE IF ~ Active \/ ctl.nw THEN StandbyDeconfigIps(y)
        ELSE IF y.ch6 THEN Reconfigure6(y, r)
        ELSE IF y.v4 THEN Ipv4Up(y)
        ELSE IF prof.mapt /\ y.mapt THEN IF ready THEN MaptUp(y, r) ELSE y
        ELSE IF MaptSwitchedOn(y) THEN MaptFeatureRefresh(y) ELSE y

DualStackActive(x, ready, r) ==
    IF MustStop(x) THEN PhysicalInterfaceDown(x)
    ELSE IF VlanDown(x) \/ PppNotUp(x) THEN DualStackDown(x)
    ELSE IF ~ x.v4 \/ (x.Refresh /\ ~ Wants4(x)) THEN Ipv4Down(x)
    ELSE IF ~ Active \/ ctl.nw THEN StandbyDeconfigIps(x)
    ELSE IF x.ch4 THEN MonitorDhcp(Reconfigure4(x, r))
    ELSE IF ~ x.v6 \/ (x.Refresh /\ ~ Wants6(x)) THEN Ipv6Down(x)
    ELSE IF x.ch6 THEN MonitorDhcp(Reconfigure6(x, r))
    ELSE IF prof.mapt /\ x.mapt THEN IF ready THEN MaptUp(x, r) ELSE MonitorDhcp(x)
    ELSE IF MaptSwitchedOn(x) THEN MaptFeatureRefresh(x) ELSE MonitorDhcp(x)

MaptActive(x, r) ==
    IF MustStop(x) THEN PhysicalInterfaceDown(x)
    ELSE IF ~ Active \/ ctl.nw THEN StandbyDeconfigIps(x)
    ELSE IF ~ x.v6 \/ ~ x.mapt \/ (x.Refresh /\ ~ Wants6(x)) \/ VlanDown(x) THEN MaptDown(x)
    ELSE IF x.featureChanged
    THEN IF x.feature THEN MonitorDhcp(x) ELSE MaptFeatureRefresh(MaptDown(x))
    ELSE IF x.ch6
    THEN MonitorDhcp([Reconfigure6(x, r) EXCEPT !.chM = @ \/ r = "ok"])
    ELSE MonitorDhcp([x EXCEPT !.chM = @ /\ r # "ok"])

RefreshingWan(x) ==
    IF IfDown
    THEN PhysicalInterfaceDown([x EXCEPT !.Reset = FALSE, !.VReset = FALSE, !.Expired = FALSE])
    ELSE IF (prof.ppp /\ x.PPP # "DOWN") \/ (prof.vlan /\ x.VLAN # "DOWN") THEN x
    ELSE WanRefreshed(x)

-----------------------------------------------------------------------------
(* The thread.  At the end of an iteration it copies Enable and              *)
(* DeviceNwModeChanged, which it clears; Sample is the same copy taken later. *)
EndIteration ==
    /\ ctl' = [en |-> adm.Enable, nw |-> adm.NwModeChanged]
    /\ adm' = [adm EXCEPT !.NwModeChanged = FALSE]
    /\ UNCHANGED msgs

Sample ==
    /\ w.st \in Loop
    /\ ctl.en # adm.Enable \/ adm.NwModeChanged
    /\ ctl' = [en |-> adm.Enable, nw |-> ctl.nw \/ adm.NwModeChanged]
    /\ adm' = [adm EXCEPT !.NwModeChanged = FALSE]
    /\ UNCHANGED <<w, msgs>>

(* wan_transition_start                                                      *)
Start ==
    /\ w.st = "created"
    /\ w' = ConfigureVlan([w EXCEPT !.v4 = FALSE, !.v6 = FALSE, !.mapt = FALSE,
                                    !.Status = "INITIALISING", !.SMRunning = TRUE,
                                    !.st = "VLAN_CONFIGURING"])
    /\ EndIteration

StateConfiguring ==
    /\ \E late \in BOOLEAN :
          \/ w.st = "VLAN_CONFIGURING" /\ w' = VlanConfiguring(w, late)
          \/ w.st = "PPP_CONFIGURING" /\ w' = PppConfiguring(w, late)
          \/ w.st = "VALIDATING" /\ w' = ValidatingWan(w, late)
    /\ EndIteration

StateObtaining ==
    /\ w.st = "OBTAINING"
    /\ \E late \in BOOLEAN, ready \in Ready : w' = ObtainingIp(w, late, ready)
    /\ EndIteration

StateStandby ==
    /\ w.st = "STANDBY"
    /\ \E ready \in Ready : w' = InStandby(w, ready)
    /\ EndIteration

StateLeased ==
    /\ \E ready \in Ready, r \in Results :
          \/ w.st = "IPV4_LEASED" /\ w' = Ipv4Leased(w, ready, r)
          \/ w.st = "IPV6_LEASED" /\ w' = Ipv6Leased(w, ready, r)
          \/ w.st = "DUAL_STACK" /\ w' = DualStackActive(w, ready, r)
          \/ w.st = "MAPT_ACTIVE" /\ w' = MaptActive(w, r)
    /\ EndIteration

StateRefreshing ==
    /\ w.st = "REFRESHING"
    /\ w' = RefreshingWan(w)
    /\ ctl' = [en |-> adm.Enable, nw |-> adm.NwModeChanged]
    /\ adm' = [adm EXCEPT !.NwModeChanged = FALSE,
                          !.ResetScan = @ \/ (w'.st = "VLAN_CONFIGURING" /\ w.Reset)]
    /\ UNCHANGED msgs

(* wan_state_deconfiguring_wan and wan_transition_exit                       *)
StateDeconfiguring ==
    /\ w.st = "DECONFIGURING"
    /\ prof.ppp => w.PPP = "DOWN"
    /\ prof.vlan => w.VLAN = "DOWN"
    /\ w' = [w EXCEPT !.Status = "DISABLED", !.Reset = FALSE, !.SMRunning = FALSE,
                      !.st = "EXIT"]
    /\ EndIteration

(* wan_state_exit; the thread ends                                           *)
StateExit ==
    /\ w.st = "EXIT"
    /\ w' = Goto(ClearDHCPData(w), "none")
    /\ EndIteration

Thread ==
    \/ Sample \/ Start \/ StateConfiguring \/ StateObtaining \/ StateStandby
    \/ StateLeased \/ StateRefreshing \/ StateDeconfiguring \/ StateExit

-----------------------------------------------------------------------------
(* What is around the machine.  A selection policy starts it on an interface *)
(* that is up and SELECTED.                                                  *)
StartMachine ==
    /\ w.st = "none"
    /\ adm.Sel = "SELECTED" /\ adm.Phy
    /\ w' = Goto(w, "created")
    /\ UNCHANGED <<ctl, adm, msgs>>

(* The VLAN and the PPP manager do what they were last asked to.             *)
LowerLayers ==
    /\ \/ /\ prof.vlan
          /\ w.VLAN # IF w.vlanReq THEN "UP" ELSE "DOWN"
          /\ w' = [w EXCEPT !.VLAN = IF w.vlanReq THEN "UP" ELSE "DOWN"]
       \/ /\ prof.ppp
          /\ w.PPP # IF w.pppReq THEN "UP" ELSE "DOWN"
          /\ w' = [w EXCEPT !.PPP = IF w.pppReq THEN "UP" ELSE "DOWN",
                            !.V6CP = w.pppReq]
    /\ UNCHANGED <<ctl, adm, msgs>>

(* A message is on its way that was not yet.                                 *)
Sends(m) == m \notin msgs /\ Cardinality(msgs) < MaxPending /\ msgs' = msgs \cup {m}

(* A DHCP client that runs, or IPCP on a PPP link that is up, has a lease    *)
(* that the interface does not: the message of it is on its way.             *)
Leases ==
    /\ \/ /\ ~ w.v4 /\ IF prof.ppp THEN w.PPP = "UP" ELSE w.run4
          /\ Sends(<<4, "UPDATE">>)
       \/ /\ ~ w.v6 /\ w.run6
          /\ Sends(<<6, IF prof.mapt /\ w.feature THEN "MAPT" ELSE "UPDATE">>)
    /\ UNCHANGED <<ctl, adm, w>>

(* WanMgr_DhcpClientEventsHandler_Thread: the threads take the mutex in any  *)
(* order; the message is dropped when the machine does not run.              *)
Applied(m, x) ==
    CASE m = <<4, "UPDATE">> -> [x EXCEPT !.v4 = TRUE, !.ch4 = TRUE]
      [] m = <<4, "RENEW">>  -> [x EXCEPT !.v4 = TRUE, !.late = @ \/ ~ x.v4]
      [] m = <<4, "DEL">>    -> ConnectionDown4(x)
      [] m = <<4, "STARTED">> -> [x EXCEPT !.d4 = TRUE, !.late = @ \/ ~ x.run4]
      [] m = <<4, "STOPPED">> -> [x EXCEPT !.d4 = FALSE, !.late = @ \/ x.run4]
      [] m = <<6, "UPDATE">> -> [x EXCEPT !.v6 = TRUE, !.ch6 = TRUE, !.mapt = FALSE, !.chM = FALSE]
      [] m = <<6, "MAPT">>   -> [x EXCEPT !.v6 = TRUE, !.ch6 = TRUE, !.mapt = TRUE, !.chM = TRUE]
      [] m = <<6, "RENEW">>  -> [x EXCEPT !.v6 = TRUE, !.late = @ \/ ~ x.v6]
      [] m = <<6, "DEL">>    -> ConnectionDown6(x)
      [] m = <<6, "STARTED">> -> [x EXCEPT !.d6 = TRUE, !.late = @ \/ ~ x.run6]
      [] m = <<6, "STOPPED">> -> [x EXCEPT !.d6 = FALSE, !.late = @ \/ x.run6]

DhcpEvent ==
    /\ \E m \in msgs : /\ msgs' = msgs \ {m}
                       /\ w' = IF w.SMRunning THEN Applied(m, w) ELSE w
    /\ UNCHANGED <<ctl, adm>>

Around == StartMachine \/ LowerLayers \/ Leases \/ DhcpEvent

-----------------------------------------------------------------------------
(* Events: writes of the other threads and of the data model, failures.      *)
SetEnable ==
    /\ "enable" \in Happens
    /\ adm' = [adm EXCEPT !.Enable = ~ @]
    /\ UNCHANGED <<ctl, w, msgs>>

SetIfEnable ==
    /\ "ifenable" \in Happens
    /\ adm' = [adm EXCEPT !.IfEnable = ~ @]
    /\ UNCHANGED <<ctl, w, msgs>>

SetPhy ==
    /\ "phy" \in Happens
    /\ adm' = [adm EXCEPT !.Phy = ~ @]
    /\ UNCHANGED <<ctl, w, msgs>>

SetSelection ==
    /\ "selection" \in Happens
    /\ \E s \in {"NOT_SELECTED", "SELECTED", "ACTIVE"} \ {adm.Sel} :
          adm' = [adm EXCEPT !.Sel = s]
    /\ UNCHANGED <<ctl, w, msgs>>

(* DeviceNwMode: router or modem mode                                        *)
SetNwMode ==
    /\ "nwmode" \in Happens
    /\ adm' = [adm EXCEPT !.NwModeChanged = TRUE]
    /\ UNCHANGED <<ctl, w, msgs>>

SetReset ==
    /\ "reset" \in Happens
    /\ w' = [w EXCEPT !.Reset = ~ @]
    /\ UNCHANGED <<ctl, adm, msgs>>

(* Bridge mode changes: the virtual interfaces that are up are refreshed.    *)
BridgeModeChanged ==
    /\ "reset" \in Happens
    /\ adm.IfEnable /\ w.Status = "UP"
    /\ w' = [w EXCEPT !.Reset = TRUE]
    /\ UNCHANGED <<ctl, adm, msgs>>

SetVlanReset ==
    /\ "vlanreset" \in Happens
    /\ w' = [w EXCEPT !.VReset = ~ @]
    /\ UNCHANGED <<ctl, adm, msgs>>

SetMode ==
    /\ "mode" \in Happens
    /\ \E m \in Modes \ {w.Mode} : w' = [w EXCEPT !.Mode = m, !.Refresh = TRUE]
    /\ UNCHANGED <<ctl, adm, msgs>>

SetMaptFeature ==
    /\ "mapt" \in Happens
    /\ w' = [w EXCEPT !.feature = ~ @, !.featureChanged = TRUE]
    /\ UNCHANGED <<ctl, adm, msgs>>

(* A layer fails, or reports a state that was asked for before.              *)
LayerFails ==
    /\ "layer" \in Happens
    /\ \/ prof.vlan /\ \E l \in {"UP", "DOWN"} \ {w.VLAN} : w' = [w EXCEPT !.VLAN = l]
       \/ prof.ppp /\ \E l \in {"UP", "DOWN"} \ {w.PPP} :
             w' = [w EXCEPT !.PPP = l, !.V6CP = l = "UP"]
    /\ UNCHANGED <<ctl, adm, msgs>>

(* A lease expires, changes or is renewed.                                   *)
LeaseChanges ==
    /\ "lease" \in Happens
    /\ \E m \in Messages :
          /\ m[2] \notin {"STARTED", "STOPPED"}
          /\ m[1] = 4 => w.v4
          /\ m[1] = 6 => w.v6
          /\ m[2] = "MAPT" => prof.mapt
          /\ Sends(m)
    /\ UNCHANGED <<ctl, adm, w>>

(* A client reports its state, or ends by itself and reports that.           *)
ClientReports ==
    /\ "client" \in Happens
    /\ \E f \in {4, 6} :
          LET run == IF f = 4 THEN w.run4 ELSE w.run6
          IN  \/ Sends(<<f, IF run THEN "STARTED" ELSE "STOPPED">>) /\ UNCHANGED w
              \/ /\ run /\ Sends(<<f, "STOPPED">>)
                 /\ w' = IF f = 4 THEN [w EXCEPT !.run4 = FALSE] ELSE [w EXCEPT !.run6 = FALSE]
    /\ UNCHANGED <<ctl, adm>>

Disturbance ==
    \/ SetEnable \/ SetIfEnable \/ SetPhy \/ SetSelection \/ SetNwMode \/ SetReset
    \/ BridgeModeChanged \/ SetVlanReset \/ SetMode \/ SetMaptFeature \/ LayerFails
    \/ LeaseChanges \/ ClientReports

StackNext == (Thread \/ Around \/ Disturbance) /\ UNCHANGED prof

StackSpec == StackInit /\ [][StackNext]_svars

-----------------------------------------------------------------------------
(* The abstract machine: one interface in one group, one thread.  Its phase  *)
(* and Status forget the layers.                                             *)
AbsPhase ==
    CASE w.st \in {"none", "created"} -> w.st
      [] w.st \in Configuring        -> "config"
      [] w.st = "OBTAINING"          -> "obtain"
      [] w.st = "STANDBY"            -> "standby"
      [] w.st \in Leased             -> "up"
      [] w.st = "REFRESHING"         -> "refresh"
      [] w.st = "DECONFIGURING"      -> "deconfig"
      [] w.st = "EXIT"               -> "exit"

AbsIface ==
    [Group |-> 1, Enable |-> adm.IfEnable, PhyUp |-> adm.Phy, Selection |-> adm.Sel,
     Status |-> IF w.Status = "VALIDATING" THEN "INITIALISING" ELSE w.Status,
     Connectivity |-> w.Conn, ActiveLink |-> FALSE, Reset |-> w.Reset,
     SMRunning |-> w.SMRunning]

AbsGroup ==
    [State |-> "RUNNING", SelectedInterface |-> 1, Activated |-> TRUE,
     ConfigChanged |-> FALSE, ResetSelectedInterface |-> FALSE,
     InitialScanComplete |-> TRUE]

Abs == INSTANCE IfaceSM WITH
    NGroups <- 1, NIfaces <- 1, InitGroup <- <<1>>, Priority <- <<1>>,
    Persist <- {}, RequiresReboot <- {}, MaxPolThreads <- 1, MaxISMThreads <- 1,
    PhyAtBoot <- {1},
    Events <- {"phy", "selection", "connectivity", "reset", "link", "lease",
                 "nwmode", "mapt", "mode"} \X {1}
                 \cup {"enable", "disable"} \X {0},
    config <- [Enable |-> adm.Enable, ResetFailOverScan |-> adm.ResetScan],
    group <- <<AbsGroup>>,
    iface <- <<AbsIface>>,
    ism <- << << [st |-> AbsPhase, en |-> w.st \in Loop => ctl.en] >> >>

(* What the selection policy does to the machine: it starts it, and it       *)
(* writes Selection.Status.                                                  *)
PolicyStarts == StartMachine
PolicySelects == adm' = [adm EXCEPT !.Sel = adm'.Sel] /\ UNCHANGED <<ctl, w>>

(* The machine with all its layers is the machine the threads above it are   *)
(* checked with: every step of it is a step of IfaceSM, a data model write,  *)
(* the policy's, or none that IfaceSM tells apart.                           *)
ImplementsIfaceSM ==
    [][\/ Abs!ISMNext(1, 1) \/ Abs!Environment \/ PolicyStarts \/ PolicySelects
      ]_<<adm.Enable, adm.ResetScan, AbsIface, AbsPhase, w.st \in Loop => ctl.en>>

(* In the states that serve an address family its name servers are in        *)
(* resolv.conf, unless its lease has gone or changed since the last          *)
(* iteration: wan_updateDNS writes the whole file for both families, on      *)
(* every set-up and tear-down of one of them.  A renewal that is handled     *)
(* after the end of the lease brings the family back without them.           *)
DnsServed ==
    ~ w.late =>
        /\ w.st \in {"IPV4_LEASED", "DUAL_STACK"} /\ w.v4 /\ ~ w.ch4 => 4 \in w.dns
        /\ w.st \in {"IPV6_LEASED", "DUAL_STACK", "MAPT_ACTIVE"} /\ w.v6 /\ ~ w.ch6
              => 6 \in w.dns

(* A client that runs is known to run (Dhcp4cStatus, Dhcp6cStatus), so that  *)
(* whoever has to stop it finds it; no client and no connectivity check      *)
(* outlives the machine.  Ten places start or stop a client, two forget its  *)
(* status, and leases come and go in between.  The exception is a client     *)
(* whose report of a stop is handled after it was started again.             *)
NoOrphanClient ==
    /\ w.run4 /\ ~ w.late => w.d4 /\ w.SMRunning
    /\ w.run6 /\ ~ w.late => w.d6 /\ w.SMRunning
    /\ w.check => w.SMRunning

=============================================================================
