------------------------------- MODULE IfaceSM -------------------------------
(* The WAN interface state machine (wanmgr_interface_sm.c) as the selection  *)
(* and failover threads see it: one thread per started state machine, its    *)
(* phase, and what it publishes in the shared data (Status, SM_Running,      *)
(* Connectivity, Reset).  The layers below (VLAN, PPP, DHCP, MAP-T) are a    *)
(* nondeterministic "the layer came up" / "the lease was lost".              *)
(*                                                                           *)
(* A thread runs a loop: one lock section copies the global Enable, a second *)
(* one runs the whole state function with the copy.  The copy is taken at    *)
(* some moment between two state functions: the model takes it when one      *)
(* ends, and again at any later moment at which it would differ (ISMSample). *)
EXTENDS WanData

VARIABLE ism      \* ism[i][k]: the k-th state machine thread of interface i

(* created: pthread_create returned, wan_transition_start has not run;       *)
(* config: WAN_STATE_VLAN_CONFIGURING .. WAN_STATE_VALIDATING_WAN;           *)
(* up: WAN_STATE_IPV4_LEASED, IPV6_LEASED, DUAL_STACK_ACTIVE, MAPT_ACTIVE.   *)
ISMPhases == {"none", "created", "config", "obtain", "standby", "up",
              "refresh", "deconfig", "exit"}

ISMLoop == {"config", "obtain", "standby", "up", "refresh"}

(* en is the copy of Enable; it is not read in the phases outside ISMLoop.   *)
ISMType == [st : ISMPhases, en : BOOLEAN]

ISMTypeOK == ism \in [Ifaces -> [ISMSlots -> ISMType]]

NoISM == [st |-> "none", en |-> TRUE]

ISMInit == ism = [i \in Ifaces |-> [k \in ISMSlots |-> NoISM]]

ISMLive(i, k) == ism[i][k].st # "none"

-----------------------------------------------------------------------------
(* WanMgr_StartInterfaceStateMachine on the value of the thread table.       *)
(* pthread_create may fail: the callers log it and go on.  It does so here   *)
(* when all the slots are taken.                                             *)
FreeSlot(i) == CHOOSE k \in ISMSlots : ~ ISMLive(i, k)

StartISM(i) ==
    IF \E k \in ISMSlots : ~ ISMLive(i, k)
    THEN [ism EXCEPT ![i][FreeSlot(i)] = [st |-> "created", en |-> TRUE]]
    ELSE ism

(* The thread ends its iteration in phase s.                                 *)
ISMGoto(i, k, s) ==
    ism' = [ism EXCEPT ![i][k] = [st |-> s, en |-> s \in ISMLoop => config.Enable]]

(* "Update Wan config": the copy is taken later.                             *)
ISMSample(i, k) ==
    /\ ism[i][k].st \in ISMLoop
    /\ ism[i][k].en # config.Enable
    /\ ism' = [ism EXCEPT ![i][k].en = config.Enable]
    /\ UNCHANGED <<config, group, iface>>

(* wan_transition_start: the first lock section of the thread.               *)
ISMStart(i, k) ==
    /\ ism[i][k].st = "created"
    /\ ISMGoto(i, k, "config")
    /\ iface' = [iface EXCEPT ![i].Status = "INITIALISING", ![i].SMRunning = TRUE]
    /\ UNCHANGED <<config, group>>

-----------------------------------------------------------------------------
(* Mutant: BaseInterfaceStatus is not looked at                              *)
IfDownWithoutPhy(i, k) ==
    \/ ~ ism[i][k].en
    \/ ~ iface[i].Enable
    \/ iface[i].Selection = "NOT_SELECTED"
(* The condition every state function starts with.                           *)
IfDown(i, k) ==
    \/ ~ ism[i][k].en
    \/ ~ iface[i].Enable
    \/ iface[i].Selection = "NOT_SELECTED"
    \/ ~ iface[i].PhyUp

Healthy(i, k, s) == ism[i][k].st = s /\ ~ IfDown(i, k)

(* wan_transition_physical_interface_down.  wan_transition_ipv4_down and     *)
(* _ipv6_down publish VALIDATING only when the IP status is still UP: after  *)
(* a lease lost in the same iteration, or in a phase without a lease, Status *)
(* stays as it was.  VLAN.Reset and VLAN.Expired ("link" events) lead to     *)
(* REFRESHING like Reset does.                                               *)
StatusesAfterDown(i, k) ==
    CASE ism[i][k].st = "obtain"              -> {iface[i].Status, "INITIALISING"}
      [] ism[i][k].st \in {"config", "refresh"} ->
            {iface[i].Status} \cup {s \in {"INITIALISING"} : <<"lease", i>> \in Events}
      [] ism[i][k].st \in {"standby", "up"}   ->
            {"INITIALISING"} \cup {s \in {iface[i].Status} : <<"lease", i>> \in Events}

PhysicalInterfaceDown(i, k) ==
    /\ \/ (iface[i].Reset \/ <<"link", i>> \in Events) /\ ISMGoto(i, k, "refresh")
       \/ ~ iface[i].Reset /\ ISMGoto(i, k, "deconfig")
    /\ \E s \in StatusesAfterDown(i, k) : iface' = [iface EXCEPT ![i].Status = s]
    /\ UNCHANGED <<config, group>>

ISMDown(i, k) ==
    /\ ism[i][k].st \in {"config", "obtain", "standby", "up"}
    /\ IfDown(i, k)
    /\ PhysicalInterfaceDown(i, k)

(* Reset tears the stack down to rebuild it.  The configuring states and     *)
(* WAN_STATE_STANDBY do not look at it.                                      *)
ISMReset(i, k) ==
    /\ ism[i][k].st \in {"obtain", "up"}
    /\ Healthy(i, k, ism[i][k].st)
    /\ iface[i].Reset
    /\ PhysicalInterfaceDown(i, k)

(* VLAN.Reset, an expired VLAN timer or a lower layer that went down does    *)
(* the same without Reset.                                                   *)
ISMLinkLost(i, k) ==
    /\ <<"link", i>> \in Events
    /\ ism[i][k].st \in {"config", "obtain", "up"}
    /\ Healthy(i, k, ism[i][k].st)
    /\ ISMGoto(i, k, "refresh")
    /\ \E s \in StatusesAfterDown(i, k) : iface' = [iface EXCEPT ![i].Status = s]
    /\ UNCHANGED <<config, group>>

(* wan_transition_wan_up, which a machine that was in service publishes      *)
(* before it is validated again                                              *)
ISMWanUp(i, k) ==
    /\ Healthy(i, k, "config")
    /\ iface[i].Status # "INITIALISING"
    /\ ISMGoto(i, k, "config")
    /\ iface' = [iface EXCEPT ![i].Status = "INITIALISING"]
    /\ UNCHANGED <<config, group>>

(* VLAN and PPP are up: wan_transition_wan_up and wan_transition_wan_validated *)
ISMValidated(i, k) ==
    /\ Healthy(i, k, "config")
    /\ ISMGoto(i, k, "obtain")
    /\ iface' = [iface EXCEPT ![i].Status = "INITIALISING", ![i].Connectivity = TRUE]
    /\ UNCHANGED <<config, group>>

(* A lease arrived and the interface is not ACTIVE: wan_transition_standby   *)
ISMStandby(i, k) ==
    /\ Healthy(i, k, "obtain")
    /\ ~ iface[i].Reset
    /\ iface[i].Selection # "ACTIVE"
    /\ ISMGoto(i, k, "standby")
    /\ iface' = [iface EXCEPT ![i].Status = "STANDBY"]
    /\ UNCHANGED <<config, group>>

(* A lease on an ACTIVE interface: wan_transition_ipv4_up, _ipv6_up          *)
ISMUp(i, k) ==
    /\ \/ Healthy(i, k, "obtain") /\ ~ iface[i].Reset
       \/ Healthy(i, k, "standby")
    /\ iface[i].Selection = "ACTIVE"
    /\ ISMGoto(i, k, "up")
    /\ iface' = [iface EXCEPT ![i].Status = "UP"]
    /\ UNCHANGED <<config, group>>

(* The lease was lost.  wan_state_standby goes back to OBTAINING without     *)
(* touching Status; the leased states run ipv4_down / ipv6_down.             *)
ISMLeaseLost(i, k) ==
    /\ <<"lease", i>> \in Events
    /\ \/ Healthy(i, k, "standby") /\ iface' = iface
       \/ /\ Healthy(i, k, "up")
          /\ ~ iface[i].Reset
          /\ iface' = [iface EXCEPT ![i].Status = "INITIALISING"]
    /\ ISMGoto(i, k, "obtain")
    /\ UNCHANGED <<config, group>>

(* wan_transition_mapt_feature_refresh publishes nothing when IPv4 stays     *)
ISMFeatureSwitched(i, k) ==
    /\ <<"mapt", i>> \in Events
    /\ Healthy(i, k, "up")
    /\ ~ iface[i].Reset
    /\ ISMGoto(i, k, "obtain")
    /\ UNCHANGED <<config, group, iface>>

(* IP.Mode = NO_IP: wan_state_obtaining_ip_addresses stops both clients      *)
ISMModeChanged(i, k) ==
    /\ <<"mode", i>> \in Events
    /\ Healthy(i, k, "obtain")
    /\ ~ iface[i].Reset
    /\ ISMGoto(i, k, "obtain")
    /\ iface' = [iface EXCEPT ![i].Status = "INITIALISING"]
    /\ UNCHANGED <<config, group>>

(* The interface is no longer ACTIVE, or DeviceNwModeChanged was sampled:    *)
(* wan_transition_standby_deconfig_ips                                       *)
ISMDeactivated(i, k) ==
    /\ Healthy(i, k, "up")
    /\ ~ iface[i].Reset
    /\ iface[i].Selection # "ACTIVE" \/ <<"nwmode", i>> \in Events
    /\ ISMGoto(i, k, "standby")
    /\ iface' = [iface EXCEPT ![i].Status = "STANDBY"]
    /\ UNCHANGED <<config, group>>

(* wan_state_refreshing_wan; a lease message may still arrive meanwhile      *)
ISMRefreshAborted(i, k) ==
    /\ ism[i][k].st = "refresh"
    /\ IfDown(i, k)
    /\ ISMGoto(i, k, "deconfig")
    /\ \E s \in StatusesAfterDown(i, k) :
          iface' = [iface EXCEPT ![i].Reset = FALSE, ![i].Status = s]
    /\ UNCHANGED <<config, group>>

ISMRefreshed(i, k) ==
    /\ Healthy(i, k, "refresh")
    /\ ISMGoto(i, k, "config")
    /\ config' = [config EXCEPT !.ResetFailOverScan = @ \/ iface[i].Reset]
    /\ iface' = [iface EXCEPT ![i].Reset = FALSE]
    /\ UNCHANGED group

(* wan_state_deconfiguring_wan when PPP and VLAN are down, wan_transition_exit *)
ISMExit(i, k) ==
    /\ ism[i][k].st = "deconfig"
    /\ ISMGoto(i, k, "exit")
    /\ iface' = [iface EXCEPT ![i].Status = "DISABLED", ![i].Reset = FALSE,
                              ![i].SMRunning = FALSE]
    /\ UNCHANGED <<config, group>>

(* One iteration later wan_state_exit clears the DHCP data and the thread ends *)
ISMEnd(i, k) ==
    /\ ism[i][k].st = "exit"
    /\ ISMGoto(i, k, "none")
    /\ UNCHANGED <<config, group, iface>>

(* The steps the thread takes of its own accord.                             *)
ISMControl(i, k) ==
    \/ ISMStart(i, k)
    \/ ISMSample(i, k)
    \/ ISMDown(i, k)
    \/ ISMReset(i, k)
    \/ ISMWanUp(i, k)
    \/ ISMValidated(i, k)
    \/ ISMStandby(i, k)
    \/ ISMUp(i, k)
    \/ ISMDeactivated(i, k)
    \/ ISMRefreshAborted(i, k)
    \/ ISMRefreshed(i, k)
    \/ ISMExit(i, k)
    \/ ISMEnd(i, k)

(* The steps that need a failure of a lower layer.                           *)
ISMDisturbed(i, k) ==
    \/ ISMLinkLost(i, k)
    \/ ISMLeaseLost(i, k)
    \/ ISMFeatureSwitched(i, k)
    \/ ISMModeChanged(i, k)

ISMNext(i, k) == ISMControl(i, k) \/ ISMDisturbed(i, k)
=============================================================================
