------------------------------ MODULE WanConfig ------------------------------
(***************************************************************************)
(* The parameters of the WAN interfaces in memory and in PSM, the          *)
(* persistent store: the setters change memory, a commit writes a whole    *)
(* object, a restart reads it back.  Every WAN interface has one virtual   *)
(* interface, with one VLAN interface entry and one VLAN marking entry.    *)
(* Parameter values are small numbers: 0 is FALSE, the empty string or     *)
(* the first enumerator.                                                   *)
(***************************************************************************)
EXTENDS Integers, FiniteSets

CONSTANTS Ifs,          \* indices of the WAN interfaces
          MaxVal,       \* largest value given to a parameter
          TimeoutMin,   \* SELECTION_TIMEOUT_DEFAULT_MIN
          NumGroups     \* MAX_INTERFACE_GROUP

\* The default priorities are the indices.
ASSUME ConfigAssumption == /\ MaxVal \in Nat \ {0, 1} /\ TimeoutMin \in 0..MaxVal
                           /\ NumGroups \in 1..MaxVal
                           /\ Ifs \subseteq 1..MaxVal

VARIABLES mem,      \* the parameters in memory: interface -> parameter -> value
          psm,      \* the same in PSM
          mapt,     \* syscfg MAPT_Enable
          dirty,    \* objects with a parameter set since their last commit
          cmt,      \* what the commits promised to keep
          torn      \* a change was rolled back or lost in a restart

configVars == <<mem, psm, mapt, dirty, cmt, torn>>

-----------------------------------------------------------------------------
(* The parameters, by the way they are stored.                             *)

Vals == 0..MaxVal

\* Written by write_Wan_Interface_ParametersFromPSM.
WanWritten == {"Selection.Enable", "Type", "Timeout", "Group",
               "RequiresReboot", "Priority", "BaseInterface"}
\* Read by get_Wan_Interface_ParametersFromPSM.
WanRead == WanWritten \cup {"ActiveLink", "Name"}

\* Written by write_Virtual_Interface_ToPSM.
VirtWritten == {"EnableDSLite", "EnableMAPT", "Enable", "VirtName", "Alias",
                "PPP.Interface", "VLAN.Timeout", "IP.Interface", "IP.Mode",
                "IPv4Source", "IPv6Source", "PreferredMode",
                "ModeForceEnable"}
\* Read by get_Virtual_Interface_FromPSM.
VirtRead == VirtWritten \cup {"VLANInUse", "ConnectivityCheckType"}

\* One entry of each table of the VLAN object; in PSM a marking entry can hold
\* what is not a number.
EntryParams == {"VLAN.Interface", "Marking.Entry"}
Text == MaxVal + 1

Params == WanRead \cup VirtRead \cup EntryParams

\* The check types, WAN_CONNECTIVITY_TYPE_NO_CHECK first.
NoCheck == 0
IHC == 1
TAD == 2

Objects == {"WanIf", "VirtualInterface", "VLAN", "Marking"}
ObjectOf(p) == CASE p \in WanRead -> "WanIf"
                 [] p \in VirtRead -> "VirtualInterface"
                 [] p = "VLAN.Interface" -> "VLAN"
                 [] p = "Marking.Entry" -> "Marking"

ConfigTypeOK ==
    /\ mem \in [Ifs -> [Params -> Vals]]
    /\ psm \in [Ifs -> [Params -> Vals \cup {Text}]]
    /\ cmt \in [Ifs -> [Params -> Vals]]
    /\ mapt \in BOOLEAN /\ torn \in BOOLEAN
    /\ dirty \subseteq Ifs \X Objects

-----------------------------------------------------------------------------
(* Reading PSM.                                                            *)

Clamped(v) == IF v < TimeoutMin THEN TimeoutMin ELSE v

\* Mutant: the text is copied.
NumberCopied(v) == v

\* sscanf leaves the 0 of the new entry when PSM does not hold a number.
Number(v) == IF v = Text THEN 0 ELSE v

get_Wan_Interface_Parameters(i) ==
    [p \in WanRead |-> IF p = "Timeout" THEN Clamped(psm[i][p]) ELSE psm[i][p]]

get_Virtual_Interface(i) ==
    [p \in VirtRead |-> IF p = "EnableMAPT" /\ mapt THEN 1 ELSE psm[i][p]]

VirtIfConfVLAN(i) ==
    [p \in EntryParams |->
        IF p = "Marking.Entry" THEN Number(psm[i][p]) ELSE psm[i][p]]

WanIfaceConf(i) ==
    [p \in Params |->
        CASE p \in WanRead -> get_Wan_Interface_Parameters(i)[p]
          [] p \in VirtRead -> get_Virtual_Interface(i)[p]
          [] p \in EntryParams -> VirtIfConfVLAN(i)[p]]

\* The defaults of a device: the interfaces in order of priority, all in the
\* first group, everything else empty.
DefaultPsm ==
    [i \in Ifs |-> [p \in Params |-> CASE p = "Priority" -> i
                                       [] p = "Group" -> 1
                                       [] p = "Timeout" -> TimeoutMin
                                       [] OTHER -> 0]]

ConfigInit ==
    /\ psm = DefaultPsm
    /\ mapt \in BOOLEAN
    /\ mem = [i \in Ifs |-> WanIfaceConf(i)]
    /\ cmt = mem
    /\ dirty = {} /\ torn = FALSE

-----------------------------------------------------------------------------
(* Setters.  A change is pending until the object is committed or rolled   *)
(* back.                                                                   *)

Set(i, f, o) ==
    /\ mem' = [mem EXCEPT ![i] = [p \in Params |-> IF p \in DOMAIN f THEN f[p]
                                                   ELSE @[p]]]
    /\ dirty' = dirty \cup {<<i, o>>}
    /\ UNCHANGED <<psm, mapt, cmt, torn>>

One(p, v) == [q \in {p} |-> v]
Nothing == [q \in {} |-> 0]

WanIf_SetParamStringValue(i, p, v) ==
    /\ p \in {"Name", "BaseInterface"}
    /\ p = "BaseInterface" => v # 0
    /\ Set(i, One(p, v), "WanIf")

\* Mutant: the priorities of the other interfaces are not looked at.
SetPriorityUnchecked(i, v) == Set(i, One("Priority", v), "WanIf")

\* WanManager_CheckGivenPriorityExists: another interface has the priority.
Taken(i, v) == \E j \in Ifs \ {i} : mem[j]["Priority"] = v

WanIfSelectionCfg_SetParamIntValue(i, v) ==
    /\ ~ Taken(i, v)
    /\ Set(i, One("Priority", v), "WanIf")

\* A group that does not exist is ignored, and the call still succeeds.
WanIfSelectionCfg_SetParamUlongValue(i, p, v) ==
    /\ p \in {"Timeout", "Group"}
    /\ Set(i, IF p = "Group" /\ v > NumGroups THEN Nothing ELSE One(p, v), "WanIf")

WanIfSelectionCfg_SetParamBoolValue(i, v) ==
    Set(i, One("RequiresReboot", v % 2), "WanIf")

WanVirtualIf_SetParamBoolValue(i, p, v) ==
    /\ p \in {"Enable", "EnableDSLite", "EnableMAPT"}
    /\ Set(i, One(p, v % 2), "VirtualInterface")

WanVirtualIf_SetParamStringValue(i, p, v) ==
    /\ p \in {"VirtName", "Alias"}
    /\ Set(i, One(p, v), "VirtualInterface")

WanVirtualIf_SetParamUlongValue(i, v) ==
    Set(i, One("VLAN.Timeout", v), "VirtualInterface")

\* A new mode is also forced on the state machine.
WanIfIpCfg_SetParamUlongValue(i, p, v) ==
    /\ p \in {"IP.Mode", "IPv4Source", "IPv6Source", "PreferredMode"}
    /\ Set(i, IF p = "IP.Mode" /\ v # mem[i][p]
                THEN [q \in {p, "ModeForceEnable"} |-> IF q = p THEN v ELSE 1]
                ELSE One(p, v), "VirtualInterface")

WanIfIpCfg_SetParamStringValue(i, v) ==
    Set(i, One("IP.Interface", v), "VirtualInterface")

WanIfPPPCfg_SetParamStringValue(i, v) ==
    Set(i, One("PPP.Interface", v), "VirtualInterface")

WanIfVlanCfg_SetParamStringValue(i, v) ==
    Set(i, One("VLAN.Interface", v), "VLAN")

WanIfVlanMarking_SetParamIntValue(i, v) ==
    Set(i, One("Marking.Entry", v), "Marking")

-----------------------------------------------------------------------------
(* Parameters that go to memory and to PSM in one call.                    *)

SetBoth(i, p, v) ==
    /\ mem' = [mem EXCEPT ![i][p] = v]
    /\ psm' = [psm EXCEPT ![i][p] = v]
    /\ cmt' = [cmt EXCEPT ![i][p] = v]
    /\ UNCHANGED <<mapt, dirty, torn>>

DmlSetWanActiveLink(i, v) == SetBoth(i, "ActiveLink", v % 2)

DmlSetVLANInUse(i, v) == SetBoth(i, "VLANInUse", v)

\* Switching one check off leaves the other alone.
Overrides(i, type, own) ==
    LET now == mem[i]["ConnectivityCheckType"] IN
    type # now /\ (type # NoCheck \/ now = own)

SetIPoEHealthCheck(i, on) ==
    LET type == IF on THEN IHC ELSE NoCheck IN
    /\ Overrides(i, type, IHC)
    /\ SetBoth(i, "ConnectivityCheckType", type)

\* WanMgr_SetDnsConnectivityCheck goes over all interfaces.
SetDnsConnectivityCheck(on) ==
    LET type == IF on THEN TAD ELSE NoCheck
        P == "ConnectivityCheckType"
        hit == {i \in Ifs : Overrides(i, type, TAD)}
        upd(f) == [i \in Ifs |-> IF i \in hit THEN [f[i] EXCEPT ![P] = type]
                                 ELSE f[i]]
    IN /\ hit # {}
       /\ mem' = upd(mem) /\ psm' = upd(psm) /\ cmt' = upd(cmt)
       /\ UNCHANGED <<mapt, dirty, torn>>

-----------------------------------------------------------------------------
(* Commits write the whole object from memory, so they also store what     *)
(* other calls, and rollbacks, left there.                                 *)

Written(i, ps, f) == [p \in Params |-> IF p \in ps THEN mem[i][p] ELSE f[p]]

Committed(i, os, f) ==
    [p \in Params |-> IF ObjectOf(p) \in os THEN mem[i][p] ELSE f[p]]

Commit(i, os) ==
    /\ dirty \cap ({i} \X os) # {}
    /\ dirty' = dirty \ ({i} \X os)
    /\ cmt' = [cmt EXCEPT ![i] = Committed(i, os, @)]
    /\ UNCHANGED <<mem, mapt, torn>>

\* Mutant: the force flag is kept in memory only.
write_Virtual_NoForce(i, f) == Written(i, VirtWritten \ {"ModeForceEnable"}, f)

write_Virtual_Interface(i, f) == Written(i, VirtWritten, f)

write_Wan_Interface_Parameters(i, f) == Written(i, WanWritten, f)

\* WanIf_Commit and WanIfSelectionCfg_Commit: DmlSetWanIfCfg.
WanIf_Commit(i) ==
    /\ Commit(i, {"WanIf", "VirtualInterface"})
    /\ psm' = [psm EXCEPT ![i] =
                 write_Virtual_Interface(i, write_Wan_Interface_Parameters(i, @))]

\* WanVirtualIf_Commit, WanIfIpCfg_Commit and WanIfPPPCfg_Commit.
WanVirtualIf_Commit(i) ==
    /\ Commit(i, {"VirtualInterface"})
    /\ psm' = [psm EXCEPT ![i] = write_Virtual_Interface(i, @)]

\* write_VlanInterface_ParametersToPSM uses the key of the marking entry.
WanIfVlanCfg_Commit(i) ==
    /\ Commit(i, {"VLAN"})
    /\ psm' = [psm EXCEPT ![i]["Marking.Entry"] = Text]

WanIfVlanMarking_Commit(i) ==
    /\ Commit(i, {"Marking"})
    /\ psm' = [psm EXCEPT ![i]["Marking.Entry"] = mem[i]["Marking.Entry"]]

\* The rollback functions return without undoing anything.
Rollback(i, o) ==
    /\ <<i, o>> \in dirty
    /\ dirty' = dirty \ {<<i, o>>}
    /\ torn' = TRUE
    /\ UNCHANGED <<mem, psm, mapt, cmt>>

-----------------------------------------------------------------------------
\* The process restarts: WanMgr_WanConfigInit reads everything from PSM.
ConfigRestart ==
    /\ mem' = [i \in Ifs |-> WanIfaceConf(i)]
    /\ torn' = (torn \/ dirty # {})
    /\ dirty' = {}
    /\ cmt' = mem'
    /\ UNCHANGED <<psm, mapt>>

-----------------------------------------------------------------------------
(* Properties                                                              *)

\* Committed, and never written under its own key: Name is left out by
\* write_Wan_Interface_Parameters, and the commit of the VLAN object takes the
\* key of the marking entry.
NeverWritten == {"Name", "VLAN.Interface"}
Saved == Params \ NeverWritten

\* The marking entry of i was overwritten by a commit of the VLAN object.
Overwritten(i, p) == p = "Marking.Entry" /\ psm[i][p] = Text

\* What the manager would read back, and what the commits promised.
Restored(i, p) == WanIfaceConf(i)[p]
Promised(i, p) == CASE p = "Timeout" -> Clamped(cmt[i][p])
                    [] p = "EnableMAPT" /\ mapt -> 1
                    [] OTHER -> cmt[i][p]

\* What a commit, or a call that stores at once, has confirmed is what the
\* next start reads, up to the smallest timeout and the syscfg switch for
\* MAP-T, for every parameter that is saved: all but Name and VLAN.Interface,
\* which are lost, and but a marking entry that a commit of the VLAN object
\* has overwritten (write_Wan_Interface_ParametersFromPSM,
\* write_Virtual_Interface_ToPSM, write_VirtMarking_ParametersToPSM and
\* their readers).
CommittedSurvives ==
    \A i \in Ifs : \A p \in Saved : Overwritten(i, p) \/ Restored(i, p) = Promised(i, p)

\* Two interfaces have different priorities, however sets, commits and
\* restarts alternate, unless a change was rolled back or interrupted
\* (WanManager_CheckGivenPriorityExists looks at memory only).
PrioritiesDistinct ==
    torn \/ \A i, j \in Ifs : i # j => mem[i]["Priority"] # mem[j]["Priority"]

=============================================================================
