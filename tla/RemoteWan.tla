------------------------------ MODULE RemoteWan ------------------------------
(* The primary and the backup thread of wanmgr_policy_autowan_impl.c side by *)
(* side, with the WAN service, the components that report the state of an    *)
(* interface and the writes of the data model.                               *)
EXTENDS BackupWan

rvars == <<conf, ifc, link, asked, wan, mode, switch, pri, bk>>

RemoteInit == PrimaryInit /\ BackupInit

-----------------------------------------------------------------------------
(* Around the threads (external)                                             *)
PhyOf(b) == IF b THEN "UP" ELSE "DOWN"

(* The local interface whose address the primary thread waits for            *)
Scanned == IF pri.st = "SCANNING" THEN {pri.idx} ELSE {}

(* A requested status arrives: the link and, for the interface that is being *)
(* scanned or validated, whether it got an address.  The DHCP client of the  *)
(* remote interface goes on until it has one.                                *)
Report(i) ==
    /\ i \in asked
    /\ i = Remote => link[Remote]
    /\ asked' = asked \ {i}
    /\ \E ok \in BOOLEAN :
          /\ Udhcpc(i, ok)
          /\ ifc' = [ifc EXCEPT ![i].Phy = PhyOf(link[i]),
                       ![i].Ip = IF i \in {Remote} \cup Scanned THEN PhyOf(ok) ELSE @]
    /\ UNCHANGED <<conf, link, wan, mode, switch, pri, bk>>

(* A link comes or goes and the component that owns it reports it.           *)
LinkChange(i) ==
    /\ <<"link", i>> \in Happens
    /\ link' = [link EXCEPT ![i] = ~ @]
    /\ ifc' = [ifc EXCEPT ![i].Phy = PhyOf(~ link[i])]
    /\ UNCHANGED <<conf, asked, wan, mode, switch, pri, bk>>

-----------------------------------------------------------------------------
(* Writes of the data model                                                  *)
SetEnable ==
    /\ <<"enable", 0>> \in Happens
    /\ conf' = [conf EXCEPT !.Enable = ~ @]
    /\ UNCHANGED <<ifc, link, asked, wan, mode, switch, pri, bk>>

SetAllowRemote ==
    /\ <<"allow", 0>> \in Happens
    /\ conf' = [conf EXCEPT !.AllowRemote = ~ @]
    /\ UNCHANGED <<ifc, link, asked, wan, mode, switch, pri, bk>>

SetIfcEnable(i) ==
    /\ <<"ifenable", i>> \in Happens
    /\ ifc' = [ifc EXCEPT ![i].Enable = ~ @]
    /\ UNCHANGED <<conf, link, asked, wan, mode, switch, pri, bk>>

(* The status event of the remote device                                     *)
SetRemoteStatus ==
    /\ <<"remotestatus", Remote>> \in Happens
    /\ ifc' = [ifc EXCEPT ![Remote].RemoteUp = ~ @]
    /\ UNCHANGED <<conf, link, asked, wan, mode, switch, pri, bk>>

(* A result of the connectivity check that runs for the interface            *)
SetConnectivity(i) ==
    /\ <<"conn", i>> \in Happens /\ TAD
    /\ ifc[i].Sel # "NOT_SELECTED"
    /\ ifc' = [ifc EXCEPT ![i].Conn = ~ @]
    /\ UNCHANGED <<conf, link, asked, wan, mode, switch, pri, bk>>

(* Device.X_RDKCENTRAL-COM_EthernetWAN.SelectedOperationalMode               *)
SetSelectedMode(m) ==
    /\ <<"mode", m>> \in Happens /\ m # mode.sel
    /\ mode' = [mode EXCEPT !.sel = m]
    /\ UNCHANGED <<conf, ifc, link, asked, wan, switch, pri, bk>>

RemoteEvent ==
    \/ SetEnable \/ SetAllowRemote \/ SetRemoteStatus
    \/ \E i \in Ifs : LinkChange(i) \/ SetIfcEnable(i) \/ SetConnectivity(i)
    \/ \E m \in {"PRIMARY", "SECONDARY", "AUTO"} : SetSelectedMode(m)

-----------------------------------------------------------------------------
PriStep == PriNext /\ UNCHANGED bk
BkStep == BkNext
WanServiceStep == WanService /\ UNCHANGED bk
RebootStep ==
    /\ Reboot
    /\ bk' = [st |-> "SELECTING", has |-> FALSE, en |-> FALSE, allow |-> FALSE,
              timer |-> "off"]

RemoteThreads ==
    \/ PriStep \/ BkStep \/ BkTimer \/ WanServiceStep \/ RebootStep
    \/ \E i \in Ifs : Report(i)

RemoteNext == RemoteThreads \/ RemoteEvent

(* Both threads are scheduled again and again, time passes, the WAN service  *)
(* carries out what it is told and a requested status is reported.           *)
RemoteFairness ==
    /\ WF_rvars(PriStep) /\ WF_rvars(BkStep) /\ WF_rvars(BkTimer)
    /\ WF_rvars(WanServiceStep) /\ WF_rvars(RebootStep)
    /\ \A i \in Ifs : WF_rvars(Report(i))

-----------------------------------------------------------------------------
(* Types of the state of both threads and of what they share.                *)
RemoteTypeOK ==
    /\ conf \in [Enable : BOOLEAN, AllowRemote : BOOLEAN]
    /\ ifc \in [Ifs -> IfcType] /\ link \in [Ifs -> BOOLEAN] /\ asked \subseteq Ifs
    /\ wan.status \in {"stopped", "started", "standby"}
    /\ wan.service \in {"stopped", "starting", "started"}
    /\ Len(wan.req) <= 2
    /\ switch \in {"NONE", "STARTED", "STOPED", "FAILED", "SUCCESS"}
    /\ pri \in PriType /\ bk \in BackupType

(* Break before make: the remote interface takes over from the local ones    *)
(* only when none of them is ACTIVE any more, although the threads only see  *)
(* each other's status and that of the WAN service.  (The state WAITING does *)
(* not look at them and is left out.)                                        *)
BreakBeforeMake ==
    [][bk.st # "WAITING" /\ ifc[Remote].Sel # "ACTIVE" /\ ifc'[Remote].Sel = "ACTIVE"
          => \A i \in Local : ifc[i].Sel # "ACTIVE"]_rvars

(* The backup takes over: without a local link and with a remote interface   *)
(* that works for good, the remote interface carries the WAN, while the      *)
(* operational mode is fixed.  (In AUTO mode WaitingForInterface leaves the  *)
(* switch-over status STOPED and the backup thread waits for it in UP.)      *)
LocalLost ==
    /\ conf.Enable /\ conf.AllowRemote
    /\ ifc[Remote].Enable /\ link[Remote] /\ ifc[Remote].RemoteUp
    /\ \A i \in Local : ~ link[i]
BackupTakesOverFixed ==
    <>[](LocalLost /\ mode.sel # "AUTO" /\ pri.op = mode.sel)
        => <>[](ifc[Remote].Sel = "ACTIVE")

(* ... and gives back: when the links of the local interfaces are up for     *)
(* good, one of them carries the WAN and the remote interface does not.      *)
LocalGood(i) == conf.Enable /\ ifc[i].Enable /\ link[i]
LocalRestored ==
    <>[](\A i \in Local : LocalGood(i))
        => <>[](ifc[Remote].Sel # "ACTIVE" /\ \E i \in Local : ifc[i].Sel = "ACTIVE")
=============================================================================
