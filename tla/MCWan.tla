-------------------------------- MODULE MCWan --------------------------------
(* Instances of the WAN Manager for TLC.  What happens around the program is *)
(* bounded: a behaviour has at most MaxEvents data model writes and layer    *)
(* failures, of the kinds in Events, at any moments; the program itself is   *)
(* not bounded.                                                              *)
EXTENDS WanManager

CONSTANT MaxEvents

VARIABLE used      \* how many events there were

mcvars == <<vars, used>>

MCInit == Init /\ used = 0

MCNext ==
    \/ ThreadStep /\ UNCHANGED used
    \/ EnvStep /\ used < MaxEvents /\ used' = used + 1

MCSpec == MCInit /\ [][MCNext]_mcvars
MCFairSpec == MCSpec /\ Fairness

-----------------------------------------------------------------------------
(* Two groups of one interface: the failover between groups.                 *)
TwoGroups == [i \in Ifaces |-> i]

(* One group of two interfaces: the selection inside a group.                *)
OneGroup == [i \in Ifaces |-> 1]

PriorityByIndex == [i \in Ifaces |-> i]

NoTimeOut == [g \in Groups |-> 0]

(* The kinds of events of the runs.                                          *)
PhyEvents == {"phy"} \X Ifaces
LinkEvents == {"phy", "selection", "connectivity", "lease"} \X Ifaces
FailOverEvents == {"phy"} \X Ifaces \cup {"lease", "connectivity"} \X {1}
WanEnable == {"enable", "disable"} \X {0}
RequestEvents ==
    WanEnable \cup {"phy", "reset"} \X Ifaces
        \cup {"resetselected", "cancelreset", "policy"} \X Groups
WriteEvents ==
    WanEnable \cup {"resetselected", "cancelreset", "policy"} \X {1}
        \cup {"phy", "selection", "group", "link", "nwmode", "reset", "mapt", "mode"} \X Ifaces
=============================================================================
