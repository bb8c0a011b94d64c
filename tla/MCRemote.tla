------------------------------- MODULE MCRemote -------------------------------
(* Instances for TLC of RemoteWan and of RemoteDevices: a behaviour is about *)
(* the threads of the policy or about the rows of the remote devices, with   *)
(* at most MaxEvents or MaxDevEvents events at any moments.                  *)
EXTENDS RemoteWan, RemoteDevices

CONSTANTS Parts, MaxEvents, MaxDevEvents

VARIABLES part, used

mcvars == <<rvars, devVars, part, used>>

MCInit == RemoteInit /\ DevInit /\ part \in Parts /\ used = 0

(* The other part is held in one of its initial states.                      *)
MCInitOne ==
    /\ MCInit
    /\ part = "policy" => places = Min(Places) /\ nwmode = "GATEWAY" /\ present = {}
    /\ part = "devices" => mode.sel = CHOOSE m \in SelectedAtBoot : TRUE

MCNext ==
    \/ /\ part = "policy" /\ UNCHANGED <<devVars, part>>
       /\ \/ RemoteThreads /\ UNCHANGED used
          \/ RemoteEvent /\ used < MaxEvents /\ used' = used + 1
    \/ /\ part = "devices" /\ UNCHANGED <<rvars, part>>
       /\ \/ DevThreads /\ UNCHANGED used
          \/ DevEvents /\ used < MaxDevEvents /\ used' = used + 1

MCSpec == MCInitOne /\ [][MCNext]_mcvars
MCFairSpec == MCSpec /\ RemoteFairness

(* The states of both parts have their types.                                *)
RemoteStateOK == RemoteTypeOK /\ DevicesTypeOK

LinkHappens == {"link"} \X Ifs
AllHappens ==
    {"link", "conn"} \X Ifs \cup {"enable", "allow"} \X {0} \cup {"configure"} \X Local
        \cup {"ifenable", "remotestatus", "noroute", "nolease"} \X {Remote}
        \cup {<<"mode", "SECONDARY">>}
=============================================================================
