------------------------------- MODULE MCStack --------------------------------
(* Instances of the interface state machine for TLC: at most MaxEvents       *)
(* writes and failures, of the kinds in Happens, at any moments.             *)
EXTENDS InterfaceSM

CONSTANT MaxEvents

VARIABLE used

mcvars == <<svars, used>>

MCInit == StackInit /\ used = 0

MCNext ==
    \/ Thread /\ UNCHANGED <<prof, used>>
    \/ Around /\ UNCHANGED <<prof, used>>
    \/ Disturbance /\ used < MaxEvents /\ used' = used + 1 /\ UNCHANGED prof

MCSpec == MCInit /\ [][MCNext]_mcvars

AllHappens == {"enable", "ifenable", "phy", "selection", "nwmode", "reset", "vlanreset",
               "mode", "mapt", "layer", "lease", "client"}

(* IPoE on one of two VLANs, PPPoE without a VLAN, and IPoE with MAP-T       *)
(* preferred (dual stack when its timer runs out).                           *)
Ipoe == [vlan |-> TRUE, vlans |-> TRUE, ppp |-> FALSE, mapt |-> FALSE, maptMode |-> FALSE,
         tad |-> TRUE]
Pppoe == [Ipoe EXCEPT !.vlan = FALSE, !.vlans = FALSE, !.ppp = TRUE, !.tad = FALSE]
Mapt == [Ipoe EXCEPT !.mapt = TRUE, !.vlans = FALSE, !.maptMode = TRUE]

AllProfiles == {Ipoe, Pppoe, Mapt}
=============================================================================
