------------------------------ MODULE TopConfig ------------------------------
(***************************************************************************)
(* The parameters of the manager itself and of its interface groups        *)
(* (wanmgr_dml_apis.c) in memory and in PSM.  They have no commit: a       *)
(* setter writes PSM and memory in one call, and PSM may refuse the write. *)
(* Two setters write memory only after PSM has accepted the value, two     *)
(* others do not look.                                                     *)
(***************************************************************************)
EXTENDS Integers

CONSTANTS PolicyGroups,      \* the interface groups
          TopMax,            \* largest value given to a parameter
          AutoWanMode,       \* AUTOWAN_MODE as a policy
          ParallelScan,      \* PARALLEL_SCAN as a policy
          ConfigurableWan    \* FEATURE_RDKB_CONFIGURABLE_WAN_INTERFACE

ASSUME TopAssumption == /\ 1 \in PolicyGroups /\ TopMax \in Nat \ {0}
                        /\ {AutoWanMode, ParallelScan} \subseteq 0..TopMax
                        /\ ConfigurableWan \in BOOLEAN

VARIABLES top,       \* the parameters in memory
          topPsm,    \* the same in PSM
          changed,   \* groups with ConfigChanged
          lost       \* parameters PSM did not take or did not give back

topVars == <<top, topPsm, changed, lost>>

\* A parameter and, for the policy, its group.
TopParams == ({"Enable", "AllowRemoteInterfaces", "RestorationDelay"} \X {0})
               \cup ({"Policy"} \X PolicyGroups)

TopTypeOK ==
    /\ top \in [TopParams -> 0..TopMax] /\ topPsm \in [TopParams -> 0..TopMax]
    /\ changed \subseteq PolicyGroups /\ lost \subseteq TopParams

-----------------------------------------------------------------------------
SetParamValuesToDB(k, v, ok) == IF ok THEN [topPsm EXCEPT ![k] = v] ELSE topPsm

\* Memory follows PSM.
StoredFirst(k, v, ok) ==
    /\ topPsm' = SetParamValuesToDB(k, v, ok)
    /\ top' = IF ok THEN [top EXCEPT ![k] = v] ELSE top
    /\ lost' = IF ok THEN lost \ {k} ELSE lost

\* Memory is written whatever PSM answers.
StoredAnyway(k, v, ok) ==
    /\ topPsm' = SetParamValuesToDB(k, v, ok)
    /\ top' = [top EXCEPT ![k] = v]
    /\ lost' = IF ok THEN lost \ {k} ELSE lost \cup {k}
    /\ UNCHANGED changed

setRestorationDelay(v, ok) ==
    StoredFirst(<<"RestorationDelay", 0>>, v, ok) /\ UNCHANGED changed

setWanPolicy(g, v, ok) ==
    /\ StoredFirst(<<"Policy", g>>, v, ok)
    /\ changed' = IF ok /\ top[<<"Policy", g>>] # v THEN changed \cup {g} ELSE changed

setWanEnableToPsm(v, ok) == StoredAnyway(<<"Enable", 0>>, v, ok)

setAllowRemoteIfaceToPsm(v, ok) == StoredAnyway(<<"AllowRemoteInterfaces", 0>>, v, ok)

\* The policy of the manager is the policy of its first group.
WanManager_SetParamUlongValue(p, v, ok) ==
    \/ p = "Policy" /\ (ConfigurableWan \/ v # ParallelScan) /\ setWanPolicy(1, v, ok)
    \/ p = "RestorationDelay" /\ setRestorationDelay(v, ok)

WanManager_SetParamBoolValue(p, v, ok) ==
    \/ p = "Enable" /\ setWanEnableToPsm(v, ok)
    \/ p = "AllowRemoteInterfaces" /\ setAllowRemoteIfaceToPsm(v, ok)

\* PARALLEL_SCAN is not refused here.
WanManagerGroup_SetParamUlongValue(g, v, ok) == setWanPolicy(g, v, ok)

-----------------------------------------------------------------------------
(* The start of the manager.  Nothing is configured when Enable cannot be  *)
(* read; any other parameter takes its default.                            *)

Default(k) == IF k[1] = "Policy" THEN AutoWanMode ELSE 0

GetParamValuesFromDB(k, unread) == IF k \in unread THEN Default(k) ELSE topPsm[k]

Read_GroupConf(g, unread) == GetParamValuesFromDB(<<"Policy", g>>, unread)

WanConfInit(unread) ==
    /\ <<"Enable", 0>> \notin unread
    /\ top' = [k \in TopParams |-> IF k[1] = "Policy" THEN Read_GroupConf(k[2], unread)
                                   ELSE GetParamValuesFromDB(k, unread)]
    /\ changed' = {}
    /\ lost' = {k \in unread : top'[k] # topPsm[k]}
    /\ UNCHANGED topPsm

TopInit ==
    /\ topPsm = [k \in TopParams |-> IF k[1] = "Enable" THEN 1 ELSE Default(k)]
    /\ top = topPsm /\ changed = {} /\ lost = {}

-----------------------------------------------------------------------------
\* What a reader of the data model sees is what the next start reads, unless
\* PSM refused a write the setter reports as done, or did not answer a read.
TopSurvives == \A k \in TopParams \ lost : top[k] = topPsm[k]

=============================================================================
