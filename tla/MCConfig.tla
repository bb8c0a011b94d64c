------------------------------ MODULE MCConfig ------------------------------
(***************************************************************************)
(* Model of the stored configuration for TLC: the interface parameters in  *)
(* some behaviours, the marking table in others; the marking table or the  *)
(* manager's own parameters with WebConfig at work in the rest.            *)
(***************************************************************************)
EXTENDS WanConfig, WebConfig

CONSTANTS MaxSets,      \* bound: calls on the parameters
          MaxOps,       \* bound: calls on the marking table
          MaxWebOps,    \* bound: calls while WebConfig is at work
          MaxBoots,     \* bound: starts in a behaviour
          SetParams     \* the parameters that are set, with their interfaces

VARIABLES part, ops, boots

\* Every setter on the first interface, the priority on the second one too.
SetOnFirst == ({1} \X (Params \ {"ConnectivityCheckType"})) \cup {<<2, "Priority">>}

\* The aliases other than DATA are interchangeable.
AliasSymmetry == Permutations(Aliases \ {DataAlias})

vars == <<configVars, markingVars, topVars, webVars, part, ops, boots>>

MCInit ==
    /\ ConfigInit /\ MarkingInit /\ TopInit /\ WebInit
    /\ part \in {"parameters", "markings", "webconfig", "manager"}
    /\ ops = 0 /\ boots = 0

Setters(i, p, v) ==
    /\ <<i, p>> \in SetParams
    /\ \/ WanIf_SetParamStringValue(i, p, v)
       \/ p = "Priority" /\ WanIfSelectionCfg_SetParamIntValue(i, v)
       \/ WanIfSelectionCfg_SetParamUlongValue(i, p, v)
       \/ p = "RequiresReboot" /\ WanIfSelectionCfg_SetParamBoolValue(i, v)
       \/ WanVirtualIf_SetParamBoolValue(i, p, v)
       \/ WanVirtualIf_SetParamStringValue(i, p, v)
       \/ p = "VLAN.Timeout" /\ WanVirtualIf_SetParamUlongValue(i, v)
       \/ WanIfIpCfg_SetParamUlongValue(i, p, v)
       \/ p = "IP.Interface" /\ WanIfIpCfg_SetParamStringValue(i, v)
       \/ p = "PPP.Interface" /\ WanIfPPPCfg_SetParamStringValue(i, v)
       \/ p = "VLAN.Interface" /\ WanIfVlanCfg_SetParamStringValue(i, v)
       \/ p = "Marking.Entry" /\ WanIfVlanMarking_SetParamIntValue(i, v)
       \/ p = "ActiveLink" /\ DmlSetWanActiveLink(i, v)
       \/ p = "VLANInUse" /\ DmlSetVLANInUse(i, v)

ConfigOps ==
    \/ \E i \in Ifs, p \in Params, v \in Vals : Setters(i, p, v)
    \/ \E i \in Ifs, on \in BOOLEAN : SetIPoEHealthCheck(i, on)
    \/ \E on \in BOOLEAN : SetDnsConnectivityCheck(on)
    \/ \E i \in Ifs : \/ WanIf_Commit(i)
                      \/ WanVirtualIf_Commit(i)
                      \/ WanIfVlanCfg_Commit(i)
                      \/ WanIfVlanMarking_Commit(i)
    \/ \E i \in Ifs, o \in Objects : Rollback(i, o)

MarkingOps ==
    \/ Marking_AddEntry
    \/ \E k \in {j \in 1..Len(rows) : ~ Unfilled(j)} :
          \/ \E a \in Aliases : Marking_SetParamStringValue(k, a)
          \/ \E v \in Priorities : Marking_SetParamIntValue(k, v)
          \/ Marking_CommitNew(k)
          \/ Marking_CommitUpdate(k)
          \/ Marking_DelEntry(k)
    \/ \E a \in Aliases, f \in AllFields : PsmTruncated(a, f)

MarkingStarts ==
    \/ MarkingRestart
    \/ \E k \in 1..Len(rows) : \/ \E n \in 0..3 : CrashInAdd(k, n)
                               \/ \E n \in 1..4 : CrashInDelete(k, n)

\* Blobs of one or two markings, one that names DATA in both ways, one that
\* ends at an interface that does not exist, and the failover blobs.
Blobs ==
    LET entry(a, g) == [alias |-> a, eth |-> NoPriority, given |-> g]
        table(ms) == [found |-> TRUE, markings |-> ms]
        other == [found |-> FALSE, markings |-> <<>>]
    IN {<<table(<<entry(a, TRUE)>>)>> : a \in Aliases}
         \cup {<<table(<<entry(Control, FALSE), entry(DataAlias, TRUE)>>), other>>}

TopOps ==
    \E v \in 0..TopMax, ok \in BOOLEAN :
        \/ \E p \in {"Policy", "RestorationDelay"} : WanManager_SetParamUlongValue(p, v, ok)
        \/ v \in {0, 1} /\ WanManager_SetParamBoolValue("Enable", v, ok)
        \/ v \in {0, 1} /\ WanManager_SetParamBoolValue("AllowRemoteInterfaces", v, ok)
        \/ \E g \in PolicyGroups : WanManagerGroup_SetParamUlongValue(g, v, ok)

WebOps ==
    \/ MarkingOps /\ UNCHANGED webVars
    \/ \E b \in Blobs : WanDataSet(b) /\ UNCHANGED markingVars

ManagerOps ==
    \/ TopOps /\ UNCHANGED webVars
    \/ \E given, v \in BOOLEAN : WanFailOverDataSet(given, v) /\ UNCHANGED topVars

\* What the framework had not applied is lost with the process.
WebStarts ==
    /\ \E unread \in {{}} \cup {{k} : k \in TopParams} : WanConfInit(unread)
    /\ MarkingRestart
    /\ queue' = <<>> /\ web' = WebIdle /\ refresh' = FALSE

MCNext ==
    \/ /\ \/ part = "parameters" /\ ops < MaxSets /\ ConfigOps
             /\ UNCHANGED <<markingVars, topVars, webVars>>
          \/ part = "markings" /\ ops < MaxOps /\ MarkingOps
             /\ UNCHANGED <<configVars, topVars, webVars>>
          \/ part = "webconfig" /\ ops < MaxWebOps /\ WebOps
             /\ UNCHANGED <<configVars, topVars>>
          \/ part = "manager" /\ ops < MaxWebOps /\ ManagerOps
             /\ UNCHANGED <<configVars, markingVars>>
       /\ ops' = ops + 1
       /\ UNCHANGED <<part, boots>>
    \/ /\ part \in {"webconfig", "manager"} /\ WebThread
       /\ UNCHANGED <<configVars, part, ops, boots>>
    \/ /\ boots < MaxBoots /\ boots' = boots + 1
       /\ \/ part = "parameters" /\ ConfigRestart /\ UNCHANGED <<markingVars, topVars, webVars>>
          \/ part = "markings" /\ MarkingStarts /\ UNCHANGED <<configVars, topVars, webVars>>
          \/ part \in {"webconfig", "manager"} /\ WebStarts /\ UNCHANGED configVars
       /\ UNCHANGED <<part, ops>>

MCSpec == MCInit /\ [][MCNext]_vars

-----------------------------------------------------------------------------
\* The states of all parts have their types.
StoredTypeOK == ConfigTypeOK /\ MarkingTypeOK /\ TopTypeOK /\ WebTypeOK

\* What a commit, or a setter that stores at once, has confirmed is what the
\* next start reads: the parameters of the interfaces that are saved (Saved
\* says which commits lose theirs) and those of the manager.
ConfirmedSurvives == CommittedSurvives /\ TopSurvives
=============================================================================
