------------------------------ MODULE WebConfig ------------------------------
(***************************************************************************)
(* Configuration from the cloud: a blob is decoded by the call that brings *)
(* it and waits in the queue of the WebConfig framework, whose thread      *)
(* applies it to the marking table and to the manager's parameters with    *)
(* the calls of the data model, while other threads make the same calls.   *)
(* The marking table is that of one WAN interface.                         *)
(***************************************************************************)
EXTENDS TopConfig, Marking

CONSTANTS Control,     \* the marking alias network_control
          DataAlias,   \* the marking alias DATA
          MaxBlobs     \* bound: blobs in the queue

ASSUME WebAssumption ==
    /\ Control \notin Aliases /\ DataAlias \in Aliases /\ 0 \in Priorities
    /\ MaxBlobs \in Nat

VARIABLES queue,     \* the decoded blobs
          web,       \* the framework's thread
          refresh    \* the interface is told to refresh

webVars == <<queue, web, refresh>>

\* What a blob says of a marking: the priority may be missing or out of range.
Entry == [alias : Aliases \cup {Control}, eth : Priorities \cup {NoPriority}, given : BOOLEAN]

\* The tables of a blob: for this interface, or for one that does not exist.
\* remote is empty when the blob has no failover part.
BlobType == [remote : SUBSET BOOLEAN, tables : Seq([found : BOOLEAN, markings : Seq(Entry)])]

WebTypeOK ==
    /\ Len(queue) <= MaxBlobs
    /\ web \in [step : {"idle", "tables", "fill"}, row : 0..MarkingMax + 2,
               ins : 0..MarkingMax]
    /\ refresh \in BOOLEAN

WebIdle == [step |-> "idle", row |-> 0, ins |-> 0]
WebInit == queue = <<>> /\ web = WebIdle /\ refresh = FALSE

\* The row the thread is about to fill; no other caller knows of it.
Unfilled(k) == web.step = "fill" /\ rows[k].ins = web.ins

-----------------------------------------------------------------------------
(* Decoding.  The entries are cleared before they are filled: a missing    *)
(* priority is 0.                                                          *)

Process_MarkingEntry(e) == [alias |-> e.alias, eth |-> IF e.given THEN e.eth ELSE 0]

Process_ifParams(t) ==
    [found |-> t.found,
     markings |-> [n \in 1..Len(t.markings) |-> Process_MarkingEntry(t.markings[n])]]

Process_Wanmanager_Params(ts) == [n \in 1..Len(ts) |-> Process_ifParams(ts[n])]

\* The failover part is not cleared: a missing value is what memory holds.
Process_WanFailOver_Params(given, v) == IF given THEN {v} ELSE BOOLEAN

PushBlobRequest(b) ==
    /\ Len(queue) < MaxBlobs
    /\ queue' = Append(queue, b)
    /\ UNCHANGED <<web, refresh>>

WanDataSet(ts) ==
    PushBlobRequest([remote |-> {}, tables |-> Process_Wanmanager_Params(ts)])

WanFailOverDataSet(given, v) ==
    \E r \in Process_WanFailOver_Params(given, v) :
        PushBlobRequest([remote |-> {r}, tables |-> <<>>])

-----------------------------------------------------------------------------
(* WanMgr_Process_Webconfig_Request.                                       *)

Tables == Head(queue).tables
Rest(ts) == [queue EXCEPT ![1].tables = ts]
NextMarking == Rest(<<[Head(Tables) EXCEPT !.markings = Tail(@)]>> \o Tail(Tables))
ToApply == Head(Head(Tables).markings)
AliasOf(e) == IF e.alias = Control THEN DataAlias ELSE e.alias
WithAlias(a) == {k \in 1..Len(rows) : rows[k].alias = a}

\* Marking_SetParamIntValue takes 0 to 7 and leaves the rest alone.
SetPriority(row, v) == [row EXCEPT !.eth = IF v \in 0..7 THEN v ELSE @]

\* The failover part comes first.
WebStart(ok) ==
    /\ web.step = "idle" /\ queue # <<>>
    /\ web' = [web EXCEPT !.step = "tables"]
    /\ IF Head(queue).remote = {} THEN UNCHANGED topVars
       ELSE \E r \in Head(queue).remote :
              WanManager_SetParamBoolValue("AllowRemoteInterfaces", IF r THEN 1 ELSE 0, ok)
    /\ UNCHANGED <<markingVars, queue, refresh>>

AtMarking ==
    /\ web.step = "tables"
    /\ Tables # <<>> /\ Head(Tables).found /\ Head(Tables).markings # <<>>

\* The alias is in the table: the row is updated, and is not new any more.  One
\* that was never added has no port to store.
WebUpdate ==
    /\ AtMarking
    /\ LET a == AliasOf(ToApply)
           k == CHOOSE j \in WithAlias(a) : \A l \in WithAlias(a) : j <= l
           row == [SetPriority(rows[k], ToApply.eth) EXCEPT !.new = FALSE]
       IN /\ WithAlias(a) # {}
          /\ rows' = [rows EXCEPT ![k] = row]
          /\ rec' = IF Listed(a) THEN Stored(a, 4, row.port, row.eth) ELSE rec
          /\ refused' = IF Listed(a) /\ row.port # 0 THEN refused ELSE refused \cup {a}
    /\ queue' = NextMarking
    /\ UNCHANGED <<next, list, topVars, web, refresh>>
    /\ Running

\* It is not: a row is added, to be found again by its place.
WebAdd ==
    /\ AtMarking
    /\ WithAlias(AliasOf(ToApply)) = {}
    /\ IF next <= MarkingMax
         THEN /\ Marking_AddEntry
              /\ web' = [step |-> "fill", row |-> Len(rows) + 1, ins |-> next]
              /\ queue' = queue
         ELSE /\ queue' = NextMarking
              /\ UNCHANGED <<markingVars, web>>
    /\ UNCHANGED <<topVars, refresh>>

\* The row at that place is filled and committed as a new one.
WebFill ==
    /\ web.step = "fill"
    /\ IF web.row <= Len(rows)
         THEN LET k == web.row
                  a == AliasOf(ToApply)
                  named == IF rows[k].alias = NoAlias THEN [rows[k] EXCEPT !.alias = a]
                           ELSE rows[k]
                  row == [SetPriority(named, ToApply.eth) EXCEPT !.new = TRUE]
              IN /\ DmlAddMarking([rows EXCEPT ![k] = row], k)
                 /\ UNCHANGED next
                 /\ Running
         ELSE UNCHANGED markingVars
    /\ web' = [WebIdle EXCEPT !.step = "tables"]
    /\ queue' = NextMarking
    /\ UNCHANGED <<topVars, refresh>>

\* The table is applied and the interface is refreshed.
WebTableDone ==
    /\ web.step = "tables"
    /\ Tables # <<>> /\ Head(Tables).found /\ Head(Tables).markings = <<>>
    /\ refresh' = TRUE
    /\ queue' = Rest(Tail(Tables))
    /\ UNCHANGED <<markingVars, topVars, web>>

\* The blob is applied, or fails at an interface that does not exist; what was
\* applied before stays (WanMgr_WanData_Rollback_Handler does nothing).
WebDone ==
    /\ web.step = "tables"
    /\ Tables # <<>> => ~ Head(Tables).found
    /\ web' = WebIdle
    /\ queue' = Tail(queue)
    /\ UNCHANGED <<markingVars, topVars, refresh>>

WebThread == \/ \E ok \in BOOLEAN : WebStart(ok)
             \/ WebUpdate \/ WebAdd \/ WebFill \/ WebTableDone \/ WebDone

=============================================================================
