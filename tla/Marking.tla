------------------------------- MODULE Marking -------------------------------
(***************************************************************************)
(* The 802.1p marking table of a WAN interface: rows in memory, a list of  *)
(* aliases in PSM and four PSM records per alias.  A crash can fall        *)
(* between two PSM writes, and PSM can lose a record; the start of the     *)
(* manager repairs the list and builds the table from it.  SKBMark is      *)
(* always 0x100000 times SKBPort, so one number stands for both.  The PSM  *)
(* key of the list exists: it is part of the device's defaults.            *)
(***************************************************************************)
EXTENDS Integers, Sequences, FiniteSets, SequencesExt

CONSTANTS Aliases,        \* the aliases of the markings
          NoAlias,        \* the empty string
          Cut,            \* an alias cut short by the list's buffer
          ListCapacity,   \* aliases that fit in the 64 bytes of the list
          MarkingMax,     \* WAN_IF_MARKING_MAX_LIMIT
          Priorities      \* Ethernet priorities, 0..7 in the code

ASSUME MarkingAssumption ==
    /\ {NoAlias, Cut} \cap Aliases = {} /\ NoAlias # Cut
    /\ ListCapacity \in Nat /\ MarkingMax \in Nat
    /\ Priorities \subseteq 0..7

VARIABLES rows,      \* Marking.MarkingList
          next,      \* Marking.ulNextInstanceNumber
          list,      \* PSM_MARKING_LIST, split at "-"
          rec,       \* the PSM records of an alias
          refused,   \* aliases given twice, or not stored as they were given
          boot       \* broken entries the last step met, if it was a start

markingVars == <<rows, next, list, rec, refused, boot>>

Fields == <<"ALIAS", "SKBPORT", "SKBMARK", "ETHERNETPRIORITYMARK">>
AllFields == ToSet(Fields)
NoPriority == -1

\* The port of a row is its instance number plus one, or plus two when the row
\* is committed as new once more.
Ports == 0..MarkingMax + 2

Row == [ins : 0..MarkingMax, num : Ports, new : BOOLEAN,
        alias : Aliases \cup {NoAlias}, port : Ports,
        eth : Priorities \cup {NoPriority}]
Record == [has : SUBSET AllFields, port : Ports,
           eth : Priorities \cup {NoPriority}]

MarkingTypeOK ==
    /\ rows \in Seq(Row)
    /\ next \in 0..MarkingMax + 1
    /\ list \in Seq(Aliases \cup {Cut})
    /\ rec \in [Aliases \cup {NoAlias, Cut} -> Record]
    /\ refused \subseteq Aliases
    /\ boot \in -1..ListCapacity + 1

Running == boot' = -1

NoRecord == [has |-> {}, port |-> 0, eth |-> NoPriority]

-----------------------------------------------------------------------------
(* The start of the manager.                                               *)

\* The elements of s at the places W, in their order.
Place(W, k) == CHOOSE i \in W : Cardinality({j \in W : j <= i}) = k
Kept(s, W) == [k \in 1..Cardinality(W) |-> s[Place(W, k)]]

Complete(a, r) == r[a].has = AllFields
Without(a, s) == Kept(s, {i \in 1..Len(s) : s[i] # a})
Broken(s, r) == Kept(s, {i \in 1..Len(s) : ~ Complete(s[i], r)})
Whole(s, r) == Kept(s, {i \in 1..Len(s) : Complete(s[i], r)})

\* WanMgr_RemoveMarkingEntryFromPSMList for every broken entry in turn: the
\* first call cuts the copy of the list it is given at every "-", and the
\* next calls see its first alias only.
Repaired(s, r) ==
    LET b == Broken(s, r) IN
    CASE b = <<>> -> s
      [] Len(b) = 1 -> Without(b[1], s)
      [] OTHER -> Without(Last(b), <<Head(s)>>)

\* The row of the k-th complete entry: instance numbers start again at 0, and
\* port and mark follow them, in memory and in PSM.
RestartedRow(a, k, r) ==
    [ins |-> k - 1, num |-> k, new |-> FALSE, alias |-> a, port |-> k,
     eth |-> r[a].eth]

\* Mutant: the ports stay what they were.
KeptPorts(s, r) ==
    LET c == Whole(s, r) IN
    [k \in 1..Len(c) |-> [RestartedRow(c[k], k, r) EXCEPT !.port = r[c[k]].port]]

WanIfaceMarkingInit(s, r) ==
    LET c == Whole(s, r) IN
    [k \in 1..Len(c) |-> RestartedRow(c[k], k, r)]

PortOf(a, rs) == rs[CHOOSE k \in 1..Len(rs) : rs[k].alias = a].port

\* Mutant: the broken entries stay in the list.
RestartUnrepaired(s, r) ==
    /\ rows' = WanIfaceMarkingInit(s, r)
    /\ next' = Len(rows')
    /\ list' = s
    /\ rec' = [a \in DOMAIN r |->
                 IF \E k \in 1..Len(rows') : rows'[k].alias = a
                   THEN [r[a] EXCEPT !.port = PortOf(a, rows')]
                   ELSE r[a]]
    /\ refused' = {rows'[k].alias : k \in 1..Len(rows')} \ ToSet(list')
    /\ boot' = Len(Broken(s, r))

Restart(s, r) ==
    /\ rows' = WanIfaceMarkingInit(s, r)
    /\ next' = Len(rows')
    /\ list' = Repaired(s, r)
    /\ rec' = [a \in DOMAIN r |->
                 IF \E k \in 1..Len(rows') : rows'[k].alias = a
                   THEN [r[a] EXCEPT !.port = PortOf(a, rows')]
                   ELSE r[a]]
    /\ refused' = {rows'[k].alias : k \in 1..Len(rows')} \ ToSet(list')
    /\ boot' = Len(Broken(s, r))

\* The device's defaults hold one marking or none.
MarkingInit ==
    /\ list \in {<<>>} \cup {<<a>> : a \in Aliases}
    /\ rec = [a \in Aliases \cup {NoAlias, Cut} |->
                IF list = <<a>>
                  THEN [has |-> AllFields, port |-> 1, eth |-> NoPriority]
                  ELSE NoRecord]
    /\ rows = WanIfaceMarkingInit(list, rec)
    /\ next = Len(rows) /\ refused = {} /\ boot = -1

-----------------------------------------------------------------------------
(* DmlCheckAndProceedMarkingOperations.                                    *)

Listed(a) == \E k \in 1..Len(list) : list[k] = a

\* The list with an alias added: the last alias that fits may be cut.
ListsWith(a) ==
    IF a = NoAlias THEN {list}
    ELSE IF Len(list) < ListCapacity THEN {Append(list, a)}
    ELSE IF Len(list) = ListCapacity THEN {list, Append(list, Cut)}
    ELSE {list}

\* An alias that did not get into the list is not stored; one that two rows
\* have goes with the first of them.
RefusedWith(a, s, rs) ==
    LET twice == \E j, k \in 1..Len(rs) : j # k /\ rs[j].alias = a /\ rs[k].alias = a
    IN IF a = NoAlias \/ (Contains(s, a) /\ ~ twice) THEN refused ELSE refused \cup {a}

Stored(a, n, p, e) ==
    [rec EXCEPT ![a] = [has |-> @.has \cup {Fields[k] : k \in 1..n},
                        port |-> IF n >= 2 THEN p ELSE @.port,
                        eth |-> IF n >= 4 THEN e ELSE @.eth]]

\* Records go in the order of Fields; the first n are deleted.
Deleted(a, n) ==
    [rec EXCEPT ![a].has = @ \ {Fields[k] : k \in 1..n}]

-----------------------------------------------------------------------------
(* The table's handlers.                                                   *)

NewRow(n) == [ins |-> n, num |-> n, new |-> TRUE, alias |-> NoAlias, port |-> 0,
              eth |-> NoPriority]

Marking_AddEntry ==
    /\ next <= MarkingMax
    /\ rows' = Append(rows, NewRow(next))
    /\ next' = next + 1
    /\ UNCHANGED <<list, rec, refused>>
    /\ Running

\* An alias is set once; on a row that was committed without one it comes too
\* late to be stored.
Marking_SetParamStringValue(k, a) ==
    /\ rows[k].alias = NoAlias
    /\ rows' = [rows EXCEPT ![k].alias = a]
    /\ refused' = IF rows[k].new /\ \A j \in 1..Len(rows) : rows[j].alias # a
                    THEN refused ELSE refused \cup {a}
    /\ UNCHANGED <<next, list, rec>>
    /\ Running

Marking_SetParamIntValue(k, v) ==
    /\ rows' = [rows EXCEPT ![k].eth = v]
    /\ UNCHANGED <<next, list, rec, refused>>
    /\ Running

\* The row was committed before, without an alias that could be stored.
Recommitted(rs, k) == IF rs[k].port # 0 THEN {rs[k].alias} ELSE {}

\* Mutant: the instance number is used as it is.
AddFromZero(rs, k, s) ==
    /\ rows' = [rs EXCEPT ![k].new = FALSE, ![k].port = rs[k].num]
    /\ list' = s
    /\ rec' = Stored(rs[k].alias, 4, rs[k].num, rs[k].eth)
    /\ refused' = RefusedWith(rs[k].alias, s, rs) \cup Recommitted(rs, k)

DmlAdd(rs, k, s) ==
    LET p == rs[k].num + 1 IN
    /\ rows' = [rs EXCEPT ![k].new = FALSE, ![k].num = p, ![k].port = p]
    /\ list' = s
    /\ rec' = Stored(rs[k].alias, 4, p, rs[k].eth)
    /\ refused' = RefusedWith(rs[k].alias, s, rs) \cup Recommitted(rs, k)

\* DmlAddMarking reports success for an alias the list already holds too.
DmlAddMarking(rs, k) ==
    IF Listed(rs[k].alias)
      THEN /\ rows' = [rs EXCEPT ![k].new = FALSE]
           /\ refused' = refused \cup {rs[k].alias}
           /\ UNCHANGED <<list, rec>>
      ELSE \E s \in ListsWith(rs[k].alias) : DmlAdd(rs, k, s)

Marking_CommitNew(k) ==
    /\ rows[k].new
    /\ DmlAddMarking(rows, k)
    /\ UNCHANGED next
    /\ Running

Marking_CommitUpdate(k) ==
    /\ ~ rows[k].new
    /\ Listed(rows[k].alias)
    /\ rec' = Stored(rows[k].alias, 4, rows[k].port, rows[k].eth)
    /\ UNCHANGED <<rows, next, list, refused>>
    /\ Running

\* A row whose alias is not in the list is not deleted, and is not new any
\* more: its next commit is an update, which fails.
Marking_DelEntry(k) ==
    LET a == rows[k].alias IN
    /\ IF Listed(a)
         THEN /\ rows' = RemoveAt(rows, k)
              /\ list' = Without(a, list)
              /\ rec' = Deleted(a, 4)
              /\ refused' = refused
         ELSE /\ rows' = [rows EXCEPT ![k].new = FALSE]
              /\ refused' = refused \cup ({a} \ {NoAlias})
              /\ UNCHANGED <<list, rec>>
    /\ UNCHANGED next
    /\ Running

-----------------------------------------------------------------------------
(* Faults.                                                                 *)

\* The manager stops after the list and n records of a new marking.
CrashInAdd(k, n) ==
    /\ rows[k].new /\ ~ Listed(rows[k].alias) /\ rows[k].alias # NoAlias
    /\ \E s \in ListsWith(rows[k].alias) :
           Restart(s, Stored(rows[k].alias, n, rows[k].num + 1, rows[k].eth))

\* The manager stops after n records of a marking are deleted, before the list.
CrashInDelete(k, n) ==
    /\ Listed(rows[k].alias)
    /\ Restart(list, Deleted(rows[k].alias, n))

\* PSM loses a record of a listed marking.
PsmTruncated(a, f) ==
    /\ Listed(a) /\ f \in rec[a].has
    /\ rec' = [rec EXCEPT ![a].has = @ \ {f}]
    /\ UNCHANGED <<rows, next, list, refused>>
    /\ Running

MarkingRestart == Restart(list, rec)

-----------------------------------------------------------------------------
(* Properties                                                              *)

\* Two stored markings never share a port, nor the mark derived from it:
\* instance numbers start again at every start, and a new row takes the next
\* one (WanMgr_WanIfaceMarkingInit re-adjusts the ports it reads).  A row
\* that was committed and is committed as new once more moves to the port of
\* the next one; its alias counts as refused.
PortsDistinct ==
    \A j, k \in 1..Len(rows) :
        j # k /\ rows[j].port # 0 /\ {rows[j].alias, rows[k].alias} \cap refused = {}
            => rows[j].port # rows[k].port

\* A committed row is in the list with the port its packets are marked with, in
\* memory and in PSM, unless its alias was given twice or a call left it out
\* (DmlCheckAndProceedMarkingOperations).
MarkingsStored ==
    \A k \in 1..Len(rows) :
        LET a == rows[k].alias IN
        ~ rows[k].new /\ a \notin refused \cup {NoAlias} =>
            /\ Listed(a)
            /\ "SKBPORT" \in rec[a].has => rec[a].port = rows[k].port
            /\ rows[k].port # 0

\* After a start the list holds the markings of the table and no others: the
\* broken entry is removed, the whole ones stay
\* (WanMgr_RemoveMarkingEntryFromPSMList), when at most one entry is broken.
RestartRepairs ==
    boot \in {0, 1} => list = [k \in 1..Len(rows) |-> rows[k].alias]

=============================================================================
