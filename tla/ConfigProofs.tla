---------------------------- MODULE ConfigProofs ----------------------------
(***************************************************************************)
(* Proofs about the stored configuration, for every number of interfaces   *)
(* and groups, every bound on the calls and every set of parameters that   *)
(* is set: two interfaces never have the same priority, and what was       *)
(* confirmed is what the next start reads.  For every set of aliases and   *)
(* every capacity of the list, what was committed to the marking table is  *)
(* stored, ports are distinct and a start repairs the list.                *)
(***************************************************************************)
EXTENDS MCConfig, FiniteSetTheorems, TLAPS

-----------------------------------------------------------------------------
(* The inductive invariant of the interface parameters.                    *)

\* Parameters that are written to memory and to PSM in one call.
PutAtOnce == {"ActiveLink", "VLANInUse", "ConnectivityCheckType"}

\* Only a marking entry of PSM can hold what is not a number.
NumbersStored == \A i \in Ifs : \A p \in Params \ {"Marking.Entry"} : psm[i][p] \in Vals

\* What is put at once is the same in memory and in PSM: a commit, which
\* confirms it without writing it, does not promise more than PSM has.
AtOnceStored == \A i \in Ifs : \A p \in PutAtOnce : mem[i][p] = psm[i][p]

\* PSM has what was confirmed, but for what the reader changes.
ConfirmedStored ==
    \A i \in Ifs : \A p \in Saved :
        \/ psm[i][p] = cmt[i][p]
        \/ p = "Timeout" /\ Clamped(psm[i][p]) = Clamped(cmt[i][p])
        \/ p = "EnableMAPT" /\ mapt
        \/ Overwritten(i, p)

\* A priority that waits for no commit is stored: a start finds the priorities
\* the check for a priority in use has seen.
PriorityStored ==
    torn \/ \A i \in Ifs : <<i, "WanIf">> \notin dirty =>
                              psm[i]["Priority"] = mem[i]["Priority"]

ConfigInv == /\ ConfigTypeOK /\ NumbersStored /\ AtOnceStored
             /\ ConfirmedStored /\ PriorityStored /\ PrioritiesDistinct

-----------------------------------------------------------------------------
(* Where the parameters belong.                                            *)

LEMMA WanReadBelong ==
    \A p \in WanRead : p \in Params /\ ObjectOf(p) = "WanIf"
  BY DEF WanWritten, WanRead, VirtWritten, VirtRead, Params, ObjectOf

LEMMA VirtWrittenBelong ==
    \A p \in VirtWritten : /\ p \in Params /\ ObjectOf(p) = "VirtualInterface"
                           /\ p \notin WanRead /\ p # "Marking.Entry"
  BY DEF VirtWritten, VirtRead, WanRead, WanWritten, Params, ObjectOf

LEMMA VirtReadBelong ==
    \A p \in VirtRead : /\ p \in Params /\ ObjectOf(p) = "VirtualInterface"
                        /\ p \notin WanRead
  BY DEF VirtWritten, VirtRead, WanRead, WanWritten, Params, ObjectOf

LEMMA PutAtOnceBelong ==
    /\ \A p \in PutAtOnce : p \in Params /\ p \notin WanWritten \cup VirtWritten
    /\ {"Priority", "Timeout", "EnableMAPT", "Marking.Entry"} \cap PutAtOnce = {}
  BY DEF PutAtOnce, VirtWritten, VirtRead, WanRead, WanWritten, Params

\* A saved parameter is written by a commit of its object or put at once; the
\* marking entry has a commit of its own.
LEMMA SavedBelong ==
    \A p \in Saved : /\ p \in Params
                     /\ p \in WanWritten \/ p \in VirtWritten \/ p \in PutAtOnce
                           \/ p = "Marking.Entry"
  BY DEF Saved, NeverWritten, PutAtOnce, VirtWritten, VirtRead, WanRead, WanWritten, Params,
         EntryParams

LEMMA MarkingBelongs ==
    /\ "Marking.Entry" \in Params /\ ObjectOf("Marking.Entry") = "Marking"
    /\ "Marking.Entry" \notin WanWritten \cup VirtWritten \cup PutAtOnce
  BY DEF Params, EntryParams, ObjectOf, PutAtOnce, VirtWritten, VirtRead, WanRead, WanWritten

LEMMA PriorityBelongs ==
    /\ "Priority" \in Params /\ "Priority" \in WanWritten /\ "Priority" \in WanRead
    /\ "Priority" \notin VirtWritten /\ "Priority" \notin PutAtOnce
    /\ ObjectOf("Priority") = "WanIf" /\ "Marking.Entry" \in Params
  <1>1. /\ "Priority" \in WanWritten /\ "Priority" \in WanRead
        /\ "Priority" \notin VirtWritten /\ "Priority" \notin PutAtOnce
        /\ "Marking.Entry" \in Params
    BY DEF PutAtOnce, VirtWritten, VirtRead, WanRead, WanWritten, Params, EntryParams
  <1> QED BY <1>1, WanReadBelong

LEMMA SavedObjects ==
    \A p \in Saved \ {"Marking.Entry"} : ObjectOf(p) \in {"WanIf", "VirtualInterface"}
  <1>1. \A p \in Saved \ {"Marking.Entry"} : p \in WanRead \/ p \in VirtRead
    BY DEF Saved, NeverWritten, Params, EntryParams
  <1> QED BY <1>1, WanReadBelong, VirtReadBelong

-----------------------------------------------------------------------------
(* Setters.                                                                *)

LEMMA SetKeeps ==
    ASSUME ConfigInv, NEW i \in Ifs, NEW f, NEW o \in Objects, Set(i, f, o),
           DOMAIN f \subseteq Params \ PutAtOnce, \A p \in DOMAIN f : f[p] \in Vals,
           "Priority" \in DOMAIN f => o = "WanIf" /\ ~ Taken(i, f["Priority"])
    PROVE  ConfigInv'
  <1> DEFINE new == [p \in Params |-> IF p \in DOMAIN f THEN f[p] ELSE mem[i][p]]
  <1>0. /\ mem \in [Ifs -> [Params -> Vals]] /\ new \in [Params -> Vals]
        /\ mem' = [mem EXCEPT ![i] = new]
    BY DEF ConfigInv, ConfigTypeOK, Set
  <1>a. \A p \in Params : new[p] = IF p \in DOMAIN f THEN f[p] ELSE mem[i][p]
    OBVIOUS
  <1> HIDE DEF new
  <1>1. ConfigTypeOK'
    <2>1. mem' \in [Ifs -> [Params -> Vals]]
      BY <1>0
    <2> QED BY <2>1 DEF ConfigInv, ConfigTypeOK, Set
  <1>2. NumbersStored' /\ ConfirmedStored'
    BY DEF ConfigInv, Set, NumbersStored, ConfirmedStored, Overwritten
  <1>3. AtOnceStored'
    BY <1>0, <1>a, PutAtOnceBelong DEF ConfigInv, Set, AtOnceStored
  <1>4. PriorityStored'
    BY <1>0, <1>a, PriorityBelongs DEF ConfigInv, Set, PriorityStored
  <1>5. PrioritiesDistinct'
    BY <1>0, <1>a, PriorityBelongs DEF ConfigInv, Set, PrioritiesDistinct, Taken
  <1> QED BY <1>1, <1>2, <1>3, <1>4, <1>5 DEF ConfigInv

LEMMA SetOneKeeps ==
    ASSUME ConfigInv, NEW i \in Ifs, NEW p \in Params \ PutAtOnce, NEW v \in Vals,
           NEW o \in Objects, Set(i, One(p, v), o),
           p = "Priority" => o = "WanIf" /\ ~ Taken(i, v)
    PROVE  ConfigInv'
  <1>1. DOMAIN One(p, v) = {p} /\ One(p, v)[p] = v
    BY DEF One
  <1> QED BY <1>1, SetKeeps

LEMMA BooleanVal == \A v \in Vals : v % 2 \in Vals
  BY ConfigAssumption DEF Vals

LEMMA PutKeeps ==
    ASSUME ConfigInv, NEW i \in Ifs, NEW p \in PutAtOnce, NEW v \in Vals,
           SetBoth(i, p, v)
    PROVE  ConfigInv'
  <1>0. /\ mem \in [Ifs -> [Params -> Vals]] /\ cmt \in [Ifs -> [Params -> Vals]]
        /\ psm \in [Ifs -> [Params -> Vals \cup {Text}]]
        /\ p \in Params /\ p # "Priority"
    BY PutAtOnceBelong DEF ConfigInv, ConfigTypeOK
  <1>a. \A j \in Ifs, q \in Params :
           /\ mem'[j][q] = IF j = i /\ q = p THEN v ELSE mem[j][q]
           /\ psm'[j][q] = IF j = i /\ q = p THEN v ELSE psm[j][q]
           /\ cmt'[j][q] = IF j = i /\ q = p THEN v ELSE cmt[j][q]
    BY <1>0 DEF SetBoth
  <1>b. mapt' = mapt /\ dirty' = dirty /\ torn' = torn
    BY DEF SetBoth
  <1>1. ConfigTypeOK'
    <2>1. /\ mem' \in [Ifs -> [Params -> Vals]] /\ cmt' \in [Ifs -> [Params -> Vals]]
          /\ psm' \in [Ifs -> [Params -> Vals \cup {Text}]]
      BY <1>0 DEF SetBoth
    <2> QED BY <2>1, <1>b DEF ConfigInv, ConfigTypeOK
  <1>2. NumbersStored'
    BY <1>a DEF ConfigInv, NumbersStored
  <1>3. AtOnceStored'
    BY <1>a, PutAtOnceBelong DEF ConfigInv, AtOnceStored
  <1>4. ConfirmedStored'
    BY <1>a, <1>b, SavedBelong, MarkingBelongs DEF ConfigInv, ConfirmedStored, Overwritten
  <1>5. PriorityStored'
    BY <1>0, <1>a, <1>b, PriorityBelongs DEF ConfigInv, PriorityStored
  <1>6. PrioritiesDistinct'
    BY <1>0, <1>a, <1>b, PriorityBelongs DEF ConfigInv, PrioritiesDistinct
  <1> QED BY <1>1, <1>2, <1>3, <1>4, <1>5, <1>6 DEF ConfigInv

\* A check goes to memory and to PSM on every interface it is switched for.
LEMMA ChecksKeep ==
    ASSUME ConfigInv, NEW on \in BOOLEAN, SetDnsConnectivityCheck(on)
    PROVE  ConfigInv'
  <1> DEFINE type == IF on THEN TAD ELSE NoCheck
             P == "ConnectivityCheckType"
             hit == {i \in Ifs : Overrides(i, type, TAD)}
  <1>0. /\ mem \in [Ifs -> [Params -> Vals]] /\ cmt \in [Ifs -> [Params -> Vals]]
        /\ psm \in [Ifs -> [Params -> Vals \cup {Text}]]
        /\ P \in Params /\ P \in PutAtOnce
    BY PutAtOnceBelong DEF ConfigInv, ConfigTypeOK, PutAtOnce
  <1>1. type \in Vals
    BY ConfigAssumption DEF Vals, TAD, NoCheck
  <1>2. /\ mem' = [i \in Ifs |-> IF i \in hit THEN [mem[i] EXCEPT ![P] = type] ELSE mem[i]]
        /\ psm' = [i \in Ifs |-> IF i \in hit THEN [psm[i] EXCEPT ![P] = type] ELSE psm[i]]
        /\ cmt' = [i \in Ifs |-> IF i \in hit THEN [cmt[i] EXCEPT ![P] = type] ELSE cmt[i]]
        /\ mapt' = mapt /\ dirty' = dirty /\ torn' = torn
    BY DEF SetDnsConnectivityCheck
  <1> HIDE DEF type, hit
  <1>a. \A j \in Ifs, q \in Params :
           /\ mem'[j][q] = IF j \in hit /\ q = P THEN type ELSE mem[j][q]
           /\ psm'[j][q] = IF j \in hit /\ q = P THEN type ELSE psm[j][q]
           /\ cmt'[j][q] = IF j \in hit /\ q = P THEN type ELSE cmt[j][q]
    BY <1>0, <1>2
  <1>3. ConfigTypeOK'
    <2>1. mem' \in [Ifs -> [Params -> Vals]] /\ cmt' \in [Ifs -> [Params -> Vals]]
      BY <1>0, <1>1, <1>2
    <2>2. psm' \in [Ifs -> [Params -> Vals \cup {Text}]]
      BY <1>0, <1>1, <1>2
    <2> QED BY <2>1, <2>2, <1>2 DEF ConfigInv, ConfigTypeOK
  <1>4. NumbersStored'
    BY <1>a, <1>1 DEF ConfigInv, NumbersStored
  <1>5. AtOnceStored'
    BY <1>a, PutAtOnceBelong DEF ConfigInv, AtOnceStored
  <1>6. ConfirmedStored'
    BY <1>0, <1>a, <1>2, SavedBelong, MarkingBelongs DEF ConfigInv, ConfirmedStored, Overwritten
  <1>7. PriorityStored' /\ PrioritiesDistinct'
    BY <1>0, <1>a, <1>2, PriorityBelongs DEF ConfigInv, PriorityStored, PrioritiesDistinct
  <1> QED BY <1>3, <1>4, <1>5, <1>6, <1>7 DEF ConfigInv

-----------------------------------------------------------------------------
(* Commits, rollbacks and starts.                                          *)

\* A commit of the objects os that writes the parameters ps.  It confirms what
\* it does not write only where memory and PSM agree, or nobody asks.
LEMMA CommitKeeps ==
    ASSUME ConfigInv, NEW i \in Ifs, NEW os \in SUBSET Objects, NEW ps \in SUBSET Params,
           Commit(i, os), psm' = [psm EXCEPT ![i] = Written(i, ps, @)],
           \A p \in Saved : ObjectOf(p) \in os <=> p \in ps \/ (p \in PutAtOnce /\ ObjectOf(p) \in os),
           "WanIf" \in os <=> "Priority" \in ps,
           ps \cap PutAtOnce = {}
    PROVE  ConfigInv'
  <1> DEFINE com == [p \in Params |-> IF ObjectOf(p) \in os THEN mem[i][p] ELSE cmt[i][p]]
             wr == [p \in Params |-> IF p \in ps THEN mem[i][p] ELSE psm[i][p]]
  <1>0. /\ mem \in [Ifs -> [Params -> Vals]] /\ cmt \in [Ifs -> [Params -> Vals]]
        /\ psm \in [Ifs -> [Params -> Vals \cup {Text}]]
    BY DEF ConfigInv, ConfigTypeOK
  <1>1. /\ com \in [Params -> Vals] /\ wr \in [Params -> Vals \cup {Text}]
        /\ cmt' = [cmt EXCEPT ![i] = com] /\ psm' = [psm EXCEPT ![i] = wr]
        /\ dirty' = dirty \ ({i} \X os)
        /\ mem' = mem /\ mapt' = mapt /\ torn' = torn
    <2>1. com \in [Params -> Vals]
      BY <1>0
    <2>2. wr \in [Params -> Vals \cup {Text}]
      BY <1>0
    <2>3. cmt' = [cmt EXCEPT ![i] = com]
      BY <1>0 DEF Commit, Committed
    <2>4. psm' = [psm EXCEPT ![i] = wr]
      BY <1>0 DEF Written
    <2> QED BY <2>1, <2>2, <2>3, <2>4 DEF Commit
  <1>2. /\ \A p \in Params : com[p] = IF ObjectOf(p) \in os THEN mem[i][p] ELSE cmt[i][p]
        /\ \A p \in Params : wr[p] = IF p \in ps THEN mem[i][p] ELSE psm[i][p]
    OBVIOUS
  <1> HIDE DEF com, wr
  <1>a. \A j \in Ifs, q \in Params :
           /\ psm'[j][q] = IF j = i /\ q \in ps THEN mem[j][q] ELSE psm[j][q]
           /\ cmt'[j][q] = IF j = i /\ ObjectOf(q) \in os THEN mem[j][q] ELSE cmt[j][q]
    BY <1>0, <1>1, <1>2
  <1>3. ConfigTypeOK'
    <2>1. psm' \in [Ifs -> [Params -> Vals \cup {Text}]] /\ cmt' \in [Ifs -> [Params -> Vals]]
      BY <1>0, <1>1
    <2> QED BY <2>1, <1>1 DEF ConfigInv, ConfigTypeOK
  <1>4. NumbersStored'
    BY <1>0, <1>a DEF ConfigInv, NumbersStored
  <1>5. AtOnceStored'
    BY <1>a, <1>1, PutAtOnceBelong DEF ConfigInv, AtOnceStored
  <1>6. ConfirmedStored'
    <2> SUFFICES ASSUME NEW j \in Ifs, NEW p \in Saved
                 PROVE  \/ psm'[j][p] = cmt'[j][p]
                        \/ p = "Timeout" /\ Clamped(psm'[j][p]) = Clamped(cmt'[j][p])
                        \/ p = "EnableMAPT" /\ mapt'
                        \/ Overwritten(j, p)'
      BY DEF ConfirmedStored
    <2>1. p \in Params
      BY SavedBelong
    <2>2. CASE j = i /\ p \in ps
      BY <1>a, <2>1, <2>2
    <2>3. CASE j = i /\ p \notin ps /\ ObjectOf(p) \in os
      <3>1. p \in PutAtOnce
        BY <2>3
      <3>2. mem[j][p] = psm[j][p]
        BY <3>1 DEF ConfigInv, AtOnceStored
      <3> QED BY <1>a, <2>1, <2>3, <3>2
    <2>4. CASE j # i \/ (p \notin ps /\ ObjectOf(p) \notin os)
      <3>1. psm'[j][p] = psm[j][p] /\ cmt'[j][p] = cmt[j][p]
        BY <1>a, <2>1, <2>4
      <3> QED BY <1>1, <3>1 DEF ConfigInv, ConfirmedStored, Overwritten
    <2> QED BY <2>2, <2>3, <2>4
  <1>7. PriorityStored'
    <2> SUFFICES ASSUME ~ torn, NEW j \in Ifs, <<j, "WanIf">> \notin dirty'
                 PROVE  psm'[j]["Priority"] = mem[j]["Priority"]
      BY <1>1 DEF PriorityStored
    <2>1. CASE <<j, "WanIf">> \notin dirty
      BY <1>a, <2>1, PriorityBelongs DEF ConfigInv, PriorityStored
    <2>2. CASE <<j, "WanIf">> \in dirty
      BY <1>1, <1>a, <2>2, PriorityBelongs
    <2> QED BY <2>1, <2>2
  <1>8. PrioritiesDistinct'
    BY <1>1 DEF ConfigInv, PrioritiesDistinct
  <1> QED BY <1>3, <1>4, <1>5, <1>6, <1>7, <1>8 DEF ConfigInv

LEMMA ObjectsCommitted ==
    ASSUME NEW p \in Saved
    PROVE  /\ ObjectOf(p) = "VirtualInterface"
                 <=> p \in VirtWritten \/ (p \in PutAtOnce /\ ObjectOf(p) = "VirtualInterface")
           /\ ObjectOf(p) = "WanIf"
                 <=> p \in WanWritten \/ (p \in PutAtOnce /\ ObjectOf(p) = "WanIf")
  BY SavedBelong, WanReadBelong, VirtWrittenBelong, MarkingBelongs DEF WanRead

LEMMA WanIfCommitKeeps ==
    ASSUME ConfigInv, NEW i \in Ifs, WanIf_Commit(i)
    PROVE  ConfigInv'
  <1> DEFINE ps == WanWritten \cup VirtWritten
             os == {"WanIf", "VirtualInterface"}
  <1>0. psm \in [Ifs -> [Params -> Vals \cup {Text}]]
    BY DEF ConfigInv, ConfigTypeOK
  <1>1. psm' = [psm EXCEPT ![i] = Written(i, ps, @)]
    BY <1>0 DEF WanIf_Commit, write_Virtual_Interface, write_Wan_Interface_Parameters, Written
  <1>2. \A p \in Saved : ObjectOf(p) \in os <=> p \in ps \/ (p \in PutAtOnce /\ ObjectOf(p) \in os)
    BY ObjectsCommitted
  <1>3. ps \in SUBSET Params /\ os \in SUBSET Objects /\ ps \cap PutAtOnce = {}
    BY WanReadBelong, VirtWrittenBelong, PutAtOnceBelong DEF Objects, WanRead
  <1>4. "Priority" \in ps /\ "WanIf" \in os
    BY PriorityBelongs
  <1>5. Commit(i, os)
    BY DEF WanIf_Commit
  <1> HIDE DEF ps, os
  <1> QED BY <1>1, <1>2, <1>3, <1>4, <1>5, CommitKeeps

LEMMA VirtualCommitKeeps ==
    ASSUME ConfigInv, NEW i \in Ifs, WanVirtualIf_Commit(i)
    PROVE  ConfigInv'
  <1> DEFINE os == {"VirtualInterface"}
  <1>1. psm' = [psm EXCEPT ![i] = Written(i, VirtWritten, @)]
    BY DEF WanVirtualIf_Commit, write_Virtual_Interface
  <1>2. \A p \in Saved : ObjectOf(p) \in os
                            <=> p \in VirtWritten \/ (p \in PutAtOnce /\ ObjectOf(p) \in os)
    BY ObjectsCommitted
  <1>3. VirtWritten \in SUBSET Params /\ os \in SUBSET Objects /\ VirtWritten \cap PutAtOnce = {}
    BY VirtWrittenBelong, PutAtOnceBelong DEF Objects
  <1>4. "Priority" \notin VirtWritten /\ "WanIf" \notin os
    BY PriorityBelongs
  <1>5. Commit(i, os)
    BY DEF WanVirtualIf_Commit
  <1> HIDE DEF os
  <1> QED BY <1>1, <1>2, <1>3, <1>4, <1>5, CommitKeeps

\* Both commits write the key of the marking entry, one of them what is no number.
LEMMA EntryCommitKeeps ==
    ASSUME ConfigInv, NEW i \in Ifs, WanIfVlanCfg_Commit(i) \/ WanIfVlanMarking_Commit(i)
    PROVE  ConfigInv'
  <1> DEFINE P == "Marking.Entry"
  <1>0. /\ mem \in [Ifs -> [Params -> Vals]] /\ cmt \in [Ifs -> [Params -> Vals]]
        /\ psm \in [Ifs -> [Params -> Vals \cup {Text}]]
        /\ P \in Params
    BY PriorityBelongs DEF ConfigInv, ConfigTypeOK
  <1>1. PICK o \in {"VLAN", "Marking"}, v \in Vals \cup {Text} :
           /\ Commit(i, {o}) /\ psm' = [psm EXCEPT ![i][P] = v]
           /\ v = Text \/ (o = "Marking" /\ v = mem[i][P])
    <2>1. CASE WanIfVlanCfg_Commit(i)
      <3>1. Commit(i, {"VLAN"}) /\ psm' = [psm EXCEPT ![i][P] = Text]
        BY <2>1 DEF WanIfVlanCfg_Commit
      <3> QED BY <3>1
    <2>2. CASE WanIfVlanMarking_Commit(i)
      <3>1. Commit(i, {"Marking"}) /\ psm' = [psm EXCEPT ![i][P] = mem[i][P]]
        BY <2>2 DEF WanIfVlanMarking_Commit
      <3>2. mem[i][P] \in Vals \cup {Text}
        BY <1>0
      <3> QED BY <3>1, <3>2
    <2> QED BY <2>1, <2>2
  <1> DEFINE com == [p \in Params |-> IF ObjectOf(p) \in {o} THEN mem[i][p] ELSE cmt[i][p]]
  <1>2. /\ com \in [Params -> Vals] /\ cmt' = [cmt EXCEPT ![i] = com]
        /\ dirty' = dirty \ ({i} \X {o}) /\ mem' = mem /\ mapt' = mapt /\ torn' = torn
    BY <1>0, <1>1 DEF Commit, Committed
  <1>3. \A p \in Params : com[p] = IF ObjectOf(p) = o THEN mem[i][p] ELSE cmt[i][p]
    OBVIOUS
  <1> HIDE DEF com
  <1>a. \A j \in Ifs, q \in Params : q # P => psm'[j][q] = psm[j][q]
    BY <1>0, <1>1
  <1>b. \A j \in Ifs, q \in Params : ObjectOf(q) # o => cmt'[j][q] = cmt[j][q]
    BY <1>0, <1>2, <1>3
  <1>4. ConfigTypeOK'
    <2>1. psm' \in [Ifs -> [Params -> Vals \cup {Text}]] /\ cmt' \in [Ifs -> [Params -> Vals]]
      BY <1>0, <1>1, <1>2
    <2> QED BY <2>1, <1>2 DEF ConfigInv, ConfigTypeOK
  <1>5. NumbersStored'
    BY <1>a DEF ConfigInv, NumbersStored
  <1>6. AtOnceStored'
    BY <1>2, <1>a, PutAtOnceBelong DEF ConfigInv, AtOnceStored
  <1>7. ConfirmedStored'
    <2> SUFFICES ASSUME NEW j \in Ifs, NEW p \in Saved
                 PROVE  \/ psm'[j][p] = cmt'[j][p]
                        \/ p = "Timeout" /\ Clamped(psm'[j][p]) = Clamped(cmt'[j][p])
                        \/ p = "EnableMAPT" /\ mapt'
                        \/ Overwritten(j, p)'
      BY DEF ConfirmedStored
    <2>1. p \in Params /\ (p # P => ObjectOf(p) # o)
      BY SavedBelong, SavedObjects
    <2>2. CASE p # P
      <3>1. psm'[j][p] = psm[j][p] /\ cmt'[j][p] = cmt[j][p]
        BY <1>a, <1>b, <2>1, <2>2
      <3> QED BY <1>2, <2>2, <3>1 DEF ConfigInv, ConfirmedStored, Overwritten
    <2>3. CASE p = P /\ j # i
      <3>1. psm'[j][p] = psm[j][p] /\ cmt'[j][p] = cmt[j][p]
        BY <1>0, <1>1, <1>2, <2>3
      <3> QED BY <1>2, <2>3, <3>1 DEF ConfigInv, ConfirmedStored, Overwritten
    <2>4. CASE p = P /\ j = i
      <3>1. psm'[i][P] = v
        BY <1>0, <1>1
      <3>2. CASE v = Text
        BY <2>4, <3>1, <3>2 DEF Overwritten
      <3>3. CASE o = "Marking" /\ v = mem[i][P]
        <4>1. cmt'[i][P] = mem[i][P]
          BY <1>0, <1>2, <1>3, <3>3, MarkingBelongs
        <4> QED BY <2>4, <3>1, <3>3, <4>1
      <3> QED BY <1>1, <3>2, <3>3
    <2> QED BY <2>2, <2>3, <2>4
  <1>8. PriorityStored' /\ PrioritiesDistinct'
    <2>1. "Priority" \in Params /\ "Priority" # P
      BY PriorityBelongs
    <2>2. \A j \in Ifs : <<j, "WanIf">> \in dirty' <=> <<j, "WanIf">> \in dirty
      BY <1>2
    <2> QED BY <2>1, <2>2, <1>2, <1>a DEF ConfigInv, PriorityStored, PrioritiesDistinct
  <1> QED BY <1>4, <1>5, <1>6, <1>7, <1>8 DEF ConfigInv

LEMMA RollbackKeeps ==
    ASSUME ConfigInv, NEW i \in Ifs, NEW o \in Objects, Rollback(i, o)
    PROVE  ConfigInv'
  BY DEF Rollback, ConfigInv, ConfigTypeOK, NumbersStored, AtOnceStored, ConfirmedStored,
         Overwritten, PriorityStored, PrioritiesDistinct

\* What the start reads.
LEMMA ReadBack ==
    ASSUME NEW i \in Ifs, NEW p \in Params
    PROVE  WanIfaceConf(i)[p] = IF p = "Timeout" THEN Clamped(psm[i][p])
                                ELSE IF p = "EnableMAPT" /\ mapt THEN 1
                                ELSE IF p = "Marking.Entry" THEN Number(psm[i][p])
                                ELSE psm[i][p]
  <1>1. \/ p \in WanRead /\ p \notin VirtRead /\ p \notin EntryParams /\ p # "EnableMAPT"
        \/ p \in VirtRead /\ p \notin WanRead /\ p \notin EntryParams /\ p # "Timeout"
        \/ p \in EntryParams /\ p \notin WanRead /\ p \notin VirtRead
                             /\ p # "Timeout" /\ p # "EnableMAPT"
    BY DEF Params, WanRead, WanWritten, VirtRead, VirtWritten, EntryParams
  <1>2. p \in WanRead \cup VirtRead => p # "Marking.Entry"
    BY DEF WanRead, WanWritten, VirtRead, VirtWritten
  <1>3. CASE p \in WanRead /\ p \notin VirtRead /\ p \notin EntryParams /\ p # "EnableMAPT"
    BY <1>2, <1>3 DEF WanIfaceConf, get_Wan_Interface_Parameters
  <1>4. CASE p \in VirtRead /\ p \notin WanRead /\ p \notin EntryParams /\ p # "Timeout"
    BY <1>2, <1>4 DEF WanIfaceConf, get_Virtual_Interface
  <1>5. CASE /\ p \in EntryParams /\ p \notin WanRead /\ p \notin VirtRead
             /\ p # "Timeout" /\ p # "EnableMAPT"
    BY <1>5 DEF WanIfaceConf, VirtIfConfVLAN
  <1> QED BY <1>1, <1>3, <1>4, <1>5

LEMMA ClampedVal == \A v \in Vals : Clamped(v) \in Vals /\ Clamped(Clamped(v)) = Clamped(v)
  BY ConfigAssumption DEF Vals, Clamped

\* Memory after a start, whatever it was before.
LEMMA ReadBackVals ==
    ASSUME psm \in [Ifs -> [Params -> Vals \cup {Text}]], NumbersStored
    PROVE  [i \in Ifs |-> WanIfaceConf(i)] \in [Ifs -> [Params -> Vals]]
  <1> SUFFICES ASSUME NEW i \in Ifs PROVE WanIfaceConf(i) \in [Params -> Vals]
    OBVIOUS
  <1>1. ASSUME NEW p \in Params PROVE WanIfaceConf(i)[p] \in Vals
    <2>1. 0 \in Vals /\ 1 \in Vals /\ \A v \in Vals \cup {Text} : Number(v) \in Vals
      BY ConfigAssumption DEF Vals, Number, Text
    <2>2. p # "Marking.Entry" => psm[i][p] \in Vals
      BY DEF NumbersStored
    <2> QED BY <2>1, <2>2, ReadBack, ClampedVal
  <1>2. WanIfaceConf(i) = [p \in Params |-> WanIfaceConf(i)[p]]
    <2> DEFINE read(p) == CASE p \in WanRead -> get_Wan_Interface_Parameters(i)[p]
                            [] p \in VirtRead -> get_Virtual_Interface(i)[p]
                            [] p \in EntryParams -> VirtIfConfVLAN(i)[p]
    <2>1. WanIfaceConf(i) = [p \in Params |-> read(p)]
      BY DEF WanIfaceConf
    <2> HIDE DEF read
    <2> QED BY <2>1
  <1> QED BY <1>1, <1>2

LEMMA RestartKeeps ==
    ASSUME ConfigInv, ConfigRestart
    PROVE  ConfigInv'
  <1>0. /\ psm \in [Ifs -> [Params -> Vals \cup {Text}]] /\ NumbersStored
        /\ psm' = psm /\ mapt' = mapt /\ cmt' = mem' /\ dirty' = {}
        /\ mem' = [i \in Ifs |-> WanIfaceConf(i)] /\ torn' = (torn \/ dirty # {})
    BY DEF ConfigInv, ConfigTypeOK, ConfigRestart
  <1>a. \A i \in Ifs : mem'[i] = WanIfaceConf(i)
    BY <1>0
  <1>1. ConfigTypeOK'
    <2>1. mem' \in [Ifs -> [Params -> Vals]]
      BY <1>0, ReadBackVals
    <2> QED BY <2>1, <1>0 DEF ConfigInv, ConfigTypeOK
  <1>2. NumbersStored'
    BY <1>0 DEF NumbersStored
  <1>3. AtOnceStored'
    BY <1>0, <1>a, ReadBack, PutAtOnceBelong DEF AtOnceStored
  <1>4. ConfirmedStored'
    <2> SUFFICES ASSUME NEW i \in Ifs, NEW p \in Saved
                 PROVE  \/ psm[i][p] = mem'[i][p]
                        \/ p = "Timeout" /\ Clamped(psm[i][p]) = Clamped(mem'[i][p])
                        \/ p = "EnableMAPT" /\ mapt
                        \/ Overwritten(i, p)
      BY <1>0 DEF ConfirmedStored, Overwritten
    <2>1. p \in Params
      BY SavedBelong
    <2>2. CASE p # "Marking.Entry"
      <3>1. psm[i][p] \in Vals
        BY <1>0, <2>1, <2>2 DEF NumbersStored
      <3> QED BY <2>1, <2>2, <3>1, <1>a, ReadBack, ClampedVal
    <2>3. CASE p = "Marking.Entry"
      BY <2>1, <2>3, <1>a, ReadBack DEF Number, Overwritten
    <2> QED BY <2>2, <2>3
  <1>5. PriorityStored'
    BY <1>0, <1>a, ReadBack, PriorityBelongs DEF PriorityStored
  <1>6. PrioritiesDistinct'
    <2> SUFFICES ASSUME ~ torn, dirty = {}, NEW i \in Ifs, NEW j \in Ifs, i # j
                 PROVE  mem'[i]["Priority"] # mem'[j]["Priority"]
      BY <1>0 DEF PrioritiesDistinct
    <2>1. \A k \in Ifs : mem'[k]["Priority"] = psm[k]["Priority"]
      BY <1>a, ReadBack, PriorityBelongs
    <2>2. \A k \in Ifs : psm[k]["Priority"] = mem[k]["Priority"]
      BY DEF ConfigInv, PriorityStored
    <2> QED BY <2>1, <2>2 DEF ConfigInv, PrioritiesDistinct
  <1> QED BY <1>1, <1>2, <1>3, <1>4, <1>5, <1>6 DEF ConfigInv

LEMMA ConfigStarts == ConfigInit => ConfigInv
  <1> SUFFICES ASSUME ConfigInit PROVE ConfigInv
    OBVIOUS
  <1>0. /\ psm = DefaultPsm /\ mem = [i \in Ifs |-> WanIfaceConf(i)] /\ cmt = mem
        /\ dirty = {} /\ torn = FALSE /\ mapt \in BOOLEAN
    BY DEF ConfigInit
  <1>1. \A i \in Ifs, p \in Params : psm[i][p] \in Vals /\ psm[i]["Priority"] = i
    <2>1. 0 \in Vals /\ 1 \in Vals /\ TimeoutMin \in Vals /\ Ifs \subseteq Vals
      BY ConfigAssumption DEF Vals
    <2> QED BY <1>0, <2>1, PriorityBelongs DEF DefaultPsm
  <1>2. psm \in [Ifs -> [Params -> Vals \cup {Text}]]
    <2>1. 0 \in Vals /\ 1 \in Vals /\ TimeoutMin \in Vals /\ Ifs \subseteq Vals
      BY ConfigAssumption DEF Vals
    <2> QED BY <1>0, <2>1 DEF DefaultPsm
  <1>3. NumbersStored
    BY <1>1 DEF NumbersStored
  <1>4. mem \in [Ifs -> [Params -> Vals]]
    BY <1>0, <1>2, <1>3, ReadBackVals
  <1>5. ConfigTypeOK
    BY <1>0, <1>2, <1>4 DEF ConfigTypeOK
  <1>a. \A i \in Ifs : mem[i] = WanIfaceConf(i)
    BY <1>0
  <1>6. AtOnceStored
    BY <1>a, ReadBack, PutAtOnceBelong DEF AtOnceStored
  <1>7. ConfirmedStored
    <2> SUFFICES ASSUME NEW i \in Ifs, NEW p \in Saved
                 PROVE  \/ psm[i][p] = mem[i][p]
                        \/ p = "Timeout" /\ Clamped(psm[i][p]) = Clamped(mem[i][p])
                        \/ p = "EnableMAPT" /\ mapt
                        \/ Overwritten(i, p)
      BY <1>0 DEF ConfirmedStored
    <2>1. p \in Params /\ psm[i][p] \in Vals
      BY <1>1, SavedBelong
    <2>2. psm[i][p] # Text
      BY <2>1, ConfigAssumption DEF Vals, Text
    <2> QED BY <2>1, <2>2, <1>a, ReadBack, ClampedVal DEF Number
  <1>8. PriorityStored /\ PrioritiesDistinct
    BY <1>1, <1>a, ReadBack, PriorityBelongs DEF PriorityStored, PrioritiesDistinct
  <1> QED BY <1>3, <1>5, <1>6, <1>7, <1>8 DEF ConfigInv

-----------------------------------------------------------------------------
(* Every call keeps the invariant.                                         *)

LEMMA SettersKeep ==
    ASSUME ConfigInv, NEW i \in Ifs, NEW p \in Params, NEW v \in Vals, Setters(i, p, v)
    PROVE  ConfigInv'
  <1>0. /\ {"WanIf", "VirtualInterface", "VLAN", "Marking"} \subseteq Objects
        /\ 1 \in Vals /\ v % 2 \in Vals
    BY ConfigAssumption, BooleanVal DEF Objects, Vals
  <1>1. ASSUME NEW o \in Objects, NEW w \in Vals, Set(i, One(p, w), o),
               p \notin PutAtOnce, p = "Priority" => o = "WanIf" /\ ~ Taken(i, w)
        PROVE  ConfigInv'
    BY <1>1, SetOneKeeps
  <1>2. CASE WanIf_SetParamStringValue(i, p, v)
    BY <1>0, <1>1, <1>2 DEF WanIf_SetParamStringValue, PutAtOnce
  <1>3. CASE p = "Priority" /\ WanIfSelectionCfg_SetParamIntValue(i, v)
    BY <1>0, <1>1, <1>3 DEF WanIfSelectionCfg_SetParamIntValue, PutAtOnce
  <1>4. CASE WanIfSelectionCfg_SetParamUlongValue(i, p, v)
    <2>1. CASE Set(i, Nothing, "WanIf")
      <3>1. DOMAIN Nothing = {}
        BY DEF Nothing
      <3> QED BY <1>0, <2>1, <3>1, SetKeeps
    <2>2. CASE Set(i, One(p, v), "WanIf")
      BY <1>0, <1>1, <1>4, <2>2 DEF WanIfSelectionCfg_SetParamUlongValue, PutAtOnce
    <2> QED BY <1>4, <2>1, <2>2 DEF WanIfSelectionCfg_SetParamUlongValue
  <1>5. CASE p = "RequiresReboot" /\ WanIfSelectionCfg_SetParamBoolValue(i, v)
    BY <1>0, <1>1, <1>5 DEF WanIfSelectionCfg_SetParamBoolValue, PutAtOnce
  <1>6. CASE WanVirtualIf_SetParamBoolValue(i, p, v)
    BY <1>0, <1>1, <1>6 DEF WanVirtualIf_SetParamBoolValue, PutAtOnce
  <1>7. CASE WanVirtualIf_SetParamStringValue(i, p, v)
    BY <1>0, <1>1, <1>7 DEF WanVirtualIf_SetParamStringValue, PutAtOnce
  <1>8. CASE p = "VLAN.Timeout" /\ WanVirtualIf_SetParamUlongValue(i, v)
    BY <1>0, <1>1, <1>8 DEF WanVirtualIf_SetParamUlongValue, PutAtOnce
  <1>9. CASE WanIfIpCfg_SetParamUlongValue(i, p, v)
    <2>1. CASE p = "IP.Mode" /\ v # mem[i][p]
      <3> DEFINE f == [q \in {p, "ModeForceEnable"} |-> IF q = p THEN v ELSE 1]
      <3>1. Set(i, f, "VirtualInterface")
        BY <1>9, <2>1 DEF WanIfIpCfg_SetParamUlongValue
      <3>2. DOMAIN f = {p, "ModeForceEnable"} /\ \A q \in DOMAIN f : f[q] \in Vals
        BY <1>0
      <3>3. {p, "ModeForceEnable"} \subseteq Params \ PutAtOnce
        BY <2>1, VirtWrittenBelong DEF VirtWritten, PutAtOnce
      <3>4. "Priority" \notin {p, "ModeForceEnable"}
        BY <2>1
      <3> HIDE DEF f
      <3> QED BY <1>0, <3>1, <3>2, <3>3, <3>4, SetKeeps
    <2>2. CASE ~ (p = "IP.Mode" /\ v # mem[i][p])
      <3>1. Set(i, One(p, v), "VirtualInterface") /\ p \notin PutAtOnce /\ p # "Priority"
        BY <1>9, <2>2 DEF WanIfIpCfg_SetParamUlongValue, PutAtOnce
      <3> QED BY <1>0, <1>1, <3>1
    <2> QED BY <2>1, <2>2
  <1>10. CASE p = "IP.Interface" /\ WanIfIpCfg_SetParamStringValue(i, v)
    BY <1>0, <1>1, <1>10 DEF WanIfIpCfg_SetParamStringValue, PutAtOnce
  <1>11. CASE p = "PPP.Interface" /\ WanIfPPPCfg_SetParamStringValue(i, v)
    BY <1>0, <1>1, <1>11 DEF WanIfPPPCfg_SetParamStringValue, PutAtOnce
  <1>12. CASE p = "VLAN.Interface" /\ WanIfVlanCfg_SetParamStringValue(i, v)
    BY <1>0, <1>1, <1>12 DEF WanIfVlanCfg_SetParamStringValue, PutAtOnce
  <1>13. CASE p = "Marking.Entry" /\ WanIfVlanMarking_SetParamIntValue(i, v)
    BY <1>0, <1>1, <1>13 DEF WanIfVlanMarking_SetParamIntValue, PutAtOnce
  <1>14. CASE p = "ActiveLink" /\ DmlSetWanActiveLink(i, v)
    BY <1>0, <1>14, PutKeeps DEF DmlSetWanActiveLink, PutAtOnce
  <1>15. CASE p = "VLANInUse" /\ DmlSetVLANInUse(i, v)
    BY <1>15, PutKeeps DEF DmlSetVLANInUse, PutAtOnce
  <1> QED BY <1>2, <1>3, <1>4, <1>5, <1>6, <1>7, <1>8, <1>9, <1>10, <1>11, <1>12,
             <1>13, <1>14, <1>15 DEF Setters

LEMMA ConfigOpsKeep == ConfigInv /\ ConfigOps => ConfigInv'
  <1> SUFFICES ASSUME ConfigInv, ConfigOps PROVE ConfigInv'
    OBVIOUS
  <1>1. CASE \E i \in Ifs, p \in Params, v \in Vals : Setters(i, p, v)
    BY <1>1, SettersKeep
  <1>2. ASSUME NEW i \in Ifs, NEW on \in BOOLEAN, SetIPoEHealthCheck(i, on)
        PROVE  ConfigInv'
    <2>1. IHC \in Vals /\ NoCheck \in Vals
      BY ConfigAssumption DEF Vals, IHC, NoCheck
    <2> QED BY <1>2, <2>1, PutKeeps DEF SetIPoEHealthCheck, PutAtOnce
  <1>3. CASE \E on \in BOOLEAN : SetDnsConnectivityCheck(on)
    BY <1>3, ChecksKeep
  <1>4. CASE \E i \in Ifs : \/ WanIf_Commit(i) \/ WanVirtualIf_Commit(i)
                            \/ WanIfVlanCfg_Commit(i) \/ WanIfVlanMarking_Commit(i)
    BY <1>4, WanIfCommitKeeps, VirtualCommitKeeps, EntryCommitKeeps
  <1>5. CASE \E i \in Ifs, o \in Objects : Rollback(i, o)
    BY <1>5, RollbackKeeps
  <1> QED BY <1>1, <1>2, <1>3, <1>4, <1>5 DEF ConfigOps

LEMMA ConfigUnchanged == ConfigInv /\ UNCHANGED configVars => ConfigInv'
  BY DEF configVars, ConfigInv, ConfigTypeOK, NumbersStored, AtOnceStored, Overwritten,
         ConfirmedStored, PriorityStored, PrioritiesDistinct

\* The invariant of the interface parameters: types, what PSM holds, what was
\* confirmed and the priorities (wanmgr_dml_iface_v2_apis.c and its PSM
\* readers and writers), for any interfaces, calls and bounds.
THEOREM ConfigInvariant == MCSpec => []ConfigInv
  <1>1. MCInit => ConfigInv
    BY ConfigStarts DEF MCInit
  <1>2. ConfigInv /\ [MCNext]_vars => ConfigInv'
    <2> SUFFICES ASSUME ConfigInv, [MCNext]_vars PROVE ConfigInv'
      OBVIOUS
    <2>1. CASE ConfigOps
      BY <2>1, ConfigOpsKeep
    <2>2. CASE ConfigRestart
      BY <2>2, RestartKeeps
    <2>3. CASE UNCHANGED configVars
      BY <2>3, ConfigUnchanged
    <2> QED BY <2>1, <2>2, <2>3 DEF MCNext, vars
  <1> QED BY <1>1, <1>2, PTL DEF MCSpec

\* Two interfaces never have the same priority, though the check for a
\* priority in use looks at memory only, unless a change was rolled back or
\* lost in a restart.
THEOREM PrioritiesStayDistinct == MCSpec => []PrioritiesDistinct
  <1>1. ConfigInv => PrioritiesDistinct
    BY DEF ConfigInv
  <1> QED BY <1>1, ConfigInvariant, PTL

-----------------------------------------------------------------------------
(* The parameters of the manager.                                          *)

TopInv == TopTypeOK /\ TopSurvives

LEMMA TopStarts == TopInit => TopInv
  <1> SUFFICES ASSUME TopInit PROVE TopInv
    OBVIOUS
  <1>1. topPsm \in [TopParams -> 0..TopMax]
    BY TopAssumption DEF TopInit, Default
  <1> QED BY <1>1 DEF TopInit, TopInv, TopTypeOK, TopSurvives

\* Memory follows PSM, or the parameter is known not to be stored.
LEMMA StoringKeeps ==
    ASSUME TopInv, NEW k \in TopParams, NEW v \in 0..TopMax, NEW ok \in BOOLEAN,
           changed' \subseteq PolicyGroups,
           StoredFirst(k, v, ok) \/ StoredAnyway(k, v, ok)
    PROVE  TopInv'
  <1>1. CASE ok
    BY <1>1 DEF TopInv, TopTypeOK, TopSurvives, StoredFirst, StoredAnyway, SetParamValuesToDB
  <1>2. CASE ~ ok
    BY <1>2 DEF TopInv, TopTypeOK, TopSurvives, StoredFirst, StoredAnyway, SetParamValuesToDB
  <1> QED BY <1>1, <1>2

LEMMA BoolValueKeeps ==
    ASSUME TopInv, NEW p, NEW v \in {0, 1}, NEW ok \in BOOLEAN,
           WanManager_SetParamBoolValue(p, v, ok)
    PROVE  TopInv'
  <1>1. PICK k \in TopParams : StoredAnyway(k, v, ok)
    BY DEF WanManager_SetParamBoolValue, setWanEnableToPsm, setAllowRemoteIfaceToPsm, TopParams
  <1>2. v \in 0..TopMax /\ changed' \subseteq PolicyGroups
    BY <1>1, TopAssumption DEF TopInv, TopTypeOK, StoredAnyway
  <1> QED BY <1>1, <1>2, StoringKeeps

LEMMA PolicyKeeps ==
    ASSUME TopInv, NEW g \in PolicyGroups, NEW v \in 0..TopMax, NEW ok \in BOOLEAN,
           setWanPolicy(g, v, ok)
    PROVE  TopInv'
  <1>1. <<"Policy", g>> \in TopParams /\ changed' \subseteq PolicyGroups
    BY DEF TopParams, setWanPolicy, TopInv, TopTypeOK
  <1>2. StoredFirst(<<"Policy", g>>, v, ok)
    BY DEF setWanPolicy
  <1> QED BY <1>1, <1>2, StoringKeeps

LEMMA TopOpsKeep == TopInv /\ TopOps => TopInv'
  <1> SUFFICES ASSUME TopInv, NEW v \in 0..TopMax, NEW ok \in BOOLEAN,
                      \/ \E p \in {"Policy", "RestorationDelay"} :
                            WanManager_SetParamUlongValue(p, v, ok)
                      \/ v \in {0, 1} /\ WanManager_SetParamBoolValue("Enable", v, ok)
                      \/ /\ v \in {0, 1}
                         /\ WanManager_SetParamBoolValue("AllowRemoteInterfaces", v, ok)
                      \/ \E g \in PolicyGroups : WanManagerGroup_SetParamUlongValue(g, v, ok)
               PROVE  TopInv'
    BY DEF TopOps
  <1>1. ASSUME NEW p, WanManager_SetParamUlongValue(p, v, ok)
        PROVE  TopInv'
    <2>1. CASE setWanPolicy(1, v, ok)
      BY <2>1, PolicyKeeps, TopAssumption
    <2>2. CASE setRestorationDelay(v, ok)
      <3>1. <<"RestorationDelay", 0>> \in TopParams /\ changed' \subseteq PolicyGroups
        BY <2>2 DEF TopParams, setRestorationDelay, TopInv, TopTypeOK
      <3> QED BY <2>2, <3>1, StoringKeeps DEF setRestorationDelay
    <2> QED BY <1>1, <2>1, <2>2 DEF WanManager_SetParamUlongValue
  <1>2. ASSUME NEW g \in PolicyGroups, WanManagerGroup_SetParamUlongValue(g, v, ok)
        PROVE  TopInv'
    BY <1>2, PolicyKeeps DEF WanManagerGroup_SetParamUlongValue
  <1> QED BY <1>1, <1>2, BoolValueKeeps

LEMMA TopRestartKeeps ==
    ASSUME TopInv, NEW unread, WanConfInit(unread), unread \subseteq TopParams
    PROVE  TopInv'
  <1>1. \A k \in TopParams : k[1] = "Policy" => k = <<"Policy", k[2]>>
    BY DEF TopParams
  <1> DEFINE read(k) == IF k[1] = "Policy" THEN Read_GroupConf(k[2], unread)
                        ELSE GetParamValuesFromDB(k, unread)
  <1>2. \A k \in TopParams : read(k) = GetParamValuesFromDB(k, unread)
    BY <1>1 DEF Read_GroupConf
  <1>3. top' = [k \in TopParams |-> read(k)]
    BY DEF WanConfInit
  <1> HIDE DEF read
  <1>4. top' = [k \in TopParams |-> GetParamValuesFromDB(k, unread)]
    BY <1>2, <1>3
  <1>5. \A k \in TopParams : GetParamValuesFromDB(k, unread) \in 0..TopMax
    BY TopAssumption DEF GetParamValuesFromDB, Default, TopInv, TopTypeOK
  <1>6. \A k \in TopParams \ lost' : top'[k] = topPsm'[k]
    BY <1>4 DEF WanConfInit, GetParamValuesFromDB
  <1> QED BY <1>4, <1>5, <1>6 DEF WanConfInit, TopInv, TopTypeOK, TopSurvives

LEMMA WebThreadKeeps == TopInv /\ WebThread => TopInv'
  <1> SUFFICES ASSUME TopInv, WebThread PROVE TopInv'
    OBVIOUS
  <1>1. CASE UNCHANGED topVars
    BY <1>1 DEF topVars, TopInv, TopTypeOK, TopSurvives
  <1>2. ASSUME NEW ok \in BOOLEAN, WebStart(ok) PROVE TopInv'
    BY <1>1, <1>2, BoolValueKeeps DEF WebStart
  <1>3. CASE WebUpdate \/ WebAdd \/ WebFill \/ WebTableDone \/ WebDone
    BY <1>1, <1>3 DEF WebUpdate, WebAdd, WebFill, WebTableDone, WebDone
  <1> QED BY <1>2, <1>3 DEF WebThread

\* The types of the manager's parameters, and TopSurvives (wanmgr_dml_apis.c):
\* a setter that PSM refuses either leaves memory alone or is known.
THEOREM TopInvariant == MCSpec => []TopInv
  <1>1. MCInit => TopInv
    BY TopStarts DEF MCInit
  <1>2. TopInv /\ [MCNext]_vars => TopInv'
    <2> SUFFICES ASSUME TopInv, [MCNext]_vars PROVE TopInv'
      OBVIOUS
    <2>1. CASE TopOps
      BY <2>1, TopOpsKeep
    <2>2. CASE \E unread \in {{}} \cup {{k} : k \in TopParams} : WanConfInit(unread)
      BY <2>2, TopRestartKeeps
    <2>3. CASE WebThread
      BY <2>3, WebThreadKeeps
    <2>4. CASE UNCHANGED topVars
      BY <2>4 DEF topVars, TopInv, TopTypeOK, TopSurvives
    <2>5. CASE ManagerOps
      BY <2>1, <2>4, <2>5 DEF ManagerOps
    <2>6. CASE WebOps /\ UNCHANGED <<configVars, topVars>>
      BY <2>4, <2>6
    <2> QED BY <2>2, <2>3, <2>4, <2>5, <2>6 DEF MCNext, WebStarts, vars
  <1> QED BY <1>1, <1>2, PTL DEF MCSpec

\* What a commit, or a setter that stores at once, has confirmed is what the
\* next start reads: the parameters of the manager, and those of the interfaces
\* but Name and VLAN.Interface, which are never written under their own key,
\* and but a marking entry a commit of the VLAN object has overwritten.
THEOREM ConfirmedIsKept == MCSpec => []ConfirmedSurvives
  <1>1. ConfigInv /\ TopInv => ConfirmedSurvives
    <2> SUFFICES ASSUME ConfigInv PROVE CommittedSurvives
      BY DEF TopInv, ConfirmedSurvives
    <2> SUFFICES ASSUME NEW i \in Ifs, NEW p \in Saved, ~ Overwritten(i, p)
                 PROVE  WanIfaceConf(i)[p] = Promised(i, p)
      BY DEF CommittedSurvives, Restored
    <2>1. p \in Params
      BY SavedBelong
    <2>2. \/ psm[i][p] = cmt[i][p]
          \/ p = "Timeout" /\ Clamped(psm[i][p]) = Clamped(cmt[i][p])
          \/ p = "EnableMAPT" /\ mapt
      BY DEF ConfigInv, ConfirmedStored
    <2>3. WanIfaceConf(i)[p] = IF p = "Timeout" THEN Clamped(psm[i][p])
                               ELSE IF p = "EnableMAPT" /\ mapt THEN 1 ELSE psm[i][p]
      BY <2>1, ReadBack DEF Overwritten, Number
    <2>4. CASE p = "Timeout"
      BY <2>2, <2>3, <2>4 DEF Promised
    <2>5. CASE p = "EnableMAPT" /\ mapt
      BY <2>3, <2>5 DEF Promised
    <2>6. CASE p # "Timeout" /\ ~ (p = "EnableMAPT" /\ mapt)
      BY <2>2, <2>3, <2>6 DEF Promised
    <2> QED BY <2>4, <2>5, <2>6
  <1> QED BY <1>1, ConfigInvariant, TopInvariant, PTL

-----------------------------------------------------------------------------
(* Places in a sequence.  The elements of W up to one of them are as many  *)
(* as its place says: a place for every element, an element for every      *)
(* place.                                                                  *)

UpTo(W, i) == {j \in W : j <= i}

LEMMA RankGrows ==
    ASSUME NEW n \in Nat, NEW W \in SUBSET (1..n), NEW i \in W
    PROVE  /\ IsFiniteSet(W) /\ Cardinality(W) \in 0..n
           /\ Cardinality(UpTo(W, i)) \in 1..Cardinality(W)
           /\ \A j \in W : i < j => Cardinality(UpTo(W, i)) < Cardinality(UpTo(W, j))
  <1>1. IsFiniteSet(1..n) /\ Cardinality(1..n) = n
    BY FS_Interval
  <1>2. IsFiniteSet(W) /\ Cardinality(W) <= n
    BY <1>1, FS_Subset
  <1>3. Cardinality(W) \in Nat
    BY <1>2, FS_CardinalityType
  <1>4. \A j \in W : /\ IsFiniteSet(UpTo(W, j)) /\ Cardinality(UpTo(W, j)) <= Cardinality(W)
                     /\ Cardinality(UpTo(W, j)) \in Nat
    <2> TAKE j \in W
    <2>1. UpTo(W, j) \in SUBSET W
      BY DEF UpTo
    <2>2. IsFiniteSet(UpTo(W, j)) /\ Cardinality(UpTo(W, j)) <= Cardinality(W)
      BY <1>2, <2>1, FS_Subset
    <2> QED BY <2>2, FS_CardinalityType
  <1>5. Cardinality(UpTo(W, i)) # 0
    <2>1. i \in UpTo(W, i)
      BY DEF UpTo
    <2> QED BY <1>4, <2>1, FS_EmptySet
  <1>6. ASSUME NEW j \in W, i < j
        PROVE  Cardinality(UpTo(W, i)) < Cardinality(UpTo(W, j))
    <2>1. i \in Int /\ j \in Int /\ \A l \in W : l \in Int
      OBVIOUS
    <2>a. j \in UpTo(W, j) /\ j \notin UpTo(W, i)
      BY <1>6, <2>1 DEF UpTo
    <2>b. \A l \in W : l <= i => l <= j
      BY <1>6, <2>1
    <2>2. UpTo(W, i) \in SUBSET UpTo(W, j) /\ j \in UpTo(W, j) /\ j \notin UpTo(W, i)
      BY <2>a, <2>b DEF UpTo
    <2>3. /\ Cardinality(UpTo(W, i)) <= Cardinality(UpTo(W, j))
          /\ Cardinality(UpTo(W, i)) # Cardinality(UpTo(W, j))
      BY <1>4, <2>2, FS_Subset
    <2> QED BY <1>4, <2>3
  <1> QED BY <1>2, <1>3, <1>4, <1>5, <1>6

LEMMA PlaceParts ==
    ASSUME NEW n \in Nat, NEW W \in SUBSET (1..n)
    PROVE  /\ Cardinality(W) \in 0..n
           /\ \A k \in 1..Cardinality(W) : /\ Place(W, k) \in W
                                           /\ Cardinality(UpTo(W, Place(W, k))) = k
           /\ \A i \in W : /\ Cardinality(UpTo(W, i)) \in 1..Cardinality(W)
                           /\ Place(W, Cardinality(UpTo(W, i))) = i
  <1> DEFINE rank == [i \in W |-> Cardinality(UpTo(W, i))]
             N == 1..Cardinality(W)
  <1>1. IsFiniteSet(W) /\ Cardinality(W) \in 0..n
    <2>1. IsFiniteSet(1..n) /\ Cardinality(1..n) = n
      BY FS_Interval
    <2>2. IsFiniteSet(W) /\ Cardinality(W) <= n
      BY <2>1, FS_Subset
    <2> QED BY <2>2, FS_CardinalityType
  <1>2. \A i \in W : /\ Cardinality(UpTo(W, i)) \in N
                     /\ \A j \in W : i < j => Cardinality(UpTo(W, i)) < Cardinality(UpTo(W, j))
    BY RankGrows
  <1>3. \A i, j \in W : Cardinality(UpTo(W, i)) = Cardinality(UpTo(W, j)) => i = j
    <2> SUFFICES ASSUME NEW i \in W, NEW j \in W, i # j
                 PROVE  Cardinality(UpTo(W, i)) # Cardinality(UpTo(W, j))
      OBVIOUS
    <2>1. i \in Int /\ j \in Int
      OBVIOUS
    <2>2. Cardinality(UpTo(W, i)) \in Int /\ Cardinality(UpTo(W, j)) \in Int
      BY <1>2
    <2>3. i < j \/ j < i
      BY <2>1
    <2>4. CASE i < j
      BY <1>2, <2>2, <2>4
    <2>5. CASE j < i
      BY <1>2, <2>2, <2>5
    <2> QED BY <2>3, <2>4, <2>5
  <1>4. rank \in Injection(W, N)
    <2>1. rank \in [W -> N]
      BY <1>2
    <2>2. \A i, j \in W : rank[i] = rank[j] => i = j
      BY <1>3
    <2> QED BY <2>1, <2>2 DEF Injection, IsInjective
  <1>5. IsFiniteSet(N) /\ Cardinality(N) = Cardinality(W)
    BY <1>1, FS_Interval
  <1>6. rank \in Surjection(W, N)
    BY <1>4, <1>5, FS_Injection
  <1>7. \A k \in N : \E i \in W : Cardinality(UpTo(W, i)) = k
    BY <1>6 DEF Surjection
  <1>8. \A k : Place(W, k) = CHOOSE i \in W : Cardinality(UpTo(W, i)) = k
    BY DEF Place, UpTo
  <1>9. \A k \in N : Place(W, k) \in W /\ Cardinality(UpTo(W, Place(W, k))) = k
    BY <1>7, <1>8
  <1>10. \A i \in W : Place(W, Cardinality(UpTo(W, i))) = i
    BY <1>2, <1>3, <1>9
  <1> QED BY <1>1, <1>2, <1>9, <1>10

LEMMA PlaceOfAll ==
    ASSUME NEW n \in Nat
    PROVE  Cardinality(1..n) = n /\ \A k \in 1..n : Place(1..n, k) = k
  <1>1. Cardinality(1..n) = n
    BY FS_Interval
  <1>2. ASSUME NEW k \in 1..n PROVE Place(1..n, k) = k
    <2>1. UpTo(1..n, k) = 1..k
      BY DEF UpTo
    <2>2. Cardinality(UpTo(1..n, k)) = k
      BY <2>1, FS_Interval
    <2>3. (1..n) \in SUBSET (1..n)
      OBVIOUS
    <2>4. \A i \in 1..n : Place(1..n, Cardinality(UpTo(1..n, i))) = i
      BY <2>3, PlaceParts
    <2> QED BY <2>2, <2>4
  <1> QED BY <1>1, <1>2

\* A set of places has a first one.
LEMMA FirstPlace ==
    ASSUME NEW n \in Nat, NEW W \in SUBSET (1..n), W # {}
    PROVE  (CHOOSE j \in W : \A l \in W : j <= l) \in W
  <1>1. PICK i \in W : TRUE
    OBVIOUS
  <1>2. 1 \in 1..Cardinality(W)
    BY <1>1, RankGrows
  <1>3. PICK p \in W : Cardinality(UpTo(W, p)) = 1
    BY <1>2, PlaceParts
  <1>4. ASSUME NEW l \in W PROVE p <= l
    <2>1. Cardinality(UpTo(W, l)) \in 1..Cardinality(W) /\ Cardinality(W) \in Nat
      <3>1. Cardinality(UpTo(W, l)) \in 1..Cardinality(W) /\ Cardinality(W) \in 0..n
        BY RankGrows
      <3> QED BY <3>1
    <2>2. l < p => Cardinality(UpTo(W, l)) < 1
      BY <1>3, RankGrows
    <2>3. l \in Int /\ p \in Int
      OBVIOUS
    <2> QED BY <2>1, <2>2, <2>3
  <1> QED BY <1>4

LEMMA KeptParts ==
    ASSUME NEW S, NEW s \in Seq(S), NEW W \in SUBSET (1..Len(s))
    PROVE  /\ Kept(s, W) \in Seq(S) /\ Len(Kept(s, W)) = Cardinality(W)
           /\ Cardinality(W) \in 0..Len(s)
           /\ \A k \in 1..Cardinality(W) : /\ Place(W, k) \in W
                                           /\ Kept(s, W)[k] = s[Place(W, k)]
           /\ \A i \in W : \E k \in 1..Cardinality(W) : Place(W, k) = i
           /\ \A j, k \in 1..Cardinality(W) : Place(W, j) = Place(W, k) => j = k
  <1>0. Len(s) \in Nat
    OBVIOUS
  <1>1. Cardinality(W) \in 0..Len(s)
    BY <1>0, PlaceParts
  <1>2. \A k \in 1..Cardinality(W) : Place(W, k) \in W /\ Cardinality(UpTo(W, Place(W, k))) = k
    BY <1>0, PlaceParts
  <1>3. \A i \in W : \E k \in 1..Cardinality(W) : Place(W, k) = i
    BY <1>0, PlaceParts
  <1>4. \A k \in 1..Cardinality(W) : s[Place(W, k)] \in S
    <2>1. \A i \in 1..Len(s) : s[i] \in S
      OBVIOUS
    <2> QED BY <1>2, <2>1
  <1>5. Kept(s, W) \in Seq(S) /\ Len(Kept(s, W)) = Cardinality(W)
    BY <1>1, <1>4 DEF Kept
  <1>6. \A k \in 1..Cardinality(W) : Kept(s, W)[k] = s[Place(W, k)]
    BY DEF Kept
  <1> QED BY <1>1, <1>2, <1>3, <1>5, <1>6

LEMMA KeptAll ==
    ASSUME NEW S, NEW s \in Seq(S)
    PROVE  Kept(s, 1..Len(s)) = s
  <1>0. Len(s) \in Nat
    OBVIOUS
  <1>1. Cardinality(1..Len(s)) = Len(s) /\ \A k \in 1..Len(s) : Place(1..Len(s), k) = k
    BY <1>0, PlaceOfAll
  <1>2. Kept(s, 1..Len(s)) = [k \in 1..Len(s) |-> s[Place(1..Len(s), k)]]
    BY <1>1 DEF Kept
  <1>3. Kept(s, 1..Len(s)) = [k \in 1..Len(s) |-> s[k]]
    BY <1>1, <1>2
  <1> QED BY <1>3

-----------------------------------------------------------------------------
(* The start: the rows of the whole entries, and the list repaired.        *)

Names == Aliases \cup {Cut}
Owners == Aliases \cup {NoAlias, Cut}

WholeAt(s, r) == {i \in 1..Len(s) : Complete(s[i], r)}
BrokenAt(s, r) == {i \in 1..Len(s) : ~ Complete(s[i], r)}

\* No alias is in the list twice, and no record belongs to a cut one.
Apart(s, r) ==
    /\ \A i, j \in 1..Len(s) : i # j /\ s[i] = s[j] => s[i] = Cut
    /\ ~ Complete(Cut, r)

\* The rows of the whole entries of s, in their order.
RowsOf(rs, s, r) ==
    /\ rs \in Seq(Row) /\ Len(rs) = Cardinality(WholeAt(s, r))
    /\ Len(rs) \in 0..MarkingMax + 1
    /\ \A k \in 1..Len(rs) :
          /\ rs[k].ins = k - 1 /\ rs[k].num = k /\ rs[k].port = k /\ ~ rs[k].new
          /\ rs[k].alias \in Aliases /\ Complete(rs[k].alias, r)
          /\ \E i \in 1..Len(s) : s[i] = rs[k].alias
    /\ \A j, k \in 1..Len(rs) : rs[j].alias = rs[k].alias => j = k
    /\ \A i \in WholeAt(s, r) : \E k \in 1..Len(rs) : rs[k].alias = s[i]
    /\ \A k \in 1..Len(rs) : rs[k].alias = Whole(s, r)[k]

LEMMA StartRows ==
    ASSUME NEW s \in Seq(Names), NEW r \in [Owners -> Record], Apart(s, r),
           NEW rs, rs = WanIfaceMarkingInit(s, r),
           Cardinality(WholeAt(s, r)) <= MarkingMax + 1
    PROVE  RowsOf(rs, s, r)
  <1> DEFINE W == WholeAt(s, r)
             N == Cardinality(W)
             c == Whole(s, r)
  <1>1. W \in SUBSET (1..Len(s)) /\ c = Kept(s, W)
    BY DEF Whole, WholeAt
  <1>2. /\ c \in Seq(Names) /\ Len(c) = N /\ N \in 0..Len(s)
        /\ \A k \in 1..N : Place(W, k) \in W /\ c[k] = s[Place(W, k)]
        /\ \A i \in W : \E k \in 1..N : Place(W, k) = i
        /\ \A j, k \in 1..N : Place(W, j) = Place(W, k) => j = k
    <2>1. PICK U \in SUBSET (1..Len(s)) : U = W
      BY <1>1
    <2> HIDE DEF W
    <2>2. /\ Kept(s, U) \in Seq(Names) /\ Len(Kept(s, U)) = Cardinality(U)
          /\ Cardinality(U) \in 0..Len(s)
          /\ \A k \in 1..Cardinality(U) : Place(U, k) \in U /\ Kept(s, U)[k] = s[Place(U, k)]
          /\ \A i \in U : \E k \in 1..Cardinality(U) : Place(U, k) = i
          /\ \A j, k \in 1..Cardinality(U) : Place(U, j) = Place(U, k) => j = k
      BY KeptParts
    <2> QED BY <1>1, <2>1, <2>2
  <1>3. N \in Nat /\ MarkingMax \in Nat /\ N <= MarkingMax + 1
    BY <1>2, MarkingAssumption
  <1>4. \A i \in W : i \in 1..Len(s) /\ Complete(s[i], r) /\ s[i] \in Aliases
    <2> TAKE i \in W
    <2>1. i \in 1..Len(s) /\ Complete(s[i], r)
      BY DEF WholeAt
    <2>2. s[i] \in Names /\ s[i] # Cut
      BY <2>1 DEF Apart
    <2> QED BY <2>1, <2>2 DEF Names
  <1> HIDE DEF W, N, c
  <1>5. \A k \in 1..N : /\ c[k] \in Aliases /\ Complete(c[k], r)
                        /\ \E i \in 1..Len(s) : s[i] = c[k]
    BY <1>2, <1>4
  <1>6. \A k \in 1..N : r[c[k]].eth \in Priorities \cup {NoPriority}
    <2>1. \A a \in Owners : r[a].eth \in Priorities \cup {NoPriority}
      BY DEF Record
    <2> QED BY <1>5, <2>1 DEF Owners
  <1>7. rs = [k \in 1..N |-> RestartedRow(c[k], k, r)]
    BY <1>2 DEF WanIfaceMarkingInit, c
  <1>8. \A k \in 1..N : RestartedRow(c[k], k, r) \in Row
    <2> TAKE k \in 1..N
    <2>1. k - 1 \in 0..MarkingMax /\ k \in Ports
      BY <1>3 DEF Ports
    <2> QED BY <1>5, <1>6, <2>1 DEF RestartedRow, Row
  <1>9. rs \in Seq(Row) /\ Len(rs) = N
    BY <1>3, <1>7, <1>8
  <1>10. \A k \in 1..N : /\ rs[k].ins = k - 1 /\ rs[k].num = k /\ rs[k].port = k
                         /\ rs[k].new = FALSE /\ rs[k].alias = c[k]
    BY <1>7 DEF RestartedRow
  <1>11. \A j, k \in 1..N : c[j] = c[k] => j = k
    <2> SUFFICES ASSUME NEW j \in 1..N, NEW k \in 1..N, c[j] = c[k] PROVE j = k
      OBVIOUS
    <2>1. s[Place(W, j)] = s[Place(W, k)] /\ Place(W, j) \in W /\ Place(W, k) \in W
      BY <1>2
    <2>2. s[Place(W, j)] # Cut
      BY <1>4, <2>1, MarkingAssumption
    <2>3. Place(W, j) = Place(W, k)
      BY <1>4, <2>1, <2>2 DEF Apart
    <2> QED BY <1>2, <2>3
  <1>12. \A i \in W : \E k \in 1..N : c[k] = s[i]
    BY <1>2
  <1>13. Len(rs) \in 0..MarkingMax + 1
    BY <1>3, <1>9
  <1>14. \A k \in 1..Len(rs) :
             /\ rs[k].ins = k - 1 /\ rs[k].num = k /\ rs[k].port = k /\ ~ rs[k].new
             /\ rs[k].alias \in Aliases /\ Complete(rs[k].alias, r)
             /\ \E i \in 1..Len(s) : s[i] = rs[k].alias
    BY <1>5, <1>9, <1>10
  <1>15. \A j, k \in 1..Len(rs) : rs[j].alias = rs[k].alias => j = k
    BY <1>9, <1>10, <1>11
  <1>16. \A i \in W : \E k \in 1..Len(rs) : rs[k].alias = s[i]
    BY <1>9, <1>10, <1>12
  <1>17. \A k \in 1..Len(rs) : rs[k].alias = c[k]
    BY <1>9, <1>10
  <1> QED BY <1>9, <1>13, <1>14, <1>15, <1>16, <1>17 DEF W, N, c, RowsOf

\* What is left of the list after a start has entries of the list only, each
\* alias once; with one broken entry at most, it is the whole ones.
LEMMA RepairedParts ==
    ASSUME NEW s \in Seq(Names), NEW r, Apart(s, r)
    PROVE  /\ Repaired(s, r) \in Seq(Names) /\ Len(Repaired(s, r)) <= Len(s)
           /\ \A i \in 1..Len(Repaired(s, r)) : \E j \in 1..Len(s) : Repaired(s, r)[i] = s[j]
           /\ Apart(Repaired(s, r), r)
           /\ Len(Broken(s, r)) \in 0..Len(s)
           /\ Len(Broken(s, r)) \in {0, 1} => Repaired(s, r) = Whole(s, r)
  <1> DEFINE B == BrokenAt(s, r)
             W == WholeAt(s, r)
             b == Broken(s, r)
  <1>0. /\ B \in SUBSET (1..Len(s)) /\ b = Kept(s, B)
        /\ W \in SUBSET (1..Len(s)) /\ Whole(s, r) = Kept(s, W)
        /\ \A i \in 1..Len(s) : i \in W <=> i \notin B
    BY DEF Broken, BrokenAt, Whole, WholeAt
  <1> HIDE DEF B, W
  <1>1. /\ b \in Seq(Names) /\ Len(b) = Cardinality(B) /\ Cardinality(B) \in 0..Len(s)
        /\ \A k \in 1..Cardinality(B) : Place(B, k) \in B /\ b[k] = s[Place(B, k)]
        /\ \A i \in B : \E k \in 1..Cardinality(B) : Place(B, k) = i
    BY <1>0, KeptParts
  <1> HIDE DEF b
  <1>a. Len(s) \in Nat /\ Len(b) \in Nat
    OBVIOUS
  <1>2. ASSUME NEW t \in Seq(Names), Apart(t, r), NEW a
        PROVE  LET u == Without(a, t) IN
               /\ u \in Seq(Names) /\ Len(u) <= Len(t) /\ Apart(u, r)
               /\ \A i \in 1..Len(u) : \E j \in 1..Len(t) : u[i] = t[j]
    <2> DEFINE U == {i \in 1..Len(t) : t[i] # a}
               u == Without(a, t)
    <2>1. U \in SUBSET (1..Len(t)) /\ u = Kept(t, U)
      BY DEF Without
    <2> HIDE DEF U, u
    <2>2. /\ u \in Seq(Names) /\ Len(u) = Cardinality(U) /\ Cardinality(U) \in 0..Len(t)
          /\ \A k \in 1..Cardinality(U) : Place(U, k) \in U /\ u[k] = t[Place(U, k)]
          /\ \A j, k \in 1..Cardinality(U) : Place(U, j) = Place(U, k) => j = k
      BY <2>1, KeptParts
    <2>3. Len(u) <= Len(t)
      <3>1. Len(t) \in Nat
        OBVIOUS
      <3> QED BY <2>2, <3>1
    <2>4. \A i \in 1..Len(u) : \E j \in 1..Len(t) : u[i] = t[j]
      BY <2>1, <2>2
    <2>5. Apart(u, r)
      <3> SUFFICES ASSUME NEW i \in 1..Len(u), NEW j \in 1..Len(u), i # j, u[i] = u[j]
                   PROVE  u[i] = Cut
        BY <1>2 DEF Apart
      <3>1. Place(U, i) \in 1..Len(t) /\ Place(U, j) \in 1..Len(t) /\ Place(U, i) # Place(U, j)
        BY <2>1, <2>2
      <3> QED BY <1>2, <2>2, <3>1 DEF Apart
    <2> QED BY <2>2, <2>3, <2>4, <2>5 DEF u
  <1>3. CASE b = <<>>
    <2>1. Cardinality(B) = 0
      BY <1>1, <1>3
    <2>2. B = {}
      BY <1>1, <2>1
    <2>3. W = 1..Len(s)
      BY <1>0, <2>2
    <2>4. Repaired(s, r) = s
      BY <1>3 DEF Repaired, b
    <2>5. Whole(s, r) = s
      BY <1>0, <2>3, KeptAll
    <2> QED BY <1>1, <2>4, <2>5 DEF b
  <1>4. CASE Len(b) = 1
    <2>1. Repaired(s, r) = Without(b[1], s)
      <3>1. b # <<>>
        BY <1>4
      <3> QED BY <1>4, <3>1 DEF Repaired, b
    <2>2. PICK p \in B : b[1] = s[p] /\ B = {p}
      <3>1. 1 \in 1..Cardinality(B) /\ \A k \in 1..Cardinality(B) : k = 1
        BY <1>1, <1>4
      <3>2. Place(B, 1) \in B /\ b[1] = s[Place(B, 1)]
        BY <1>1, <3>1
      <3>3. \A i \in B : Place(B, 1) = i
        BY <1>1, <3>1
      <3> QED BY <3>2, <3>3
    <2>3. \A i \in 1..Len(s) : s[i] # s[p] <=> i \in W
      <3> TAKE i \in 1..Len(s)
      <3>1. CASE i = p
        BY <1>0, <2>2, <3>1
      <3>2. CASE i # p
        <4>1. i \in W
          BY <1>0, <2>2, <3>2
        <4>2. Complete(s[i], r)
          BY <4>1 DEF W, WholeAt
        <4>3. ~ Complete(s[p], r)
          BY <2>2 DEF B, BrokenAt
        <4> QED BY <4>1, <4>2, <4>3
      <3> QED BY <3>1, <3>2
    <2>4. W = {i \in 1..Len(s) : s[i] # b[1]}
      BY <1>0, <2>2, <2>3
    <2>5. Without(b[1], s) = Kept(s, W)
      BY <2>4 DEF Without
    <2> QED BY <1>0, <1>1, <1>2, <2>1, <2>5 DEF b
  <1>5. CASE b # <<>> /\ Len(b) # 1
    <2>1. Repaired(s, r) = Without(Last(b), <<Head(s)>>)
      BY <1>5 DEF Repaired, b
    <2>2. Len(b) # 0 /\ Len(b) # 1
      BY <1>1, <1>5
    <2>3. Len(s) >= 1 /\ Head(s) = s[1] /\ s[1] \in Names
      <3>1. Len(s) # 0
        BY <1>1, <1>a, <2>2
      <3> QED BY <1>a, <3>1
    <2> DEFINE t == <<Head(s)>>
    <2>4. t \in Seq(Names) /\ Len(t) = 1 /\ t[1] = s[1]
      BY <2>3
    <2>5. Apart(t, r)
      <3>1. \A i, j \in 1..Len(t) : i = j
        BY <2>4
      <3> QED BY <3>1 DEF Apart
    <2> HIDE DEF t
    <2>6. LET u == Without(Last(b), t) IN
               /\ u \in Seq(Names) /\ Len(u) <= Len(t) /\ Apart(u, r)
               /\ \A i \in 1..Len(u) : \E j \in 1..Len(t) : u[i] = t[j]
      BY <1>2, <2>4, <2>5
    <2> DEFINE u == Repaired(s, r)
    <2>7. /\ u \in Seq(Names) /\ Len(u) <= 1 /\ Apart(u, r)
          /\ \A i \in 1..Len(u) : \E j \in 1..Len(t) : u[i] = t[j]
      BY <2>1, <2>4, <2>6 DEF t
    <2> HIDE DEF u
    <2>8. Len(u) <= Len(s)
      <3>1. Len(u) \in Nat
        BY <2>7
      <3> QED BY <1>a, <2>3, <2>7, <3>1
    <2>9. \A i \in 1..Len(u) : \E j \in 1..Len(s) : u[i] = s[j]
      <3>1. 1 \in 1..Len(s)
        BY <1>a, <2>3
      <3>2. \A j \in 1..Len(t) : t[j] = s[1]
        BY <2>4
      <3> QED BY <2>7, <3>1, <3>2
    <2> QED BY <1>1, <2>2, <2>7, <2>8, <2>9 DEF u, b
  <1> QED BY <1>3, <1>4, <1>5

-----------------------------------------------------------------------------
(* The inductive invariant of the marking table.                           *)

Filling == IF web.step = "fill" THEN 1 ELSE 0

\* A whole entry of the list has a row: an entry is written after its row.
WholeHaveRows ==
    \A i \in 1..Len(list) :
        Complete(list[i], rec) => \E k \in 1..Len(rows) : rows[k].alias = list[i]

\* Every row took an instance number of its own, and its number grows when it
\* is added, once for itself and once for a blob that mistakes it for its own.
NumbersInv ==
    /\ Len(rows) <= next
    /\ \A k \in 1..Len(rows) :
          /\ rows[k].ins < next
          /\ rows[k].num + (IF rows[k].new THEN 1 ELSE 0) + Filling <= next + 1
    /\ \A j, k \in 1..Len(rows) : j # k => rows[j].ins # rows[k].ins

\* The port comes with the first commit, from the instance number.
PortsInv ==
    \A k \in 1..Len(rows) :
        /\ rows[k].new => rows[k].port = 0
        /\ rows[k].port = 0 => rows[k].num = rows[k].ins
        /\ rows[k].port # 0 /\ rows[k].alias \notin refused =>
              rows[k].port = rows[k].ins + 1

TwiceRefused ==
    \A j, k \in 1..Len(rows) :
        j # k /\ rows[j].alias = rows[k].alias => rows[j].alias \in refused \cup {NoAlias}

MarkInv == /\ MarkingTypeOK /\ Len(list) <= ListCapacity + 1 /\ Apart(list, rec)
           /\ WholeHaveRows /\ NumbersInv /\ PortsInv /\ TwiceRefused
           /\ MarkingsStored /\ RestartRepairs

\* MarkingsStored, of one row.
StoredAs(row, s, r, ref) ==
    ~ row.new /\ row.alias \notin ref \cup {NoAlias} =>
        /\ \E j \in 1..Len(s) : s[j] = row.alias
        /\ "SKBPORT" \in r[row.alias].has => r[row.alias].port = row.port
        /\ row.port # 0

LEMMA Filled == Filling \in {0, 1}
  BY DEF Filling

\* Entries that have rows are not more than the rows.
LEMMA WholeCount ==
    ASSUME NEW s \in Seq(Names), NEW r, Apart(s, r), NEW n \in Nat, NEW f,
           \A i \in WholeAt(s, r) : \E k \in 1..n : f[k].alias = s[i]
    PROVE  Cardinality(WholeAt(s, r)) <= n
  <1> DEFINE W == WholeAt(s, r)
             g == [i \in W |-> CHOOSE k \in 1..n : f[k].alias = s[i]]
  <1>1. \A i \in W : g[i] \in 1..n /\ f[g[i]].alias = s[i]
    OBVIOUS
  <1>2. \A i \in W : i \in 1..Len(s) /\ s[i] # Cut
    BY DEF WholeAt, Apart
  <1>3. g \in [W -> 1..n]
    <2>1. g = [i \in W |-> g[i]]
      OBVIOUS
    <2> QED BY <1>1, <2>1
  <1> HIDE DEF W, g
  <1>4. \A i, j \in W : g[i] = g[j] => i = j
    BY <1>1, <1>2 DEF Apart
  <1>5. g \in Injection(W, 1..n)
    BY <1>3, <1>4 DEF Injection, IsInjective
  <1>6. IsFiniteSet(1..n) /\ Cardinality(1..n) = n
    BY FS_Interval
  <1>7. Cardinality(W) <= n
    BY <1>5, <1>6, FS_Injection
  <1> QED BY <1>7 DEF W

\* A start builds the invariant from any list and records whose whole entries
\* have rows, whatever the rows were.
LEMMA MarkingStartKeeps ==
    ASSUME NEW s \in Seq(Names), NEW r \in [Owners -> Record], Apart(s, r),
           Len(s) <= ListCapacity + 1, MarkInv, Restart(s, r),
           \A i \in WholeAt(s, r) : \E k \in 1..Len(rows) : rows[k].alias = s[i]
    PROVE  MarkInv'
  <1> DEFINE n == Len(rows')
  <1>1. Cardinality(WholeAt(s, r)) <= MarkingMax + 1
    <2>1. /\ Len(rows) \in Nat /\ Len(rows) <= next /\ next \in 0..MarkingMax + 1
          /\ Len(s) \in Nat
      BY DEF MarkInv, MarkingTypeOK, NumbersInv
    <2>2. Cardinality(WholeAt(s, r)) <= Len(rows)
      BY <2>1, WholeCount
    <2>3. Cardinality(WholeAt(s, r)) \in Nat
      <3>1. WholeAt(s, r) \in SUBSET (1..Len(s))
        BY DEF WholeAt
      <3> QED BY <2>1, <3>1, PlaceParts
    <2> QED BY <2>1, <2>2, <2>3, MarkingAssumption
  <1>2. /\ rows' = WanIfaceMarkingInit(s, r) /\ next' = n /\ list' = Repaired(s, r)
        /\ refused' = {rows'[k].alias : k \in 1..n} \ ToSet(list')
        /\ boot' = Len(Broken(s, r))
        /\ rec' = [a \in DOMAIN r |->
                     IF \E k \in 1..n : rows'[k].alias = a
                       THEN [r[a] EXCEPT !.port = PortOf(a, rows')]
                       ELSE r[a]]
    BY DEF Restart
  <1>3. /\ rows' \in Seq(Row) /\ n = Cardinality(WholeAt(s, r))
        /\ n \in 0..MarkingMax + 1
        /\ \A k \in 1..n :
              /\ rows'[k].ins = k - 1 /\ rows'[k].num = k /\ rows'[k].port = k
              /\ ~ rows'[k].new /\ rows'[k].alias \in Aliases
              /\ Complete(rows'[k].alias, r)
              /\ \E i \in 1..Len(s) : s[i] = rows'[k].alias
        /\ \A j, k \in 1..n : rows'[j].alias = rows'[k].alias => j = k
        /\ \A i \in WholeAt(s, r) : \E k \in 1..n : rows'[k].alias = s[i]
        /\ \A k \in 1..n : rows'[k].alias = Whole(s, r)[k]
    <2>1. PICK rs : rs = rows'
      OBVIOUS
    <2>2. rs = WanIfaceMarkingInit(s, r)
      BY <1>2, <2>1
    <2>3. RowsOf(rs, s, r)
      BY <1>1, <2>2, StartRows
    <2> QED BY <2>1, <2>3 DEF RowsOf
  <1>4. /\ list' \in Seq(Names) /\ Len(list') <= Len(s)
        /\ \A i \in 1..Len(list') : \E j \in 1..Len(s) : list'[i] = s[j]
        /\ Apart(list', r)
        /\ boot' \in 0..Len(s)
        /\ boot' \in {0, 1} => list' = Whole(s, r)
    <2>1. PICK l : l = Repaired(s, r)
      OBVIOUS
    <2>2. /\ l \in Seq(Names) /\ Len(l) <= Len(s)
          /\ \A i \in 1..Len(l) : \E j \in 1..Len(s) : l[i] = s[j]
          /\ Apart(l, r)
          /\ Len(Broken(s, r)) \in 0..Len(s)
          /\ Len(Broken(s, r)) \in {0, 1} => l = Whole(s, r)
      BY <2>1, RepairedParts
    <2> QED BY <1>2, <2>1, <2>2
  <1> HIDE DEF n
  <1>5. \A k \in 1..n : PortOf(rows'[k].alias, rows') = k
    <2> TAKE k \in 1..n
    <2>1. \A j \in 1..n : rows'[j].alias = rows'[k].alias <=> j = k
      BY <1>3
    <2> QED BY <1>3, <2>1 DEF PortOf, n
  <1>6. \A a \in Owners :
           \/ \E k \in 1..n : rows'[k].alias = a /\ rec'[a] = [r[a] EXCEPT !.port = k]
           \/ (\A k \in 1..n : rows'[k].alias # a) /\ rec'[a] = r[a]
    <2>1. \A a \in Owners : rec'[a] = IF \E k \in 1..n : rows'[k].alias = a
                       THEN [r[a] EXCEPT !.port = PortOf(a, rows')]
                       ELSE r[a]
      BY <1>2
    <2> TAKE a \in Owners
    <2>2. ASSUME NEW k \in 1..n, rows'[k].alias = a
          PROVE  rec'[a] = [r[a] EXCEPT !.port = k]
      <3>1. PortOf(a, rows') = k
        BY <1>5, <2>2
      <3>2. rec'[a] = [r[a] EXCEPT !.port = PortOf(a, rows')]
        BY <2>1, <2>2
      <3> QED BY <3>1, <3>2
    <2>3. CASE \A k \in 1..n : rows'[k].alias # a
      BY <2>1, <2>3
    <2> QED BY <2>2, <2>3
  <1>7. \A a \in Owners : /\ rec'[a] \in Record /\ rec'[a].has = r[a].has
                          /\ \A k \in 1..n : rows'[k].alias = a => rec'[a].port = k
    <2> TAKE a \in Owners
    <2>1. r[a] \in Record
      OBVIOUS
    <2>2. CASE (\A k \in 1..n : rows'[k].alias # a) /\ rec'[a] = r[a]
      BY <2>1, <2>2
    <2>3. ASSUME NEW k \in 1..n, rows'[k].alias = a, rec'[a] = [r[a] EXCEPT !.port = k]
          PROVE  /\ rec'[a] \in Record /\ rec'[a].has = r[a].has
                 /\ \A j \in 1..n : rows'[j].alias = a => rec'[a].port = j
      <3>1. k \in Ports
        BY <1>3, MarkingAssumption DEF Ports
      <3>2. rec'[a] \in Record /\ rec'[a].has = r[a].has /\ rec'[a].port = k
        BY <2>1, <2>3, <3>1 DEF Record
      <3> QED BY <1>3, <2>3, <3>2
    <2> QED BY <1>6, <2>2, <2>3
  <1>8. rec' \in [Owners -> Record]
    <2>1. rec' = [a \in Owners |-> rec'[a]]
      BY <1>2
    <2> QED BY <1>7, <2>1
  <1>9. \A a \in Owners : Complete(a, rec') <=> Complete(a, r)
    BY <1>7 DEF Complete
  <1>10. MarkingTypeOK'
    <2>1. refused' \subseteq Aliases
      BY <1>2, <1>3
    <2>2. boot' \in -1..ListCapacity + 1
      <3>1. Len(s) \in Nat /\ ListCapacity \in Nat
        BY MarkingAssumption
      <3> QED BY <1>4, <3>1
    <2> QED BY <1>2, <1>3, <1>4, <1>8, <2>1, <2>2 DEF MarkingTypeOK, Names, Owners
  <1>11. Len(list') <= ListCapacity + 1
    <2>1. Len(s) \in Nat /\ ListCapacity \in Nat /\ Len(list') \in Nat
      BY <1>4, MarkingAssumption
    <2> QED BY <1>4, <2>1
  <1>12. Apart(list', rec')
    <2>1. Cut \in Owners
      BY DEF Owners
    <2> QED BY <1>4, <1>9, <2>1 DEF Apart
  <1>13. WholeHaveRows'
    <2> SUFFICES ASSUME NEW i \in 1..Len(list'), Complete(list'[i], rec')
                 PROVE  \E k \in 1..Len(rows') : rows'[k].alias = list'[i]
      BY DEF WholeHaveRows, Complete
    <2>1. PICK j \in 1..Len(s) : list'[i] = s[j]
      BY <1>4
    <2>2. s[j] \in Owners
      BY DEF Names, Owners
    <2>3. j \in WholeAt(s, r)
      BY <1>9, <2>1, <2>2 DEF WholeAt
    <2> QED BY <1>3, <2>1, <2>3 DEF n
  <1>14. NumbersInv'
    <2>1. Filling' \in {0, 1} /\ n \in Nat
      BY <1>3 DEF Filling
    <2>2. \A k \in 1..n : /\ rows'[k].ins < n
                          /\ rows'[k].num + (IF rows'[k].new THEN 1 ELSE 0) + Filling' <= n + 1
      BY <1>3, <2>1
    <2>3. \A j, k \in 1..n : j # k => rows'[j].ins # rows'[k].ins
      BY <1>3, <2>1
    <2> QED BY <1>2, <2>1, <2>2, <2>3 DEF NumbersInv, n
  <1>15. PortsInv' /\ TwiceRefused'
    <2>1. n \in Nat /\ \A k \in 1..n : rows'[k].ins = k - 1 /\ rows'[k].port = k
      BY <1>3
    <2>2. \A k \in 1..n : k # 0 /\ k = (k - 1) + 1
      BY <2>1
    <2>3. \A k \in 1..n : rows'[k].port # 0 /\ rows'[k].port = rows'[k].ins + 1
      BY <2>1, <2>2
    <2> QED BY <1>3, <2>3 DEF PortsInv, TwiceRefused, n
  <1>16. MarkingsStored'
    <2> SUFFICES ASSUME NEW k \in 1..n, rows'[k].alias \notin refused'
                 PROVE  StoredAs(rows'[k], list', rec', refused')
      BY DEF MarkingsStored, Listed, StoredAs, n
    <2>1. rows'[k].alias \in ToSet(list')
      BY <1>2
    <2>2. \E j \in 1..Len(list') : list'[j] = rows'[k].alias
      <3>1. list' \in Seq(Names) /\ DOMAIN list' = 1..Len(list')
        BY <1>4
      <3>2. \E j \in DOMAIN list' : list'[j] = rows'[k].alias
        BY <2>1 DEF ToSet
      <3> QED BY <3>1, <3>2
    <2>3. rows'[k].alias \in Owners
      BY <1>3 DEF Owners
    <2>4. rows'[k].port = k /\ k # 0
      BY <1>3
    <2> QED BY <1>7, <2>2, <2>3, <2>4 DEF StoredAs
  <1>17. RestartRepairs'
    <2> SUFFICES ASSUME boot' \in {0, 1}
                 PROVE  list' = [k \in 1..Len(rows') |-> rows'[k].alias]
      BY DEF RestartRepairs
    <2>1. list' = Whole(s, r)
      BY <1>4
    <2>2. Len(Whole(s, r)) = n
      <3>1. WholeAt(s, r) \in SUBSET (1..Len(s)) /\ Whole(s, r) = Kept(s, WholeAt(s, r))
        BY DEF Whole, WholeAt
      <3>2. Len(Kept(s, WholeAt(s, r))) = Cardinality(WholeAt(s, r))
        BY <3>1, KeptParts
      <3> QED BY <1>3, <3>1, <3>2
    <2>3. list' = [k \in 1..n |-> list'[k]]
      BY <1>4, <2>1, <2>2
    <2> QED BY <1>3, <2>1, <2>3 DEF n
  <1> QED BY <1>10, <1>11, <1>12, <1>13, <1>14, <1>15, <1>16, <1>17 DEF MarkInv

LEMMA MarkingBegins == MarkingInit => MarkInv
  <1> SUFFICES ASSUME MarkingInit PROVE MarkInv
    OBVIOUS
  <1>0. /\ rows = WanIfaceMarkingInit(list, rec) /\ next = Len(rows)
        /\ refused = {} /\ boot = -1
        /\ rec = [a \in Owners |->
                    IF list = <<a>>
                      THEN [has |-> AllFields, port |-> 1, eth |-> NoPriority]
                      ELSE NoRecord]
    BY DEF MarkingInit, Owners
  <1>1. /\ list \in Seq(Names) /\ Len(list) \in 0..1 /\ Cut \notin {list[i] : i \in 1..Len(list)}
        /\ \A i, j \in 1..Len(list) : i = j
    <2>1. CASE list = <<>>
      BY <2>1
    <2>2. ASSUME NEW a \in Aliases, list = <<a>> PROVE <1>1
      <3>1. Len(list) = 1 /\ list[1] = a /\ a # Cut
        BY <2>2, MarkingAssumption
      <3>2. list \in Seq(Names)
        BY <2>2 DEF Names
      <3> QED BY <3>1, <3>2
    <2> QED BY <2>1, <2>2 DEF MarkingInit
  <1>2. rec \in [Owners -> Record]
    <2>1. 1 \in Ports /\ 0 \in Ports
      BY MarkingAssumption DEF Ports
    <2>2. /\ [has |-> AllFields, port |-> 1, eth |-> NoPriority] \in Record
          /\ NoRecord \in Record
      BY <2>1 DEF Record, NoRecord
    <2> QED BY <1>0, <2>2
  <1>3. Apart(list, rec)
    <2>1. Cut \in Owners /\ list # <<Cut>>
      <3>1. list = <<Cut>> => Len(list) = 1 /\ list[1] = Cut
        OBVIOUS
      <3> QED BY <1>1, <3>1 DEF Owners
    <2>2. rec[Cut] = NoRecord
      BY <1>0, <2>1
    <2>3. "ALIAS" \in AllFields
      <3>1. DOMAIN Fields = 1..4 /\ Fields[1] = "ALIAS"
        BY DEF Fields
      <3> QED BY <3>1 DEF AllFields, ToSet
    <2>4. ~ Complete(Cut, rec)
      BY <2>2, <2>3 DEF Complete, NoRecord
    <2> QED BY <1>1, <2>4 DEF Apart
  <1>4. Cardinality(WholeAt(list, rec)) <= MarkingMax + 1
    <2>1. WholeAt(list, rec) \in SUBSET (1..Len(list)) /\ Len(list) \in Nat
      BY <1>1 DEF WholeAt
    <2>2. Cardinality(WholeAt(list, rec)) \in 0..Len(list)
      BY <2>1, PlaceParts
    <2> QED BY <1>1, <2>2, MarkingAssumption
  <1>5. RowsOf(rows, list, rec)
    BY <1>0, <1>1, <1>2, <1>3, <1>4, StartRows
  <1>6. Len(rows) \in 0..MarkingMax + 1
    BY <1>5 DEF RowsOf
  <1>7. MarkingTypeOK
    <2>1. rows \in Seq(Row)
      BY <1>5 DEF RowsOf
    <2>2. boot \in -1..ListCapacity + 1
      BY <1>0, MarkingAssumption
    <2> QED BY <1>0, <1>1, <1>2, <1>6, <2>1, <2>2 DEF MarkingTypeOK, Names, Owners
  <1>8. Len(list) <= ListCapacity + 1
    BY <1>1, MarkingAssumption
  <1>9. WholeHaveRows
    <2> SUFFICES ASSUME NEW i \in 1..Len(list), Complete(list[i], rec)
                 PROVE  \E k \in 1..Len(rows) : rows[k].alias = list[i]
      BY DEF WholeHaveRows
    <2>1. i \in WholeAt(list, rec)
      BY DEF WholeAt
    <2> QED BY <1>5, <2>1 DEF RowsOf
  <1>10. NumbersInv
    <2>1. /\ \A k \in 1..Len(rows) : rows[k].ins = k - 1 /\ rows[k].num = k /\ ~ rows[k].new
      BY <1>5 DEF RowsOf
    <2>2. Filling \in {0, 1}
      BY Filled
    <2>3. \A k \in 1..Len(rows) :
             /\ rows[k].ins < next
             /\ rows[k].num + (IF rows[k].new THEN 1 ELSE 0) + Filling <= next + 1
      BY <1>0, <1>6, <2>1, <2>2
    <2>4. \A j, k \in 1..Len(rows) : j # k => rows[j].ins # rows[k].ins
      BY <1>6, <2>1
    <2> QED BY <1>0, <1>6, <2>3, <2>4 DEF NumbersInv
  <1>11. PortsInv /\ TwiceRefused
    <2>1. \A k \in 1..Len(rows) : rows[k].ins = k - 1 /\ rows[k].port = k /\ ~ rows[k].new
      BY <1>5 DEF RowsOf
    <2>2. \A k \in 1..Len(rows) : k # 0 /\ k = (k - 1) + 1
      BY <1>6
    <2>3. \A j, k \in 1..Len(rows) : rows[j].alias = rows[k].alias => j = k
      BY <1>5 DEF RowsOf
    <2> QED BY <2>1, <2>2, <2>3 DEF PortsInv, TwiceRefused
  <1>12. MarkingsStored
    <2> SUFFICES ASSUME NEW k \in 1..Len(rows)
                 PROVE  StoredAs(rows[k], list, rec, refused)
      BY DEF MarkingsStored, Listed, StoredAs
    <2>1. /\ rows[k].port = k /\ \E i \in 1..Len(list) : list[i] = rows[k].alias
          /\ rows[k].alias \in Aliases
      BY <1>5 DEF RowsOf
    <2>2. PICK i \in 1..Len(list) : list[i] = rows[k].alias
      BY <2>1
    <2>3. Len(list) = 1 /\ i = 1 /\ Len(rows) <= 1
      <3>1. Len(list) = 1 /\ i = 1
        BY <1>1
      <3>2. Cardinality(WholeAt(list, rec)) \in 0..Len(list)
        <4>1. WholeAt(list, rec) \in SUBSET (1..Len(list)) /\ Len(list) \in Nat
          BY <1>1 DEF WholeAt
        <4> QED BY <4>1, PlaceParts
      <3> QED BY <1>5, <3>1, <3>2 DEF RowsOf
    <2>4. k = 1
      BY <1>6, <2>3
    <2>5. list = <<rows[k].alias>>
      BY <1>1, <2>2, <2>3
    <2>6. rec[rows[k].alias].port = 1
      <3>1. rows[k].alias \in Owners
        BY <2>1 DEF Owners
      <3> QED BY <1>0, <2>5, <3>1
    <2> QED BY <2>1, <2>4, <2>6 DEF StoredAs
  <1>13. RestartRepairs
    BY <1>0 DEF RestartRepairs
  <1> QED BY <1>3, <1>7, <1>8, <1>9, <1>10, <1>11, <1>12, <1>13 DEF MarkInv

-----------------------------------------------------------------------------
(* The handlers.  A step that is not a start resets boot.                  *)

LEMMA MarkTypes ==
    ASSUME MarkInv
    PROVE  /\ rows \in Seq(Row) /\ Len(rows) \in Nat
           /\ \A k \in 1..Len(rows) : /\ rows[k] \in Row
                                      /\ rows[k].alias \in Aliases \cup {NoAlias}
           /\ next \in 0..MarkingMax + 1 /\ MarkingMax \in Nat /\ ListCapacity \in Nat
           /\ list \in Seq(Names) /\ Len(list) \in Nat
           /\ rec \in [Owners -> Record] /\ refused \subseteq Aliases
           /\ NoAlias \notin Aliases /\ Cut \notin Aliases /\ NoAlias # Cut
           /\ \A a : Listed(a) => a \in Names
  <1>1. /\ rows \in Seq(Row) /\ list \in Seq(Names) /\ rec \in [Owners -> Record]
        /\ next \in 0..MarkingMax + 1 /\ refused \subseteq Aliases
    BY DEF MarkInv, MarkingTypeOK, Names, Owners
  <1>2. \A k \in 1..Len(rows) : rows[k] \in Row
    BY <1>1
  <1>3. \A row \in Row : row.alias \in Aliases \cup {NoAlias}
    BY DEF Row
  <1>4. \A a : Listed(a) => a \in Names
    BY <1>1 DEF Listed
  <1> QED BY <1>1, <1>2, <1>3, <1>4, MarkingAssumption

LEMMA RowReplaced ==
    ASSUME NEW rs \in Seq(Row), NEW k \in 1..Len(rs), NEW row \in Row, NEW t,
           t = [rs EXCEPT ![k] = row]
    PROVE  /\ t \in Seq(Row) /\ Len(t) = Len(rs)
           /\ \A j \in 1..Len(rs) : t[j] = IF j = k THEN row ELSE rs[j]
  OBVIOUS

LEMMA MarkUnchanged ==
    ASSUME MarkInv, UNCHANGED markingVars, Filling' <= Filling
    PROVE  MarkInv'
  <1>1. /\ rows' = rows /\ next' = next /\ list' = list /\ rec' = rec
        /\ refused' = refused /\ boot' = boot
    BY DEF markingVars
  <1>2. NumbersInv'
    <2>1. Filling \in {0, 1} /\ Filling' \in {0, 1} /\ next \in Nat
      BY MarkTypes DEF Filling
    <2>2. \A k \in 1..Len(rows) : rows[k].num \in Nat
      <3>1. \A row \in Row : row.num \in Nat
        BY MarkingAssumption DEF Row, Ports
      <3> QED BY <3>1, MarkTypes
    <2> QED BY <1>1, <2>1, <2>2 DEF MarkInv, NumbersInv
  <1>3. MarkingTypeOK' /\ Len(list') <= ListCapacity + 1 /\ Apart(list', rec')
    BY <1>1 DEF MarkInv, MarkingTypeOK
  <1>4. WholeHaveRows' /\ PortsInv' /\ TwiceRefused'
    BY <1>1 DEF MarkInv, WholeHaveRows, PortsInv, TwiceRefused, Complete
  <1>5. MarkingsStored' /\ RestartRepairs'
    BY <1>1 DEF MarkInv, MarkingsStored, RestartRepairs, Listed
  <1> QED BY <1>2, <1>3, <1>4, <1>5 DEF MarkInv

LEMMA AddEntryKeeps ==
    ASSUME MarkInv, Marking_AddEntry, Filling' <= Filling + 1
    PROVE  MarkInv'
  <1> DEFINE n == Len(rows)
  <1>1. /\ rows' = Append(rows, NewRow(next)) /\ next' = next + 1 /\ next <= MarkingMax
        /\ list' = list /\ rec' = rec /\ refused' = refused /\ boot' = -1
    BY DEF Marking_AddEntry, Running
  <1>2. NewRow(next) \in Row
    <2>1. next \in 0..MarkingMax /\ next \in Ports /\ 0 \in Ports
      BY <1>1, MarkTypes DEF Ports
    <2> QED BY <2>1 DEF NewRow, Row
  <1>3. /\ rows' \in Seq(Row) /\ Len(rows') = n + 1 /\ n \in Nat
        /\ \A k \in 1..n : rows'[k] = rows[k]
        /\ rows'[n + 1] = NewRow(next)
    BY <1>1, <1>2, MarkTypes
  <1>4. \A k \in 1..n + 1 : k = n + 1 \/ k \in 1..n
    BY <1>3
  <1>n. /\ NewRow(next).ins = next /\ NewRow(next).num = next /\ NewRow(next).new = TRUE
        /\ NewRow(next).alias = NoAlias /\ NewRow(next).port = 0
    BY DEF NewRow
  <1> HIDE DEF n
  <1>5. MarkingTypeOK' /\ Len(list') <= ListCapacity + 1 /\ Apart(list', rec')
    <2>1. next' \in 0..MarkingMax + 1
      BY <1>1, MarkTypes
    <2>2. boot' \in -1..ListCapacity + 1
      BY <1>1, MarkTypes
    <2> QED BY <1>1, <1>3, <2>1, <2>2 DEF MarkInv, MarkingTypeOK
  <1>6. WholeHaveRows'
    <2> SUFFICES ASSUME NEW i \in 1..Len(list), Complete(list[i], rec)
                 PROVE  \E k \in 1..n + 1 : rows'[k].alias = list[i]
      BY <1>1, <1>3 DEF WholeHaveRows, Complete
    <2>1. PICK k \in 1..n : rows[k].alias = list[i]
      BY DEF MarkInv, WholeHaveRows, n
    <2> QED BY <1>3, <2>1
  <1>7. NumbersInv'
    <2>1. Filling \in {0, 1} /\ Filling' \in {0, 1} /\ next \in Nat
      BY MarkTypes DEF Filling
    <2>2. \A k \in 1..n : /\ rows[k].num \in Nat /\ rows[k].ins \in Nat
      <3>1. \A row \in Row : row.num \in Nat /\ row.ins \in Nat
        BY MarkingAssumption DEF Row, Ports
      <3> QED BY <3>1, MarkTypes DEF n
    <2>3. /\ n <= next
          /\ \A k \in 1..n :
                /\ rows[k].ins < next
                /\ rows[k].num + (IF rows[k].new THEN 1 ELSE 0) + Filling <= next + 1
          /\ \A j, k \in 1..n : j # k => rows[j].ins # rows[k].ins
      BY DEF MarkInv, NumbersInv, n
    <2>4. \A k \in 1..n + 1 : rows'[k].ins < next + 1
      BY <1>3, <1>4, <1>n, <2>1, <2>2, <2>3
    <2>5. \A k \in 1..n + 1 :
             rows'[k].num + (IF rows'[k].new THEN 1 ELSE 0) + Filling' <= (next + 1) + 1
      BY <1>3, <1>4, <1>n, <2>1, <2>2, <2>3
    <2>6. \A j, k \in 1..n + 1 : j # k => rows'[j].ins # rows'[k].ins
      <3>1. \A k \in 1..n : rows[k].ins # next
        BY <2>1, <2>2, <2>3
      <3> QED BY <1>3, <1>4, <1>n, <2>3, <3>1
    <2>7. n + 1 <= next + 1
      BY <1>3, <2>1, <2>3
    <2> QED BY <1>1, <1>3, <2>4, <2>5, <2>6, <2>7 DEF NumbersInv
  <1>8. PortsInv' /\ TwiceRefused'
    <2>1. PortsInv'
      BY <1>1, <1>3, <1>4, <1>n DEF MarkInv, PortsInv, n
    <2>2. TwiceRefused'
      BY <1>1, <1>3, <1>4, <1>n DEF MarkInv, TwiceRefused, n
    <2> QED BY <2>1, <2>2
  <1>9. MarkingsStored'
    <2> SUFFICES ASSUME NEW k \in 1..n + 1
                 PROVE  StoredAs(rows'[k], list', rec', refused')
      BY <1>3 DEF MarkingsStored, Listed, StoredAs
    <2>1. CASE k = n + 1
      BY <1>3, <1>n, <2>1 DEF StoredAs
    <2>2. CASE k \in 1..n
      <3>1. StoredAs(rows[k], list, rec, refused)
        BY <2>2 DEF MarkInv, MarkingsStored, Listed, StoredAs, n
      <3> QED BY <1>1, <1>3, <2>2, <3>1
    <2> QED BY <1>4, <2>1, <2>2
  <1>10. RestartRepairs'
    BY <1>1 DEF RestartRepairs
  <1> QED BY <1>5, <1>6, <1>7, <1>8, <1>9, <1>10 DEF MarkInv

LEMMA RowFields ==
    ASSUME NEW row \in Row
    PROVE  /\ row.ins \in 0..MarkingMax /\ row.num \in Ports /\ row.new \in BOOLEAN
           /\ row.alias \in Aliases \cup {NoAlias} /\ row.port \in Ports
           /\ row.eth \in Priorities \cup {NoPriority}
           /\ row.ins \in Nat /\ row.num \in Nat /\ row.port \in Nat
           /\ \A a \in Aliases : /\ [row EXCEPT !.alias = a] \in Row
                                 /\ [row EXCEPT !.alias = a].ins = row.ins
                                 /\ [row EXCEPT !.alias = a].num = row.num
                                 /\ [row EXCEPT !.alias = a].new = row.new
                                 /\ [row EXCEPT !.alias = a].port = row.port
                                 /\ [row EXCEPT !.alias = a].alias = a
           /\ \A v \in Priorities \cup {NoPriority} :
                                 /\ [row EXCEPT !.eth = v] \in Row
                                 /\ [row EXCEPT !.eth = v].ins = row.ins
                                 /\ [row EXCEPT !.eth = v].num = row.num
                                 /\ [row EXCEPT !.eth = v].new = row.new
                                 /\ [row EXCEPT !.eth = v].port = row.port
                                 /\ [row EXCEPT !.eth = v].alias = row.alias
           /\ \A b \in BOOLEAN : /\ [row EXCEPT !.new = b] \in Row
                                 /\ [row EXCEPT !.new = b].ins = row.ins
                                 /\ [row EXCEPT !.new = b].num = row.num
                                 /\ [row EXCEPT !.new = b].new = b
                                 /\ [row EXCEPT !.new = b].port = row.port
                                 /\ [row EXCEPT !.new = b].alias = row.alias
                                 /\ [row EXCEPT !.new = b].eth = row.eth
  <1>1. /\ row.ins \in 0..MarkingMax /\ row.num \in Ports /\ row.new \in BOOLEAN
        /\ row.alias \in Aliases \cup {NoAlias} /\ row.port \in Ports
        /\ row.eth \in Priorities \cup {NoPriority}
    BY DEF Row
  <1>2. row.ins \in Nat /\ row.num \in Nat /\ row.port \in Nat
    BY <1>1, MarkingAssumption DEF Ports
  <1>3. \A a \in Aliases : /\ [row EXCEPT !.alias = a] \in Row
                           /\ [row EXCEPT !.alias = a].ins = row.ins
                           /\ [row EXCEPT !.alias = a].num = row.num
                           /\ [row EXCEPT !.alias = a].new = row.new
                           /\ [row EXCEPT !.alias = a].port = row.port
                           /\ [row EXCEPT !.alias = a].alias = a
    BY DEF Row
  <1>4. \A v \in Priorities \cup {NoPriority} :
                           /\ [row EXCEPT !.eth = v] \in Row
                           /\ [row EXCEPT !.eth = v].ins = row.ins
                           /\ [row EXCEPT !.eth = v].num = row.num
                           /\ [row EXCEPT !.eth = v].new = row.new
                           /\ [row EXCEPT !.eth = v].port = row.port
                           /\ [row EXCEPT !.eth = v].alias = row.alias
    BY DEF Row
  <1>5. \A b \in BOOLEAN : /\ [row EXCEPT !.new = b] \in Row
                           /\ [row EXCEPT !.new = b].ins = row.ins
                           /\ [row EXCEPT !.new = b].num = row.num
                           /\ [row EXCEPT !.new = b].new = b
                           /\ [row EXCEPT !.new = b].port = row.port
                           /\ [row EXCEPT !.new = b].alias = row.alias
                           /\ [row EXCEPT !.new = b].eth = row.eth
    BY DEF Row
  <1> QED BY <1>1, <1>2, <1>3, <1>4, <1>5

\* The row k is replaced by one with the same numbers that is not newer, and
\* what is stored changes for its alias at most.
LEMMA RowReplacedKeeps ==
    ASSUME MarkInv, Filling' <= Filling, NEW k \in 1..Len(rows), NEW row \in Row,
           rows' = [rows EXCEPT ![k] = row], next' = next, list' = list, boot' = -1,
           row.ins = rows[k].ins, row.num = rows[k].num, row.port = rows[k].port,
           row.new => rows[k].new,
           rows[k].alias \in {row.alias, NoAlias},
           refused \subseteq refused', refused' \subseteq Aliases,
           rec' \in [Owners -> Record],
           \A a \in Owners : Complete(a, rec') => Complete(a, rec) \/ a = row.alias,
           ~ Complete(Cut, rec'),
           \A a \in Owners \ {row.alias} : rec'[a] = rec[a],
           \A j \in 1..Len(rows) : j # k /\ rows[j].alias = row.alias
                                     => row.alias \in refused' \cup {NoAlias},
           StoredAs(row, list, rec', refused'),
           row.port # 0 /\ row.alias \notin refused' => rows[k].alias \notin refused
    PROVE  MarkInv'
  <1> DEFINE n == Len(rows)
  <1>1. /\ rows' \in Seq(Row) /\ Len(rows') = n
        /\ \A j \in 1..n : rows'[j] = IF j = k THEN row ELSE rows[j]
    BY MarkTypes, RowReplaced
  <1>2. \A j \in 1..n : rows'[j].ins = rows[j].ins /\ rows'[j].num = rows[j].num
                        /\ rows'[j].port = rows[j].port /\ (rows'[j].new => rows[j].new)
    BY <1>1
  <1>3. MarkingTypeOK' /\ Len(list') <= ListCapacity + 1
    <2>1. boot' \in -1..ListCapacity + 1
      BY MarkTypes
    <2> QED BY <1>1, <2>1 DEF MarkInv, MarkingTypeOK, Owners
  <1>4. Apart(list', rec')
    BY DEF MarkInv, Apart
  <1>5. WholeHaveRows'
    <2> SUFFICES ASSUME NEW i \in 1..Len(list), Complete(list[i], rec')
                 PROVE  \E j \in 1..n : rows'[j].alias = list[i]
      BY <1>1 DEF WholeHaveRows, Complete
    <2>1. list[i] \in Owners /\ list[i] # NoAlias
      BY MarkTypes DEF Names, Owners
    <2>2. CASE list[i] = row.alias
      BY <1>1, <2>2
    <2>3. CASE list[i] # row.alias
      <3>1. Complete(list[i], rec)
        BY <2>1, <2>3
      <3>2. PICK j \in 1..n : rows[j].alias = list[i]
        BY <3>1 DEF MarkInv, WholeHaveRows
      <3>3. j # k
        BY <2>1, <2>3, <3>2
      <3> QED BY <1>1, <3>2, <3>3
    <2> QED BY <2>2, <2>3
  <1> HIDE DEF n
  <1>6. NumbersInv'
    <2>1. Filling \in {0, 1} /\ Filling' \in {0, 1} /\ next \in Nat
      BY MarkTypes DEF Filling
    <2>2. \A j \in 1..n : rows[j].num \in Nat
      BY MarkTypes, RowFields DEF n
    <2>3. /\ n <= next
          /\ \A j \in 1..n :
                /\ rows[j].ins < next
                /\ rows[j].num + (IF rows[j].new THEN 1 ELSE 0) + Filling <= next + 1
          /\ \A i, j \in 1..n : i # j => rows[i].ins # rows[j].ins
      BY DEF MarkInv, NumbersInv, n
    <2>4. \A j \in 1..n :
             rows'[j].num + (IF rows'[j].new THEN 1 ELSE 0) + Filling' <= next + 1
      BY <1>2, <2>1, <2>2, <2>3
    <2> QED BY <1>1, <1>2, <2>3, <2>4 DEF NumbersInv
  <1>7. PortsInv'
    <2> SUFFICES ASSUME NEW j \in 1..n
                 PROVE  /\ rows'[j].new => rows'[j].port = 0
                        /\ rows'[j].port = 0 => rows'[j].num = rows'[j].ins
                        /\ rows'[j].port # 0 /\ rows'[j].alias \notin refused' =>
                              rows'[j].port = rows'[j].ins + 1
      BY <1>1 DEF PortsInv
    <2>1. /\ rows[j].new => rows[j].port = 0
          /\ rows[j].port = 0 => rows[j].num = rows[j].ins
          /\ rows[j].port # 0 /\ rows[j].alias \notin refused => rows[j].port = rows[j].ins + 1
      BY DEF MarkInv, PortsInv, n
    <2>2. CASE j = k
      BY <1>1, <1>2, <2>1, <2>2
    <2>3. CASE j # k
      <3>1. rows'[j] = rows[j]
        BY <1>1, <2>3
      <3> QED BY <2>1, <3>1
    <2> QED BY <2>2, <2>3
  <1>8. TwiceRefused'
    <2> SUFFICES ASSUME NEW i \in 1..n, NEW j \in 1..n, i # j, rows'[i].alias = rows'[j].alias
                 PROVE  rows'[i].alias \in refused' \cup {NoAlias}
      BY <1>1 DEF TwiceRefused
    <2>1. CASE i = k
      BY <1>1, <2>1
    <2>2. CASE j = k
      BY <1>1, <2>2
    <2>3. CASE i # k /\ j # k
      BY <1>1, <2>3 DEF MarkInv, TwiceRefused, n
    <2> QED BY <2>1, <2>2, <2>3
  <1>9. MarkingsStored'
    <2> SUFFICES ASSUME NEW j \in 1..n PROVE StoredAs(rows'[j], list', rec', refused')
      BY <1>1 DEF MarkingsStored, Listed, StoredAs
    <2>1. CASE j = k
      BY <1>1, <2>1
    <2>2. CASE j # k
      <3>1. StoredAs(rows[j], list, rec, refused) /\ rows'[j] = rows[j]
        BY <1>1, <2>2 DEF MarkInv, MarkingsStored, Listed, StoredAs, n
      <3>2. rows[j].alias = row.alias => rows[j].alias \in refused' \cup {NoAlias}
        BY <2>2 DEF n
      <3>3. rows[j].alias \in Owners
        BY MarkTypes DEF Owners, n
      <3>4. CASE rows[j].alias # row.alias
        <4>1. rec'[rows[j].alias] = rec[rows[j].alias]
          BY <3>3, <3>4
        <4> QED BY <3>1, <4>1 DEF StoredAs
      <3>5. CASE rows[j].alias = row.alias
        BY <3>1, <3>2, <3>5 DEF StoredAs
      <3> QED BY <3>4, <3>5
    <2> QED BY <2>1, <2>2
  <1>10. RestartRepairs'
    BY DEF RestartRepairs
  <1> QED BY <1>3, <1>4, <1>5, <1>6, <1>7, <1>8, <1>9, <1>10 DEF MarkInv

-----------------------------------------------------------------------------
(* The records of an alias.                                                *)

LEMMA FieldNames ==
    /\ \A n \in 0..4 : {Fields[k] : k \in 1..n} \subseteq AllFields
    /\ {Fields[k] : k \in 1..4} = AllFields
  <1>1. DOMAIN Fields = 1..4
    BY DEF Fields
  <1> HIDE DEF Fields
  <1>2. AllFields = {Fields[k] : k \in 1..4}
    BY <1>1 DEF AllFields, ToSet
  <1>3. \A n \in 0..4 : 1..n \subseteq 1..4
    OBVIOUS
  <1> QED BY <1>2, <1>3

LEMMA StoredParts ==
    ASSUME MarkInv, NEW a \in Aliases \cup {NoAlias}, NEW n \in 0..4, NEW p \in Ports,
           NEW e \in Priorities \cup {NoPriority}, NEW r, r = Stored(a, n, p, e)
    PROVE  /\ r \in [Owners -> Record] /\ \A b \in Owners \ {a} : r[b] = rec[b]
           /\ ~ Complete(Cut, r)
           /\ \A b \in Owners : Complete(b, r) => Complete(b, rec) \/ b = a
           /\ n = 4 => Complete(a, r) /\ r[a].port = p
  <1> DEFINE new == [has |-> rec[a].has \cup {Fields[k] : k \in 1..n},
                     port |-> IF n >= 2 THEN p ELSE rec[a].port,
                     eth |-> IF n >= 4 THEN e ELSE rec[a].eth]
  <1>1. rec \in [Owners -> Record] /\ a \in Owners /\ a # Cut /\ Cut \in Owners
    BY MarkTypes DEF Owners
  <1>2. r = [rec EXCEPT ![a] = new]
    BY <1>1 DEF Stored
  <1>3. new \in Record
    <2>1. rec[a] \in Record
      BY <1>1
    <2>2. rec[a].has \subseteq AllFields /\ rec[a].port \in Ports
          /\ rec[a].eth \in Priorities \cup {NoPriority}
      BY <2>1 DEF Record
    <2>3. {Fields[k] : k \in 1..n} \subseteq AllFields
      BY FieldNames
    <2> QED BY <2>2, <2>3 DEF Record
  <1>4. n = 4 => new.has = AllFields /\ new.port = p
    <2>1. rec[a].has \subseteq AllFields
      BY <1>1 DEF Record
    <2> QED BY <2>1, FieldNames
  <1> HIDE DEF new
  <1>5. r \in [Owners -> Record] /\ r[a] = new /\ \A b \in Owners \ {a} : r[b] = rec[b]
    BY <1>1, <1>2, <1>3
  <1>6. ~ Complete(Cut, rec)
    BY DEF MarkInv, Apart
  <1> QED BY <1>1, <1>4, <1>5, <1>6 DEF Complete

\* The records without the fields f of an alias.
Lessened(a, f) == [rec EXCEPT ![a].has = @ \ f]

\* All four records.
WrittenWith(r, a, p) ==
    /\ r \in [Owners -> Record] /\ \A b \in Owners \ {a} : r[b] = rec[b]
    /\ ~ Complete(Cut, r) /\ r[a].port = p
    /\ \A b \in Owners : Complete(b, r) => Complete(b, rec) \/ b = a

LEMMA AllStored ==
    ASSUME MarkInv, NEW a \in Aliases \cup {NoAlias}, NEW p \in Ports,
           NEW e \in Priorities \cup {NoPriority}, NEW r, r = Stored(a, 4, p, e)
    PROVE  WrittenWith(r, a, p)
  <1>1. PICK n \in 0..4 : n = 4
    OBVIOUS
  <1>2. r = Stored(a, n, p, e)
    BY <1>1
  <1>3. /\ r \in [Owners -> Record] /\ \A b \in Owners \ {a} : r[b] = rec[b]
        /\ ~ Complete(Cut, r)
        /\ \A b \in Owners : Complete(b, r) => Complete(b, rec) \/ b = a
        /\ n = 4 => Complete(a, r) /\ r[a].port = p
    BY <1>2, StoredParts
  <1> QED BY <1>1, <1>3 DEF WrittenWith

LEMMA DeletedParts ==
    ASSUME MarkInv, NEW a \in Owners, NEW f \in SUBSET AllFields,
           NEW r, r = Lessened(a, f)
    PROVE  /\ r \in [Owners -> Record] /\ \A b \in Owners \ {a} : r[b] = rec[b]
           /\ \A b \in Owners : /\ Complete(b, r) => Complete(b, rec)
                                /\ r[b].port = rec[b].port /\ r[b].has \subseteq rec[b].has
           /\ ~ Complete(Cut, r)
  <1> DEFINE new == [rec[a] EXCEPT !.has = @ \ f]
  <1>1. rec \in [Owners -> Record] /\ rec[a] \in Record /\ Cut \in Owners
    BY MarkTypes DEF Owners
  <1>2. r = [rec EXCEPT ![a] = new]
    BY <1>1 DEF Lessened
  <1>3. rec[a].has \subseteq AllFields
    BY <1>1 DEF Record
  <1>4. new \in Record /\ new.has = rec[a].has \ f /\ new.port = rec[a].port
    BY <1>1, <1>3 DEF Record
  <1> HIDE DEF new
  <1>5. r \in [Owners -> Record] /\ r[a] = new /\ \A b \in Owners \ {a} : r[b] = rec[b]
    BY <1>1, <1>2, <1>4
  <1>6. \A b \in Owners : /\ r[b].port = rec[b].port /\ r[b].has \subseteq rec[b].has
    BY <1>4, <1>5
  <1>7. \A b \in Owners : rec[b].has \subseteq AllFields
    BY <1>1 DEF Record
  <1>8. \A b \in Owners : Complete(b, r) => Complete(b, rec)
    BY <1>6, <1>7 DEF Complete
  <1>9. ~ Complete(Cut, rec)
    BY DEF MarkInv, Apart
  <1> QED BY <1>1, <1>5, <1>6, <1>8, <1>9

-----------------------------------------------------------------------------
(* The handlers that replace a row.                                        *)

LEMMA RecordsTyped == MarkInv => /\ rec \in [Owners -> Record] /\ ~ Complete(Cut, rec)
                                 /\ \A k \in 1..Len(rows) : StoredAs(rows[k], list, rec, refused)
  <1> SUFFICES ASSUME MarkInv
               PROVE  /\ rec \in [Owners -> Record] /\ ~ Complete(Cut, rec)
                      /\ \A k \in 1..Len(rows) : StoredAs(rows[k], list, rec, refused)
    OBVIOUS
  <1>1. rec \in [Owners -> Record] /\ ~ Complete(Cut, rec)
    BY MarkTypes DEF MarkInv, Apart
  <1>2. \A k \in 1..Len(rows) : StoredAs(rows[k], list, rec, refused)
    BY DEF MarkInv, MarkingsStored, Listed, StoredAs
  <1> QED BY <1>1, <1>2

LEMMA SetAliasKeeps ==
    ASSUME MarkInv, NEW k \in 1..Len(rows), NEW a \in Aliases,
           Marking_SetParamStringValue(k, a), Filling' <= Filling
    PROVE  MarkInv'
  <1>1. PICK row \in Row : row = [rows[k] EXCEPT !.alias = a]
    BY MarkTypes, RowFields
  <1>2. /\ row.ins = rows[k].ins /\ row.num = rows[k].num /\ row.port = rows[k].port
        /\ row.new = rows[k].new /\ row.alias = a
    BY <1>1, MarkTypes, RowFields
  <1>3. /\ rows[k].alias = NoAlias /\ next' = next /\ list' = list /\ rec' = rec /\ boot' = -1
        /\ refused' = IF rows[k].new /\ \A j \in 1..Len(rows) : rows[j].alias # a
                    THEN refused ELSE refused \cup {a}
    BY DEF Marking_SetParamStringValue, Running
  <1>4. rows' = [rows EXCEPT ![k] = row]
    BY <1>1, MarkTypes DEF Marking_SetParamStringValue
  <1>5. /\ refused \subseteq refused' /\ refused' \subseteq Aliases
        /\ \A j \in 1..Len(rows) : rows[j].alias = a => a \in refused'
        /\ a \notin refused' => row.new
    BY <1>2, <1>3, MarkTypes
  <1>6. StoredAs(row, list, rec', refused')
    BY <1>2, <1>5 DEF StoredAs
  <1>7. NoAlias \notin refused
    BY MarkTypes
  <1> QED BY <1>2, <1>3, <1>4, <1>5, <1>6, <1>7, RecordsTyped, RowReplacedKeeps

LEMMA SetPriorityKeeps ==
    ASSUME MarkInv, NEW k \in 1..Len(rows), NEW v \in Priorities,
           Marking_SetParamIntValue(k, v), Filling' <= Filling
    PROVE  MarkInv'
  <1>1. PICK row \in Row : row = [rows[k] EXCEPT !.eth = v]
    BY MarkTypes, RowFields
  <1>2. /\ row.ins = rows[k].ins /\ row.num = rows[k].num /\ row.port = rows[k].port
        /\ row.new = rows[k].new /\ row.alias = rows[k].alias
    BY <1>1, MarkTypes, RowFields
  <1>3. next' = next /\ list' = list /\ rec' = rec /\ boot' = -1 /\ refused' = refused
    BY DEF Marking_SetParamIntValue, Running
  <1>4. rows' = [rows EXCEPT ![k] = row]
    BY <1>1, MarkTypes DEF Marking_SetParamIntValue
  <1>5. \A j \in 1..Len(rows) : j # k /\ rows[j].alias = row.alias
                                    => row.alias \in refused \cup {NoAlias}
    BY <1>2 DEF MarkInv, TwiceRefused
  <1>6. StoredAs(row, list, rec', refused')
    <2>1. StoredAs(rows[k], list, rec, refused)
      BY RecordsTyped
    <2> QED BY <1>2, <1>3, <2>1 DEF StoredAs
  <1>7. refused \subseteq Aliases
    BY MarkTypes
  <1> QED BY <1>2, <1>3, <1>4, <1>5, <1>6, <1>7, RecordsTyped, RowReplacedKeeps

\* A row that is not new is written to PSM, or known not to be there.
LEMMA UpdateKeeps ==
    ASSUME MarkInv, NEW k \in 1..Len(rows), NEW row \in Row,
           rows[k].alias \in Aliases, row.alias = rows[k].alias, ~ row.new,
           row.ins = rows[k].ins, row.num = rows[k].num, row.port = rows[k].port,
           rows' = [rows EXCEPT ![k] = row], next' = next, list' = list, boot' = -1,
           rec' = IF Listed(row.alias) THEN Stored(row.alias, 4, row.port, row.eth) ELSE rec,
           refused' = IF Listed(row.alias) /\ row.port # 0 THEN refused
                      ELSE refused \cup {row.alias},
           Filling' <= Filling
    PROVE  MarkInv'
  <1> DEFINE a == row.alias
  <1>1. /\ refused \subseteq refused' /\ refused' \subseteq Aliases
        /\ a \notin refused' => Listed(a) /\ row.port # 0
    BY MarkTypes
  <1>2. \A j \in 1..Len(rows) : j # k /\ rows[j].alias = a => a \in refused' \cup {NoAlias}
    BY <1>1 DEF MarkInv, TwiceRefused
  <1>3. /\ rec' \in [Owners -> Record] /\ ~ Complete(Cut, rec')
        /\ \A b \in Owners : Complete(b, rec') => Complete(b, rec) \/ b = a
        /\ \A b \in Owners \ {a} : rec'[b] = rec[b]
        /\ Listed(a) => rec'[a].port = row.port
    <2>1. CASE ~ Listed(a)
      BY <2>1, RecordsTyped
    <2>2. CASE Listed(a)
      <3>1. row.port \in Ports /\ row.eth \in Priorities \cup {NoPriority}
        BY RowFields
      <3>2. PICK r : r = Stored(a, 4, row.port, row.eth)
        OBVIOUS
      <3>3. /\ r \in [Owners -> Record] /\ \A b \in Owners \ {a} : r[b] = rec[b]
            /\ ~ Complete(Cut, r)
            /\ \A b \in Owners : Complete(b, r) => Complete(b, rec) \/ b = a
            /\ r[a].port = row.port
        BY <3>1, <3>2, StoredParts
      <3> QED BY <2>2, <3>2, <3>3
    <2> QED BY <2>1, <2>2
  <1>4. StoredAs(row, list, rec', refused')
    BY <1>1, <1>3 DEF StoredAs, Listed
  <1> QED BY <1>1, <1>2, <1>3, <1>4, RowReplacedKeeps

LEMMA CommitUpdateKeeps ==
    ASSUME MarkInv, NEW k \in 1..Len(rows), Marking_CommitUpdate(k), Filling' <= Filling
    PROVE  MarkInv'
  <1>1. /\ ~ rows[k].new /\ Listed(rows[k].alias)
        /\ rec' = Stored(rows[k].alias, 4, rows[k].port, rows[k].eth)
        /\ rows' = rows /\ next' = next /\ list' = list /\ refused' = refused /\ boot' = -1
    BY DEF Marking_CommitUpdate, Running
  <1>2. rows[k].alias \in Aliases /\ rows[k] \in Row
    BY <1>1, MarkTypes DEF Names
  <1>3. rows' = [rows EXCEPT ![k] = rows[k]]
    BY <1>1, MarkTypes
  <1>4. rows[k].port = 0 => rows[k].alias \in refused
    <2>1. StoredAs(rows[k], list, rec, refused)
      BY RecordsTyped
    <2> QED BY <1>1, <1>2, <2>1, MarkTypes DEF StoredAs
  <1>5. refused' = IF Listed(rows[k].alias) /\ rows[k].port # 0 THEN refused
                   ELSE refused \cup {rows[k].alias}
    BY <1>1, <1>4
  <1> QED BY <1>1, <1>2, <1>3, <1>5, UpdateKeeps

LEMMA TruncatedKeeps ==
    ASSUME MarkInv, NEW a, NEW f \in AllFields, PsmTruncated(a, f), Filling' <= Filling
    PROVE  MarkInv'
  <1>1. /\ Listed(a) /\ rec' = [rec EXCEPT ![a].has = @ \ {f}]
        /\ rows' = rows /\ next' = next /\ list' = list /\ refused' = refused /\ boot' = -1
    BY DEF PsmTruncated, Running
  <1>2. PICK r : r = [rec EXCEPT ![a].has = @ \ {f}]
    OBVIOUS
  <1>3. /\ r \in [Owners -> Record]
        /\ \A b \in Owners : /\ Complete(b, r) => Complete(b, rec)
                             /\ r[b].port = rec[b].port /\ r[b].has \subseteq rec[b].has
        /\ ~ Complete(Cut, r)
    <2>1. a \in Owners
      BY <1>1, MarkTypes DEF Names, Owners
    <2>2. {f} \in SUBSET AllFields /\ r = Lessened(a, {f})
      BY <1>2 DEF Lessened
    <2> QED BY <2>1, <2>2, DeletedParts
  <1>4. MarkingTypeOK' /\ Len(list') <= ListCapacity + 1 /\ Apart(list', rec')
    <2>1. boot' \in -1..ListCapacity + 1
      BY <1>1, MarkTypes
    <2> QED BY <1>1, <1>2, <1>3, <2>1 DEF MarkInv, MarkingTypeOK, Owners, Apart
  <1>5. WholeHaveRows'
    <2>1. \A i \in 1..Len(list) : list[i] \in Owners
      BY MarkTypes DEF Names, Owners
    <2>2. \A i \in 1..Len(list) : Complete(list[i], r) => Complete(list[i], rec)
      BY <1>3, <2>1
    <2> QED BY <1>1, <1>2, <2>2 DEF MarkInv, WholeHaveRows, Complete
  <1>6. NumbersInv'
    <2>1. Filling \in {0, 1} /\ Filling' \in {0, 1} /\ next \in Nat
      BY MarkTypes DEF Filling
    <2>2. \A k \in 1..Len(rows) : rows[k].num \in Nat
      BY MarkTypes, RowFields
    <2> QED BY <1>1, <2>1, <2>2 DEF MarkInv, NumbersInv
  <1>7. PortsInv' /\ TwiceRefused'
    BY <1>1 DEF MarkInv, PortsInv, TwiceRefused
  <1>8. MarkingsStored'
    <2> SUFFICES ASSUME NEW k \in 1..Len(rows)
                 PROVE  StoredAs(rows[k], list, r, refused)
      BY <1>1, <1>2 DEF MarkingsStored, Listed, StoredAs
    <2>1. StoredAs(rows[k], list, rec, refused) /\ rows[k].alias \in Owners
      BY RecordsTyped, MarkTypes DEF Owners
    <2> QED BY <1>3, <2>1 DEF StoredAs
  <1>9. RestartRepairs'
    BY <1>1 DEF RestartRepairs
  <1> QED BY <1>4, <1>5, <1>6, <1>7, <1>8, <1>9 DEF MarkInv

-----------------------------------------------------------------------------
(* The list with an alias added, and without one.                          *)

LEMMA ListsWithParts ==
    ASSUME MarkInv, NEW a \in Aliases \cup {NoAlias}, ~ Listed(a), NEW s \in ListsWith(a)
    PROVE  /\ s \in Seq(Names) /\ Len(s) <= ListCapacity + 1
           /\ \A i \in 1..Len(s) : s[i] \in {a, Cut} \/ Listed(s[i])
           /\ \A b : Listed(b) => \E i \in 1..Len(s) : s[i] = b
           /\ \A i, j \in 1..Len(s) : i # j /\ s[i] = s[j] => s[i] = Cut
  <1> DEFINE n == Len(list)
  <1>1. /\ list \in Seq(Names) /\ n \in Nat /\ ListCapacity \in Nat /\ n <= ListCapacity + 1
        /\ \A i, j \in 1..n : i # j /\ list[i] = list[j] => list[i] = Cut
    BY MarkTypes DEF MarkInv, Apart
  <1>2. CASE s = list
    BY <1>1, <1>2 DEF Listed
  <1>3. ASSUME NEW x \in {a, Cut}, x \in Names, s = Append(list, x), n <= ListCapacity
        PROVE  /\ s \in Seq(Names) /\ Len(s) <= ListCapacity + 1
               /\ \A i \in 1..Len(s) : s[i] \in {a, Cut} \/ Listed(s[i])
               /\ \A b : Listed(b) => \E i \in 1..Len(s) : s[i] = b
               /\ \A i, j \in 1..Len(s) : i # j /\ s[i] = s[j] => s[i] = Cut
    <2>1. /\ s \in Seq(Names) /\ Len(s) = n + 1 /\ s[n + 1] = x
          /\ \A i \in 1..n : s[i] = list[i]
      BY <1>1, <1>3
    <2>2. \A i \in 1..n + 1 : i = n + 1 \/ i \in 1..n
      BY <1>1
    <2>3. \A i \in 1..n : i \in 1..n + 1
      BY <1>1
    <2>4. n + 1 <= ListCapacity + 1
      BY <1>1, <1>3
    <2> HIDE DEF n
    <2>5. \A i \in 1..n : Listed(list[i])
      BY DEF Listed, n
    <2>6. \A i \in 1..Len(s) : s[i] \in {a, Cut} \/ Listed(s[i])
      BY <2>1, <2>2, <2>5
    <2>7. \A b : Listed(b) => \E i \in 1..Len(s) : s[i] = b
      BY <2>1, <2>3 DEF Listed, n
    <2>8. \A i \in 1..n : list[i] = x => x = Cut
      BY <2>5
    <2>9. \A i, j \in 1..Len(s) : i # j /\ s[i] = s[j] => s[i] = Cut
      <3> SUFFICES ASSUME NEW i \in 1..n + 1, NEW j \in 1..n + 1, i # j, s[i] = s[j]
                   PROVE  s[i] = Cut
        BY <2>1
      <3>1. CASE i \in 1..n /\ j \in 1..n
        BY <1>1, <2>1, <3>1
      <3>2. CASE i = n + 1
        BY <2>1, <2>2, <2>8, <3>2
      <3>3. CASE j = n + 1
        BY <2>1, <2>2, <2>8, <3>3
      <3> QED BY <2>2, <3>1, <3>2, <3>3
    <2> QED BY <2>1, <2>4, <2>6, <2>7, <2>9
  <1>4. CASE s = Append(list, a) /\ a # NoAlias /\ n < ListCapacity
    <2>1. a \in Names /\ n <= ListCapacity
      BY <1>1, <1>4 DEF Names
    <2> QED BY <1>3, <1>4, <2>1
  <1>5. CASE s = Append(list, Cut) /\ n = ListCapacity
    <2>1. Cut \in Names /\ n <= ListCapacity
      BY <1>1, <1>5 DEF Names
    <2> QED BY <1>3, <1>5, <2>1
  <1> QED BY <1>2, <1>4, <1>5 DEF ListsWith

LEMMA WithoutParts ==
    ASSUME NEW t \in Seq(Names), NEW a, NEW u, u = Without(a, t),
           \A i, j \in 1..Len(t) : i # j /\ t[i] = t[j] => t[i] = Cut
    PROVE  /\ u \in Seq(Names) /\ Len(u) \in 0..Len(t)
           /\ \A i \in 1..Len(u) : u[i] # a /\ \E j \in 1..Len(t) : u[i] = t[j]
           /\ \A j \in 1..Len(t) : t[j] # a => \E i \in 1..Len(u) : u[i] = t[j]
           /\ \A i, j \in 1..Len(u) : i # j /\ u[i] = u[j] => u[i] = Cut
  <1> DEFINE U == {i \in 1..Len(t) : t[i] # a}
  <1>1. U \in SUBSET (1..Len(t)) /\ u = Kept(t, U)
    BY DEF Without
  <1>2. \A i \in 1..Len(t) : i \in U <=> t[i] # a
    OBVIOUS
  <1> HIDE DEF U
  <1>3. /\ u \in Seq(Names) /\ Len(u) = Cardinality(U) /\ Cardinality(U) \in 0..Len(t)
        /\ \A k \in 1..Cardinality(U) : Place(U, k) \in U /\ u[k] = t[Place(U, k)]
        /\ \A i \in U : \E k \in 1..Cardinality(U) : Place(U, k) = i
        /\ \A j, k \in 1..Cardinality(U) : Place(U, j) = Place(U, k) => j = k
    BY <1>1, KeptParts
  <1>4. \A i \in 1..Len(u) : u[i] # a /\ \E j \in 1..Len(t) : u[i] = t[j]
    BY <1>1, <1>2, <1>3
  <1>5. \A j \in 1..Len(t) : t[j] # a => \E i \in 1..Len(u) : u[i] = t[j]
    BY <1>2, <1>3
  <1>6. \A i, j \in 1..Len(u) : i # j /\ u[i] = u[j] => u[i] = Cut
    <2> SUFFICES ASSUME NEW i \in 1..Len(u), NEW j \in 1..Len(u), i # j, u[i] = u[j]
                 PROVE  u[i] = Cut
      OBVIOUS
    <2>1. Place(U, i) \in 1..Len(t) /\ Place(U, j) \in 1..Len(t) /\ Place(U, i) # Place(U, j)
      BY <1>1, <1>3
    <2>2. u[i] = t[Place(U, i)] /\ u[j] = t[Place(U, j)]
      BY <1>3
    <2> QED BY <2>1, <2>2
  <1> QED BY <1>3, <1>4, <1>5, <1>6

-----------------------------------------------------------------------------
(* A row is added to the list and the records: the row k, with the alias   *)
(* and the priority of row, which has not been given a port, or not while  *)
(* it had this alias.                                                      *)

LEMMA DmlAddKeeps ==
    ASSUME MarkInv, NEW k \in 1..Len(rows), NEW row \in Row, ~ Listed(row.alias),
           NEW s \in ListsWith(row.alias), DmlAdd([rows EXCEPT ![k] = row], k, s),
           row.ins = rows[k].ins, row.num = rows[k].num, row.port = rows[k].port,
           rows[k].alias \in {row.alias, NoAlias},
           row.port # 0 => row.alias # NoAlias,
           Filling' <= Filling, row.num + 1 + Filling' <= next + 1,
           next' = next, boot' = -1
    PROVE  MarkInv'
  <1> DEFINE n == Len(rows)
             rs == [rows EXCEPT ![k] = row]
             a == row.alias
             p == row.num + 1
             added == [row EXCEPT !.new = FALSE, !.num = p, !.port = p]
  <1>0. a \in Aliases \cup {NoAlias} /\ row.num \in Nat /\ row.ins \in Nat
    BY RowFields
  <1>1. /\ rs \in Seq(Row) /\ Len(rs) = n /\ rs[k] = row
        /\ \A j \in 1..n : j # k => rs[j] = rows[j]
    BY MarkTypes
  <1>2. p \in Ports /\ p # 0
    <2>1. Filling' \in {0, 1} /\ next \in 0..MarkingMax + 1 /\ MarkingMax \in Nat
      BY MarkTypes DEF Filling
    <2> QED BY <1>0, <2>1 DEF Ports
  <1>3. /\ added \in Row /\ added.ins = row.ins /\ added.num = p /\ added.port = p
        /\ added.new = FALSE /\ added.alias = a
    BY <1>2 DEF Row
  <1>4. /\ rows' = [rs EXCEPT ![k].new = FALSE, ![k].num = p, ![k].port = p]
        /\ list' = s /\ rec' = Stored(a, 4, p, row.eth)
        /\ refused' = RefusedWith(a, s, rs) \cup Recommitted(rs, k)
    BY <1>1 DEF DmlAdd
  <1> HIDE DEF rs, p, added
  <1>5. rows' = [rs EXCEPT ![k] = added]
    BY <1>1, <1>4 DEF added
  <1>6. /\ rows' \in Seq(Row) /\ Len(rows') = n /\ rows'[k] = added
        /\ \A j \in 1..n : j # k => rows'[j] = rows[j]
    BY <1>1, <1>3, <1>5
  <1>7. /\ s \in Seq(Names) /\ Len(s) <= ListCapacity + 1
        /\ \A i \in 1..Len(s) : s[i] \in {a, Cut} \/ Listed(s[i])
        /\ \A b : Listed(b) => \E i \in 1..Len(s) : s[i] = b
        /\ \A i, j \in 1..Len(s) : i # j /\ s[i] = s[j] => s[i] = Cut
    BY <1>0, ListsWithParts
  <1>8. /\ rec' \in [Owners -> Record] /\ \A b \in Owners \ {a} : rec'[b] = rec[b]
        /\ ~ Complete(Cut, rec') /\ rec'[a].port = p
        /\ \A b \in Owners : Complete(b, rec') => Complete(b, rec) \/ b = a
    <2>1. PICK r : r = Stored(a, 4, p, row.eth)
      OBVIOUS
    <2>2. row.eth \in Priorities \cup {NoPriority}
      BY RowFields
    <2>3. /\ r \in [Owners -> Record] /\ \A b \in Owners \ {a} : r[b] = rec[b]
          /\ ~ Complete(Cut, r)
          /\ \A b \in Owners : Complete(b, r) => Complete(b, rec) \/ b = a
          /\ r[a].port = p
      <3>1. PICK b \in Aliases \cup {NoAlias} : b = a
        BY <1>0
      <3>2. PICK q \in Ports : q = p
        BY <1>2
      <3>3. PICK e \in Priorities \cup {NoPriority} : e = row.eth
        BY <2>2
      <3>4. r = Stored(b, 4, q, e)
        BY <2>1, <3>1, <3>2, <3>3
      <3>5. WrittenWith(r, b, q)
        BY <3>4, AllStored
      <3> QED BY <3>1, <3>2, <3>5 DEF WrittenWith
    <2> QED BY <1>4, <2>1, <2>3
  <1>9. /\ refused \subseteq refused' /\ refused' \subseteq Aliases
        /\ row.port # 0 => a \in refused'
        /\ a \notin refused' \cup {NoAlias} => \E i \in 1..Len(s) : s[i] = a
        /\ \A j \in 1..n : j # k /\ rows[j].alias = a => a \in refused' \cup {NoAlias}
    <2>1. Recommitted(rs, k) = IF row.port # 0 THEN {a} ELSE {}
      BY <1>1 DEF Recommitted
    <2>2. Recommitted(rs, k) \subseteq Aliases /\ refused \subseteq Aliases
      BY <1>0, <2>1, MarkTypes
    <2>3. CASE a = NoAlias
      <3>1. RefusedWith(a, s, rs) = refused
        BY <2>3 DEF RefusedWith
      <3> QED BY <1>4, <2>1, <2>2, <2>3, <3>1
    <2>4. CASE a # NoAlias
      <3>1. RefusedWith(a, s, rs) \in {refused, refused \cup {a}}
        BY DEF RefusedWith
      <3>2. a \notin RefusedWith(a, s, rs) => \E i \in 1..Len(s) : s[i] = a
        BY <2>4 DEF RefusedWith, Contains
      <3>3. ASSUME NEW j \in 1..n, j # k, rows[j].alias = a
            PROVE  a \in RefusedWith(a, s, rs)
        <4>1. \E i, l \in 1..Len(rs) : i # l /\ rs[i].alias = a /\ rs[l].alias = a
          BY <1>1, <3>3
        <4> QED BY <2>4, <4>1 DEF RefusedWith
      <3> QED BY <1>0, <1>4, <2>1, <2>2, <2>4, <3>1, <3>2, <3>3
    <2> QED BY <2>3, <2>4
  <1>10. MarkingTypeOK' /\ Len(list') <= ListCapacity + 1 /\ Apart(list', rec')
    <2>1. boot' \in -1..ListCapacity + 1 /\ next' \in 0..MarkingMax + 1
      BY MarkTypes
    <2> QED BY <1>4, <1>6, <1>7, <1>8, <1>9, <2>1 DEF MarkingTypeOK, Names, Owners, Apart
  <1>11. WholeHaveRows'
    <2> SUFFICES ASSUME NEW i \in 1..Len(s), Complete(s[i], rec')
                 PROVE  \E j \in 1..n : rows'[j].alias = s[i]
      BY <1>4, <1>6 DEF WholeHaveRows, Complete
    <2>1. CASE s[i] = a
      BY <1>3, <1>6, <2>1
    <2>2. CASE s[i] # a
      <3>1. Listed(s[i]) /\ s[i] \in Owners /\ s[i] # NoAlias
        BY <1>7, <1>8, <2>2, MarkTypes DEF Names, Owners
      <3>2. Complete(s[i], rec)
        BY <1>8, <2>2, <3>1
      <3>3. PICK j \in 1..n : rows[j].alias = s[i]
        BY <3>1, <3>2 DEF MarkInv, WholeHaveRows, Listed
      <3>4. j # k
        BY <2>2, <3>1, <3>3
      <3> QED BY <1>6, <3>3, <3>4
    <2> QED BY <2>1, <2>2
  <1> HIDE DEF n
  <1>12. NumbersInv'
    <2>1. Filling \in {0, 1} /\ Filling' \in {0, 1} /\ next \in Nat
      BY MarkTypes DEF Filling
    <2>2. \A j \in 1..n : rows[j].num \in Nat
      BY MarkTypes, RowFields DEF n
    <2>3. /\ n <= next
          /\ \A j \in 1..n :
                /\ rows[j].ins < next
                /\ rows[j].num + (IF rows[j].new THEN 1 ELSE 0) + Filling <= next + 1
          /\ \A i, j \in 1..n : i # j => rows[i].ins # rows[j].ins
      BY DEF MarkInv, NumbersInv, n
    <2>4. \A j \in 1..n : rows'[j].ins = rows[j].ins
      BY <1>3, <1>6
    <2>5. \A j \in 1..n :
             rows'[j].num + (IF rows'[j].new THEN 1 ELSE 0) + Filling' <= next + 1
      <3> TAKE j \in 1..n
      <3>1. CASE j = k
        BY <1>0, <1>3, <1>6, <2>1, <3>1 DEF p
      <3>2. CASE j # k
        <4>1. rows'[j] = rows[j]
          BY <1>6, <3>2
        <4> QED BY <2>1, <2>2, <2>3, <4>1
      <3> QED BY <3>1, <3>2
    <2> QED BY <1>6, <2>3, <2>4, <2>5 DEF NumbersInv
  <1>13. PortsInv'
    <2> SUFFICES ASSUME NEW j \in 1..n
                 PROVE  /\ rows'[j].new => rows'[j].port = 0
                        /\ rows'[j].port = 0 => rows'[j].num = rows'[j].ins
                        /\ rows'[j].port # 0 /\ rows'[j].alias \notin refused' =>
                              rows'[j].port = rows'[j].ins + 1
      BY <1>6 DEF PortsInv
    <2>1. /\ rows[j].new => rows[j].port = 0
          /\ rows[j].port = 0 => rows[j].num = rows[j].ins
          /\ rows[j].port # 0 /\ rows[j].alias \notin refused => rows[j].port = rows[j].ins + 1
      BY DEF MarkInv, PortsInv, n
    <2>2. CASE j = k
      <3>1. a \notin refused' => row.num = row.ins
        BY <1>9, <2>1, <2>2
      <3> QED BY <1>2, <1>3, <1>6, <2>2, <3>1 DEF p
    <2>3. CASE j # k
      <3>1. rows'[j] = rows[j]
        BY <1>6, <2>3
      <3> QED BY <1>9, <2>1, <3>1
    <2> QED BY <2>2, <2>3
  <1>14. TwiceRefused'
    <2> SUFFICES ASSUME NEW i \in 1..n, NEW j \in 1..n, i # j, rows'[i].alias = rows'[j].alias
                 PROVE  rows'[i].alias \in refused' \cup {NoAlias}
      BY <1>6 DEF TwiceRefused
    <2>1. CASE i = k
      BY <1>3, <1>6, <1>9, <2>1
    <2>2. CASE j = k
      BY <1>3, <1>6, <1>9, <2>2
    <2>3. CASE i # k /\ j # k
      BY <1>6, <1>9, <2>3 DEF MarkInv, TwiceRefused, n
    <2> QED BY <2>1, <2>2, <2>3
  <1>15. MarkingsStored'
    <2> SUFFICES ASSUME NEW j \in 1..n PROVE StoredAs(rows'[j], s, rec', refused')
      BY <1>4, <1>6 DEF MarkingsStored, Listed, StoredAs
    <2>1. CASE j = k
      BY <1>2, <1>3, <1>6, <1>8, <1>9, <2>1 DEF StoredAs
    <2>2. CASE j # k
      <3>1. StoredAs(rows[j], list, rec, refused) /\ rows'[j] = rows[j]
        BY <1>6, <2>2, RecordsTyped DEF n
      <3>2. rows[j].alias \in Owners
        BY MarkTypes DEF Owners, n
      <3>3. CASE rows[j].alias # a
        <4>1. rec'[rows[j].alias] = rec[rows[j].alias]
          BY <1>8, <3>2, <3>3
        <4> QED BY <1>7, <1>9, <3>1, <4>1, ZenonT(30) DEF StoredAs, Listed
      <3>4. CASE rows[j].alias = a
        BY <1>9, <2>2, <3>1, <3>4 DEF StoredAs
      <3> QED BY <3>3, <3>4
    <2> QED BY <2>1, <2>2
  <1>16. RestartRepairs'
    BY DEF RestartRepairs
  <1> QED BY <1>10, <1>11, <1>12, <1>13, <1>14, <1>15, <1>16 DEF MarkInv

LEMMA AddMarkingKeeps ==
    ASSUME MarkInv, NEW k \in 1..Len(rows), NEW row \in Row,
           DmlAddMarking([rows EXCEPT ![k] = row], k),
           row.ins = rows[k].ins, row.num = rows[k].num, row.port = rows[k].port,
           rows[k].alias \in {row.alias, NoAlias},
           row.port # 0 => row.alias # NoAlias,
           Filling' <= Filling, row.num + 1 + Filling' <= next + 1,
           next' = next, boot' = -1
    PROVE  MarkInv'
  <1> DEFINE rs == [rows EXCEPT ![k] = row]
  <1>1. rs \in Seq(Row) /\ rs[k] = row
    BY MarkTypes
  <1>2. CASE Listed(row.alias)
    <2>1. PICK old \in Row : old = [row EXCEPT !.new = FALSE]
      BY RowFields
    <2>2. /\ old.ins = row.ins /\ old.num = row.num /\ old.port = row.port
          /\ old.new = FALSE /\ old.alias = row.alias
      BY <2>1, RowFields
    <2>3. /\ rows' = [rs EXCEPT ![k].new = FALSE] /\ refused' = refused \cup {row.alias}
          /\ list' = list /\ rec' = rec
      BY <1>1, <1>2 DEF DmlAddMarking
    <2>4. rows' = [rows EXCEPT ![k] = old]
      <3>1. [rs EXCEPT ![k].new = FALSE] = [rs EXCEPT ![k] = old]
        BY <1>1, <2>1
      <3> QED BY <2>3, <3>1, MarkTypes
    <2>5. row.alias \in Aliases
      BY <1>2, RowFields, MarkTypes DEF Names
    <2>6. /\ refused \subseteq refused' /\ refused' \subseteq Aliases /\ old.alias \in refused'
      BY <2>2, <2>3, <2>5, MarkTypes
    <2>7. StoredAs(old, list, rec', refused')
      BY <2>6 DEF StoredAs
    <2> QED BY <2>2, <2>3, <2>4, <2>6, <2>7, RecordsTyped, RowReplacedKeeps
  <1>3. CASE ~ Listed(row.alias)
    <2>1. PICK s \in ListsWith(row.alias) : DmlAdd(rs, k, s)
      BY <1>1, <1>3 DEF DmlAddMarking
    <2> QED BY <1>3, <2>1, DmlAddKeeps
  <1> QED BY <1>2, <1>3

LEMMA CommitNewKeeps ==
    ASSUME MarkInv, NEW k \in 1..Len(rows), Marking_CommitNew(k), Filling' <= Filling
    PROVE  MarkInv'
  <1>1. rows[k] \in Row /\ rows = [rows EXCEPT ![k] = rows[k]]
    BY MarkTypes
  <1>2. /\ rows[k].new /\ DmlAddMarking(rows, k) /\ next' = next /\ boot' = -1
    BY DEF Marking_CommitNew, Running
  <1>3. DmlAddMarking([rows EXCEPT ![k] = rows[k]], k)
    BY <1>1, <1>2
  <1>4. rows[k].port = 0
    BY <1>2 DEF MarkInv, PortsInv
  <1>5. rows[k].num + 1 + Filling' <= next + 1
    <2>1. Filling \in {0, 1} /\ Filling' \in {0, 1} /\ next \in Nat /\ rows[k].num \in Nat
      BY <1>1, MarkTypes, RowFields DEF Filling
    <2>2. rows[k].num + (IF rows[k].new THEN 1 ELSE 0) + Filling <= next + 1
      BY DEF MarkInv, NumbersInv
    <2> QED BY <1>2, <2>1, <2>2
  <1> QED BY <1>1, <1>2, <1>3, <1>4, <1>5, AddMarkingKeeps

-----------------------------------------------------------------------------
(* A row is deleted, or only not new any more.                             *)

\* t is rs without its k-th row.
RemovedFrom(t, rs, k) ==
    /\ t \in Seq(Row) /\ Len(t) = Len(rs) - 1
    /\ \A j \in 1..Len(t) : LET i == IF j < k THEN j ELSE j + 1 IN
          i \in 1..Len(rs) /\ i # k /\ t[j] = rs[i]
    /\ \A i \in 1..Len(rs) : i # k => \E j \in 1..Len(t) : t[j] = rs[i]

LEMMA RowRemoved ==
    ASSUME NEW rs \in Seq(Row), NEW k \in 1..Len(rs), NEW t, t = RemoveAt(rs, k)
    PROVE  RemovedFrom(t, rs, k)
  <1> DEFINE n == Len(rs)
             u == SubSeq(rs, 1, k - 1)
             v == SubSeq(rs, k + 1, n)
  <1>1. n \in Nat /\ k \in 1..n /\ k \in Nat /\ k >= 1 /\ k <= n
    OBVIOUS
  <1>2. u \in Seq(Row) /\ Len(u) = k - 1 /\ \A j \in 1..k - 1 : u[j] = rs[j]
    BY <1>1
  <1>3. v \in Seq(Row) /\ Len(v) = n - k /\ \A j \in 1..n - k : v[j] = rs[k + j]
    BY <1>1
  <1>4. t = u \o v
    BY DEF RemoveAt
  <1> HIDE DEF u, v
  <1>5. t \in Seq(Row) /\ Len(t) = n - 1
    <2>1. t \in Seq(Row)
      BY <1>2, <1>3, <1>4
    <2>2. Len(t) = (k - 1) + (n - k)
      <3>1. u \in Seq(Row) /\ v \in Seq(Row)
        BY <1>2, <1>3
      <3>2. Len(u \o v) = Len(u) + Len(v)
        BY <3>1
      <3> QED BY <1>2, <1>3, <1>4, <3>2
    <2>3. (k - 1) + (n - k) = n - 1
      BY <1>1
    <2> QED BY <2>1, <2>2, <2>3
  <1>6. \A j \in 1..k - 1 : t[j] = rs[j]
    BY <1>1, <1>2, <1>3, <1>4
  <1>7. \A j \in k..n - 1 : t[j] = rs[j + 1]
    <2> TAKE j \in k..n - 1
    <2>1. j - (k - 1) \in 1..n - k /\ k + (j - (k - 1)) = j + 1 /\ j \in 1..n - 1 /\ ~ (j <= k - 1)
      BY <1>1
    <2>2. t[j] = v[j - (k - 1)]
      BY <1>1, <1>2, <1>3, <1>4, <2>1
    <2> QED BY <1>3, <2>1, <2>2
  <1> HIDE DEF n
  <1>8. \A j \in 1..n - 1 : LET i == IF j < k THEN j ELSE j + 1 IN
                 i \in 1..n /\ i # k /\ t[j] = rs[i]
    <2> TAKE j \in 1..n - 1
    <2>1. CASE j < k
      BY <1>1, <1>6, <2>1
    <2>2. CASE ~ (j < k)
      BY <1>1, <1>7, <2>2
    <2> QED BY <2>1, <2>2
  <1>9. \A i \in 1..n : i # k => \E j \in 1..n - 1 : t[j] = rs[i]
    <2> SUFFICES ASSUME NEW i \in 1..n, i # k PROVE \E j \in 1..n - 1 : t[j] = rs[i]
      OBVIOUS
    <2>1. CASE i < k
      <3>1. i \in 1..k - 1 /\ i \in 1..n - 1
        BY <1>1, <2>1
      <3> QED BY <1>6, <3>1
    <2>2. CASE i > k
      <3>1. i - 1 \in k..n - 1 /\ i - 1 \in 1..n - 1 /\ (i - 1) + 1 = i
        BY <1>1, <2>2
      <3> QED BY <1>7, <3>1
    <2> QED BY <1>1, <2>1, <2>2
  <1> QED BY <1>5, <1>8, <1>9 DEF n, RemovedFrom

LEMMA DelEntryKeeps ==
    ASSUME MarkInv, NEW k \in 1..Len(rows), Marking_DelEntry(k), Filling' <= Filling
    PROVE  MarkInv'
  <1> DEFINE a == rows[k].alias
             n == Len(rows)
  <1>0. next' = next /\ boot' = -1 /\ a \in Aliases \cup {NoAlias}
    BY MarkTypes DEF Marking_DelEntry, Running
  <1>1. CASE ~ Listed(a)
    <2>1. PICK row \in Row : row = [rows[k] EXCEPT !.new = FALSE]
      BY MarkTypes, RowFields
    <2>2. /\ row.ins = rows[k].ins /\ row.num = rows[k].num /\ row.port = rows[k].port
          /\ row.new = FALSE /\ row.alias = a
      BY <2>1, MarkTypes, RowFields
    <2>3. /\ refused' = refused \cup ({a} \ {NoAlias}) /\ list' = list /\ rec' = rec
          /\ rows' = [rows EXCEPT ![k].new = FALSE]
      BY <1>1 DEF Marking_DelEntry
    <2>4. rows' = [rows EXCEPT ![k] = row]
      BY <2>1, <2>3, MarkTypes
    <2>5. /\ refused \subseteq refused' /\ refused' \subseteq Aliases
          /\ row.alias \in refused' \cup {NoAlias}
      BY <1>0, <2>2, <2>3, MarkTypes
    <2>6. StoredAs(row, list, rec', refused')
      BY <2>5 DEF StoredAs
    <2>7. row.alias \notin refused' => row.alias \notin refused
      BY <2>5
    <2> QED BY <1>0, <2>2, <2>3, <2>4, <2>5, <2>6, <2>7, RecordsTyped, RowReplacedKeeps
  <1>2. CASE Listed(a)
    <2>0. /\ rows' = RemoveAt(rows, k) /\ list' = Without(a, list)
          /\ rec' = Deleted(a, 4) /\ refused' = refused
      BY <1>2 DEF Marking_DelEntry
    <2>1. a \in Aliases /\ a \in Owners /\ n \in Nat /\ n >= 1
      <3>1. a \in Aliases
        BY <1>0, <1>2, MarkTypes DEF Names
      <3>2. n \in Nat /\ 1 <= k /\ k <= n
        BY MarkTypes
      <3> QED BY <3>1, <3>2 DEF Owners
    <2>2. /\ rows' \in Seq(Row) /\ Len(rows') = n - 1
          /\ \A j \in 1..Len(rows') : LET i == IF j < k THEN j ELSE j + 1 IN
                i \in 1..n /\ i # k /\ rows'[j] = rows[i]
          /\ \A i \in 1..n : i # k => \E j \in 1..Len(rows') : rows'[j] = rows[i]
      <3>1. PICK t : t = RemoveAt(rows, k)
        OBVIOUS
      <3>2. rows \in Seq(Row)
        BY MarkTypes
      <3>3. RemovedFrom(t, rows, k)
        BY <3>1, <3>2, RowRemoved
      <3> QED BY <2>0, <3>1, <3>3 DEF RemovedFrom
    <2>3. /\ list' \in Seq(Names) /\ Len(list') \in 0..Len(list)
          /\ \A i \in 1..Len(list') : list'[i] # a /\ \E j \in 1..Len(list) : list'[i] = list[j]
          /\ \A j \in 1..Len(list) : list[j] # a => \E i \in 1..Len(list') : list'[i] = list[j]
          /\ \A i, j \in 1..Len(list') : i # j /\ list'[i] = list'[j] => list'[i] = Cut
      <3>1. PICK t : t = Without(a, list)
        OBVIOUS
      <3>2. list \in Seq(Names) /\ \A i, j \in 1..Len(list) : i # j /\ list[i] = list[j] => list[i] = Cut
        BY MarkTypes DEF MarkInv, Apart
      <3>3. /\ t \in Seq(Names) /\ Len(t) \in 0..Len(list)
            /\ \A i \in 1..Len(t) : t[i] # a /\ \E j \in 1..Len(list) : t[i] = list[j]
            /\ \A j \in 1..Len(list) : list[j] # a => \E i \in 1..Len(t) : t[i] = list[j]
            /\ \A i, j \in 1..Len(t) : i # j /\ t[i] = t[j] => t[i] = Cut
        BY <3>1, <3>2, WithoutParts
      <3> QED BY <2>0, <3>1, <3>3
    <2>4. /\ rec' \in [Owners -> Record] /\ \A b \in Owners \ {a} : rec'[b] = rec[b]
          /\ \A b \in Owners : Complete(b, rec') => Complete(b, rec)
          /\ ~ Complete(Cut, rec')
      <3>1. PICK f \in SUBSET AllFields : f = {Fields[i] : i \in 1..4}
        BY FieldNames
      <3>2. PICK r : r = Lessened(a, f)
        OBVIOUS
      <3>3. r = Deleted(a, 4)
        BY <3>1, <3>2 DEF Lessened, Deleted
      <3>4. /\ r \in [Owners -> Record] /\ \A b \in Owners \ {a} : r[b] = rec[b]
            /\ \A b \in Owners : /\ Complete(b, r) => Complete(b, rec)
                                 /\ r[b].port = rec[b].port /\ r[b].has \subseteq rec[b].has
            /\ ~ Complete(Cut, r)
        BY <2>1, <3>2, DeletedParts
      <3> QED BY <2>0, <3>3, <3>4
    <2>5. MarkingTypeOK' /\ Len(list') <= ListCapacity + 1 /\ Apart(list', rec')
      <3>1. boot' \in -1..ListCapacity + 1
        BY <1>0, MarkTypes
      <3>2. Len(list') <= ListCapacity + 1
        BY <2>3, MarkTypes DEF MarkInv
      <3> QED BY <1>0, <2>0, <2>2, <2>3, <2>4, <3>1, <3>2
               DEF MarkInv, MarkingTypeOK, Names, Owners, Apart
    <2>6. WholeHaveRows'
      <3> SUFFICES ASSUME NEW i \in 1..Len(list'), Complete(list'[i], rec')
                   PROVE  \E j \in 1..Len(rows') : rows'[j].alias = list'[i]
        BY DEF WholeHaveRows, Complete
      <3>1. PICK l \in 1..Len(list) : list'[i] = list[l] /\ list[l] # a
        BY <2>3
      <3>2. list[l] \in Owners
        BY MarkTypes DEF Names, Owners
      <3>3. Complete(list[l], rec)
        BY <2>4, <3>1, <3>2
      <3>4. PICK m \in 1..n : rows[m].alias = list[l]
        BY <3>3 DEF MarkInv, WholeHaveRows
      <3>5. m # k
        BY <3>1, <3>4
      <3>6. PICK j \in 1..Len(rows') : rows'[j] = rows[m]
        BY <2>2, <3>5
      <3> QED BY <3>1, <3>4, <3>6
    <2> HIDE DEF n
    <2>7. NumbersInv'
      <3>1. Filling \in {0, 1} /\ Filling' \in {0, 1} /\ next \in Nat
        BY MarkTypes DEF Filling
      <3>2. \A j \in 1..n : rows[j].num \in Nat
        BY MarkTypes, RowFields DEF n
      <3>3. /\ n <= next
            /\ \A j \in 1..n :
                  /\ rows[j].ins < next
                  /\ rows[j].num + (IF rows[j].new THEN 1 ELSE 0) + Filling <= next + 1
            /\ \A i, j \in 1..n : i # j => rows[i].ins # rows[j].ins
        BY DEF MarkInv, NumbersInv, n
      <3>4. \A j \in 1..n :
               rows[j].num + (IF rows[j].new THEN 1 ELSE 0) + Filling' <= next + 1
        BY <3>1, <3>2, <3>3
      <3>5. \A j \in 1..Len(rows') :
               /\ rows'[j].ins < next
               /\ rows'[j].num + (IF rows'[j].new THEN 1 ELSE 0) + Filling' <= next + 1
        <4> TAKE j \in 1..Len(rows')
        <4>1. PICK i \in 1..n : rows'[j] = rows[i]
          BY <2>2
        <4> QED BY <3>3, <3>4, <4>1
      <3>6. \A i, j \in 1..Len(rows') : i # j => rows'[i].ins # rows'[j].ins
        <4> SUFFICES ASSUME NEW i \in 1..Len(rows'), NEW j \in 1..Len(rows'), i # j
                     PROVE  rows'[i].ins # rows'[j].ins
          OBVIOUS
        <4>1. PICK x : x = IF i < k THEN i ELSE i + 1
          OBVIOUS
        <4>2. PICK y : y = IF j < k THEN j ELSE j + 1
          OBVIOUS
        <4>3. x \in 1..n /\ y \in 1..n /\ rows'[i] = rows[x] /\ rows'[j] = rows[y]
          BY <2>2, <4>1, <4>2
        <4>4. x # y
          <5>1. i \in Int /\ j \in Int /\ k \in Int
            OBVIOUS
          <5> QED BY <4>1, <4>2, <5>1
        <4> QED BY <3>3, <4>3, <4>4
      <3>7. n - 1 <= next
        BY <2>1, <3>1, <3>3
      <3> QED BY <1>0, <2>2, <3>5, <3>6, <3>7 DEF NumbersInv
    <2>8. PortsInv'
      <3> SUFFICES ASSUME NEW j \in 1..Len(rows')
                   PROVE  /\ rows'[j].new => rows'[j].port = 0
                          /\ rows'[j].port = 0 => rows'[j].num = rows'[j].ins
                          /\ rows'[j].port # 0 /\ rows'[j].alias \notin refused =>
                                rows'[j].port = rows'[j].ins + 1
        BY <2>0 DEF PortsInv
      <3>1. PICK i \in 1..n : rows'[j] = rows[i]
        BY <2>2
      <3> QED BY <3>1 DEF MarkInv, PortsInv, n
    <2>9. TwiceRefused'
      <3> SUFFICES ASSUME NEW i \in 1..Len(rows'), NEW j \in 1..Len(rows'), i # j,
                          rows'[i].alias = rows'[j].alias
                   PROVE  rows'[i].alias \in refused \cup {NoAlias}
        BY <2>0 DEF TwiceRefused
      <3>1. PICK x : x = IF i < k THEN i ELSE i + 1
        OBVIOUS
      <3>2. PICK y : y = IF j < k THEN j ELSE j + 1
        OBVIOUS
      <3>3. x \in 1..n /\ y \in 1..n /\ rows'[i] = rows[x] /\ rows'[j] = rows[y]
        BY <2>2, <3>1, <3>2
      <3>4. x # y
        <4>1. i \in Int /\ j \in Int /\ k \in Int
          OBVIOUS
        <4> QED BY <3>1, <3>2, <4>1
      <3> QED BY <3>3, <3>4 DEF MarkInv, TwiceRefused, n
    <2>10. MarkingsStored'
      <3> SUFFICES ASSUME NEW j \in 1..Len(rows')
                   PROVE  StoredAs(rows'[j], list', rec', refused)
        BY <2>0 DEF MarkingsStored, Listed, StoredAs
      <3>1. PICK i : i = IF j < k THEN j ELSE j + 1
        OBVIOUS
      <3>2. i \in 1..n /\ i # k /\ rows'[j] = rows[i]
        BY <2>2, <3>1
      <3>3. StoredAs(rows[i], list, rec, refused) /\ rows[i].alias \in Owners
        BY <3>2, RecordsTyped, MarkTypes DEF n, Owners
      <3>4. CASE rows[i].alias = a
        <4>1. rows[i].alias \in refused \cup {NoAlias}
          BY <3>2, <3>4 DEF MarkInv, TwiceRefused, n
        <4> QED BY <3>2, <4>1 DEF StoredAs
      <3>5. CASE rows[i].alias # a
        <4>1. rec'[rows[i].alias] = rec[rows[i].alias]
          BY <2>4, <3>3, <3>5
        <4>2. \A l \in 1..Len(list) : list[l] = rows[i].alias =>
                 \E m \in 1..Len(list') : list'[m] = rows[i].alias
          BY <2>3, <3>5
        <4> QED BY <3>2, <3>3, <4>1, <4>2 DEF StoredAs
      <3> QED BY <3>4, <3>5
    <2>11. RestartRepairs'
      BY <1>0 DEF RestartRepairs
    <2> QED BY <2>5, <2>6, <2>7, <2>8, <2>9, <2>10, <2>11 DEF MarkInv
  <1> QED BY <1>1, <1>2

-----------------------------------------------------------------------------
(* The starts, after a crash or not.                                       *)

LEMMA MarkingRestartKeeps ==
    ASSUME MarkInv, MarkingRestart
    PROVE  MarkInv'
  <1>1. \A i \in WholeAt(list, rec) : \E k \in 1..Len(rows) : rows[k].alias = list[i]
    BY DEF MarkInv, WholeHaveRows, WholeAt
  <1>2. Apart(list, rec) /\ Len(list) <= ListCapacity + 1
    BY DEF MarkInv
  <1>3. Restart(list, rec)
    BY DEF MarkingRestart
  <1> QED BY <1>1, <1>2, <1>3, MarkTypes, MarkingStartKeeps

LEMMA CrashInAddKeeps ==
    ASSUME MarkInv, NEW k \in 1..Len(rows), NEW n \in 0..3, CrashInAdd(k, n)
    PROVE  MarkInv'
  <1> DEFINE a == rows[k].alias
             p == rows[k].num + 1
  <1>1. rows[k].new /\ ~ Listed(a) /\ a # NoAlias /\ a \in Aliases
    BY MarkTypes DEF CrashInAdd
  <1>2. p \in Ports
    <2>1. Filling \in {0, 1} /\ next \in 0..MarkingMax + 1 /\ MarkingMax \in Nat
          /\ rows[k].num \in Nat
      BY MarkTypes, RowFields DEF Filling
    <2>2. rows[k].num + (IF rows[k].new THEN 1 ELSE 0) + Filling <= next + 1
      BY DEF MarkInv, NumbersInv
    <2> QED BY <1>1, <2>1, <2>2 DEF Ports
  <1>3. rows[k].eth \in Priorities \cup {NoPriority}
    BY MarkTypes, RowFields
  <1>4. PICK s \in ListsWith(a) : Restart(s, Stored(a, n, p, rows[k].eth))
    BY DEF CrashInAdd
  <1>5. PICK r : r = Stored(a, n, p, rows[k].eth)
    OBVIOUS
  <1> HIDE DEF p
  <1>6. /\ r \in [Owners -> Record] /\ ~ Complete(Cut, r)
        /\ \A b \in Owners : Complete(b, r) => Complete(b, rec) \/ b = a
    <2>1. PICK m \in 0..4 : m = n
      OBVIOUS
    <2>2. PICK e \in Priorities \cup {NoPriority} : e = rows[k].eth
      BY <1>3
    <2>3. PICK b \in Aliases \cup {NoAlias} : b = a
      BY <1>1
    <2>4. r = Stored(b, m, p, e)
      BY <1>5, <2>1, <2>2, <2>3
    <2>5. /\ r \in [Owners -> Record] /\ \A c \in Owners \ {b} : r[c] = rec[c]
          /\ ~ Complete(Cut, r)
          /\ \A c \in Owners : Complete(c, r) => Complete(c, rec) \/ c = b
          /\ m = 4 => Complete(b, r) /\ r[b].port = p
      BY <1>2, <2>4, StoredParts
    <2> QED BY <2>3, <2>5
  <1>7. /\ s \in Seq(Names) /\ Len(s) <= ListCapacity + 1
        /\ \A i \in 1..Len(s) : s[i] \in {a, Cut} \/ Listed(s[i])
        /\ \A i, j \in 1..Len(s) : i # j /\ s[i] = s[j] => s[i] = Cut
    BY <1>1, ListsWithParts
  <1>8. Apart(s, r)
    BY <1>6, <1>7 DEF Apart
  <1>9. \A i \in WholeAt(s, r) : \E j \in 1..Len(rows) : rows[j].alias = s[i]
    <2> SUFFICES ASSUME NEW i \in 1..Len(s), Complete(s[i], r)
                 PROVE  \E j \in 1..Len(rows) : rows[j].alias = s[i]
      BY DEF WholeAt
    <2>1. CASE s[i] = a
      BY <2>1
    <2>2. CASE s[i] # a
      <3>1. Listed(s[i]) /\ s[i] \in Owners
        BY <1>6, <1>7, <2>2, MarkTypes DEF Names, Owners
      <3>2. Complete(s[i], rec)
        BY <1>6, <2>2, <3>1
      <3> QED BY <3>1, <3>2 DEF MarkInv, WholeHaveRows, Listed
    <2> QED BY <2>1, <2>2
  <1>10. Restart(s, r)
    BY <1>4, <1>5
  <1> QED BY <1>6, <1>7, <1>8, <1>9, <1>10, MarkingStartKeeps

LEMMA CrashInDeleteKeeps ==
    ASSUME MarkInv, NEW k \in 1..Len(rows), NEW n \in 1..4, CrashInDelete(k, n)
    PROVE  MarkInv'
  <1> DEFINE a == rows[k].alias
  <1>1. Listed(a) /\ a \in Owners /\ Restart(list, Deleted(a, n))
    BY MarkTypes DEF CrashInDelete, Owners
  <1>2. PICK f \in SUBSET AllFields : f = {Fields[i] : i \in 1..n}
    <2>1. n \in 0..4
      OBVIOUS
    <2> QED BY <2>1, FieldNames
  <1>3. PICK r : r = Lessened(a, f)
    OBVIOUS
  <1>4. r = Deleted(a, n)
    BY <1>2, <1>3 DEF Lessened, Deleted
  <1>5. /\ r \in [Owners -> Record] /\ \A b \in Owners \ {a} : r[b] = rec[b]
        /\ \A b \in Owners : /\ Complete(b, r) => Complete(b, rec)
                             /\ r[b].port = rec[b].port /\ r[b].has \subseteq rec[b].has
        /\ ~ Complete(Cut, r)
    BY <1>1, <1>3, DeletedParts
  <1>6. Apart(list, r) /\ Len(list) <= ListCapacity + 1
    BY <1>5 DEF MarkInv, Apart
  <1>7. \A i \in WholeAt(list, r) : \E j \in 1..Len(rows) : rows[j].alias = list[i]
    <2> SUFFICES ASSUME NEW i \in 1..Len(list), Complete(list[i], r)
                 PROVE  \E j \in 1..Len(rows) : rows[j].alias = list[i]
      BY DEF WholeAt
    <2>1. list[i] \in Owners
      BY MarkTypes DEF Names, Owners
    <2> QED BY <1>5, <2>1 DEF MarkInv, WholeHaveRows
  <1> QED BY <1>1, <1>4, <1>5, <1>6, <1>7, MarkTypes, MarkingStartKeeps

-----------------------------------------------------------------------------
(* WebConfig.  What waits in the queue has been decoded.                   *)

Setting == [alias : Aliases \cup {Control}, eth : Priorities \cup {NoPriority}]
Table == [found : BOOLEAN, markings : Seq(Setting)]
Decoded == [remote : SUBSET BOOLEAN, tables : Seq(Table)]

\* The thread works on the first blob; the row it added is for a marking of the
\* blob's first table.
WebInv == /\ WebTypeOK /\ queue \in Seq(Decoded)
          /\ web.step # "idle" => queue # <<>>
          /\ web.step = "fill" =>
                web.row >= 1 /\ Tables # <<>> /\ Head(Tables).markings # <<>>

LEMMA ShortSeqs ==
    ASSUME NEW S, NEW x \in S, NEW y \in S
    PROVE  <<x>> \in Seq(S) /\ <<x, y>> \in Seq(S)
  OBVIOUS

LEMMA Decoding ==
    ASSUME NEW ts \in Seq([found : BOOLEAN, markings : Seq(Entry)])
    PROVE  Process_Wanmanager_Params(ts) \in Seq(Table)
  <1>1. ASSUME NEW e \in Entry PROVE Process_MarkingEntry(e) \in Setting
    <2>1. e.alias \in Aliases \cup {Control} /\ e.eth \in Priorities \cup {NoPriority}
      BY DEF Entry
    <2>2. 0 \in Priorities
      BY WebAssumption
    <2> QED BY <2>1, <2>2 DEF Process_MarkingEntry, Setting
  <1>2. ASSUME NEW t \in [found : BOOLEAN, markings : Seq(Entry)]
        PROVE  Process_ifParams(t) \in Table
    <2>1. t.found \in BOOLEAN /\ t.markings \in Seq(Entry) /\ Len(t.markings) \in Nat
      OBVIOUS
    <2>2. \A n \in 1..Len(t.markings) : Process_MarkingEntry(t.markings[n]) \in Setting
      BY <1>1, <2>1
    <2>3. [n \in 1..Len(t.markings) |-> Process_MarkingEntry(t.markings[n])] \in Seq(Setting)
      BY <2>1, <2>2
    <2> QED BY <2>1, <2>3 DEF Process_ifParams, Table
  <1>3. Len(ts) \in Nat /\ \A n \in 1..Len(ts) : Process_ifParams(ts[n]) \in Table
    <2> DEFINE T == [found : BOOLEAN, markings : Seq(Entry)]
    <2>1. \A t \in T : Process_ifParams(t) \in Table
      BY <1>2
    <2>2. ts \in Seq(T)
      OBVIOUS
    <2> HIDE DEF T
    <2> QED BY <2>1, <2>2
  <1> QED BY <1>3 DEF Process_Wanmanager_Params

LEMMA BlobsTyped == \A b \in Blobs : Process_Wanmanager_Params(b) \in Seq(Table)
  <1> SUFFICES ASSUME NEW b \in Blobs
               PROVE  b \in Seq([found : BOOLEAN, markings : Seq(Entry)])
    BY Decoding
  <1> DEFINE entry(a, g) == [alias |-> a, eth |-> NoPriority, given |-> g]
             table(ms) == [found |-> TRUE, markings |-> ms]
             other == [found |-> FALSE, markings |-> <<>>]
             T == [found : BOOLEAN, markings : Seq(Entry)]
  <1>1. \A a \in Aliases \cup {Control}, g \in BOOLEAN : entry(a, g) \in Entry
    BY DEF Entry
  <1>2. \A ms \in Seq(Entry) : table(ms) \in T
    OBVIOUS
  <1>3. other \in T
    OBVIOUS
  <1>4. \/ \E a \in Aliases : b = <<table(<<entry(a, TRUE)>>)>>
        \/ b = <<table(<<entry(Control, FALSE), entry(DataAlias, TRUE)>>), other>>
    BY DEF Blobs
  <1> HIDE DEF entry, table, other
  <1>5. ASSUME NEW a \in Aliases, b = <<table(<<entry(a, TRUE)>>)>> PROVE b \in Seq(T)
    <2>1. entry(a, TRUE) \in Entry
      BY <1>1
    <2>2. <<entry(a, TRUE)>> \in Seq(Entry)
      BY <2>1, ShortSeqs
    <2>3. table(<<entry(a, TRUE)>>) \in T
      BY <1>2, <2>2
    <2> HIDE DEF T
    <2> QED BY <1>5, <2>3
  <1>6. ASSUME b = <<table(<<entry(Control, FALSE), entry(DataAlias, TRUE)>>), other>>
        PROVE  b \in Seq(T)
    <2>1. entry(Control, FALSE) \in Entry /\ entry(DataAlias, TRUE) \in Entry
      BY <1>1, WebAssumption
    <2>2. <<entry(Control, FALSE), entry(DataAlias, TRUE)>> \in Seq(Entry)
      BY <2>1, ShortSeqs
    <2>3. table(<<entry(Control, FALSE), entry(DataAlias, TRUE)>>) \in T
      BY <1>2, <2>2
    <2> HIDE DEF T
    <2> QED BY <1>3, <1>6, <2>3
  <1> QED BY <1>4, <1>5, <1>6

\* Only the first blob of the queue changes, and its failover part stays.
LEMMA RestTyped ==
    ASSUME queue \in Seq(Decoded), queue # <<>>, NEW ts \in Seq(Table)
    PROVE  /\ Rest(ts) \in Seq(Decoded) /\ Len(Rest(ts)) = Len(queue)
           /\ Rest(ts) # <<>>
  <1>1. Len(queue) \in Nat /\ 1 \in 1..Len(queue) /\ queue[1] \in Decoded
    OBVIOUS
  <1>2. PICK q : q = [queue[1] EXCEPT !.tables = ts]
    OBVIOUS
  <1>3. q \in Decoded
    BY <1>1, <1>2 DEF Decoded
  <1>4. Rest(ts) = [queue EXCEPT ![1] = q]
    BY <1>2 DEF Rest
  <1>5. /\ [queue EXCEPT ![1] = q] \in Seq(Decoded)
        /\ Len([queue EXCEPT ![1] = q]) = Len(queue)
    BY <1>1, <1>3
  <1> QED BY <1>1, <1>4, <1>5

LEMMA TablesTyped ==
    ASSUME WebInv, web.step # "idle"
    PROVE  /\ queue \in Seq(Decoded) /\ queue # <<>> /\ Tables \in Seq(Table)
           /\ Tables # <<>> => /\ Head(Tables) \in Table /\ Tail(Tables) \in Seq(Table)
                               /\ Head(Tables).markings \in Seq(Setting)
  <1>1. queue \in Seq(Decoded) /\ queue # <<>>
    BY DEF WebInv
  <1>2. Head(queue) \in Decoded
    BY <1>1
  <1>3. Tables \in Seq(Table)
    BY <1>2 DEF Tables, Decoded
  <1>4. Tables # <<>> => Head(Tables) \in Table /\ Tail(Tables) \in Seq(Table)
    BY <1>3
  <1>5. Tables # <<>> => Head(Tables).markings \in Seq(Setting)
    BY <1>4 DEF Table
  <1> QED BY <1>1, <1>3, <1>4, <1>5

LEMMA NextMarkingTyped ==
    ASSUME WebInv, web.step # "idle", Tables # <<>>, Head(Tables).markings # <<>>
    PROVE  /\ NextMarking \in Seq(Decoded) /\ Len(NextMarking) = Len(queue)
           /\ NextMarking # <<>>
           /\ ToApply \in Setting /\ AliasOf(ToApply) \in Aliases
  <1>1. /\ queue \in Seq(Decoded) /\ queue # <<>>
        /\ Head(Tables) \in Table /\ Tail(Tables) \in Seq(Table)
        /\ Head(Tables).markings \in Seq(Setting)
    BY TablesTyped
  <1>2. ToApply \in Setting /\ Tail(Head(Tables).markings) \in Seq(Setting)
    BY <1>1 DEF ToApply
  <1>3. AliasOf(ToApply) \in Aliases
    BY <1>2, WebAssumption DEF AliasOf, Setting
  <1>4. PICK t : t = [Head(Tables) EXCEPT !.markings = Tail(@)]
    OBVIOUS
  <1>5. t \in Table
    BY <1>1, <1>2, <1>4 DEF Table
  <1>6. PICK ts : ts = <<t>> \o Tail(Tables)
    OBVIOUS
  <1>7. <<t>> \in Seq(Table)
    BY <1>5
  <1>8. ts \in Seq(Table)
    BY <1>1, <1>6, <1>7
  <1>9. NextMarking = Rest(ts)
    BY <1>4, <1>6 DEF NextMarking
  <1> QED BY <1>1, <1>2, <1>3, <1>8, <1>9, RestTyped

WebState == [step : {"idle", "tables", "fill"}, row : 0..MarkingMax + 2, ins : 0..MarkingMax]

LEMMA NotFilling ==
    ASSUME NEW step \in {"idle", "tables"}, NEW w, w = [WebIdle EXCEPT !.step = step]
    PROVE  w \in WebState /\ w.step = step
  <1>1. 0 \in 0..MarkingMax /\ 0 \in 0..MarkingMax + 2
    BY MarkingAssumption
  <1>2. w = [step |-> step, row |-> 0, ins |-> 0]
    BY DEF WebIdle
  <1> DEFINE S == {"idle", "tables", "fill"}
             R == 0..MarkingMax + 2
             I == 0..MarkingMax
  <1>3. step \in S
    OBVIOUS
  <1>4. 0 \in R /\ 0 \in I
    BY <1>1
  <1> HIDE DEF S, R, I
  <1>5. [step |-> step, row |-> 0, ins |-> 0] \in [step : S, row : R, ins : I]
    BY <1>3, <1>4
  <1>6. w \in [step : S, row : R, ins : I] /\ w.step = step
    BY <1>2, <1>5
  <1> QED BY <1>6 DEF WebState, S, R, I

LEMMA PushKeeps ==
    ASSUME WebInv, NEW b \in Decoded, PushBlobRequest(b)
    PROVE  WebInv' /\ Filling' = Filling
  <1>1. /\ queue \in Seq(Decoded) /\ Len(queue) < MaxBlobs /\ queue' = Append(queue, b)
        /\ web' = web /\ refresh' = refresh
    BY DEF PushBlobRequest, WebInv
  <1>2. queue' \in Seq(Decoded) /\ queue' # <<>> /\ Len(queue') <= MaxBlobs
    <2>1. queue' \in Seq(Decoded) /\ Len(queue') = Len(queue) + 1
      BY <1>1
    <2>2. Len(queue) \in Nat /\ MaxBlobs \in Nat
      BY <1>1, WebAssumption
    <2> QED BY <1>1, <2>1, <2>2
  <1>3. WebTypeOK'
    BY <1>1, <1>2 DEF WebInv, WebTypeOK
  <1>4. web.step = "fill" => Tables' = Tables
    <2>1. web.step = "fill" => queue # <<>>
      BY DEF WebInv
    <2>2. queue # <<>> => Head(queue') = Head(queue)
      BY <1>1
    <2> QED BY <2>1, <2>2 DEF Tables
  <1> QED BY <1>1, <1>2, <1>3, <1>4 DEF WebInv, Filling

\* A blob is decoded in the call that brings it (WanDataSet, WanFailOverDataSet).
LEMMA BlobsKeep ==
    ASSUME WebInv,
           \/ \E b \in Blobs : WanDataSet(b)
           \/ \E given, v \in BOOLEAN : WanFailOverDataSet(given, v)
    PROVE  WebInv' /\ Filling' = Filling
  <1>1. ASSUME NEW b \in Blobs, WanDataSet(b) PROVE WebInv' /\ Filling' = Filling
    <2>1. PICK d : d = [remote |-> {}, tables |-> Process_Wanmanager_Params(b)]
      OBVIOUS
    <2>2. Process_Wanmanager_Params(b) \in Seq(Table)
      BY BlobsTyped
    <2>3. d \in Decoded
      BY <2>1, <2>2 DEF Decoded
    <2>4. PushBlobRequest(d)
      BY <1>1, <2>1 DEF WanDataSet
    <2> QED BY <2>3, <2>4, PushKeeps
  <1>2. ASSUME NEW given \in BOOLEAN, NEW v \in BOOLEAN, WanFailOverDataSet(given, v)
        PROVE  WebInv' /\ Filling' = Filling
    <2>1. PICK r \in Process_WanFailOver_Params(given, v) :
             PushBlobRequest([remote |-> {r}, tables |-> <<>>])
      BY <1>2 DEF WanFailOverDataSet
    <2>2. r \in BOOLEAN
      BY <2>1 DEF Process_WanFailOver_Params
    <2>3. PICK d : d = [remote |-> {r}, tables |-> <<>>]
      OBVIOUS
    <2>4. {r} \in SUBSET BOOLEAN /\ <<>> \in Seq(Table)
      BY <2>2
    <2>5. d \in Decoded
      BY <2>3, <2>4 DEF Decoded
    <2> QED BY <2>1, <2>3, <2>5, PushKeeps
  <1> QED BY <1>1, <1>2

\* The row with another priority, or the same one.
SameRow(t, row) ==
    /\ t \in Row /\ t.ins = row.ins /\ t.num = row.num /\ t.new = row.new
    /\ t.port = row.port /\ t.alias = row.alias

LEMMA PrioritySet ==
    ASSUME NEW row \in Row, NEW v \in Priorities \cup {NoPriority},
           NEW t, t = SetPriority(row, v)
    PROVE  SameRow(t, row)
  <1>1. PICK e : e = IF v \in 0..7 THEN v ELSE row.eth
    OBVIOUS
  <1>2. e \in Priorities \cup {NoPriority}
    BY <1>1, RowFields
  <1>3. t = [row EXCEPT !.eth = e]
    BY <1>1 DEF SetPriority
  <1> QED BY <1>2, <1>3, RowFields DEF SameRow

LEMMA WebUpdateKeeps ==
    ASSUME MarkInv, WebInv, WebUpdate
    PROVE  MarkInv' /\ WebInv'
  <1> DEFINE a == AliasOf(ToApply)
             k == CHOOSE j \in WithAlias(a) : \A l \in WithAlias(a) : j <= l
             row == [SetPriority(rows[k], ToApply.eth) EXCEPT !.new = FALSE]
  <1>1. /\ web.step = "tables" /\ Tables # <<>> /\ Head(Tables).markings # <<>>
        /\ web' = web /\ refresh' = refresh /\ queue' = NextMarking
        /\ next' = next /\ list' = list /\ boot' = -1
    BY DEF WebUpdate, AtMarking, Running
  <1>2. /\ queue' \in Seq(Decoded) /\ Len(queue') = Len(queue) /\ queue' # <<>>
        /\ ToApply \in Setting /\ a \in Aliases
    BY <1>1, NextMarkingTyped
  <1>3. WebInv' /\ Filling' = Filling
    BY <1>1, <1>2 DEF WebInv, WebTypeOK, Filling
  <1>4. /\ WithAlias(a) # {} /\ rows' = [rows EXCEPT ![k] = row]
        /\ rec' = IF Listed(a) THEN Stored(a, 4, row.port, row.eth) ELSE rec
        /\ refused' = IF Listed(a) /\ row.port # 0 THEN refused ELSE refused \cup {a}
    BY DEF WebUpdate
  <1>5. k \in 1..Len(rows) /\ rows[k].alias = a
    <2>1. Len(rows) \in Nat /\ WithAlias(a) \in SUBSET (1..Len(rows))
      BY MarkTypes DEF WithAlias
    <2>2. k \in WithAlias(a)
      BY <1>4, <2>1, FirstPlace
    <2> QED BY <2>2 DEF WithAlias
  <1>6. PICK m \in 1..Len(rows) : m = k
    BY <1>5
  <1>7. PICK t : t = SetPriority(rows[m], ToApply.eth)
    OBVIOUS
  <1>8. SameRow(t, rows[m])
    <2>1. rows[m] \in Row
      BY MarkTypes
    <2>2. ToApply.eth \in Priorities \cup {NoPriority}
      BY <1>2 DEF Setting
    <2> QED BY <1>7, <2>1, <2>2, PrioritySet
  <1>9. PICK u : u = [t EXCEPT !.new = FALSE]
    OBVIOUS
  <1>10. u \in Row /\ ~ u.new /\ u.ins = rows[m].ins /\ u.num = rows[m].num
         /\ u.port = rows[m].port /\ u.alias = rows[m].alias
    BY <1>8, <1>9, RowFields DEF SameRow
  <1>11. row = u
    BY <1>6, <1>7, <1>9
  <1>12. rows[m].alias = a
    BY <1>5, <1>6
  <1>13. rows' = [rows EXCEPT ![m] = u]
    BY <1>4, <1>6, <1>11
  <1>14. /\ rec' = IF Listed(u.alias) THEN Stored(u.alias, 4, u.port, u.eth) ELSE rec
         /\ refused' = IF Listed(u.alias) /\ u.port # 0 THEN refused
                       ELSE refused \cup {u.alias}
    <2>1. u.alias = a
      BY <1>10, <1>12
    <2> HIDE DEF row, k, a
    <2>2. /\ rec' = IF Listed(a) THEN Stored(a, 4, u.port, u.eth) ELSE rec
          /\ refused' = IF Listed(a) /\ u.port # 0 THEN refused ELSE refused \cup {a}
      BY <1>4, <1>11
    <2> QED BY <2>1, <2>2
  <1>15. Filling' <= Filling /\ rows[m].alias \in Aliases
    BY <1>2, <1>3, <1>12, Filled
  <1> HIDE DEF row, k, a
  <1>16. MarkInv'
    BY <1>1, <1>10, <1>13, <1>14, <1>15, UpdateKeeps
  <1> QED BY <1>3, <1>16

LEMMA WebAddKeeps ==
    ASSUME MarkInv, WebInv, WebAdd
    PROVE  MarkInv' /\ WebInv'
  <1>1. /\ web.step = "tables" /\ Tables # <<>> /\ Head(Tables).markings # <<>>
        /\ refresh' = refresh
    BY DEF WebAdd, AtMarking
  <1>2. Filling = 0 /\ Filling' \in {0, 1}
    BY <1>1 DEF Filling
  <1>3. CASE next <= MarkingMax
    <2>1. /\ Marking_AddEntry /\ queue' = queue
          /\ web' = [step |-> "fill", row |-> Len(rows) + 1, ins |-> next]
      BY <1>3 DEF WebAdd
    <2>2. MarkInv'
      BY <1>2, <2>1, AddEntryKeeps
    <2>3. Len(rows) + 1 \in 0..MarkingMax + 2 /\ next \in 0..MarkingMax
      <3>1. Len(rows) <= next
        BY DEF MarkInv, NumbersInv
      <3> QED BY <1>3, <3>1, MarkTypes
    <2>4. Tables' = Tables /\ queue # <<>>
      BY <1>1, <2>1 DEF Tables, WebInv
    <2>5. WebInv'
      BY <1>1, <2>1, <2>3, <2>4 DEF WebInv, WebTypeOK
    <2> QED BY <2>2, <2>5
  <1>4. CASE ~ (next <= MarkingMax)
    <2>1. queue' = NextMarking /\ UNCHANGED markingVars /\ web' = web
      BY <1>4 DEF WebAdd
    <2>2. queue' \in Seq(Decoded) /\ Len(queue') = Len(queue) /\ queue' # <<>>
      BY <1>1, <2>1, NextMarkingTyped
    <2>3. WebInv' /\ Filling' = Filling
      BY <1>1, <2>1, <2>2 DEF WebInv, WebTypeOK, Filling
    <2> QED BY <2>1, <2>3, MarkUnchanged, Filled
  <1> QED BY <1>3, <1>4

LEMMA WebFillKeeps ==
    ASSUME MarkInv, WebInv, WebFill
    PROVE  MarkInv' /\ WebInv'
  <1> DEFINE a == AliasOf(ToApply)
             k == web.row
             named == IF rows[k].alias = NoAlias THEN [rows[k] EXCEPT !.alias = a] ELSE rows[k]
             row == [SetPriority(named, ToApply.eth) EXCEPT !.new = TRUE]
  <1>1. /\ web.step = "fill" /\ Tables # <<>> /\ Head(Tables).markings # <<>>
        /\ queue' = NextMarking /\ refresh' = refresh
        /\ web' = [WebIdle EXCEPT !.step = "tables"]
          /\ k >= 1
    BY DEF WebFill, WebInv
  <1>2. /\ queue' \in Seq(Decoded) /\ Len(queue') = Len(queue) /\ queue' # <<>>
        /\ ToApply \in Setting /\ a \in Aliases
    BY <1>1, NextMarkingTyped
  <1>3. web' \in WebState /\ web'.step = "tables"
    BY <1>1, NotFilling
  <1>4. WebInv' /\ Filling = 1 /\ Filling' = 0
    BY <1>1, <1>2, <1>3 DEF WebInv, WebTypeOK, WebState, Filling
  <1>5. CASE UNCHANGED markingVars
    BY <1>4, <1>5, MarkUnchanged
  <1>6. CASE /\ k <= Len(rows) /\ DmlAddMarking([rows EXCEPT ![k] = row], k)
             /\ next' = next /\ boot' = -1
    <2>1. PICK m \in 1..Len(rows) : m = k
      <3>1. k \in Int /\ Len(rows) \in Nat
        BY MarkTypes DEF WebInv, WebTypeOK
      <3> QED BY <1>1, <1>6, <3>1
    <2>2. rows[m] \in Row /\ rows[m].alias \in Aliases \cup {NoAlias}
      BY MarkTypes
    <2>3. PICK n : n = named
      OBVIOUS
    <2>4. /\ n \in Row /\ n.ins = rows[m].ins /\ n.num = rows[m].num
          /\ n.port = rows[m].port /\ n.alias \in Aliases
          /\ rows[m].alias \in {n.alias, NoAlias}
      <3>1. CASE rows[m].alias = NoAlias
        BY <1>2, <2>1, <2>2, <2>3, <3>1, RowFields
      <3>2. CASE rows[m].alias # NoAlias
        BY <2>1, <2>2, <2>3, <3>2
      <3> QED BY <3>1, <3>2
    <2>5. PICK t : t = SetPriority(n, ToApply.eth)
      OBVIOUS
    <2>6. SameRow(t, n)
      <3>1. ToApply.eth \in Priorities \cup {NoPriority}
        BY <1>2 DEF Setting
      <3> QED BY <2>4, <2>5, <3>1, PrioritySet
    <2>7. PICK u : u = [t EXCEPT !.new = TRUE]
      OBVIOUS
    <2>8. /\ u \in Row /\ u.ins = t.ins /\ u.num = t.num /\ u.port = t.port
          /\ u.alias = t.alias
      BY <2>6, <2>7, RowFields DEF SameRow
    <2>9. /\ u.ins = rows[m].ins /\ u.num = rows[m].num /\ u.port = rows[m].port
          /\ u.alias \in Aliases /\ rows[m].alias \in {u.alias, NoAlias}
      BY <2>4, <2>6, <2>8 DEF SameRow
    <2>10. row = u
      BY <2>3, <2>5, <2>7
    <2>11. DmlAddMarking([rows EXCEPT ![m] = u], m)
      BY <1>6, <2>1, <2>10
    <2>12. Filling' <= Filling /\ u.num + 1 + Filling' <= next + 1
      <3>1. rows[m].num + (IF rows[m].new THEN 1 ELSE 0) + Filling <= next + 1
        BY DEF MarkInv, NumbersInv
      <3>2. rows[m].num \in Nat /\ next \in Nat
        BY <2>2, MarkTypes, RowFields
      <3> QED BY <1>4, <2>9, <3>1, <3>2
    <2>13. u.port # 0 => u.alias # NoAlias
      BY <2>9, MarkTypes
    <2>14. next' = next /\ boot' = -1
      BY <1>6
    <2> HIDE DEF a, k, named, row
    <2>15. MarkInv'
      BY <2>8, <2>9, <2>11, <2>12, <2>13, <2>14, AddMarkingKeeps
    <2> QED BY <1>4, <2>15
  <1> QED BY <1>5, <1>6 DEF WebFill, Running

LEMMA WebThreadKeepsMarkings ==
    ASSUME MarkInv, WebInv, WebThread
    PROVE  MarkInv' /\ WebInv'
  <1>1. ASSUME NEW ok \in BOOLEAN, WebStart(ok) PROVE MarkInv' /\ WebInv'
    <2>1. /\ web.step = "idle" /\ queue # <<>> /\ web' = [web EXCEPT !.step = "tables"]
          /\ queue' = queue /\ refresh' = refresh /\ UNCHANGED markingVars
      BY <1>1 DEF WebStart
    <2>2. WebInv' /\ Filling' = Filling
      BY <2>1 DEF WebInv, WebTypeOK, Filling
    <2> QED BY <2>1, <2>2, MarkUnchanged, Filled
  <1>2. CASE WebTableDone
    <2>1. /\ web.step = "tables" /\ Tables # <<>> /\ refresh' = TRUE
          /\ queue' = Rest(Tail(Tables)) /\ web' = web /\ UNCHANGED markingVars
      BY <1>2 DEF WebTableDone
    <2>2. queue \in Seq(Decoded) /\ queue # <<>> /\ Tail(Tables) \in Seq(Table)
      BY <2>1, TablesTyped
    <2>3. /\ queue' \in Seq(Decoded) /\ Len(queue') = Len(queue) /\ queue' # <<>>
      BY <2>1, <2>2, RestTyped
    <2>4. WebInv' /\ Filling' = Filling
      BY <2>1, <2>3 DEF WebInv, WebTypeOK, Filling
    <2> QED BY <2>1, <2>4, MarkUnchanged, Filled
  <1>3. CASE WebDone
    <2>1. /\ web.step = "tables" /\ web' = WebIdle /\ queue' = Tail(queue)
          /\ refresh' = refresh /\ UNCHANGED markingVars
      BY <1>3 DEF WebDone
    <2>2. queue \in Seq(Decoded) /\ queue # <<>>
      BY <2>1 DEF WebInv
    <2>3. queue' \in Seq(Decoded) /\ Len(queue') = Len(queue) - 1
      BY <2>1, <2>2
    <2>4. Len(queue') <= MaxBlobs
      <3>1. Len(queue) \in Nat /\ MaxBlobs \in Nat /\ Len(queue) <= MaxBlobs
        BY <2>2, WebAssumption DEF WebInv, WebTypeOK
      <3> QED BY <2>3, <3>1
    <2>5. web' \in WebState /\ web'.step = "idle"
      BY <2>1, NotFilling DEF WebIdle
    <2>6. WebInv' /\ Filling' = Filling
      BY <2>1, <2>3, <2>4, <2>5 DEF WebInv, WebTypeOK, WebState, Filling
    <2> QED BY <2>1, <2>6, MarkUnchanged, Filled
  <1> QED BY <1>1, <1>2, <1>3, WebUpdateKeeps, WebAddKeeps, WebFillKeeps DEF WebThread

-----------------------------------------------------------------------------
(* Every step keeps the invariant.                                         *)

LEMMA MarkingOpsKeep ==
    ASSUME MarkInv, MarkingOps, Filling' <= Filling
    PROVE  MarkInv'
  <1>1. CASE Marking_AddEntry
    <2>1. Filling' <= Filling + 1
      BY Filled DEF Filling
    <2> QED BY <1>1, <2>1, AddEntryKeeps
  <1>2. ASSUME NEW k \in 1..Len(rows),
               \/ \E a \in Aliases : Marking_SetParamStringValue(k, a)
               \/ \E v \in Priorities : Marking_SetParamIntValue(k, v)
               \/ Marking_CommitNew(k) \/ Marking_CommitUpdate(k) \/ Marking_DelEntry(k)
        PROVE  MarkInv'
    BY <1>2, SetAliasKeeps, SetPriorityKeeps, CommitNewKeeps, CommitUpdateKeeps, DelEntryKeeps
  <1>3. CASE \E a \in Aliases, f \in AllFields : PsmTruncated(a, f)
    BY <1>3, TruncatedKeeps
  <1> QED BY <1>1, <1>2, <1>3 DEF MarkingOps

LEMMA MarkingStartsKeep ==
    ASSUME MarkInv, MarkingStarts
    PROVE  MarkInv'
  BY MarkingRestartKeeps, CrashInAddKeeps, CrashInDeleteKeeps DEF MarkingStarts

LEMMA WebUnchanged ==
    ASSUME WebInv, UNCHANGED webVars
    PROVE  WebInv' /\ Filling' = Filling
  <1>1. queue' = queue /\ web' = web /\ refresh' = refresh
    BY DEF webVars
  <1>2. Tables' = Tables
    BY <1>1 DEF Tables
  <1> QED BY <1>1, <1>2 DEF WebInv, WebTypeOK, Filling

LEMMA MarkingsStart == MCInit => MarkInv /\ WebInv
  <1> SUFFICES ASSUME MCInit PROVE MarkInv /\ WebInv
    OBVIOUS
  <1>1. MarkInv
    BY MarkingBegins DEF MCInit
  <1>2. queue = <<>> /\ web = WebIdle /\ refresh = FALSE
    BY DEF MCInit, WebInit
  <1>3. web \in WebState /\ web.step = "idle"
    BY <1>2, NotFilling DEF WebIdle
  <1>4. queue \in Seq(Decoded) /\ Len(queue) <= MaxBlobs
    BY <1>2, WebAssumption
  <1>5. WebInv
    BY <1>2, <1>3, <1>4 DEF WebInv, WebTypeOK, WebState
  <1> QED BY <1>1, <1>5

LEMMA MarkingsNext ==
    ASSUME MarkInv, WebInv, [MCNext]_vars
    PROVE  MarkInv' /\ WebInv'
  <1>1. CASE UNCHANGED webVars /\ UNCHANGED markingVars
    BY <1>1, WebUnchanged, MarkUnchanged, Filled
  <1>2. CASE MarkingOps /\ UNCHANGED webVars
    BY <1>2, WebUnchanged, MarkingOpsKeep, Filled
  <1>3. CASE WebOps
    <2>1. CASE \E b \in Blobs : WanDataSet(b) /\ UNCHANGED markingVars
      BY <2>1, BlobsKeep, MarkUnchanged, Filled
    <2> QED BY <1>2, <1>3, <2>1 DEF WebOps
  <1>4. CASE ManagerOps /\ UNCHANGED markingVars
    <2>1. CASE \E given, v \in BOOLEAN : WanFailOverDataSet(given, v)
      BY <1>4, <2>1, BlobsKeep, MarkUnchanged, Filled
    <2> QED BY <1>1, <1>4, <2>1 DEF ManagerOps
  <1>5. CASE WebThread
    BY <1>5, WebThreadKeepsMarkings
  <1>6. CASE MarkingStarts /\ UNCHANGED webVars
    BY <1>6, WebUnchanged, MarkingStartsKeep
  <1>7. CASE WebStarts
    <2>1. MarkingRestart /\ queue' = <<>> /\ web' = WebIdle /\ refresh' = FALSE
      BY <1>7 DEF WebStarts
    <2>2. web' \in WebState /\ web'.step = "idle"
      BY <2>1, NotFilling DEF WebIdle
    <2>3. queue' \in Seq(Decoded) /\ Len(queue') <= MaxBlobs
      BY <2>1, WebAssumption
    <2>4. WebInv'
      BY <2>1, <2>2, <2>3 DEF WebInv, WebTypeOK, WebState
    <2> QED BY <2>1, <2>4, MarkingRestartKeeps
  <1> QED BY <1>1, <1>2, <1>3, <1>4, <1>5, <1>6, <1>7 DEF MCNext, vars

\* The invariant of the marking table with the framework's thread at work
\* (WanMgr_WanIfaceMarkingInit, DmlCheckAndProceedMarkingOperations,
\* WanMgr_Process_Webconfig_Request): every call, every restart and every crash
\* between two PSM writes keeps it.
THEOREM MarkingInvariant == MCSpec => [](MarkInv /\ WebInv)
  <1>1. (MarkInv /\ WebInv) /\ [MCNext]_vars => (MarkInv /\ WebInv)'
    BY MarkingsNext
  <1> QED BY <1>1, MarkingsStart, PTL DEF MCSpec

\* The states of all parts have their types: an instance number and a port of
\* the marking table stay in their ranges (WAN_IF_MARKING_MAX_LIMIT), and the
\* row the framework's thread works on (WanMgr_Process_Webconfig_Request) too.
THEOREM StoredTypesCorrect == MCSpec => []StoredTypeOK
  <1>1. ConfigInv /\ TopInv /\ MarkInv /\ WebInv => StoredTypeOK
    BY DEF ConfigInv, TopInv, MarkInv, WebInv, StoredTypeOK
  <1> QED BY <1>1, ConfigInvariant, TopInvariant, MarkingInvariant, PTL

\* Two stored markings never share a port (WanMgr_WanIfaceMarkingInit re-adjusts
\* the ports, DmlAddMarking takes the next one): the port of a row follows its
\* instance number, and these are distinct.
THEOREM PortsStayDistinct == MCSpec => []PortsDistinct
  <1>1. MarkInv => PortsDistinct
    <2> SUFFICES ASSUME MarkInv, NEW j \in 1..Len(rows), NEW k \in 1..Len(rows), j # k,
                        rows[j].port # 0,
                        {rows[j].alias, rows[k].alias} \cap refused = {}
                 PROVE  rows[j].port # rows[k].port
      BY DEF PortsDistinct
    <2>1. rows[j].ins # rows[k].ins
      BY DEF MarkInv, NumbersInv
    <2>2. rows[j].ins \in Nat /\ rows[k].ins \in Nat
      BY MarkTypes, RowFields
    <2>3. rows[j].alias \notin refused /\ rows[k].alias \notin refused
      OBVIOUS
    <2>4. rows[j].port = rows[j].ins + 1
      BY <2>3 DEF MarkInv, PortsInv
    <2>5. rows[k].port # 0 => rows[k].port = rows[k].ins + 1
      BY <2>3 DEF MarkInv, PortsInv
    <2> QED BY <2>1, <2>2, <2>4, <2>5
  <1> QED BY <1>1, MarkingInvariant, PTL

\* A committed row is in the list, with the port of memory in PSM, unless a call
\* left its alias out (DmlCheckAndProceedMarkingOperations).
THEOREM MarkingsStayStored == MCSpec => []MarkingsStored
  <1>1. MarkInv => MarkingsStored
    BY DEF MarkInv
  <1> QED BY <1>1, MarkingInvariant, PTL

\* A start that meets one broken entry or none leaves the whole entries in the
\* list and no others (WanMgr_RemoveMarkingEntryFromPSMList).
THEOREM StartsRepair == MCSpec => []RestartRepairs
  <1>1. MarkInv => RestartRepairs
    BY DEF MarkInv
  <1> QED BY <1>1, MarkingInvariant, PTL
=============================================================================
