----------------------------- MODULE ScanProofs -----------------------------
(* Proofs about the Parallel Scan policy, for every number of groups and     *)
(* interfaces, any priorities and any bound on the events: its types, that   *)
(* an interface in service is the one both threads know of, as long as no    *)
(* interface changes its group (a write of Selection.Group moves an          *)
(* interface that is in service to a group whose threads never chose it),    *)
(* and that the choice goes to the highest priority.                         *)
EXTENDS MCScan, DataProofs

-----------------------------------------------------------------------------
(* The inductive invariant.                                                  *)

GroupsStay == \A i \in Ifaces : <<"group", i>> \notin Events

PSTypeOK == ps \in [Groups -> PSType]

SelectionTypeOK == DataTypeOK /\ ISMTypeOK /\ PSTypeOK

Chosen(i) == iface[i].Selection \in {"SELECTED", "ACTIVE"}

\* A thread that has not chosen, or has given up its choice, leaves no
\* interface of its group in service.
NoneChosen ==
    \A g \in Groups : \A i \in InterfaceAvailable(g) :
        ps[g].st \in {"SCANNING", "TEAR_DOWN", "POLICY_EXIT", "POLICY_ERROR"}
            => ~ Chosen(i)

\* The chosen interface is the one the failover thread is told of and the one
\* the selection thread holds.
ChosenIsHeld ==
    \A i \in Ifaces : Chosen(i) =>
        /\ group[iface[i].Group].SelectedInterface = i
        /\ ps[iface[i].Group].idx = i

\* Without a thread there is nothing but the initial state.
Unstarted == \A g \in Groups : ps[g].pc = "none" => ps[g].st = "SCANNING"

SelectionInv == SelectionTypeOK /\ NoneChosen /\ ChosenIsHeld /\ Unstarted

-----------------------------------------------------------------------------
(* What the selection thread writes to its own data.                         *)

LEMMA PriorityTypes ==
    /\ PriorityMax \in Priorities /\ -1 \in Priorities
    /\ \A i \in Ifaces : Priority[i] \in Priorities
  BY DEF Priorities

LEMMA ScanStartType ==
    ASSUME NEW r \in PSType
    PROVE  /\ ScanStart(r) \in PSType
           /\ ScanStart(r).pc = r.pc /\ ScanStart(r).st = r.st /\ ScanStart(r).idx = r.idx
  <1>1. 1 \in 1 .. NIfaces + 1
    BY SizesAssumption
  <1> QED BY <1>1, PriorityTypes DEF ScanStart, PSType

LEMMA PSOutsideType ==
    ASSUME NEW c \in {"none", "start", "sample", "state", "exit"}
    PROVE  PSOutside(c) \in PSType
  <1>1. 1 \in 1 .. NIfaces + 1
    BY SizesAssumption
  <1>2. "SCANNING" \in PSStates
    BY DEF PSStates
  <1> QED BY <1>1, <1>2, PriorityTypes DEF PSOutside, PSType

\* The end of an iteration.
LEMMA PSGotoType ==
    ASSUME PSTypeOK, NEW g \in Groups, NEW s \in PSStates, PSGoto(g, s)
    PROVE  /\ PSTypeOK'
           /\ ps'[g].pc = "sample" /\ ps'[g].st = s /\ ps'[g].idx = ps[g].idx
           /\ \A h \in Groups \ {g} : ps'[h] = ps[h]
  <1> DEFINE r == ScanStart(ps[g])
             x == (s = "SCANNING" /\ r.expired)
             r2 == [r EXCEPT !.pc = "sample", !.st = s, !.en = FALSE, !.cfg = FALSE,
                             !.rst = FALSE, !.expired = x]
  <1>1. ps \in [Groups -> PSType] /\ ps[g] \in PSType
    BY DEF PSTypeOK
  <1>2. r \in PSType /\ r.idx = ps[g].idx
    BY <1>1, ScanStartType
  <1>3. ps' = [ps EXCEPT ![g] = r2]
    BY DEF PSGoto
  <1>4. x \in BOOLEAN
    OBVIOUS
  <1> HIDE DEF r, x
  <1>5. r2 \in PSType
    BY <1>2, <1>4 DEF PSType
  <1>6. r2.pc = "sample" /\ r2.st = s /\ r2.idx = ps[g].idx
    BY <1>2 DEF PSType
  <1> HIDE DEF r2
  <1> QED BY <1>1, <1>3, <1>5, <1>6 DEF PSTypeOK

LEMMA ScannedType ==
    ASSUME DataTypeOK, NEW r \in PSType, NEW i \in Ifaces, r.pos <= NIfaces
    PROVE  Scanned(r, i) \in PSType /\ Scanned(r, i).pc = r.pc /\ Scanned(r, i).st = r.st
  <1> DEFINE al == iface[i].ActiveLink
             hval == IF al THEN -1 ELSE r.hval
             better == UIntLeq(Priority[i], hval)
             works == Works(i) /\ UIntLeq(Priority[i], r.aval)
             last == r.last \/ al
             hv == IF al \/ better THEN i ELSE r.hv
             hval2 == IF better THEN Priority[i] ELSE hval
             idx == IF works THEN i ELSE r.idx
             aval == IF works THEN Priority[i] ELSE r.aval
  <1>1. al \in BOOLEAN
    BY DEF DataTypeOK, IfaceType
  <1>2. r.pos + 1 \in 1 .. NIfaces + 1 /\ NIfaces + 1 \in 1 .. NIfaces + 1
    BY SizesAssumption DEF PSType
  <1>3. hval \in Priorities /\ r.hval \in Priorities /\ r.aval \in Priorities
    BY PriorityTypes DEF PSType
  <1>4. /\ last \in BOOLEAN /\ hv \in Ifaces \cup {NoIface} /\ hval2 \in Priorities
        /\ idx \in Ifaces \cup {NoIface} /\ aval \in Priorities
    BY <1>1, <1>3, PriorityTypes DEF PSType
  <1>5. Scanned(r, i) =
          IF al /\ Works(i)
          THEN [r EXCEPT !.pos = NIfaces + 1, !.last = TRUE, !.hv = i, !.hval = -1,
                         !.idx = i]
          ELSE [r EXCEPT !.pos = r.pos + 1, !.last = last, !.hv = hv, !.hval = hval2,
                         !.idx = idx, !.aval = aval]
    BY DEF Scanned, PSType
  <1> HIDE DEF al, hval, better, works, last, hv, hval2, idx, aval
  <1>6. [r EXCEPT !.pos = NIfaces + 1, !.last = TRUE, !.hv = i, !.hval = -1, !.idx = i]
          \in PSType
    BY <1>2, PriorityTypes DEF PSType
  <1>7. [r EXCEPT !.pos = r.pos + 1, !.last = last, !.hv = hv, !.hval = hval2,
                  !.idx = idx, !.aval = aval] \in PSType
    BY <1>2, <1>4 DEF PSType
  <1>8. Scanned(r, i).pc = r.pc /\ Scanned(r, i).st = r.st
    BY <1>5 DEF PSType
  <1> QED BY <1>5, <1>6, <1>7, <1>8

-----------------------------------------------------------------------------
(* Steps that change the choice of one group, or of none.                    *)

Unchosen == {"SCANNING", "TEAR_DOWN", "POLICY_EXIT", "POLICY_ERROR"}

LEMMA OneGroupChanges ==
    ASSUME SelectionInv, SelectionTypeOK', NEW g \in Groups,
           \A i \in Ifaces : iface'[i].Group = iface[i].Group,
           \A h \in Groups \ {g} :
               /\ ps'[h] = ps[h]
               /\ group'[h].SelectedInterface = group[h].SelectedInterface,
           \A i \in Ifaces : Chosen(i)' =>
               IF iface[i].Group = g
               THEN /\ group'[g].SelectedInterface = i
                    /\ ps'[g].idx = i /\ ps'[g].st \notin Unchosen
               ELSE Chosen(i),
           ps'[g].pc = "none" => ps'[g].st = "SCANNING"
    PROVE  SelectionInv'
  <1>0. \A i \in Ifaces : iface[i].Group \in Groups
    BY DEF SelectionInv, SelectionTypeOK, DataTypeOK, IfaceType
  <1>1. NoneChosen'
    <2> SUFFICES ASSUME NEW h \in Groups, NEW i \in Ifaces, iface'[i].Group = h,
                        ps'[h].st \in Unchosen, Chosen(i)'
                 PROVE  FALSE
      BY DEF NoneChosen, InterfaceAvailable, Unchosen
    <2>1. CASE h = g
      BY <2>1
    <2>2. CASE h # g
      BY <2>2 DEF SelectionInv, NoneChosen, InterfaceAvailable, Unchosen
    <2> QED BY <2>1, <2>2
  <1>2. ChosenIsHeld'
    <2> SUFFICES ASSUME NEW i \in Ifaces, Chosen(i)'
                 PROVE  /\ group'[iface[i].Group].SelectedInterface = i
                        /\ ps'[iface[i].Group].idx = i
      BY DEF ChosenIsHeld
    <2>1. CASE iface[i].Group = g
      BY <2>1
    <2>2. CASE iface[i].Group # g
      BY <1>0, <2>2 DEF SelectionInv, ChosenIsHeld
    <2> QED BY <2>1, <2>2
  <1>3. Unstarted'
    BY DEF SelectionInv, Unstarted
  <1> QED BY <1>1, <1>2, <1>3 DEF SelectionInv

LEMMA NoGroupChanges ==
    ASSUME SelectionInv, SelectionTypeOK',
           \A i \in Ifaces : /\ iface'[i].Group = iface[i].Group
                             /\ Chosen(i)' => Chosen(i),
           \A h \in Groups :
               /\ ps'[h].st = ps[h].st /\ ps'[h].idx = ps[h].idx
               /\ ps'[h].pc = "none" => ps[h].pc = "none"
               /\ group'[h].SelectedInterface = group[h].SelectedInterface
    PROVE  SelectionInv'
  <1>0. \A i \in Ifaces : iface[i].Group \in Groups
    BY DEF SelectionInv, SelectionTypeOK, DataTypeOK, IfaceType
  <1>1. NoneChosen'
    BY DEF SelectionInv, NoneChosen, InterfaceAvailable
  <1>2. ChosenIsHeld'
    BY <1>0 DEF SelectionInv, ChosenIsHeld
  <1>3. Unstarted'
    BY DEF SelectionInv, Unstarted
  <1> QED BY <1>1, <1>2, <1>3 DEF SelectionInv

-----------------------------------------------------------------------------
(* The types of the tables the transitions write.                            *)

LEMMA IfaceRecordType ==
    ASSUME NEW r \in IfaceType, NEW s \in SelectionStates, NEW t \in IfaceStatuses,
           NEW b \in BOOLEAN
    PROVE  /\ [r EXCEPT !.Selection = s] \in IfaceType
           /\ [r EXCEPT !.Selection = s, !.ActiveLink = b] \in IfaceType
           /\ [r EXCEPT !.Selection = s, !.Status = t, !.ActiveLink = b] \in IfaceType
           /\ [r EXCEPT !.ActiveLink = b] \in IfaceType
  BY DEF IfaceType

LEMMA SelectedFields ==
    ASSUME NEW T \in [Groups -> GroupType], NEW g \in Groups, NEW i \in Ifaces \cup {NoIface}
    PROVE  /\ SetGroupSelectedIface(T, g, i)[g].SelectedInterface = i
           /\ \A h \in Groups \ {g} : SetGroupSelectedIface(T, g, i)[h] = T[h]
  BY DEF SetGroupSelectedIface, GroupType

LEMMA TearingDownKeeps ==
    ASSUME SelectionInv, NEW g \in Groups, TearingDown(g), ps[g].pc # "none",
           UNCHANGED <<config, ism>>
    PROVE  SelectionInv'
  <1>0. /\ DataTypeOK /\ ISMTypeOK /\ PSTypeOK
        /\ config \in ConfigType /\ group \in [Groups -> GroupType]
        /\ iface \in [Ifaces -> IfaceType] /\ ps \in [Groups -> PSType]
        /\ \A i \in Ifaces : iface[i] \in IfaceType
        /\ ps[g].cfg \in BOOLEAN /\ ps[g].idx \in Ifaces \cup {NoIface}
    BY DEF SelectionInv, SelectionTypeOK, DataTypeOK, PSTypeOK, PSType
  <1>s. {"POLICY_ERROR", "TEAR_DOWN"} \subseteq PSStates
    BY DEF PSStates
  <1>i. NoIface \notin Ifaces
    BY SizesAssumption DEF NoIface, Ifaces
  <1>1. CASE ps[g].idx = NoIface
    <2>1. PSGoto(g, "POLICY_ERROR") /\ iface' = iface /\ group' = group
      BY <1>1 DEF TearingDown
    <2>2. /\ PSTypeOK' /\ ps'[g].pc = "sample" /\ ps'[g].st = "POLICY_ERROR"
          /\ \A h \in Groups \ {g} : ps'[h] = ps[h]
      BY <1>0, <1>s, <2>1, PSGotoType
    <2>3. SelectionTypeOK'
      BY <1>0, <2>1, <2>2 DEF SelectionTypeOK, DataTypeOK, ISMTypeOK
    <2>4. \A i \in Ifaces : iface[i].Group = g => ~ Chosen(i)
      BY <1>1, <1>i DEF SelectionInv, ChosenIsHeld
    <2> QED BY <2>1, <2>2, <2>3, <2>4, OneGroupChanges DEF Chosen
  <1>2. CASE ps[g].idx # NoIface
    <2>1. PSGoto(g, "TEAR_DOWN") /\ group' = SetGroupSelectedIface(group, g, NoIface)
      BY <1>2 DEF TearingDown
    <2>2. /\ PSTypeOK' /\ ps'[g].pc = "sample" /\ ps'[g].st = "TEAR_DOWN"
          /\ \A h \in Groups \ {g} : ps'[h] = ps[h]
      BY <1>0, <1>s, <2>1, PSGotoType
    <2>3. /\ group' \in [Groups -> GroupType]
          /\ \A h \in Groups \ {g} :
                group'[h].SelectedInterface = group[h].SelectedInterface
      BY <1>0, <2>1, SelectedFields, SetGroupSelectedIfaceType
    <2> DEFINE t(i) == IF iface[i].Status = "INVALID" THEN "DISABLED" ELSE iface[i].Status
               b(i) == iface[i].ActiveLink /\ ~ ps[g].cfg
               r(i) == [iface[i] EXCEPT !.Selection = "NOT_SELECTED", !.Status = t(i),
                                        !.ActiveLink = b(i)]
    <2>4. \A i \in Ifaces : r(i) = [iface[i] EXCEPT !.Selection = "NOT_SELECTED",
                                       !.Status = IF @ = "INVALID" THEN "DISABLED" ELSE @,
                                       !.ActiveLink = @ /\ ~ ps[g].cfg]
      BY <1>0 DEF IfaceType
    <2>5. iface' = [i \in Ifaces |-> IF iface[i].Group # g THEN iface[i] ELSE r(i)]
      BY <1>2, <2>4 DEF TearingDown
    <2>6. \A i \in Ifaces : /\ t(i) \in IfaceStatuses /\ b(i) \in BOOLEAN
                            /\ "NOT_SELECTED" \in SelectionStates
      BY <1>0 DEF IfaceType, IfaceStatuses, SelectionStates
    <2> HIDE DEF t, b
    <2>7. \A i \in Ifaces : /\ r(i) \in IfaceType /\ r(i).Group = iface[i].Group
                            /\ r(i).Selection = "NOT_SELECTED"
      <3> TAKE i \in Ifaces
      <3>1. r(i) \in IfaceType
        BY <1>0, <2>6, IfaceRecordType
      <3> QED BY <1>0, <3>1 DEF IfaceType
    <2> HIDE DEF r
    <2>8. SelectionTypeOK'
      BY <1>0, <2>2, <2>3, <2>5, <2>7 DEF SelectionTypeOK, DataTypeOK, ISMTypeOK
    <2>9. \A i \in Ifaces :
             /\ iface'[i].Group = iface[i].Group
             /\ iface[i].Group = g => ~ Chosen(i)'
             /\ iface[i].Group # g => iface'[i] = iface[i]
      BY <2>5, <2>7 DEF Chosen
    <2> QED BY <2>2, <2>3, <2>8, <2>9, OneGroupChanges DEF Chosen
  <1> QED BY <1>1, <1>2

LEMMA SelectingKeeps ==
    ASSUME SelectionInv, NEW g \in Groups, SelectingInterface(g), ps[g].st = "SCANNING",
           UNCHANGED config
    PROVE  SelectionInv'
  <1>0. /\ DataTypeOK /\ ISMTypeOK /\ PSTypeOK
        /\ config \in ConfigType /\ group \in [Groups -> GroupType]
        /\ iface \in [Ifaces -> IfaceType] /\ ps \in [Groups -> PSType]
        /\ \A i \in Ifaces : iface[i] \in IfaceType
        /\ ps[g].idx \in Ifaces \cup {NoIface}
    BY DEF SelectionInv, SelectionTypeOK, DataTypeOK, PSTypeOK, PSType
  <1>1. "CHECK_RECONFIGURATION" \in PSStates
    BY DEF PSStates
  <1>2. /\ PSTypeOK' /\ ps'[g].pc = "sample" /\ ps'[g].st = "CHECK_RECONFIGURATION"
        /\ ps'[g].idx = ps[g].idx
        /\ \A h \in Groups \ {g} : ps'[h] = ps[h]
    BY <1>0, <1>1, PSGotoType DEF SelectingInterface
  <1>3. /\ group' \in [Groups -> GroupType] /\ group'[g].SelectedInterface = ps[g].idx
        /\ \A h \in Groups \ {g} : group'[h].SelectedInterface = group[h].SelectedInterface
    <2>1. group' = SetGroupSelectedIface(group, g, ps[g].idx)
      BY DEF SelectingInterface
    <2> QED BY <1>0, <2>1, SelectedFields, SetGroupSelectedIfaceType
  <1> DEFINE s(i) == IF i = ps[g].idx THEN "SELECTED" ELSE "NOT_SELECTED"
             b(i) == i = ps[g].idx
             r(i) == [iface[i] EXCEPT !.Selection = s(i), !.ActiveLink = b(i)]
  <1>4. iface' = [i \in Ifaces |-> IF iface[i].Group = g /\ iface[i].Enable THEN r(i)
                                   ELSE iface[i]]
    BY DEF SelectingInterface
  <1>5. \A i \in Ifaces : /\ r(i) \in IfaceType /\ r(i).Group = iface[i].Group
                          /\ r(i).Selection = s(i)
    <2>1. \A i \in Ifaces : s(i) \in SelectionStates /\ b(i) \in BOOLEAN
      BY DEF SelectionStates
    <2> HIDE DEF s, b
    <2> TAKE i \in Ifaces
    <2>2. r(i) \in IfaceType
      BY <1>0, <2>1 DEF IfaceType
    <2> QED BY <1>0, <2>2 DEF IfaceType
  <1> HIDE DEF r
  <1>6. SelectionTypeOK'
    BY <1>0, <1>2, <1>3, <1>4, <1>5 DEF SelectionTypeOK, DataTypeOK, ISMTypeOK, SelectingInterface
  <1>7. \A i \in Ifaces :
           /\ iface'[i].Group = iface[i].Group
           /\ iface[i].Group = g /\ Chosen(i)' => i = ps[g].idx
           /\ iface[i].Group # g => iface'[i] = iface[i]
    <2> TAKE i \in Ifaces
    <2>1. iface[i].Group = g => ~ Chosen(i)
      BY DEF SelectionInv, NoneChosen, InterfaceAvailable
    <2> QED BY <1>4, <1>5, <2>1 DEF Chosen
  <1> QED BY <1>2, <1>3, <1>6, <1>7, OneGroupChanges DEF Chosen, Unchosen

LEMMA RestartScanKeeps ==
    ASSUME SelectionInv, NEW g \in Groups, RestartScan(g), UNCHANGED ism
    PROVE  SelectionInv'
  <1>0. /\ DataTypeOK /\ ISMTypeOK /\ PSTypeOK
        /\ config \in ConfigType /\ group \in [Groups -> GroupType]
        /\ iface \in [Ifaces -> IfaceType] /\ ps \in [Groups -> PSType]
        /\ \A i \in Ifaces : iface[i] \in IfaceType
    BY DEF SelectionInv, SelectionTypeOK, DataTypeOK, PSTypeOK
  <1>1. /\ ps' \in [Groups -> PSType] /\ ps'[g].pc = "sample"
        /\ \A h \in Groups \ {g} : ps'[h] = ps[h]
    <2> DEFINE p == PSOutside("sample")
    <2>1. p \in PSType /\ p.pc = "sample"
      BY PSOutsideType DEF PSOutside
    <2>2. ps' = [ps EXCEPT ![g] = [p EXCEPT !.st = "SCANNING"]] /\ "SCANNING" \in PSStates
      BY DEF RestartScan, PSStates
    <2> HIDE DEF p
    <2>3. [p EXCEPT !.st = "SCANNING"] \in PSType /\ [p EXCEPT !.st = "SCANNING"].pc = "sample"
      BY <2>1, <2>2 DEF PSType
    <2> QED BY <1>0, <2>2, <2>3
  <1>2. /\ group' \in [Groups -> GroupType]
        /\ \A h \in Groups \ {g} : group'[h].SelectedInterface = group[h].SelectedInterface
    <2> DEFINE T == SetGroupSelectedIface(group, g, NoIface)
    <2>1. T \in [Groups -> GroupType] /\ \A h \in Groups \ {g} : T[h] = group[h]
      BY <1>0, SelectedFields, SetGroupSelectedIfaceType
    <2>2. group' = [T EXCEPT ![g].ResetSelectedInterface = FALSE]
      BY DEF RestartScan
    <2> HIDE DEF T
    <2> QED BY <2>1, <2>2 DEF GroupType
  <1>3. config' \in ConfigType
    BY <1>0 DEF RestartScan, ConfigType
  <1> DEFINE a(i) == IF iface[i].Group = g THEN [iface[i] EXCEPT !.ActiveLink = FALSE]
                     ELSE iface[i]
             r(i) == IF i = ps[g].idx THEN [a(i) EXCEPT !.Selection = "VALIDATING"]
                     ELSE a(i)
  <1>4. iface' = [i \in Ifaces |-> r(i)]
    BY DEF RestartScan
  <1>5. \A i \in Ifaces : /\ a(i) \in IfaceType /\ a(i).Group = iface[i].Group
                          /\ a(i).Selection = iface[i].Selection
    BY <1>0 DEF IfaceType
  <1> HIDE DEF a
  <1>6. \A i \in Ifaces : /\ r(i) \in IfaceType /\ r(i).Group = iface[i].Group
                          /\ r(i).Selection = IF i = ps[g].idx THEN "VALIDATING"
                                              ELSE iface[i].Selection
    <2>1. "VALIDATING" \in SelectionStates
      BY DEF SelectionStates
    <2> QED BY <1>5, <2>1 DEF IfaceType
  <1> HIDE DEF r
  <1>7. SelectionTypeOK'
    BY <1>0, <1>1, <1>2, <1>3, <1>4, <1>6
    DEF SelectionTypeOK, DataTypeOK, ISMTypeOK, PSTypeOK
  <1>8. \A i \in Ifaces :
           /\ iface'[i].Group = iface[i].Group
           /\ Chosen(i)' => Chosen(i) /\ iface[i].Group # g
    <2> TAKE i \in Ifaces
    <2>1. iface[i].Group = g /\ Chosen(i) => i = ps[g].idx
      BY DEF SelectionInv, ChosenIsHeld
    <2> QED BY <1>4, <1>6, <2>1 DEF Chosen
  <1> QED BY <1>1, <1>2, <1>7, <1>8, OneGroupChanges

LEMMA ExitKeeps ==
    ASSUME SelectionInv, NEW g \in Groups, PSExit(g)
    PROVE  SelectionInv'
  <1>0. /\ DataTypeOK /\ ISMTypeOK /\ PSTypeOK
        /\ config \in ConfigType /\ group \in [Groups -> GroupType]
        /\ ps \in [Groups -> PSType] /\ ps[g].cfg \in BOOLEAN
    BY DEF SelectionInv, SelectionTypeOK, DataTypeOK, PSTypeOK, PSType
  <1>1. /\ ps' \in [Groups -> PSType] /\ ps'[g].st = "SCANNING"
        /\ \A h \in Groups \ {g} : ps'[h] = ps[h]
    <2>1. PSOutside("none").st = "SCANNING"
      BY DEF PSOutside
    <2> QED BY <1>0, <2>1, PSOutsideType DEF PSExit
  <1>2. config' \in ConfigType
    BY <1>0 DEF PSExit, ConfigType
  <1>3. /\ group' \in [Groups -> GroupType]
        /\ \A h \in Groups \ {g} : group'[h].SelectedInterface = group[h].SelectedInterface
    <2> DEFINE s == IF group[g].State = "DEACTIVATED" THEN group[g].State ELSE "STOPPED"
    <2>1. s \in GroupStates
      BY DEF GroupStates
    <2>2. group' = [group EXCEPT ![g] = [group[g] EXCEPT !.SelectedInterface = NoIface,
                                            !.ConfigChanged = FALSE, !.State = s]]
      BY <1>0 DEF PSExit, GroupType
    <2> HIDE DEF s
    <2>3. [group[g] EXCEPT !.SelectedInterface = NoIface, !.ConfigChanged = FALSE,
                           !.State = s] \in GroupType
      BY <1>0, <2>1 DEF GroupType
    <2> QED BY <1>0, <2>2, <2>3
  <1>4. iface' = iface /\ ism' = ism
    BY DEF PSExit
  <1>5. SelectionTypeOK'
    BY <1>0, <1>1, <1>2, <1>3, <1>4
    DEF SelectionTypeOK, DataTypeOK, ISMTypeOK, PSTypeOK
  <1>6. \A i \in Ifaces : iface[i].Group = g => ~ Chosen(i)
    BY DEF PSExit, PSHandling, SelectionInv, NoneChosen, InterfaceAvailable
  <1> QED BY <1>1, <1>3, <1>4, <1>5, <1>6, OneGroupChanges DEF Chosen

-----------------------------------------------------------------------------
(* The other steps of the selection thread.                                  *)

\* A step to a state in which the choice stands.
LEMMA GotoKeeps ==
    ASSUME SelectionInv, NEW g \in Groups, NEW s \in PSStates,
           PSGoto(g, s), ps[g].st \in Unchosen \/ s \notin Unchosen,
           iface' = iface, group' \in [Groups -> GroupType], config' \in ConfigType,
           \A h \in Groups : group'[h].SelectedInterface = group[h].SelectedInterface,
           ISMTypeOK'
    PROVE  SelectionInv'
  <1>0. DataTypeOK /\ PSTypeOK /\ iface \in [Ifaces -> IfaceType]
    BY DEF SelectionInv, SelectionTypeOK, DataTypeOK
  <1>1. /\ PSTypeOK' /\ ps'[g].pc = "sample" /\ ps'[g].st = s /\ ps'[g].idx = ps[g].idx
        /\ \A h \in Groups \ {g} : ps'[h] = ps[h]
    BY <1>0, PSGotoType
  <1>2. SelectionTypeOK'
    BY <1>0, <1>1 DEF SelectionTypeOK, DataTypeOK
  <1>3. ASSUME NEW i \in Ifaces, Chosen(i), iface[i].Group = g
        PROVE  /\ group[g].SelectedInterface = i /\ ps[g].idx = i
               /\ ps[g].st \notin Unchosen
    BY <1>3 DEF SelectionInv, ChosenIsHeld, NoneChosen, InterfaceAvailable, Unchosen
  <1> QED BY <1>1, <1>2, <1>3, OneGroupChanges DEF Chosen

LEMMA NewConnectionKeeps ==
    ASSUME SelectionInv, NEW g \in Groups, ps[g].st = "SCANNING",
           NEW idx \in Ifaces \cup {NoIface},
           ps' = [ps EXCEPT ![g] = [ScanStart(ps[g]) EXCEPT !.pc = "sample", !.en = FALSE,
                                       !.cfg = FALSE, !.rst = FALSE, !.idx = idx]],
           \/ UNCHANGED <<iface, ism>>
           \/ \E i \in Connectable(g) : NewInterfaceConnected(g, i),
           UNCHANGED <<config, group>>
    PROVE  SelectionInv'
  <1>0. /\ DataTypeOK /\ ISMTypeOK /\ PSTypeOK
        /\ iface \in [Ifaces -> IfaceType] /\ ps \in [Groups -> PSType]
    BY DEF SelectionInv, SelectionTypeOK, DataTypeOK, PSTypeOK
  <1>1. /\ PSTypeOK' /\ ps'[g].pc = "sample"
        /\ \A h \in Groups \ {g} : ps'[h] = ps[h]
    <2> DEFINE r == ScanStart(ps[g])
               r2 == [r EXCEPT !.pc = "sample", !.en = FALSE, !.cfg = FALSE, !.rst = FALSE,
                               !.idx = idx]
    <2>1. ps' = [ps EXCEPT ![g] = r2] /\ r \in PSType
      BY <1>0, ScanStartType
    <2> HIDE DEF r
    <2>2. r2 \in PSType /\ r2.pc = "sample"
      BY <2>1 DEF PSType
    <2> HIDE DEF r2
    <2> QED BY <1>0, <2>1, <2>2 DEF PSTypeOK
  <1>2. /\ iface' \in [Ifaces -> IfaceType] /\ ISMTypeOK'
        /\ \A i \in Ifaces : /\ iface'[i].Group = iface[i].Group
                             /\ Chosen(i)' => Chosen(i)
    <2>1. CASE UNCHANGED <<iface, ism>>
      BY <1>0, <2>1 DEF ISMTypeOK, Chosen
    <2>2. ASSUME NEW i \in Connectable(g), NewInterfaceConnected(g, i)
          PROVE  /\ iface' \in [Ifaces -> IfaceType] /\ ISMTypeOK'
                 /\ \A j \in Ifaces : /\ iface'[j].Group = iface[j].Group
                                      /\ Chosen(j)' => Chosen(j)
      <3>1. i \in Ifaces /\ "VALIDATING" \in SelectionStates
        BY DEF Connectable, InterfaceAvailable, SelectionStates
      <3>2. iface' = [iface EXCEPT ![i].Selection = "VALIDATING"] /\ ism' = StartISM(i)
        BY <2>2 DEF NewInterfaceConnected
      <3>3. iface' \in [Ifaces -> IfaceType]
        BY <1>0, <3>1, <3>2, IfaceWriteType
      <3>4. ISMTypeOK'
        BY <1>0, <3>1, <3>2, StartISMType DEF ISMTypeOK
      <3>5. \A j \in Ifaces : /\ iface'[j].Group = iface[j].Group
                              /\ Chosen(j)' => Chosen(j)
        BY <1>0, <3>1, <3>2 DEF IfaceType, Chosen
      <3> QED BY <3>3, <3>4, <3>5
    <2> QED BY <2>1, <2>2
  <1>3. SelectionTypeOK'
    BY <1>0, <1>1, <1>2 DEF SelectionTypeOK, DataTypeOK
  <1>4. \A i \in Ifaces : iface[i].Group = g => ~ Chosen(i)
    BY DEF SelectionInv, NoneChosen, InterfaceAvailable
  <1> QED BY <1>1, <1>2, <1>3, <1>4, OneGroupChanges

LEMMA PSNextKeeps ==
    ASSUME SelectionInv, NEW g \in Groups, PSNext(g)
    PROVE  SelectionInv'
  <1>0. /\ DataTypeOK /\ ISMTypeOK /\ PSTypeOK
        /\ config \in ConfigType /\ group \in [Groups -> GroupType]
        /\ iface \in [Ifaces -> IfaceType] /\ ps \in [Groups -> PSType]
        /\ ps[g] \in PSType
    BY DEF SelectionInv, SelectionTypeOK, DataTypeOK, PSTypeOK
  <1>1. CASE PSStart(g)
    <2>1. /\ ps' = [ps EXCEPT ![g].pc = "sample"] /\ ps[g].pc = "start"
          /\ group' = [group EXCEPT ![g].InitialScanComplete = TRUE]
          /\ UNCHANGED <<config, iface, ism>>
      BY <1>1 DEF PSStart
    <2> DEFINE r == [ps[g] EXCEPT !.pc = "sample"]
    <2>a. ps' = [ps EXCEPT ![g] = r]
      BY <1>0, <2>1
    <2>b. r \in PSType /\ r.st = ps[g].st /\ r.idx = ps[g].idx /\ r.pc = "sample"
      BY <1>0 DEF PSType
    <2> HIDE DEF r
    <2>c. ps' \in [Groups -> PSType]
      BY <1>0, <2>a, <2>b
    <2>d. group' \in [Groups -> GroupType]
      BY <1>0, <2>1 DEF GroupType
    <2>2. ps' \in [Groups -> PSType] /\ group' \in [Groups -> GroupType]
      BY <2>c, <2>d
    <2>3. SelectionTypeOK'
      BY <1>0, <2>1, <2>2 DEF SelectionTypeOK, DataTypeOK, ISMTypeOK, PSTypeOK
    <2>4. \A h \in Groups : /\ ps'[h].st = ps[h].st /\ ps'[h].idx = ps[h].idx
                            /\ ps'[h].pc = "none" => ps[h].pc = "none"
                            /\ group'[h].SelectedInterface = group[h].SelectedInterface
      BY <1>0, <2>1, <2>a, <2>b DEF GroupType
    <2> QED BY <2>1, <2>3, <2>4, NoGroupChanges DEF Chosen
  <1>2. CASE PSUpdateControllerData(g)
    <2> DEFINE r == [ps[g] EXCEPT !.pc = "state", !.en = config.Enable,
                                  !.cfg = group[g].ConfigChanged,
                                  !.rst = group[g].ResetSelectedInterface]
    <2>1. ps' = [ps EXCEPT ![g] = r] /\ UNCHANGED <<config, group, iface, ism>>
      BY <1>0, <1>2 DEF PSUpdateControllerData, PSType
    <2>2. /\ config.Enable \in BOOLEAN /\ group[g].ConfigChanged \in BOOLEAN
          /\ group[g].ResetSelectedInterface \in BOOLEAN
      BY <1>0 DEF ConfigType, GroupType
    <2>3. r \in PSType /\ r.st = ps[g].st /\ r.idx = ps[g].idx /\ r.pc = "state"
      BY <1>0, <2>2 DEF PSType
    <2> HIDE DEF r
    <2>4. SelectionTypeOK'
      BY <1>0, <2>1, <2>3 DEF SelectionTypeOK, DataTypeOK, ISMTypeOK, PSTypeOK
    <2> QED BY <1>0, <2>1, <2>3, <2>4, NoGroupChanges DEF Chosen
  <1>3. CASE PSScan(g)
    <2> DEFINE i == ps[g].pos
    <2>1. /\ ps[g].pc = "state" /\ ps[g].st = "SCANNING" /\ i <= NIfaces
          /\ ps' = [ps EXCEPT ![g] = IF iface[i].Group = g /\ iface[i].Enable
                               THEN Scanned(ps[g], i) ELSE [ps[g] EXCEPT !.pos = i + 1]]
          /\ UNCHANGED <<config, group, iface, ism>>
      BY <1>0, <1>3 DEF PSScan, PSHandling
    <2>2. i \in Ifaces /\ i + 1 \in 1 .. NIfaces + 1
      BY <1>0, <2>1, SizesAssumption DEF PSType, Ifaces
    <2>3. /\ Scanned(ps[g], i) \in PSType
          /\ Scanned(ps[g], i).pc = "state" /\ Scanned(ps[g], i).st = "SCANNING"
      BY <1>0, <2>1, <2>2, ScannedType
    <2>4. LET r == [ps[g] EXCEPT !.pos = i + 1]
          IN  r \in PSType /\ r.pc = "state" /\ r.st = "SCANNING"
      BY <1>0, <2>1, <2>2 DEF PSType
    <2>5. PSTypeOK' /\ ps'[g].pc = "state" /\ \A h \in Groups \ {g} : ps'[h] = ps[h]
      BY <1>0, <2>1, <2>3, <2>4 DEF PSTypeOK
    <2>6. SelectionTypeOK'
      BY <1>0, <2>1, <2>5 DEF SelectionTypeOK, DataTypeOK, ISMTypeOK
    <2>7. \A j \in Ifaces : iface[j].Group = g => ~ Chosen(j)
      BY <2>1 DEF SelectionInv, NoneChosen, InterfaceAvailable
    <2> QED BY <2>1, <2>5, <2>6, <2>7, OneGroupChanges DEF Chosen
  <1>4. CASE PSScanned(g)
    <2>1. ps[g].pc = "state" /\ ps[g].st = "SCANNING" /\ config' = config
      BY <1>4 DEF PSScanned, PSHandling
    <2>2. CASE TearingDown(g) /\ UNCHANGED ism
      BY <2>1, <2>2, TearingDownKeeps
    <2>3. CASE SelectingInterface(g)
      BY <2>1, <2>3, SelectingKeeps
    <2>4. CASE ~ (TearingDown(g) /\ UNCHANGED ism) /\ ~ SelectingInterface(g)
      <3> DEFINE sc == ScanStart(ps[g])
                 idx == IF ps[g].hv # NoIface THEN NoIface ELSE sc.idx
      <3>1. /\ ps' = [ps EXCEPT ![g] = [ScanStart(ps[g]) EXCEPT !.pc = "sample", !.en = FALSE,
                        !.cfg = FALSE, !.rst = FALSE,
                        !.idx = IF ps[g].hv # NoIface THEN NoIface ELSE @]]
            /\ \/ UNCHANGED <<iface, ism>>
               \/ \E i \in Connectable(g) : NewInterfaceConnected(g, i)
            /\ UNCHANGED <<config, group>>
        BY <1>4, <2>4 DEF PSScanned
      <3>2. sc \in PSType /\ sc.idx = ps[g].idx
        BY <1>0, ScanStartType
      <3>3. ps' = [ps EXCEPT ![g] = [sc EXCEPT !.pc = "sample", !.en = FALSE,
                        !.cfg = FALSE, !.rst = FALSE, !.idx = idx]]
        <4> HIDE DEF sc
        <4>1. ps' = [ps EXCEPT ![g] = [sc EXCEPT !.pc = "sample", !.en = FALSE,
                        !.cfg = FALSE, !.rst = FALSE,
                        !.idx = IF ps[g].hv # NoIface THEN NoIface ELSE @]]
          BY <3>1 DEF sc
        <4> QED BY <4>1
      <3>4. idx \in Ifaces \cup {NoIface}
        BY <1>0, <3>2 DEF PSType
      <3> HIDE DEF idx
      <3> QED BY <2>1, <3>1, <3>3, <3>4, NewConnectionKeeps
    <2> QED BY <2>2, <2>3, <2>4
  <1>5. CASE PSCheckReconfiguration(g)
    <2>1. ps[g].pc = "state" /\ ps[g].st = "CHECK_RECONFIGURATION" /\ UNCHANGED <<config, ism>>
      BY <1>5 DEF PSCheckReconfiguration, PSHandling
    <2>2. CASE TearingDown(g)
      BY <2>1, <2>2, TearingDownKeeps
    <2>3. ASSUME NEW s \in {"RECONFIGURE_PLATFORM", "SELECTED_UP"}, PSGoto(g, s),
                 UNCHANGED <<group, iface>>
          PROVE  SelectionInv'
      <3>1. s \in PSStates /\ s \notin Unchosen
        BY DEF PSStates, Unchosen
      <3> QED BY <1>0, <2>1, <2>3, <3>1, GotoKeeps DEF ISMTypeOK
    <2> QED BY <1>5, <2>2, <2>3 DEF PSCheckReconfiguration
  <1>6. CASE PSReconfigurePlatform(g)
    <2> DEFINE s == IF ps[g].idx \in RequiresReboot THEN "REBOOT" ELSE "SELECTED_UP"
    <2>1. /\ ps[g].st = "RECONFIGURE_PLATFORM" /\ PSGoto(g, s)
          /\ UNCHANGED <<config, group, iface, ism>>
      BY <1>6 DEF PSReconfigurePlatform, PSHandling
    <2>2. s \in PSStates /\ s \notin Unchosen
      BY DEF PSStates, Unchosen
    <2> HIDE DEF s
    <2> QED BY <1>0, <2>1, <2>2, GotoKeeps DEF ISMTypeOK
  <1>7. CASE PSSelectedInterfaceUp(g)
    <2>1. ps[g].pc = "state" /\ ps[g].st = "SELECTED_UP" /\ ism' = ism
      BY <1>7 DEF PSSelectedInterfaceUp, PSHandling
    <2>2. CASE TearingDown(g) /\ UNCHANGED config
      BY <2>1, <2>2, TearingDownKeeps
    <2>3. CASE RestartScan(g)
      BY <2>1, <2>3, RestartScanKeeps
    <2>4. ASSUME NEW s \in {"SELECTED_UP", "SELECTED_DOWN"}, PSGoto(g, s),
                 group' = [group EXCEPT ![g].ResetSelectedInterface = @ /\ ~ ps[g].rst],
                 UNCHANGED <<config, iface>>
          PROVE  SelectionInv'
      <3> DEFINE b == group[g].ResetSelectedInterface /\ ~ ps[g].rst
      <3>1. s \in PSStates /\ s \notin Unchosen
        BY DEF PSStates, Unchosen
      <3>2. group' = [group EXCEPT ![g].ResetSelectedInterface = b] /\ b \in BOOLEAN
        BY <1>0, <2>4 DEF GroupType
      <3> HIDE DEF b
      <3>3. /\ group' \in [Groups -> GroupType]
            /\ \A h \in Groups : group'[h].SelectedInterface = group[h].SelectedInterface
        BY <1>0, <3>2 DEF GroupType
      <3> QED BY <1>0, <2>1, <2>4, <3>1, <3>3, GotoKeeps DEF ISMTypeOK
    <2> QED BY <1>7, <2>2, <2>3, <2>4 DEF PSSelectedInterfaceUp
  <1>8. CASE PSSelectedInterfaceDown(g)
    <2>1. ps[g].pc = "state" /\ ps[g].st = "SELECTED_DOWN"
      BY <1>8 DEF PSSelectedInterfaceDown, PSHandling
    <2>2. CASE TearingDown(g) /\ UNCHANGED <<config, ism>>
      BY <2>1, <2>2, TearingDownKeeps
    <2>3. CASE RestartScan(g) /\ UNCHANGED ism
      BY <2>3, RestartScanKeeps
    <2>4. CASE PSGoto(g, "SELECTED_DOWN") /\ UNCHANGED <<config, group, iface, ism>>
      <3>1. "SELECTED_DOWN" \in PSStates /\ "SELECTED_DOWN" \notin Unchosen
        BY DEF PSStates, Unchosen
      <3> QED BY <1>0, <2>1, <2>4, <3>1, GotoKeeps DEF ISMTypeOK
    <2>5. CASE /\ Returns(ps[g].idx) /\ PSGoto(g, "SELECTED_UP")
               /\ \E k \in ISMSlots : ~ ISMLive(ps[g].idx, k)
               /\ ism' = StartISM(ps[g].idx)
               /\ UNCHANGED <<config, group, iface>>
      <3>1. "SELECTED_UP" \in PSStates /\ "SELECTED_UP" \notin Unchosen
        BY DEF PSStates, Unchosen
      <3>2. ISMTypeOK'
        <4>1. CASE ps[g].idx \in Ifaces
          BY <1>0, <2>5, <4>1, StartISMType DEF ISMTypeOK
        <4>2. CASE ps[g].idx \notin Ifaces
          <5>1. ism \in [Ifaces -> [ISMSlots -> ISMType]]
            BY <1>0 DEF ISMTypeOK
          <5>2. \A x : x \notin Ifaces => \A f : [ism EXCEPT ![x] = f] = ism
            BY <5>1
          <5> QED BY <2>5, <4>2, <5>1, <5>2 DEF StartISM, ISMTypeOK
        <4> QED BY <4>1, <4>2
      <3> QED BY <1>0, <2>1, <2>5, <3>1, <3>2, GotoKeeps
    <2> QED BY <1>8, <2>2, <2>3, <2>4, <2>5 DEF PSSelectedInterfaceDown
  <1>9. CASE PSInterfaceTearDown(g)
    <2>1. PICK s \in {"POLICY_EXIT", "TEAR_DOWN"} :
             /\ ps[g].st = "TEAR_DOWN" /\ PSGoto(g, s)
             /\ UNCHANGED <<config, group, iface, ism>>
      BY <1>9 DEF PSInterfaceTearDown, PSHandling
    <2>2. s \in PSStates /\ "TEAR_DOWN" \in Unchosen
      BY DEF PSStates, Unchosen
    <2> QED BY <1>0, <2>1, <2>2, GotoKeeps DEF ISMTypeOK
  <1>10. CASE PSExit(g)
    BY <1>10, ExitKeeps
  <1> QED BY <1>1, <1>2, <1>3, <1>4, <1>5, <1>6, <1>7, <1>8, <1>9, <1>10 DEF PSNext

-----------------------------------------------------------------------------
(* The steps of the others.                                                  *)

\* A state machine does not touch the choice.
LEMMA MachineKeepsChoice ==
    ASSUME DataTypeOK, NEW i \in Ifaces, NEW k \in ISMSlots, ISMNext(i, k)
    PROVE  /\ group' = group
           /\ \A j \in Ifaces : /\ iface'[j].Group = iface[j].Group
                                /\ iface'[j].Selection = iface[j].Selection
  <1>0. iface \in [Ifaces -> IfaceType]
    BY DEF DataTypeOK
  <1>1. group' = group
    BY DEF ISMNext, ISMControl, ISMDisturbed, ISMStart, ISMSample, ISMDown, ISMReset,
           PhysicalInterfaceDown, ISMValidated, ISMStandby, ISMUp, ISMDeactivated,
           ISMRefreshAborted, ISMRefreshed, ISMExit, ISMEnd, ISMLinkLost,
           ISMLeaseLost, ISMWanUp, ISMFeatureSwitched, ISMModeChanged
  <1>2. ASSUME NEW j \in Ifaces
        PROVE  iface'[j].Group = iface[j].Group /\ iface'[j].Selection = iface[j].Selection
    BY <1>0 DEF ISMNext, ISMControl, ISMDisturbed, ISMStart, ISMSample, ISMDown, ISMReset,
           PhysicalInterfaceDown, ISMValidated, ISMStandby, ISMUp, ISMDeactivated,
           ISMRefreshAborted, ISMRefreshed, ISMExit, ISMEnd, ISMLinkLost,
           ISMLeaseLost, ISMWanUp, ISMFeatureSwitched, ISMModeChanged, IfaceType
  <1> QED BY <1>1, <1>2

LEMMA MachineKeeps ==
    ASSUME SelectionInv, NEW i \in Ifaces, NEW k \in ISMSlots, ISMNext(i, k), ps' = ps
    PROVE  SelectionInv'
  <1>0. DataTypeOK /\ ISMTypeOK /\ PSTypeOK
    BY DEF SelectionInv, SelectionTypeOK
  <1>1. SelectionTypeOK'
    BY <1>0, ISMDataType DEF SelectionTypeOK, PSTypeOK
  <1> QED BY <1>0, <1>1, MachineKeepsChoice, NoGroupChanges DEF Chosen

\* Neither does a write of the data model, as long as the groups stay.
LEMMA EnvironmentKeeps ==
    ASSUME SelectionInv, GroupsStay, Environment, UNCHANGED <<ism, ps>>
    PROVE  SelectionInv'
  <1>0. /\ DataTypeOK /\ ISMTypeOK /\ PSTypeOK
        /\ group \in [Groups -> GroupType] /\ iface \in [Ifaces -> IfaceType]
    BY DEF SelectionInv, SelectionTypeOK, DataTypeOK
  <1>1. SelectionTypeOK'
    BY <1>0, EnvironmentDataType DEF SelectionTypeOK, PSTypeOK, ISMTypeOK
  <1>a. \A i \in Ifaces : ~ SetSelectionGroup(i)
    BY DEF GroupsStay, SetSelectionGroup
  <1> DEFINE Same == \A j \in Ifaces : /\ iface'[j].Group = iface[j].Group
                                       /\ iface'[j].Selection = iface[j].Selection
  <1>2. Same
    <2>1. CASE iface' = iface
      BY <2>1
    <2>2. ASSUME NEW i \in Ifaces, NEW b,
                 \/ iface' = [iface EXCEPT ![i].Enable = b]
                 \/ iface' = [iface EXCEPT ![i].PhyUp = b]
                 \/ iface' = [iface EXCEPT ![i].Connectivity = b]
                 \/ iface' = [iface EXCEPT ![i].Reset = b]
          PROVE  Same
      BY <1>0, <2>2 DEF IfaceType
    <2>3. \A i \in Ifaces : SetSelectionEnable(i) =>
                               iface' = [iface EXCEPT ![i].Enable = ~ iface[i].Enable]
      BY DEF SetSelectionEnable
    <2>4. \A i \in Ifaces : SetBaseInterfaceStatus(i) =>
                               iface' = [iface EXCEPT ![i].PhyUp = ~ iface[i].PhyUp]
      BY DEF SetBaseInterfaceStatus
    <2>5. \A i \in Ifaces : SetConnectivityStatus(i) =>
                iface' = [iface EXCEPT ![i].Connectivity = ~ iface[i].Connectivity]
      BY DEF SetConnectivityStatus
    <2>6. \A i \in Ifaces : SetInterfaceReset(i) =>
                               iface' = [iface EXCEPT ![i].Reset = ~ iface[i].Reset]
      BY DEF SetInterfaceReset
    <2>7. \/ SetWanEnable
          \/ \E g \in Groups : \/ SetResetSelectedInterface(g) \/ SetPolicy(g)
                               \/ ClearResetSelectedInterface(g)
          => iface' = iface
      BY DEF SetWanEnable, SetResetSelectedInterface, ClearResetSelectedInterface, SetPolicy
    <2> QED BY <1>a, <2>1, <2>2, <2>3, <2>4, <2>5, <2>6, <2>7 DEF Environment
  <1>3. \A h \in Groups : group'[h].SelectedInterface = group[h].SelectedInterface
    <2>1. CASE group' = group
      BY <2>1
    <2>2. ASSUME NEW g \in Groups,
                 \/ SetResetSelectedInterface(g) \/ SetPolicy(g)
                 \/ ClearResetSelectedInterface(g)
          PROVE  \A h \in Groups :
                    group'[h].SelectedInterface = group[h].SelectedInterface
      BY <1>0, <2>2 DEF SetResetSelectedInterface, ClearResetSelectedInterface,
                        SetPolicy, GroupType
    <2>3. \/ SetWanEnable
          \/ \E i \in Ifaces : \/ SetSelectionEnable(i) \/ SetBaseInterfaceStatus(i)
                               \/ SetConnectivityStatus(i) \/ SetInterfaceReset(i)
          => group' = group
      BY DEF SetWanEnable, SetSelectionEnable, SetBaseInterfaceStatus,
             SetConnectivityStatus, SetInterfaceReset
    <2> QED BY <1>a, <2>1, <2>2, <2>3 DEF Environment
  <1> QED BY <1>1, <1>2, <1>3, NoGroupChanges DEF Chosen

\* The failover thread starts the selection thread of a group.
LEMMA StartThreadKeeps ==
    ASSUME SelectionInv, NEW g \in Groups, StartThread(g)
    PROVE  SelectionInv'
  <1>0. /\ DataTypeOK /\ ISMTypeOK /\ PSTypeOK
        /\ group \in [Groups -> GroupType] /\ ps \in [Groups -> PSType]
    BY DEF SelectionInv, SelectionTypeOK, DataTypeOK, PSTypeOK
  <1>1. /\ ps' \in [Groups -> PSType] /\ ps'[g].st = "SCANNING"
        /\ \A h \in Groups \ {g} : ps'[h] = ps[h]
    <2>1. PSOutside("start").st = "SCANNING"
      BY DEF PSOutside
    <2> QED BY <1>0, <2>1, PSOutsideType DEF StartThread
  <1>2. /\ group' \in [Groups -> GroupType]
        /\ \A h \in Groups : group'[h].SelectedInterface = group[h].SelectedInterface
    <2> DEFINE r == [group[g] EXCEPT !.State = "RUNNING", !.ConfigChanged = FALSE,
                                     !.InitialScanComplete = FALSE, !.Activated = FALSE]
    <2>1. group' = [group EXCEPT ![g] = r]
      BY <1>0 DEF StartThread
    <2>2. r \in GroupType /\ r.SelectedInterface = group[g].SelectedInterface
      BY <1>0 DEF GroupType, GroupStates
    <2> HIDE DEF r
    <2> QED BY <1>0, <2>1, <2>2
  <1>3. SelectionTypeOK'
    BY <1>0, <1>1, <1>2
    DEF StartThread, SelectionTypeOK, DataTypeOK, ISMTypeOK, PSTypeOK
  <1>4. \A i \in Ifaces : iface[i].Group = g => ~ Chosen(i)
    BY DEF StartThread, SelectionInv, Unstarted, NoneChosen, InterfaceAvailable
  <1>5. iface' = iface
    BY DEF StartThread
  <1> QED BY <1>1, <1>2, <1>3, <1>4, <1>5, OneGroupChanges DEF Chosen

\* It switches an interface that is chosen, and remains so.
LEMMA SwitchKeeps ==
    ASSUME SelectionInv, NEW g \in Groups, Activate(g) \/ Deactivate(g)
    PROVE  SelectionInv'
  <1>0. /\ DataTypeOK /\ ISMTypeOK /\ PSTypeOK
        /\ group \in [Groups -> GroupType] /\ iface \in [Ifaces -> IfaceType]
    BY DEF SelectionInv, SelectionTypeOK, DataTypeOK, PSTypeOK
  <1>1. PICK i \in Ifaces, s \in {"SELECTED", "ACTIVE"} :
           Chosen(i) /\ iface' = [iface EXCEPT ![i].Selection = s]
    BY <1>0 DEF Activate, Deactivate, Chosen, GroupType
  <1>2. /\ iface' \in [Ifaces -> IfaceType]
        /\ \A j \in Ifaces : iface'[j].Group = iface[j].Group /\ (Chosen(j)' => Chosen(j))
    <2>1. s \in SelectionStates
      BY DEF SelectionStates
    <2>2. iface' \in [Ifaces -> IfaceType]
      BY <1>0, <1>1, <2>1, IfaceWriteType
    <2> QED BY <1>0, <1>1, <2>2 DEF IfaceType, Chosen
  <1>3. /\ group' \in [Groups -> GroupType]
        /\ \A h \in Groups : group'[h].SelectedInterface = group[h].SelectedInterface
    <2>1. group' = group \/ group' = [group EXCEPT ![g].Activated = TRUE]
      BY DEF Activate, Deactivate
    <2>2. [group EXCEPT ![g].Activated = TRUE] \in [Groups -> GroupType]
      BY <1>0 DEF GroupType
    <2>3. group' \in [Groups -> GroupType]
      BY <1>0, <2>1, <2>2
    <2> QED BY <1>0, <2>1, <2>3 DEF GroupType
  <1>4. UNCHANGED <<config, ism, ps>>
    BY DEF Activate, Deactivate
  <1>5. SelectionTypeOK'
    BY <1>0, <1>2, <1>3, <1>4 DEF SelectionTypeOK, DataTypeOK, ISMTypeOK, PSTypeOK
  <1> QED BY <1>2, <1>3, <1>4, <1>5, NoGroupChanges

LEMMA TimeOutKeeps ==
    ASSUME SelectionInv, NEW g \in Groups, PSTimeOut(g)
    PROVE  SelectionInv'
  <1>0. /\ DataTypeOK /\ ISMTypeOK /\ ps \in [Groups -> PSType]
    BY DEF SelectionInv, SelectionTypeOK, PSTypeOK
  <1>1. /\ ps' \in [Groups -> PSType]
        /\ \A h \in Groups : /\ ps'[h].st = ps[h].st /\ ps'[h].idx = ps[h].idx
                             /\ ps'[h].pc = ps[h].pc
    <2> DEFINE r == [ps[g] EXCEPT !.expired = TRUE]
    <2>1. ps' = [ps EXCEPT ![g] = r]
      BY <1>0 DEF PSTimeOut
    <2>2. r \in PSType /\ r.st = ps[g].st /\ r.idx = ps[g].idx /\ r.pc = ps[g].pc
      BY <1>0, ZenonT(30) DEF PSType
    <2> HIDE DEF r
    <2> QED BY <1>0, <2>1, <2>2
  <1>2. UNCHANGED <<config, group, iface, ism>>
    BY DEF PSTimeOut
  <1>3. SelectionTypeOK'
    BY <1>0, <1>1, <1>2 DEF SelectionTypeOK, DataTypeOK, ISMTypeOK, PSTypeOK
  <1> QED BY <1>1, <1>2, <1>3, NoGroupChanges DEF Chosen

-----------------------------------------------------------------------------
LEMMA SelectionStarts == MCInit => SelectionInv
  <1> SUFFICES ASSUME MCInit PROVE SelectionInv
    OBVIOUS
  <1>1. config \in ConfigType
    BY DEF MCInit, PSInit, InitConfig, ConfigType
  <1>2. group \in [Groups -> GroupType]
    BY DEF MCInit, PSInit, InitGroups, GroupType, GroupStates
  <1>3. iface \in [Ifaces -> IfaceType]
    BY TablesAssumption DEF MCInit, PSInit, IfaceType, SelectionStates, IfaceStatuses
  <1>4. ISMTypeOK
    BY DEF MCInit, PSInit, ISMInit, ISMTypeOK, ISMType, NoISM, ISMPhases
  <1>5. ps \in [Groups -> PSType] /\ \A g \in Groups : ps[g].st = "SCANNING"
    <2>1. PSOutside("none") \in PSType /\ PSOutside("none").st = "SCANNING"
      BY PSOutsideType DEF PSOutside
    <2> QED BY <2>1 DEF MCInit, PSInit
  <1>6. \A i \in Ifaces : ~ Chosen(i)
    BY DEF MCInit, PSInit, Chosen
  <1> QED BY <1>1, <1>2, <1>3, <1>4, <1>5, <1>6
          DEF SelectionInv, SelectionTypeOK, DataTypeOK, PSTypeOK, NoneChosen,
              InterfaceAvailable, ChosenIsHeld, Unstarted

LEMMA SelectionNext == SelectionInv /\ GroupsStay /\ [MCNext]_mcvars => SelectionInv'
  <1> SUFFICES ASSUME SelectionInv, GroupsStay, [MCNext]_mcvars PROVE SelectionInv'
    OBVIOUS
  <1>1. CASE ScanThreads
    BY <1>1, PSNextKeeps, TimeOutKeeps, MachineKeeps, StartThreadKeeps, SwitchKeeps
    DEF ScanThreads, ISMNext
  <1>2. CASE ScanEvents
    BY <1>2, EnvironmentKeeps, MachineKeeps, SwitchKeeps DEF ScanEvents, ISMNext
  <1>3. CASE UNCHANGED mcvars
    BY <1>3 DEF mcvars, SelectionInv, SelectionTypeOK, DataTypeOK, ISMTypeOK, PSTypeOK,
                NoneChosen, InterfaceAvailable, ChosenIsHeld, Unstarted, Chosen
  <1> QED BY <1>1, <1>2, <1>3 DEF MCNext

\* An interface that is SELECTED or ACTIVE is the one the failover thread is
\* told of and the one the selection thread holds: whatever the interleaving of
\* the threads, a rescan, a time out or a teardown (Transition_SelectingInterface,
\* Transition_RestartScan, Transition_TearingDown) leaves no second one in
\* service, and none behind when the thread ends.
THEOREM OneSelection == GroupsStay /\ MCSpec => []SelectionConsistent
  <1> SUFFICES ASSUME GroupsStay PROVE MCSpec => []SelectionConsistent
    OBVIOUS
  <1>1. SelectionInv => SelectionConsistent
    BY DEF SelectionInv, SelectionTypeOK, DataTypeOK, IfaceType, SelectionConsistent,
           ChosenIsHeld, NoneChosen, Unstarted, Chosen, InterfaceAvailable
  <1> QED BY <1>1, SelectionStarts, SelectionNext, PTL DEF MCSpec

-----------------------------------------------------------------------------
(* The pass over the interfaces.                                             *)

SelectionsStay == \A i \in Ifaces : <<"selection", i>> \notin Events

\* The locals of State_ScanningInterface before the loop.
Fresh(r) == r.pos = 1 /\ r.hv = NoIface /\ r.hval = PriorityMax

Unlinked(g) == \A j \in InterfaceAvailable(g) : ~ iface[j].ActiveLink

\* What they say within it, with no last selected interface in the group:
\* highPriorityValue is the value of highPriorityValidIface, and no interface
\* that was passed is better.
BestSeen(g) ==
    /\ ps[g].hval >= 0
    /\ ps[g].hv # NoIface => ps[g].hval = Priority[ps[g].hv]
    /\ \A j \in InterfaceAvailable(g) :
          iface[j].Enable /\ j < ps[g].pos /\ Priority[j] >= 0 => ps[g].hval <= Priority[j]

Scanning(g) == ps[g].pc = "state" /\ ps[g].st = "SCANNING"

PassInv ==
    \A g \in Groups : /\ ps[g].pc # "state" => Fresh(ps[g])
                      /\ Scanning(g) /\ Unlinked(g) => BestSeen(g)

\* One interface more.
LEMMA ScannedBest ==
    ASSUME PSTypeOK, DataTypeOK, NEW g \in Groups, NEW i \in Ifaces,
           i = ps[g].pos, ~ iface[i].ActiveLink, BestSeen(g),
           ps'[g] = Scanned(ps[g], i), iface' = iface
    PROVE  BestSeen(g)'
  <1> DEFINE r == ps[g]
             better == UIntLeq(Priority[i], r.hval)
             works == Works(i) /\ UIntLeq(Priority[i], r.aval)
  <1>0. /\ r \in PSType /\ r.hval \in Int /\ r.pos \in Int
        /\ \A j \in Ifaces : Priority[j] \in Int
    BY TablesAssumption DEF PSTypeOK, PSType, Priorities, PriorityMax
  <1>1. ps'[g] = [r EXCEPT !.pos = @ + 1, !.last = @ \/ FALSE,
                   !.hv = IF FALSE \/ better THEN i ELSE @,
                   !.hval = IF better THEN Priority[i] ELSE r.hval,
                   !.idx = IF works THEN i ELSE @,
                   !.aval = IF works THEN Priority[i] ELSE @]
    BY DEF Scanned
  <1> HIDE DEF works
  <1>2. /\ ps'[g].pos = r.pos + 1
        /\ ps'[g].hv = IF better THEN i ELSE r.hv
        /\ ps'[g].hval = IF better THEN Priority[i] ELSE r.hval
    <2> HIDE DEF better
    <2> QED BY <1>0, <1>1 DEF PSType
  <1>3. r.hval >= 0
    BY DEF BestSeen
  <1>4. better <=> Priority[i] >= 0 /\ Priority[i] <= r.hval
    BY <1>0, <1>3 DEF UIntLeq
  <1> HIDE DEF better
  <1>5. ps'[g].hval \in Int /\ ps'[g].hval >= 0 /\ ps'[g].hval <= r.hval
    BY <1>0, <1>2, <1>3, <1>4
  <1>6. ps'[g].hv # NoIface => ps'[g].hval = Priority[ps'[g].hv]
    BY <1>2 DEF BestSeen
  <1>7. ASSUME NEW j \in InterfaceAvailable(g), iface[j].Enable, j < r.pos + 1,
               Priority[j] >= 0
        PROVE  ps'[g].hval <= Priority[j]
    <2>1. j \in Ifaces /\ j \in Int
      BY <1>7 DEF InterfaceAvailable, Ifaces
    <2>2. CASE j < r.pos
      BY <1>0, <1>5, <1>7, <2>1, <2>2 DEF BestSeen
    <2>3. CASE j = i
      BY <1>0, <1>2, <1>4, <1>7, <2>1, <2>3
    <2> QED BY <1>0, <1>7, <2>1, <2>2, <2>3
  <1> QED BY <1>2, <1>5, <1>6, <1>7 DEF BestSeen, InterfaceAvailable

\* The steps of the others: the group's interfaces and its pass are left alone.
LEMMA PassKept ==
    ASSUME DataTypeOK, PassInv, NEW g \in Groups,
           ps'[g].pc = ps[g].pc, ps'[g].st = ps[g].st, ps'[g].pos = ps[g].pos,
           ps'[g].hv = ps[g].hv, ps'[g].hval = ps[g].hval,
           \A j \in Ifaces : /\ iface'[j].Group = iface[j].Group
                             /\ iface'[j].Enable = iface[j].Enable
                             /\ iface[j].Group = g => iface'[j].ActiveLink = iface[j].ActiveLink
    PROVE  /\ ps'[g].pc # "state" => Fresh(ps'[g])
           /\ Scanning(g)' /\ Unlinked(g)' => BestSeen(g)'
  <1>1. ps'[g].pc # "state" => Fresh(ps'[g])
    BY DEF PassInv, Fresh
  <1>2. \A j : j \in InterfaceAvailable(g)' <=> j \in InterfaceAvailable(g)
    BY DEF InterfaceAvailable
  <1>3. Unlinked(g)' => Unlinked(g)
    BY <1>2 DEF Unlinked, InterfaceAvailable
  <1>4. ASSUME BestSeen(g) PROVE BestSeen(g)'
    BY <1>2, <1>4 DEF BestSeen, InterfaceAvailable
  <1> QED BY <1>1, <1>3, <1>4 DEF PassInv, Scanning

\* A step of one thread that ends its iteration, or the thread.
LEMMA PassAnew ==
    ASSUME DataTypeOK, PassInv, NEW g \in Groups,
           ps'[g].pc # "state", Fresh(ps'[g]),
           \A h \in Groups \ {g} : ps'[h] = ps[h],
           \A j \in Ifaces : /\ iface'[j].Group = iface[j].Group
                             /\ iface'[j].Enable = iface[j].Enable
                             /\ iface[j].Group # g => iface'[j].ActiveLink = iface[j].ActiveLink
    PROVE  PassInv'
  <1> SUFFICES ASSUME NEW h \in Groups
               PROVE  /\ ps'[h].pc # "state" => Fresh(ps'[h])
                      /\ Scanning(h)' /\ Unlinked(h)' => BestSeen(h)'
    BY DEF PassInv
  <1>1. CASE h = g
    BY <1>1 DEF Scanning
  <1>2. CASE h # g
    BY <1>2, PassKept
  <1> QED BY <1>1, <1>2

\* A step that touches no pass.
LEMMA PassesKept ==
    ASSUME DataTypeOK, PassInv,
           \A g \in Groups : /\ ps'[g].pc = ps[g].pc /\ ps'[g].st = ps[g].st
                             /\ ps'[g].pos = ps[g].pos /\ ps'[g].hv = ps[g].hv
                             /\ ps'[g].hval = ps[g].hval,
           \A j \in Ifaces : /\ iface'[j].Group = iface[j].Group
                             /\ iface'[j].Enable = iface[j].Enable
                             /\ iface'[j].ActiveLink = iface[j].ActiveLink
    PROVE  PassInv'
  BY PassKept DEF PassInv

-----------------------------------------------------------------------------
(* The steps of the selection thread.                                        *)

\* The end of an iteration resets the locals.
LEMMA GotoFresh ==
    ASSUME PSTypeOK, NEW g \in Groups, NEW s \in PSStates, PSGoto(g, s)
    PROVE  /\ ps'[g].pc # "state" /\ Fresh(ps'[g])
           /\ \A h \in Groups \ {g} : ps'[h] = ps[h]
  <1> DEFINE r == ScanStart(ps[g])
             x == (s = "SCANNING" /\ r.expired)
             r2 == [r EXCEPT !.pc = "sample", !.st = s, !.en = FALSE, !.cfg = FALSE,
                             !.rst = FALSE, !.expired = x]
  <1>1. ps \in [Groups -> PSType] /\ ps[g] \in PSType
    BY DEF PSTypeOK
  <1>2. r \in PSType
    BY <1>1, ScanStartType
  <1>3. Fresh(r)
    BY <1>1 DEF ScanStart, PSType, Fresh
  <1>4. ps' = [ps EXCEPT ![g] = r2]
    BY DEF PSGoto
  <1> HIDE DEF r, x
  <1>5. r2.pc = "sample" /\ Fresh(r2)
    BY <1>2, <1>3 DEF PSType, Fresh
  <1> HIDE DEF r2
  <1> QED BY <1>1, <1>4, <1>5

\* Transition_TearingDown.
LEMMA TearingDownPass ==
    ASSUME DataTypeOK, PSTypeOK, PassInv, NEW g \in Groups, TearingDown(g)
    PROVE  PassInv'
  <1>1. \E s \in PSStates : PSGoto(g, s)
    BY DEF TearingDown, PSStates
  <1>2. /\ ps'[g].pc # "state" /\ Fresh(ps'[g])
        /\ \A h \in Groups \ {g} : ps'[h] = ps[h]
    BY <1>1, GotoFresh
  <1>3. \A j \in Ifaces :
           /\ iface'[j].Group = iface[j].Group /\ iface'[j].Enable = iface[j].Enable
           /\ iface[j].Group # g => iface'[j].ActiveLink = iface[j].ActiveLink
    <2>1. CASE iface' = iface
      BY <2>1
    <2>2. CASE iface' = [i \in Ifaces |->
               IF iface[i].Group # g THEN iface[i]
               ELSE [iface[i] EXCEPT !.Selection = "NOT_SELECTED",
                        !.Status = IF @ = "INVALID" THEN "DISABLED" ELSE @,
                        !.ActiveLink = @ /\ ~ ps[g].cfg]]
      BY <2>2 DEF DataTypeOK, IfaceType
    <2> QED BY <2>1, <2>2 DEF TearingDown
  <1> QED BY <1>2, <1>3, PassAnew

\* Transition_SelectingInterface.
LEMMA SelectingPass ==
    ASSUME DataTypeOK, PSTypeOK, PassInv, NEW g \in Groups, SelectingInterface(g)
    PROVE  PassInv'
  <1>1. "CHECK_RECONFIGURATION" \in PSStates
    BY DEF PSStates
  <1>2. /\ ps'[g].pc # "state" /\ Fresh(ps'[g])
        /\ \A h \in Groups \ {g} : ps'[h] = ps[h]
    BY <1>1, GotoFresh DEF SelectingInterface
  <1>3. \A j \in Ifaces :
           /\ iface'[j].Group = iface[j].Group /\ iface'[j].Enable = iface[j].Enable
           /\ iface[j].Group # g => iface'[j].ActiveLink = iface[j].ActiveLink
    BY DEF SelectingInterface, DataTypeOK, IfaceType
  <1> QED BY <1>2, <1>3, PassAnew

\* Transition_RestartScan.
LEMMA RestartScanPass ==
    ASSUME DataTypeOK, PSTypeOK, PassInv, NEW g \in Groups, RestartScan(g)
    PROVE  PassInv'
  <1> DEFINE r == [PSOutside("sample") EXCEPT !.st = "SCANNING"]
  <1>1. r.pc = "sample" /\ Fresh(r)
    BY DEF PSOutside, Fresh
  <1>2. ps' = [ps EXCEPT ![g] = r] /\ ps \in [Groups -> PSType]
    BY DEF RestartScan, PSTypeOK
  <1> HIDE DEF r
  <1>3. /\ ps'[g].pc # "state" /\ Fresh(ps'[g])
        /\ \A h \in Groups \ {g} : ps'[h] = ps[h]
    BY <1>1, <1>2
  <1>4. \A j \in Ifaces :
           /\ iface'[j].Group = iface[j].Group /\ iface'[j].Enable = iface[j].Enable
           /\ iface[j].Group # g => iface'[j].ActiveLink = iface[j].ActiveLink
    BY DEF RestartScan, DataTypeOK, IfaceType
  <1> QED BY <1>3, <1>4, PassAnew

\* The state functions that go from one state to the next.
LEMMA GotoPass ==
    ASSUME DataTypeOK, PSTypeOK, PassInv, NEW g \in Groups, NEW s \in PSStates,
           PSGoto(g, s), iface' = iface
    PROVE  PassInv'
  BY GotoFresh, PassAnew

\* The pass goes on by one interface.
LEMMA ScanPass ==
    ASSUME DataTypeOK, PSTypeOK, PassInv, NEW g \in Groups, PSScan(g)
    PROVE  PassInv'
  <1> DEFINE i == ps[g].pos
             r == [ps[g] EXCEPT !.pos = i + 1]
  <1>0. ps \in [Groups -> PSType] /\ ps[g] \in PSType
    BY DEF PSTypeOK
  <1>1. /\ ps[g].pc = "state" /\ ps[g].st = "SCANNING" /\ i <= NIfaces
        /\ ps' = [ps EXCEPT ![g] = IF iface[i].Group = g /\ iface[i].Enable
                               THEN Scanned(ps[g], i) ELSE [ps[g] EXCEPT !.pos = i + 1]]
        /\ iface' = iface
    BY DEF PSScan, PSHandling
  <1>2. i \in Ifaces
    BY <1>0, <1>1, SizesAssumption DEF PSType, Ifaces
  <1>3. Scanned(ps[g], i).pc = "state" /\ r.pc = "state"
    BY <1>0, <1>1, <1>2, ScannedType DEF PSType
  <1>4. ps'[g].pc = "state" /\ \A h \in Groups \ {g} : ps'[h] = ps[h]
    BY <1>0, <1>1, <1>3
  <1>5. ASSUME Unlinked(g)' PROVE BestSeen(g)'
    <2>1. Unlinked(g) /\ BestSeen(g)
      BY <1>1, <1>5 DEF Unlinked, InterfaceAvailable, PassInv, Scanning
    <2>2. CASE iface[i].Group = g /\ iface[i].Enable
      <3>1. ps'[g] = Scanned(ps[g], i)
        BY <1>0, <1>1, <2>2
      <3>2. ~ iface[i].ActiveLink
        BY <1>2, <2>1, <2>2 DEF Unlinked, InterfaceAvailable
      <3> QED BY <1>1, <1>2, <2>1, <3>1, <3>2, ScannedBest
    <2>3. CASE ~ (iface[i].Group = g /\ iface[i].Enable)
      <3>1. ps'[g] = r
        BY <1>0, <1>1, <2>3
      <3>2. r.pos = i + 1 /\ r.hv = ps[g].hv /\ r.hval = ps[g].hval
        BY <1>0 DEF PSType
      <3> HIDE DEF r
      <3>3. \A j \in InterfaceAvailable(g) : iface[j].Enable /\ j < i + 1 => j < i
        BY <1>0, <1>2, <2>3 DEF InterfaceAvailable, Ifaces, PSType
      <3> QED BY <1>1, <2>1, <3>1, <3>2, <3>3 DEF BestSeen, InterfaceAvailable
    <2> QED BY <2>2, <2>3
  <1>6. ASSUME NEW h \in Groups
        PROVE  /\ ps'[h].pc # "state" => Fresh(ps'[h])
               /\ Scanning(h)' /\ Unlinked(h)' => BestSeen(h)'
    <2>1. CASE h = g
      BY <1>4, <1>5, <2>1
    <2>2. CASE h # g
      BY <1>1, <1>4, <2>2, PassKept
    <2> QED BY <2>1, <2>2
  <1> QED BY <1>6 DEF PassInv

\* The iteration starts with the locals as they are before the loop.
LEMMA UpdatePass ==
    ASSUME DataTypeOK, PSTypeOK, PassInv, NEW g \in Groups, PSUpdateControllerData(g)
    PROVE  PassInv'
  <1> DEFINE r == [ps[g] EXCEPT !.pc = "state", !.en = config.Enable,
                                !.cfg = group[g].ConfigChanged,
                                !.rst = group[g].ResetSelectedInterface]
  <1>0. ps \in [Groups -> PSType] /\ ps[g] \in PSType
    BY DEF PSTypeOK
  <1>1. ps' = [ps EXCEPT ![g] = r] /\ iface' = iface /\ ps[g].pc = "sample"
    BY <1>0 DEF PSUpdateControllerData, PSType
  <1>2. /\ r.pc = "state" /\ r.pos = ps[g].pos /\ r.hv = ps[g].hv /\ r.hval = ps[g].hval
    BY <1>0 DEF PSType
  <1> HIDE DEF r
  <1>3. /\ ps'[g].pc = "state" /\ ps'[g].pos = 1 /\ ps'[g].hv = NoIface
        /\ ps'[g].hval = PriorityMax /\ \A h \in Groups \ {g} : ps'[h] = ps[h]
    BY <1>0, <1>1, <1>2 DEF PassInv, Fresh
  <1>4. BestSeen(g)'
    BY <1>3 DEF BestSeen, InterfaceAvailable, Ifaces, PriorityMax
  <1>5. ASSUME NEW h \in Groups
        PROVE  /\ ps'[h].pc # "state" => Fresh(ps'[h])
               /\ Scanning(h)' /\ Unlinked(h)' => BestSeen(h)'
    <2>1. CASE h = g
      BY <1>3, <1>4, <2>1
    <2>2. CASE h # g
      BY <1>1, <1>3, <2>2, PassKept
    <2> QED BY <2>1, <2>2
  <1> QED BY <1>5 DEF PassInv

\* The loop is over: a choice, a new state machine, or nothing.
LEMMA ScannedPass ==
    ASSUME DataTypeOK, PSTypeOK, PassInv, NEW g \in Groups, PSScanned(g)
    PROVE  PassInv'
  <1>0. /\ ps \in [Groups -> PSType] /\ ps[g] \in PSType /\ iface \in [Ifaces -> IfaceType]
    BY DEF PSTypeOK, DataTypeOK
  <1>1. CASE TearingDown(g)
    BY <1>1, TearingDownPass
  <1>2. CASE SelectingInterface(g)
    BY <1>2, SelectingPass
  <1>3. CASE ~ TearingDown(g) /\ ~ SelectingInterface(g)
    <2> DEFINE sc == ScanStart(ps[g])
               idx == IF ps[g].hv # NoIface THEN NoIface ELSE sc.idx
               r == [sc EXCEPT !.pc = "sample", !.en = FALSE, !.cfg = FALSE,
                               !.rst = FALSE, !.idx = idx]
    <2>1. /\ ps' = [ps EXCEPT ![g] = [ScanStart(ps[g]) EXCEPT !.pc = "sample", !.en = FALSE,
                      !.cfg = FALSE, !.rst = FALSE,
                      !.idx = IF ps[g].hv # NoIface THEN NoIface ELSE @]]
          /\ \/ UNCHANGED <<iface, ism>>
             \/ \E i \in Connectable(g) : NewInterfaceConnected(g, i)
      BY <1>3 DEF PSScanned
    <2>2. sc \in PSType /\ Fresh(sc)
      BY <1>0, ScanStartType DEF ScanStart, PSType, Fresh
    <2>3. ps' = [ps EXCEPT ![g] = r]
      <3> HIDE DEF sc
      <3>1. ps' = [ps EXCEPT ![g] = [sc EXCEPT !.pc = "sample", !.en = FALSE,
                      !.cfg = FALSE, !.rst = FALSE,
                      !.idx = IF ps[g].hv # NoIface THEN NoIface ELSE @]]
        BY <2>1 DEF sc
      <3> QED BY <3>1
    <2> HIDE DEF sc, idx
    <2>4. r.pc = "sample" /\ Fresh(r)
      BY <2>2 DEF PSType, Fresh
    <2> HIDE DEF r
    <2>5. /\ ps'[g].pc # "state" /\ Fresh(ps'[g])
          /\ \A h \in Groups \ {g} : ps'[h] = ps[h]
      BY <1>0, <2>3, <2>4
    <2>6. \A j \in Ifaces :
             /\ iface'[j].Group = iface[j].Group /\ iface'[j].Enable = iface[j].Enable
             /\ iface[j].Group # g => iface'[j].ActiveLink = iface[j].ActiveLink
      BY <1>0, <2>1 DEF NewInterfaceConnected, IfaceType
    <2> QED BY <2>5, <2>6, PassAnew
  <1> QED BY <1>1, <1>2, <1>3

LEMMA PSNextPass ==
    ASSUME DataTypeOK, PSTypeOK, PassInv, NEW g \in Groups, PSNext(g)
    PROVE  PassInv'
  <1>0. ps \in [Groups -> PSType] /\ ps[g] \in PSType
    BY DEF PSTypeOK
  <1>1. CASE PSStart(g)
    <2> DEFINE r == [ps[g] EXCEPT !.pc = "sample"]
    <2>1. ps' = [ps EXCEPT ![g] = r] /\ iface' = iface /\ ps[g].pc = "start"
      BY <1>0, <1>1 DEF PSStart
    <2>2. r.pc = "sample" /\ Fresh(r)
      BY <1>0, <2>1 DEF PSType, PassInv, Fresh
    <2> HIDE DEF r
    <2>3. /\ ps'[g].pc # "state" /\ Fresh(ps'[g])
          /\ \A h \in Groups \ {g} : ps'[h] = ps[h]
      BY <1>0, <2>1, <2>2
    <2> QED BY <2>1, <2>3, PassAnew
  <1>2. CASE PSUpdateControllerData(g)
    BY <1>2, UpdatePass
  <1>3. CASE PSScan(g)
    BY <1>3, ScanPass
  <1>4. CASE PSScanned(g)
    BY <1>4, ScannedPass
  <1>5. CASE \E s \in PSStates : PSGoto(g, s) /\ iface' = iface
    BY <1>5, GotoPass
  <1>6. CASE TearingDown(g)
    BY <1>6, TearingDownPass
  <1>7. CASE RestartScan(g)
    BY <1>7, RestartScanPass
  <1>8. CASE PSExit(g)
    <2>1. ps' = [ps EXCEPT ![g] = PSOutside("none")] /\ iface' = iface
      BY <1>8 DEF PSExit
    <2>2. PSOutside("none").pc = "none" /\ Fresh(PSOutside("none"))
      BY DEF PSOutside, Fresh
    <2>3. /\ ps'[g].pc # "state" /\ Fresh(ps'[g])
          /\ \A h \in Groups \ {g} : ps'[h] = ps[h]
      BY <1>0, <2>1, <2>2
    <2> QED BY <2>1, <2>3, PassAnew
  <1>9. \/ PSCheckReconfiguration(g) \/ PSReconfigurePlatform(g)
        \/ PSSelectedInterfaceUp(g) \/ PSSelectedInterfaceDown(g)
        \/ PSInterfaceTearDown(g)
        => \/ \E s \in PSStates : PSGoto(g, s) /\ iface' = iface
           \/ TearingDown(g) \/ RestartScan(g)
    <2>1. /\ "RECONFIGURE_PLATFORM" \in PSStates /\ "SELECTED_UP" \in PSStates
          /\ "SELECTED_DOWN" \in PSStates /\ "REBOOT" \in PSStates
          /\ "TEAR_DOWN" \in PSStates /\ "POLICY_EXIT" \in PSStates
      BY DEF PSStates
    <2> QED BY <2>1 DEF PSCheckReconfiguration, PSReconfigurePlatform,
                        PSSelectedInterfaceUp, PSSelectedInterfaceDown, PSInterfaceTearDown
  <1> QED BY <1>1, <1>2, <1>3, <1>4, <1>5, <1>6, <1>7, <1>8, <1>9 DEF PSNext

-----------------------------------------------------------------------------
(* The steps of the others do not touch what the pass reads.                 *)

LEMMA MachinePass ==
    ASSUME DataTypeOK, PassInv, NEW i \in Ifaces, NEW k \in ISMSlots, ISMNext(i, k),
           ps' = ps
    PROVE  PassInv'
  <1>0. iface \in [Ifaces -> IfaceType]
    BY DEF DataTypeOK
  <1>1. \A j \in Ifaces : /\ iface'[j].Group = iface[j].Group
                          /\ iface'[j].Enable = iface[j].Enable
                          /\ iface'[j].ActiveLink = iface[j].ActiveLink
    BY <1>0 DEF ISMNext, ISMControl, ISMDisturbed, ISMStart, ISMSample, ISMDown, ISMReset,
           PhysicalInterfaceDown, ISMValidated, ISMStandby, ISMUp, ISMDeactivated,
           ISMRefreshAborted, ISMRefreshed, ISMExit, ISMEnd, ISMLinkLost,
           ISMLeaseLost, ISMWanUp, ISMFeatureSwitched, ISMModeChanged, IfaceType
  <1> QED BY <1>1, PassesKept

LEMMA EnvironmentPass ==
    ASSUME DataTypeOK, PassInv, GroupsStay, SelectionsStay, Environment, ps' = ps
    PROVE  PassInv'
  <1>0. iface \in [Ifaces -> IfaceType]
    BY DEF DataTypeOK
  <1>1. \/ iface' = iface
        \/ \E i \in Ifaces : \/ SetBaseInterfaceStatus(i) \/ SetConnectivityStatus(i)
                             \/ SetInterfaceReset(i)
    <2>1. \A i \in Ifaces : ~ SetSelectionGroup(i) /\ ~ SetSelectionEnable(i)
      BY DEF GroupsStay, SelectionsStay, SetSelectionGroup, SetSelectionEnable
    <2> QED BY <2>1 DEF Environment, SetWanEnable, SetResetSelectedInterface,
                        ClearResetSelectedInterface, SetPolicy
  <1>2. \A j \in Ifaces : /\ iface'[j].Group = iface[j].Group
                          /\ iface'[j].Enable = iface[j].Enable
                          /\ iface'[j].ActiveLink = iface[j].ActiveLink
    <2>1. CASE iface' = iface
      BY <2>1
    <2>2. ASSUME NEW i \in Ifaces, SetBaseInterfaceStatus(i)
          PROVE  iface' = [iface EXCEPT ![i].PhyUp = ~ iface[i].PhyUp]
      BY <2>2 DEF SetBaseInterfaceStatus
    <2>3. ASSUME NEW i \in Ifaces, SetConnectivityStatus(i)
          PROVE  iface' = [iface EXCEPT ![i].Connectivity = ~ iface[i].Connectivity]
      BY <2>3 DEF SetConnectivityStatus
    <2>4. ASSUME NEW i \in Ifaces, SetInterfaceReset(i)
          PROVE  iface' = [iface EXCEPT ![i].Reset = ~ iface[i].Reset]
      BY <2>4 DEF SetInterfaceReset
    <2>5. ASSUME NEW i \in Ifaces, NEW b,
                 \/ iface' = [iface EXCEPT ![i].PhyUp = b]
                 \/ iface' = [iface EXCEPT ![i].Connectivity = b]
                 \/ iface' = [iface EXCEPT ![i].Reset = b]
          PROVE  \A j \in Ifaces : /\ iface'[j].Group = iface[j].Group
                                   /\ iface'[j].Enable = iface[j].Enable
                                   /\ iface'[j].ActiveLink = iface[j].ActiveLink
      BY <1>0, <2>5 DEF IfaceType
    <2> QED BY <1>1, <2>1, <2>2, <2>3, <2>4, <2>5
  <1> QED BY <1>2, PassesKept

LEMMA FailOverPass ==
    ASSUME DataTypeOK, PSTypeOK, PassInv, NEW g \in Groups,
           StartThread(g) \/ Activate(g) \/ Deactivate(g)
    PROVE  PassInv'
  <1>0. iface \in [Ifaces -> IfaceType] /\ ps \in [Groups -> PSType]
    BY DEF DataTypeOK, PSTypeOK
  <1>1. CASE StartThread(g)
    <2>1. PSOutside("start").pc = "start" /\ Fresh(PSOutside("start"))
      BY DEF PSOutside, Fresh
    <2>2. /\ ps'[g].pc # "state" /\ Fresh(ps'[g]) /\ iface' = iface
          /\ \A h \in Groups \ {g} : ps'[h] = ps[h]
      BY <1>0, <1>1, <2>1 DEF StartThread
    <2> QED BY <2>2, PassAnew
  <1>2. CASE Activate(g) \/ Deactivate(g)
    <2>1. ps' = ps
      BY <1>2 DEF Activate, Deactivate
    <2>2. \A j \in Ifaces : /\ iface'[j].Group = iface[j].Group
                            /\ iface'[j].Enable = iface[j].Enable
                            /\ iface'[j].ActiveLink = iface[j].ActiveLink
      BY <1>0, <1>2 DEF Activate, Deactivate, IfaceType
    <2> QED BY <2>1, <2>2, PassesKept
  <1> QED BY <1>1, <1>2

LEMMA TimeOutPass ==
    ASSUME DataTypeOK, PSTypeOK, PassInv, NEW g \in Groups, PSTimeOut(g)
    PROVE  PassInv'
  <1>0. ps \in [Groups -> PSType]
    BY DEF PSTypeOK
  <1>1. \A h \in Groups : /\ ps'[h].pc = ps[h].pc /\ ps'[h].st = ps[h].st
                          /\ ps'[h].pos = ps[h].pos /\ ps'[h].hv = ps[h].hv
                          /\ ps'[h].hval = ps[h].hval
    <2> DEFINE r == [ps[g] EXCEPT !.expired = TRUE]
    <2>1. ps' = [ps EXCEPT ![g] = r]
      BY <1>0 DEF PSTimeOut
    <2>2. /\ r.pc = ps[g].pc /\ r.st = ps[g].st /\ r.pos = ps[g].pos
          /\ r.hv = ps[g].hv /\ r.hval = ps[g].hval
      BY <1>0 DEF PSType
    <2> HIDE DEF r
    <2> QED BY <1>0, <2>1, <2>2
  <1>2. iface' = iface
    BY DEF PSTimeOut
  <1> QED BY <1>1, <1>2, PassesKept

-----------------------------------------------------------------------------
LEMMA PassStarts == MCInit => PassInv
  <1> SUFFICES ASSUME MCInit, NEW g \in Groups
               PROVE  ps[g].pc # "state" /\ Fresh(ps[g])
    BY DEF PassInv, Scanning
  <1> QED BY DEF MCInit, PSInit, PSOutside, Fresh

LEMMA PassNext ==
    SelectionInv /\ PassInv /\ GroupsStay /\ SelectionsStay /\ [MCNext]_mcvars => PassInv'
  <1> SUFFICES ASSUME SelectionInv, PassInv, GroupsStay, SelectionsStay, [MCNext]_mcvars
               PROVE  PassInv'
    OBVIOUS
  <1>0. DataTypeOK /\ PSTypeOK
    BY DEF SelectionInv, SelectionTypeOK
  <1>1. CASE ScanThreads
    BY <1>0, <1>1, PSNextPass, TimeOutPass, MachinePass, FailOverPass DEF ScanThreads, ISMNext
  <1>2. CASE ScanEvents
    BY <1>0, <1>2, EnvironmentPass, MachinePass, FailOverPass DEF ScanEvents, ISMNext
  <1>3. CASE UNCHANGED mcvars
    BY <1>0, <1>3, PassesKept DEF mcvars
  <1> QED BY <1>1, <1>2, <1>3 DEF MCNext

\* Only the selection thread of the group selects, at the end of a pass.
LEMMA WhoSelects ==
    ASSUME SelectionInv, GroupsStay, [MCNext]_mcvars, NEW g \in Groups, NEW i \in Ifaces,
           Selects(g, i)
    PROVE  /\ PSHandling(g, "SCANNING") /\ ps[g].pos > NIfaces
           /\ ChoiceMade(g) /\ SelectingInterface(g)
  <1>0. /\ DataTypeOK /\ PSTypeOK /\ group \in [Groups -> GroupType]
        /\ i # NoIface /\ group'[g].SelectedInterface = i
        /\ group[g].SelectedInterface = NoIface
    BY DEF SelectionInv, SelectionTypeOK, DataTypeOK, Selects, Ifaces, NoIface
  <1>1. ASSUME NEW h \in Groups,
               group' = SetGroupSelectedIface(group, h, NoIface)
        PROVE  FALSE
    BY <1>0, <1>1 DEF SetGroupSelectedIface, GroupType
  <1>2. ASSUME NEW h \in Groups, PSNext(h)
        PROVE  /\ h = g /\ PSScanned(g) /\ SelectingInterface(g)
    <2>1. CASE PSStart(h)
      BY <1>0, <2>1 DEF PSStart, GroupType
    <2>2. CASE TearingDown(h)
      BY <1>0, <1>1, <2>2 DEF TearingDown
    <2>3. CASE group' = group
      BY <1>0, <2>3
    <2>4. CASE RestartScan(h)
      BY <1>0, <2>4 DEF RestartScan, SetGroupSelectedIface, GroupType
    <2>5. CASE PSExit(h)
      <3> DEFINE s == IF group[h].State = "DEACTIVATED" THEN group[h].State ELSE "STOPPED"
      <3>1. group' = [group EXCEPT ![h].SelectedInterface = NoIface,
                         ![h].ConfigChanged = FALSE, ![h].State = s]
        BY <1>0, <2>5 DEF PSExit, GroupType
      <3> HIDE DEF s
      <3> QED BY <1>0, <3>1 DEF GroupType
    <2>6. CASE PSScanned(h) /\ SelectingInterface(h)
      <3>1. group' = SetGroupSelectedIface(group, h, ps[h].idx)
        BY <2>6 DEF SelectingInterface
      <3>2. \A f \in Groups \ {h} :
               group'[f].SelectedInterface = group[f].SelectedInterface
        BY <1>0, <3>1 DEF SetGroupSelectedIface, GroupType
      <3> QED BY <1>0, <2>6, <3>2
    <2>7. ASSUME group' = [group EXCEPT ![h].ResetSelectedInterface = @ /\ ~ ps[h].rst]
          PROVE  FALSE
      BY <1>0, <2>7 DEF GroupType
    <2>8. PSScanned(h) => \/ TearingDown(h) \/ group' = group
                          \/ PSScanned(h) /\ SelectingInterface(h)
      BY DEF PSScanned
    <2>9. PSSelectedInterfaceUp(h) =>
             \/ TearingDown(h) \/ RestartScan(h)
             \/ group' = [group EXCEPT ![h].ResetSelectedInterface = @ /\ ~ ps[h].rst]
      BY DEF PSSelectedInterfaceUp
    <2>10. \/ PSUpdateControllerData(h) \/ PSScan(h) \/ PSCheckReconfiguration(h)
           \/ PSReconfigurePlatform(h) \/ PSSelectedInterfaceDown(h)
           \/ PSInterfaceTearDown(h)
           => TearingDown(h) \/ RestartScan(h) \/ group' = group
      BY DEF PSUpdateControllerData, PSScan, PSCheckReconfiguration, PSReconfigurePlatform,
             PSSelectedInterfaceDown, PSInterfaceTearDown
    <2> QED BY <1>2, <2>1, <2>2, <2>3, <2>4, <2>5, <2>6, <2>7, <2>8, <2>9, <2>10
            DEF PSNext
  <1>3. ASSUME NEW h \in Groups, StartThread(h) \/ Activate(h) \/ Deactivate(h)
        PROVE  FALSE
    <2>1. \/ group' = group
          \/ group' = [group EXCEPT ![h].Activated = TRUE]
          \/ group' = [group EXCEPT ![h].State = "RUNNING", ![h].ConfigChanged = FALSE,
                          ![h].InitialScanComplete = FALSE, ![h].Activated = FALSE]
      BY <1>3 DEF StartThread, Activate, Deactivate
    <2> QED BY <1>0, <2>1 DEF GroupType
  <1>4. ASSUME Environment PROVE FALSE
    <2>1. \A j \in Ifaces : ~ SetSelectionGroup(j)
      BY DEF GroupsStay, SetSelectionGroup
    <2>2. ASSUME NEW h \in Groups,
                 \/ SetResetSelectedInterface(h) \/ SetPolicy(h)
                 \/ ClearResetSelectedInterface(h)
          PROVE  FALSE
      BY <1>0, <2>2 DEF SetResetSelectedInterface, ClearResetSelectedInterface, SetPolicy,
                        GroupType
    <2>3. \/ SetWanEnable
          \/ \E j \in Ifaces : \/ SetSelectionEnable(j) \/ SetBaseInterfaceStatus(j)
                               \/ SetConnectivityStatus(j) \/ SetInterfaceReset(j)
          => group' = group
      BY DEF SetWanEnable, SetSelectionEnable, SetBaseInterfaceStatus,
             SetConnectivityStatus, SetInterfaceReset
    <2> QED BY <1>0, <1>4, <2>1, <2>2, <2>3 DEF Environment
  <1>5. \A h \in Groups : PSTimeOut(h) => FALSE
    BY <1>0 DEF PSTimeOut
  <1>6. \A j \in Ifaces, k \in ISMSlots : ISMNext(j, k) => FALSE
    BY <1>0, MachineKeepsChoice
  <1>7. PSScanned(g) /\ SelectingInterface(g)
    BY <1>0, <1>2, <1>3, <1>4, <1>5, <1>6 DEF MCNext, ScanThreads, ScanEvents, ISMNext, mcvars
  <1>8. ~ TearingDown(g) /\ group' # group
    BY <1>0, <1>1 DEF TearingDown
  <1> QED BY <1>7, <1>8 DEF PSScanned

\* Before the time out, and with no last selected interface in the group, the
\* interface Transition_SelectingInterface selects is an enabled one of the
\* highest priority, whatever the order of the table, the number of interfaces
\* and the interleaving of the pass of State_ScanningInterface, which locks one
\* interface at a time, with the other threads; as long as no interface is
\* enabled, disabled or moved to another group.
THEOREM HighestFirst == GroupsStay /\ SelectionsStay /\ MCSpec => PriorityFirst
  <1> DEFINE First ==
        \A g \in Groups, i \in Ifaces :
          /\ Selects(g, i) /\ ~ ps[g].expired
          /\ \A j \in InterfaceAvailable(g) : ~ iface[j].ActiveLink
          => \A j \in InterfaceAvailable(g) \ {i} :
                iface[j].Enable /\ Priority[j] >= 0 => Priority[i] <= Priority[j]
  <1> SUFFICES ASSUME GroupsStay, SelectionsStay PROVE MCSpec => PriorityFirst
    OBVIOUS
  <1>1. SelectionInv /\ PassInv /\ [MCNext]_mcvars => First
    <2> SUFFICES ASSUME SelectionInv, PassInv, [MCNext]_mcvars, NEW g \in Groups,
                        NEW i \in Ifaces, Selects(g, i), ~ ps[g].expired, Unlinked(g),
                        NEW j \in InterfaceAvailable(g), iface[j].Enable, Priority[j] >= 0
                 PROVE  Priority[i] <= Priority[j]
      BY DEF Unlinked
    <2>1. /\ PSHandling(g, "SCANNING") /\ ps[g].pos > NIfaces
          /\ ChoiceMade(g) /\ SelectingInterface(g)
      BY WhoSelects
    <2>2. /\ group \in [Groups -> GroupType] /\ ps[g] \in PSType
      BY DEF SelectionInv, SelectionTypeOK, DataTypeOK, PSTypeOK
    <2>3. group'[g].SelectedInterface = ps[g].idx
      BY <2>1, <2>2 DEF SelectingInterface, SetGroupSelectedIface, GroupType
    <2>4. ps[g].hv = i /\ ps[g].hv # NoIface
      BY <2>1, <2>3 DEF ChoiceMade, Selects
    <2>5. BestSeen(g)
      BY <2>1 DEF PassInv, Scanning, PSHandling
    <2>6. j < ps[g].pos
      BY <2>1, <2>2, SizesAssumption DEF InterfaceAvailable, Ifaces, PSType
    <2> QED BY <2>4, <2>5, <2>6 DEF BestSeen
  <1>2. MCSpec => []SelectionInv
    BY SelectionStarts, SelectionNext, PTL DEF MCSpec
  <1>3. MCSpec => []PassInv
    BY <1>2, PassStarts, PassNext, PTL DEF MCSpec
  <1>4. MCSpec => [][First]_mcvars
    BY <1>1, <1>2, <1>3, PTL DEF MCSpec
  <1>5. PriorityFirst <=> [][First]_mcvars
    BY DEF PriorityFirst
  <1> QED BY <1>4, <1>5
=============================================================================
