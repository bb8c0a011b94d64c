------------------------------ MODULE DhcpProofs ------------------------------
(***************************************************************************)
(* Proofs about the DHCPv6 and DHCPv4 tables, for any values the           *)
(* parameters take, any options syscfg holds at first and any number of    *)
(* rows, requests and restarts.                                            *)
(*                                                                         *)
(*   Inv6, Inv4     the tables have their types, the rows a request still  *)
(*                  has to end exist, a filled alias buffer waits for one, *)
(*                  and dibbler has read what the backend stored           *)
(*   Reads          numbers grow; what a request has not touched is what   *)
(*                  the backend holds; the registry has the rows that are  *)
(*                  new                                                    *)
(*   OptionsApart   the rows committed, or about to be, are pairwise apart *)
(*                                                                         *)
(* The last two need an instance number that is not in use for every new   *)
(* row (NumbersLeft): the counters are ULONGs and wrap around.             *)
(***************************************************************************)
EXTENDS MCDhcp, FiniteSetTheorems, SequenceTheorems, TLAPS

(* Tables of rows R whose alias buffer holds one of A: what each operation   *)
(* on such a table keeps and changes.                                        *)
Numbers == 1..UlongLimit

Tables(R, A) ==
  UNION {[row : [S -> R], max : 0..UlongLimit, old : A] : S \in SUBSET Numbers}

LEMMA TableParts ==
  ASSUME NEW R, NEW A, NEW t \in Tables(R, A)
  PROVE  /\ t = [row |-> t.row, max |-> t.max, old |-> t.old]
         /\ Rows(t) \subseteq Numbers /\ t.row \in [Rows(t) -> R]
         /\ t.max \in 0..UlongLimit /\ t.old \in A
  <1>1. PICK S \in SUBSET Numbers : t \in [row : [S -> R], max : 0..UlongLimit, old : A]
    BY DEF Tables
  <1>2. t.row \in [S -> R]
    BY <1>1
  <1>3. DOMAIN t.row = S
    BY <1>2
  <1> QED
    BY <1>1, <1>2, <1>3 DEF Rows

LEMMA TableMade ==
  ASSUME NEW R, NEW A, NEW S \in SUBSET Numbers, NEW f \in [S -> R],
         NEW m \in 0..UlongLimit, NEW o \in A
  PROVE  /\ [row |-> f, max |-> m, old |-> o] \in Tables(R, A)
         /\ Rows([row |-> f, max |-> m, old |-> o]) = S
  <1>1. [row |-> f, max |-> m, old |-> o] \in [row : [S -> R], max : 0..UlongLimit, old : A]
    OBVIOUS
  <1>2. DOMAIN f = S
    OBVIOUS
  <1> QED
    BY <1>1, <1>2 DEF Tables, Rows

LEMMA TableMadeOf ==
  ASSUME NEW R, NEW A, NEW S, NEW f, NEW m, NEW o, NEW t,
         S \subseteq Numbers, f \in [S -> R], m \in 0..UlongLimit, o \in A,
         t = [row |-> f, max |-> m, old |-> o]
  PROVE  t \in Tables(R, A) /\ Rows(t) = S
  <1>1. S \in SUBSET Numbers
    OBVIOUS
  <1>2. /\ [row |-> f, max |-> m, old |-> o] \in Tables(R, A)
        /\ Rows([row |-> f, max |-> m, old |-> o]) = S
    BY <1>1, TableMade
  <1> QED
    BY <1>2

LEMMA IsTable ==
  ASSUME NEW R, NEW A, NEW t, t = [row |-> t.row, max |-> t.max, old |-> t.old],
         Rows(t) \subseteq Numbers, t.row \in [Rows(t) -> R],
         t.max \in 0..UlongLimit, t.old \in A
  PROVE  t \in Tables(R, A)
  BY TableMadeOf

LEMMA EmptyTableParts ==
  ASSUME NEW R, NEW A, NoAlias \in A
  PROVE  /\ EmptyTable \in Tables(R, A) /\ Rows(EmptyTable) = {}
         /\ EmptyTable.max = 0 /\ EmptyTable.old = NoAlias
  <1>1. DOMAIN << >> = {}
    OBVIOUS
  <1>2. << >> \in [{} -> R]
    OBVIOUS
  <1>3. 0 \in 0..UlongLimit
    BY UlongAssumption
  <1>4. EmptyTable = [row |-> << >>, max |-> 0, old |-> NoAlias]
    BY DEF EmptyTable
  <1>5. EmptyTable \in Tables(R, A)
    BY <1>2, <1>3, <1>4, TableMade
  <1> QED
    BY <1>1, <1>4, <1>5 DEF Rows

LEMMA PushParts ==
  ASSUME NEW R, NEW A, NEW t \in Tables(R, A), NEW n \in Numbers, NEW r \in R
  PROVE  /\ PushEntry(t, n, r) \in Tables(R, A)
         /\ Rows(PushEntry(t, n, r)) = Rows(t) \cup {n}
         /\ PushEntry(t, n, r).row[n] = r
         /\ \A m \in Rows(t) \ {n} : PushEntry(t, n, r).row[m] = t.row[m]
         /\ PushEntry(t, n, r).max = t.max /\ PushEntry(t, n, r).old = t.old
  <1> DEFINE f == [m \in Rows(t) \cup {n} |-> IF m = n THEN r ELSE t.row[m]]
  <1>1. PushEntry(t, n, r) = [row |-> f, max |-> t.max, old |-> t.old]
    BY TableParts DEF PushEntry, Rows
  <1>2. f \in [Rows(t) \cup {n} -> R]
    BY TableParts
  <1>3. Rows(t) \cup {n} \in SUBSET Numbers
    BY TableParts
  <1>4. /\ [row |-> f, max |-> t.max, old |-> t.old] \in Tables(R, A)
        /\ Rows([row |-> f, max |-> t.max, old |-> t.old]) = Rows(t) \cup {n}
    <2>1. t.max \in 0..UlongLimit /\ t.old \in A
      BY TableParts
    <2> HIDE DEF f
    <2> QED
      BY <1>2, <1>3, <2>1, TableMade
  <1> QED
    BY <1>1, <1>4

LEMMA PopParts ==
  ASSUME NEW R, NEW A, NEW t \in Tables(R, A), NEW n
  PROVE  /\ PopEntry(t, n) \in Tables(R, A)
         /\ Rows(PopEntry(t, n)) = Rows(t) \ {n}
         /\ \A m \in Rows(t) \ {n} : PopEntry(t, n).row[m] = t.row[m]
         /\ PopEntry(t, n).max = t.max /\ PopEntry(t, n).old = t.old
  <1> DEFINE S == Rows(t) \ {n}
             f == [m \in S |-> t.row[m]]
  <1>1. PopEntry(t, n) = [row |-> f, max |-> t.max, old |-> t.old]
    BY TableParts DEF PopEntry, Rows
  <1>2. S \in SUBSET Numbers /\ f \in [S -> R] /\ \A m \in S : f[m] = t.row[m]
    BY TableParts
  <1>3. t.max \in 0..UlongLimit /\ t.old \in A
    BY TableParts
  <1>4. /\ [row |-> f, max |-> t.max, old |-> t.old] \in Tables(R, A)
        /\ Rows([row |-> f, max |-> t.max, old |-> t.old]) = S
    <2> HIDE DEF f, S
    <2> QED
      BY <1>2, <1>3, TableMade
  <1> QED
    BY <1>1, <1>2, <1>4

SetRow(t, n, r) == [t EXCEPT !.row[n] = r]

LEMMA SetRowParts ==
  ASSUME NEW R, NEW A, NEW t \in Tables(R, A), NEW n \in Rows(t), NEW r \in R
  PROVE  /\ SetRow(t, n, r) \in Tables(R, A)
         /\ Rows(SetRow(t, n, r)) = Rows(t)
         /\ SetRow(t, n, r).row[n] = r
         /\ \A m \in Rows(t) \ {n} : SetRow(t, n, r).row[m] = t.row[m]
         /\ SetRow(t, n, r).max = t.max /\ SetRow(t, n, r).old = t.old
  <1> DEFINE f == [t.row EXCEPT ![n] = r]
  <1>1. SetRow(t, n, r) = [row |-> f, max |-> t.max, old |-> t.old]
    BY TableParts DEF SetRow
  <1>2. f \in [Rows(t) -> R]
    BY TableParts
  <1>4. /\ [row |-> f, max |-> t.max, old |-> t.old] \in Tables(R, A)
        /\ Rows([row |-> f, max |-> t.max, old |-> t.old]) = Rows(t)
    <2>1. t.max \in 0..UlongLimit /\ t.old \in A /\ Rows(t) \in SUBSET Numbers
      BY TableParts
    <2> HIDE DEF f
    <2> QED
      BY <1>2, <2>1, TableMade
  <1>5. f[n] = r /\ \A m \in Rows(t) \ {n} : f[m] = t.row[m]
    BY TableParts
  <1> QED
    BY <1>1, <1>4, <1>5

LEMMA AddRowParts ==
  ASSUME NEW R, NEW A, NEW t \in Tables(R, A), NEW r \in R
  PROVE  LET n == NextInstance(t.max)
             u == AddRow(t, r) IN
         /\ u \in Tables(R, A) /\ n \in Numbers
         /\ Rows(u) = Rows(t) \cup {n} /\ u.row[n] = r
         /\ \A m \in Rows(t) \ {n} : u.row[m] = t.row[m]
         /\ u.max = n /\ u.old = t.old
  <1> DEFINE n == NextInstance(t.max)
             p == PushEntry(t, n, r)
             u == AddRow(t, r)
  <1>1. n \in Numbers /\ n \in 0..UlongLimit
    BY TableParts, UlongAssumption DEF NextInstance, Numbers
  <1>2. /\ p \in Tables(R, A) /\ Rows(p) = Rows(t) \cup {n} /\ p.row[n] = r
        /\ \A m \in Rows(t) \ {n} : p.row[m] = t.row[m]
        /\ p.old = t.old
    BY <1>1, PushParts
  <1>3. u = [p EXCEPT !.max = n]
    BY DEF AddRow
  <1> HIDE DEF n, p, u
  <1>4. /\ p = [row |-> p.row, max |-> p.max, old |-> p.old]
        /\ Rows(p) \in SUBSET Numbers /\ p.row \in [Rows(p) -> R] /\ p.old \in A
    <2>1. p \in Tables(R, A)
      BY <1>2
    <2>2. /\ p = [row |-> p.row, max |-> p.max, old |-> p.old]
          /\ Rows(p) \subseteq Numbers /\ p.row \in [Rows(p) -> R] /\ p.old \in A
      BY <2>1, TableParts, Zenon
    <2> QED
      BY <2>2
  <1>5. u = [row |-> p.row, max |-> n, old |-> p.old]
    BY <1>3, <1>4
  <1>6. u \in Tables(R, A) /\ Rows(u) = Rows(p)
    BY <1>1, <1>4, <1>5, TableMade
  <1> QED
    BY <1>1, <1>2, <1>5, <1>6 DEF n, u

LEMMA OldParts ==
  ASSUME NEW R, NEW A, NEW t \in Tables(R, A), NEW o \in A
  PROVE  /\ [t EXCEPT !.old = o] \in Tables(R, A)
         /\ Rows([t EXCEPT !.old = o]) = Rows(t)
         /\ [t EXCEPT !.old = o].row = t.row
         /\ [t EXCEPT !.old = o].max = t.max /\ [t EXCEPT !.old = o].old = o
  <1>1. [t EXCEPT !.old = o] = [row |-> t.row, max |-> t.max, old |-> o]
    BY TableParts
  <1>2. t.row \in [Rows(t) -> R] /\ Rows(t) \in SUBSET Numbers /\ t.max \in 0..UlongLimit
    BY TableParts
  <1> QED
    BY <1>1, <1>2, TableMade

Changed(t, u, n, r) ==
  /\ Rows(u) = Rows(t) /\ u.max = t.max
  /\ u.row[n] = r /\ \A m \in Rows(t) \ {n} : u.row[m] = t.row[m]

LEMMA SetAliasParts ==
  ASSUME NEW R, NEW A, NEW t \in Tables(R, A), NEW n \in Rows(t), NEW a,
         [t.row[n] EXCEPT !.alias = a] \in R, t.row[n].alias \in A
  PROVE  /\ SetAlias(t, n, a) \in Tables(R, A)
         /\ Changed(t, SetAlias(t, n, a), n, [t.row[n] EXCEPT !.alias = a])
         /\ SetAlias(t, n, a).old = t.row[n].alias
  <1> DEFINE r == [t.row[n] EXCEPT !.alias = a]
             s == SetRow(t, n, r)
             o == t.row[n].alias
             u == [s EXCEPT !.old = o]
  <1>1. SetAlias(t, n, a) = u
    BY TableParts DEF SetAlias, SetRow
  <1>2. /\ s \in Tables(R, A) /\ Rows(s) = Rows(t) /\ s.row[n] = r
        /\ \A m \in Rows(t) \ {n} : s.row[m] = t.row[m]
        /\ s.max = t.max
    BY SetRowParts
  <1>3. o \in A
    OBVIOUS
  <1> HIDE DEF r, s, o
  <1>4. u \in Tables(R, A) /\ Rows(u) = Rows(s) /\ u.row = s.row /\ u.max = s.max /\ u.old = o
    BY <1>2, <1>3, OldParts
  <1> HIDE DEF u
  <1> QED
    BY <1>1, <1>2, <1>4 DEF Changed, r, o

LEMMA ZeroAliasParts ==
  ASSUME NEW R, NEW A, NEW t \in Tables(R, A), NoAlias \in A
  PROVE  /\ ZeroAlias(t) \in Tables(R, A) /\ Rows(ZeroAlias(t)) = Rows(t)
         /\ ZeroAlias(t).row = t.row /\ ZeroAlias(t).max = t.max
         /\ ZeroAlias(t).old = NoAlias
  BY OldParts DEF ZeroAlias

LEMMA RestoreAliasParts ==
  ASSUME NEW R, NEW A, NEW t \in Tables(R, A), NEW n \in Rows(t),
         \A a \in A : [t.row[n] EXCEPT !.alias = a] \in R
  PROVE  \E r \in R :
           /\ RestoreAlias(t, n) \in Tables(R, A)
           /\ Changed(t, RestoreAlias(t, n), n, r)
           /\ RestoreAlias(t, n).old = t.old
           /\ r = t.row[n] \/ r = [t.row[n] EXCEPT !.alias = t.old]
  <1>1. t.row[n] \in R /\ t.old \in A
    BY TableParts
  <1>2. CASE t.old = NoAlias
    BY <1>1, <1>2 DEF RestoreAlias, Changed
  <1>3. CASE t.old # NoAlias
    <2> DEFINE r == [t.row[n] EXCEPT !.alias = t.old]
    <2>1. RestoreAlias(t, n) = SetRow(t, n, r)
      BY <1>3, TableParts DEF RestoreAlias, SetRow
    <2>2. r \in R
      BY <1>1
    <2> HIDE DEF r
    <2>3. /\ SetRow(t, n, r) \in Tables(R, A) /\ Changed(t, SetRow(t, n, r), n, r)
          /\ SetRow(t, n, r).old = t.old
      BY <2>2, SetRowParts DEF Changed
    <2> QED
      BY <2>1, <2>2, <2>3 DEF r
  <1> QED
    BY <1>2, <1>3

-----------------------------------------------------------------------------
(* The rows of the DHCPv6 tables.                                          *)
OptionType == [new : BOOLEAN, alias : Aliases6, enabled : BOOLEAN, tag : Tags]
SentTables == Tables(OptionType, Aliases6)
ClientType == [new : BOOLEAN, alias : Aliases6, enabled : BOOLEAN, t1 : Times,
               t2 : Times, req : BOOLEAN, sent : SentTables]
ClientTables == Tables(ClientType, Aliases6)
CfgType == [alias : Aliases6, enabled : BOOLEAN, t1 : Times, t2 : Times,
            req : BOOLEAN]
ConfType == [t1 : Times, t2 : Times, req : BOOLEAN]

LEMMA OptionFields ==
  ASSUME NEW r \in OptionType
  PROVE  /\ r.new \in BOOLEAN /\ r.alias \in Aliases6 /\ r.enabled \in BOOLEAN
         /\ r.tag \in Tags
         /\ \A v \in BOOLEAN : /\ [r EXCEPT !.enabled = v] \in OptionType
                               /\ [r EXCEPT !.enabled = v].new = r.new
         /\ \A v \in Tags : /\ [r EXCEPT !.tag = v] \in OptionType
                            /\ [r EXCEPT !.tag = v].new = r.new
         /\ \A v \in Aliases6 : /\ [r EXCEPT !.alias = v] \in OptionType
                                /\ [r EXCEPT !.alias = v].new = r.new
         /\ LET s == [r EXCEPT !.new = FALSE] IN
            /\ s \in OptionType /\ s.new = FALSE
            /\ s.alias = r.alias /\ s.enabled = r.enabled /\ s.tag = r.tag
  BY DEF OptionType

LEMMA DefaultedFields ==
  ASSUME NEW r \in OptionType
  PROVE  /\ Defaulted(r) \in OptionType /\ Defaulted(r).new = r.new
         /\ Defaulted(r).alias = r.alias
  BY Tables6Assumption DEF Defaulted, OptionType

LEMMA ClientFields ==
  ASSUME NEW r \in ClientType
  PROVE  /\ r.new \in BOOLEAN /\ r.alias \in Aliases6 /\ r.enabled \in BOOLEAN
         /\ r.t1 \in Times /\ r.t2 \in Times /\ r.req \in BOOLEAN
         /\ r.sent \in SentTables
         /\ Cfg(r) \in CfgType /\ Conf(Cfg(r)) \in ConfType
  BY DEF ClientType, Cfg, Conf, CfgType, ConfType

LEMMA ClientStaged ==
  ASSUME NEW r \in ClientType
  PROVE  /\ \A v \in BOOLEAN : /\ [r EXCEPT !.enabled = v] \in ClientType
                               /\ [r EXCEPT !.enabled = v].new = r.new
                               /\ [r EXCEPT !.enabled = v].sent = r.sent
         /\ \A v \in BOOLEAN : /\ [r EXCEPT !.req = v] \in ClientType
                               /\ [r EXCEPT !.req = v].new = r.new
                               /\ [r EXCEPT !.req = v].sent = r.sent
         /\ \A v \in Times : /\ [r EXCEPT !.t1 = v] \in ClientType
                             /\ [r EXCEPT !.t1 = v].new = r.new
                             /\ [r EXCEPT !.t1 = v].sent = r.sent
         /\ \A v \in Times : /\ [r EXCEPT !.t2 = v] \in ClientType
                             /\ [r EXCEPT !.t2 = v].new = r.new
                             /\ [r EXCEPT !.t2 = v].sent = r.sent
  BY DEF ClientType

LEMMA ClientCommitted ==
  ASSUME NEW r \in ClientType
  PROVE  /\ \A v \in Aliases6 : /\ [r EXCEPT !.alias = v] \in ClientType
                                /\ [r EXCEPT !.alias = v].new = r.new
                                /\ [r EXCEPT !.alias = v].sent = r.sent
         /\ LET s == [r EXCEPT !.new = FALSE] IN
            s \in ClientType /\ s.new = FALSE /\ s.sent = r.sent /\ Cfg(s) = Cfg(r)
  BY DEF ClientType, Cfg

LEMMA WithCfgFields ==
  ASSUME NEW r \in ClientType, NEW g \in CfgType
  PROVE  /\ WithCfg(r, g) \in ClientType /\ WithCfg(r, g).new = r.new
         /\ WithCfg(r, g).sent = r.sent /\ Cfg(WithCfg(r, g)) = g
  BY DEF WithCfg, ClientType, CfgType, Cfg

LEMMA SentFields ==
  ASSUME NEW r \in ClientType, NEW t \in SentTables
  PROVE  /\ [r EXCEPT !.sent = t] \in ClientType
         /\ [r EXCEPT !.sent = t].new = r.new /\ [r EXCEPT !.sent = t].sent = t
         /\ Cfg([r EXCEPT !.sent = t]) = Cfg(r)
  BY DEF ClientType, Cfg

-----------------------------------------------------------------------------
(* A set of numbers with a bound has a largest one: were there always a      *)
(* larger one, the numbers below some element would map one to one, but not  *)
(* onto 0, to their successors.                                              *)
LEMMA LargestNumber ==
  ASSUME NEW N \in Nat, NEW S \in SUBSET (0..N), S # {}
  PROVE  \E m \in S : \A n \in S : n <= m
  <1> SUFFICES ASSUME \A m \in S : \E n \in S : m < n
               PROVE  FALSE
    <2>1. \A m, n \in S : m \in Nat /\ n \in Nat
      OBVIOUS
    <2> QED
      BY <2>1
  <1> DEFINE U == {n \in 0..N : \E m \in S : n < m}
             f == [n \in U |-> n + 1]
  <1>1. \A n \in U : n + 1 \in U
    <2> TAKE n \in U
    <2>1. PICK m \in S : n < m
      OBVIOUS
    <2>2. PICK k \in S : m < k
      OBVIOUS
    <2>3. n \in Nat /\ m \in 0..N /\ k \in 0..N
      OBVIOUS
    <2>4. n + 1 < k /\ n + 1 \in 0..N
      BY <2>1, <2>2, <2>3
    <2> QED
      BY <2>2, <2>4
  <1>2. 0 \in U
    <2>1. PICK m \in S : TRUE
      OBVIOUS
    <2>2. PICK k \in S : m < k
      OBVIOUS
    <2>3. m \in 0..N /\ k \in 0..N /\ 0 \in 0..N
      OBVIOUS
    <2>4. 0 < k
      BY <2>2, <2>3
    <2> QED
      BY <2>2, <2>3, <2>4
  <1>3. IsFiniteSet(U)
    <2>1. IsFiniteSet(0..N)
      BY FS_Interval
    <2>2. U \in SUBSET (0..N)
      OBVIOUS
    <2> QED
      BY <2>1, <2>2, FS_Subset
  <1>4. f \in Injection(U, U)
    <2>1. f \in [U -> U]
      BY <1>1
    <2>2. \A a, b \in U : f[a] = f[b] => a = b
      <3>1. \A a \in U : a \in Nat
        OBVIOUS
      <3>2. \A a \in U : f[a] = a + 1
        OBVIOUS
      <3> QED
        BY <3>1, <3>2
    <2> QED
      BY <2>1, <2>2 DEF Injection, IsInjective
  <1>5. f \in Surjection(U, U)
    BY <1>3, <1>4, FS_Injection
  <1>6. \E n \in U : f[n] = 0
    BY <1>2, <1>5 DEF Surjection
  <1>7. \A n \in U : f[n] = n + 1 /\ n \in Nat
    OBVIOUS
  <1> QED
    BY <1>6, <1>7

-----------------------------------------------------------------------------
(* What the registry saves and brings back.                                *)
Aliases6Functions == UNION {[S -> Aliases6] : S \in SUBSET Numbers}
SavedType == [alias : Aliases6, new : BOOLEAN, max : 0..UlongLimit,
              sent : Aliases6Functions]
RegTables == UNION {[max : 0..UlongLimit, row : [S -> SavedType]] : S \in SUBSET Numbers}

LEMMA SavedClientParts ==
  ASSUME NEW r \in ClientType
  PROVE  /\ SavedClient(r) \in SavedType /\ SavedClient(r).new = r.new
         /\ DOMAIN SavedClient(r).sent = NewRows(r.sent)
         /\ Rows(r.sent) \subseteq 1..r.sent.max =>
              DOMAIN SavedClient(r).sent \subseteq 1..SavedClient(r).max
  <1> DEFINE t == r.sent
             f == [o \in NewRows(t) |-> t.row[o].alias]
             m == IF Rows(t) = {} THEN 0 ELSE t.max
  <1>1. r.alias \in Aliases6 /\ r.new \in BOOLEAN /\ t \in SentTables
    BY ClientFields
  <1>2. Rows(t) \subseteq Numbers /\ t.row \in [Rows(t) -> OptionType] /\ t.max \in 0..UlongLimit
    BY <1>1, TableParts DEF SentTables
  <1>3. f \in [NewRows(t) -> Aliases6] /\ NewRows(t) \in SUBSET Numbers
    BY <1>2, OptionFields DEF NewRows
  <1>4. m \in 0..UlongLimit
    BY <1>2, UlongAssumption
  <1>5. SavedClient(r) = [alias |-> r.alias, new |-> r.new, max |-> m, sent |-> f]
    BY DEF SavedClient
  <1>6. Rows(t) \subseteq 1..t.max => NewRows(t) \subseteq 1..m
    BY DEF NewRows
  <1>7. DOMAIN f = NewRows(t)
    OBVIOUS
  <1>8. f \in Aliases6Functions
    BY <1>3 DEF Aliases6Functions
  <1> HIDE DEF f, m, t
  <1>9. SavedClient(r) \in SavedType
    BY <1>1, <1>4, <1>5, <1>8 DEF SavedType
  <1> QED
    BY <1>5, <1>6, <1>7, <1>9 DEF t

LEMMA RegParts ==
  ASSUME NEW reg \in RegTables
  PROVE  /\ reg.max \in 0..UlongLimit /\ DOMAIN reg.row \subseteq Numbers
         /\ \A c \in DOMAIN reg.row : reg.row[c] \in SavedType
  <1>1. PICK S \in SUBSET Numbers : reg \in [max : 0..UlongLimit, row : [S -> SavedType]]
    BY DEF RegTables
  <1> QED
    BY <1>1

LEMMA SavedParts ==
  ASSUME NEW s \in SavedType
  PROVE  /\ s.alias \in Aliases6 /\ s.new \in BOOLEAN /\ s.max \in 0..UlongLimit
         /\ DOMAIN s.sent \subseteq Numbers /\ s.sent \in [DOMAIN s.sent -> Aliases6]
  <1>1. s.sent \in Aliases6Functions
    BY DEF SavedType
  <1>2. PICK S \in SUBSET Numbers : s.sent \in [S -> Aliases6]
    BY <1>1 DEF Aliases6Functions
  <1> QED
    BY <1>2 DEF SavedType

(* The options added and not committed, of a client in memory and of one in  *)
(* the registry.                                                             *)
AddedOptions(t, c) == IF c \in Rows(t) THEN NewRows(t.row[c].sent) ELSE {}
SavedOptions(reg, c) == IF c \in DOMAIN reg.row THEN DOMAIN reg.row[c].sent ELSE {}

Follows(reg, t) ==
  /\ \A c : c \in NewRows(t) <=> (c \in DOMAIN reg.row /\ reg.row[c].new)
  /\ \A c : SavedOptions(reg, c) = AddedOptions(t, c)

LEMMA RegSetParts ==
  ASSUME NEW t \in ClientTables
  PROVE  LET reg == Dhcpv6RegSet(t) IN
         /\ reg \in RegTables /\ reg.max = t.max /\ DOMAIN reg.row \subseteq Rows(t)
         /\ \A c \in DOMAIN reg.row : reg.row[c] = SavedClient(t.row[c])
         /\ Follows(reg, t)
  <1> DEFINE D == {d \in Rows(t) : \/ t.row[d].new \/ Rows(t.row[d].sent) # {}
                                   \/ t.row[d].sent.max # 0}
             f == [c \in D |-> SavedClient(t.row[c])]
             reg == Dhcpv6RegSet(t)
  <1>1. reg = [max |-> t.max, row |-> f]
    BY DEF Dhcpv6RegSet
  <1>2. Rows(t) \subseteq Numbers /\ t.max \in 0..UlongLimit
        /\ \A c \in Rows(t) : t.row[c] \in ClientType
    BY TableParts DEF ClientTables
  <1>3. \A c \in Rows(t) : /\ SavedClient(t.row[c]) \in SavedType
                           /\ SavedClient(t.row[c]).new = t.row[c].new
                           /\ DOMAIN SavedClient(t.row[c]).sent = NewRows(t.row[c].sent)
    BY <1>2, SavedClientParts
  <1>4. D \in SUBSET Numbers /\ D \subseteq Rows(t) /\ f \in [D -> SavedType]
    BY <1>2, <1>3
  <1>5. DOMAIN f = D /\ \A c \in D : f[c] = SavedClient(t.row[c])
    OBVIOUS
  <1>6. \A c \in Rows(t) : c \notin D => ~ t.row[c].new /\ NewRows(t.row[c].sent) = {}
    BY DEF NewRows
  <1> HIDE DEF D, f, reg
  <1>7. reg \in RegTables
    BY <1>1, <1>2, <1>4 DEF RegTables
  <1>8. reg.row = f /\ reg.max = t.max
    BY <1>1
  <1>9. \A c : c \in NewRows(t) <=> (c \in DOMAIN reg.row /\ reg.row[c].new)
    BY <1>3, <1>4, <1>5, <1>6, <1>8 DEF NewRows
  <1>10. \A c : SavedOptions(reg, c) = AddedOptions(t, c)
    BY <1>3, <1>4, <1>5, <1>6, <1>8 DEF SavedOptions, AddedOptions
  <1> QED
    BY <1>4, <1>5, <1>7, <1>8, <1>9, <1>10 DEF Follows, reg

LEMMA RestoredParts ==
  ASSUME NEW s \in SavedType
  PROVE  LET r == RestoredClient(s) IN
         /\ r \in ClientType /\ r.new = s.new
         /\ Rows(r.sent) = DOMAIN s.sent /\ NewRows(r.sent) = DOMAIN s.sent
         /\ r.sent.max = s.max /\ r.sent.old = NoAlias
  <1> DEFINE f == [o \in DOMAIN s.sent |-> SavedOption(s.sent[o])]
             t == [row |-> f, max |-> s.max, old |-> NoAlias]
             r == RestoredClient(s)
  <1>1. /\ s.alias \in Aliases6 /\ s.new \in BOOLEAN /\ s.max \in 0..UlongLimit
        /\ DOMAIN s.sent \in SUBSET Numbers /\ \A o \in DOMAIN s.sent : s.sent[o] \in Aliases6
    BY SavedParts
  <1>2. \A a \in Aliases6 : SavedOption(a) \in OptionType /\ SavedOption(a).new
    BY Tables6Assumption DEF SavedOption, OptionType
  <1>3. f \in [DOMAIN s.sent -> OptionType] /\ DOMAIN f = DOMAIN s.sent
        /\ \A o \in DOMAIN s.sent : f[o].new
    BY <1>1, <1>2
  <1>4. NoAlias \in Aliases6
    BY DEF Aliases6
  <1> HIDE DEF f
  <1>5. t \in SentTables /\ Rows(t) = DOMAIN s.sent
    <2>1. PICK S \in SUBSET Numbers : S = DOMAIN s.sent
      BY <1>1
    <2>2. f \in [S -> OptionType]
      BY <1>3, <2>1
    <2>3. t \in Tables(OptionType, Aliases6) /\ Rows(t) = S
      BY <1>1, <1>4, <2>2, TableMade
    <2> QED
      BY <2>1, <2>3 DEF SentTables
  <1>6. NewRows(t) = DOMAIN s.sent
    BY <1>3, <1>5 DEF NewRows
  <1>7. r = [new |-> s.new, alias |-> s.alias, enabled |-> FALSE, t1 |-> 0, t2 |-> 0,
             req |-> FALSE, sent |-> t]
    BY DEF RestoredClient, f
  <1>8. t.max = s.max /\ t.old = NoAlias
    OBVIOUS
  <1> HIDE DEF t, r
  <1>9. r \in ClientType
    BY <1>1, <1>5, <1>7, Tables6Assumption DEF ClientType
  <1> QED
    BY <1>5, <1>6, <1>7, <1>8, <1>9 DEF r

LEMMA RegGetParts ==
  ASSUME NEW reg \in RegTables
  PROVE  LET t == Dhcpv6RegGet(reg) IN
         /\ t \in ClientTables /\ Rows(t) = DOMAIN reg.row
         /\ t.max = reg.max /\ t.old = NoAlias
         /\ \A c \in DOMAIN reg.row : t.row[c] = RestoredClient(reg.row[c])
  <1> DEFINE f == [c \in DOMAIN reg.row |-> RestoredClient(reg.row[c])]
  <1>1. /\ reg.max \in 0..UlongLimit /\ DOMAIN reg.row \in SUBSET Numbers
        /\ \A c \in DOMAIN reg.row : reg.row[c] \in SavedType
    BY RegParts
  <1>2. f \in [DOMAIN reg.row -> ClientType]
    BY <1>1, RestoredParts
  <1>3. NoAlias \in Aliases6
    BY DEF Aliases6
  <1>4. Dhcpv6RegGet(reg) = [row |-> f, max |-> reg.max, old |-> NoAlias]
    BY DEF Dhcpv6RegGet
  <1>5. \A c \in DOMAIN reg.row : f[c] = RestoredClient(reg.row[c])
    OBVIOUS
  <1> HIDE DEF f
  <1>6. PICK S \in SUBSET Numbers : S = DOMAIN reg.row
    BY <1>1
  <1>7. f \in [S -> ClientType]
    BY <1>2, <1>6
  <1>8. /\ Dhcpv6RegGet(reg) \in Tables(ClientType, Aliases6)
        /\ Rows(Dhcpv6RegGet(reg)) = S
    BY <1>1, <1>3, <1>4, <1>7, TableMadeOf
  <1> QED
    BY <1>4, <1>5, <1>6, <1>8 DEF ClientTables

-----------------------------------------------------------------------------
(* What the backend brings back.                                           *)
Numbered(s) == {s[i].inst : i \in DOMAIN s}
NumbersOnce(s) == \A i, j \in DOMAIN s : i # j => s[i].inst # s[j].inst

LEMMA StoredSeq ==
  ASSUME NEW s \in Seq(StoredOption)
  PROVE  /\ \A i \in DOMAIN s : s[i] \in StoredOption
         /\ Numbered(s) \in SUBSET Numbers
         /\ DOMAIN s = 1..Len(s) /\ Len(s) \in Nat
  <1>1. \A i \in DOMAIN s : s[i] \in StoredOption
    OBVIOUS
  <1>2. \A i \in DOMAIN s : s[i].inst \in Numbers
    BY <1>1 DEF StoredOption, Numbers
  <1> QED
    BY <1>1, <1>2 DEF Numbered

LEMMA BackendIndexParts ==
  ASSUME NEW s \in Seq(StoredOption), NEW n \in Numbered(s)
  PROVE  LET i == CHOOSE j \in BackendIndex(s, n) : TRUE IN
         /\ i \in DOMAIN s /\ s[i].inst = n
         /\ NumbersOnce(s) => \A j \in DOMAIN s : s[j].inst = n => j = i
  <1>1. \E j : j \in BackendIndex(s, n)
    BY DEF BackendIndex, Numbered
  <1>2. PICK i : i = CHOOSE j \in BackendIndex(s, n) : TRUE
    OBVIOUS
  <1>3. i \in BackendIndex(s, n)
    BY <1>1, <1>2
  <1>4. i \in DOMAIN s /\ s[i].inst = n
    BY <1>3 DEF BackendIndex
  <1> QED
    BY <1>2, <1>4 DEF NumbersOnce

LEMMA BackendOptionsParts ==
  ASSUME NEW t \in SentTables, NEW s \in Seq(StoredOption)
  PROVE  LET u == BackendOptions(t, s) IN
         /\ u \in SentTables /\ Rows(u) = Numbered(s) \cup Rows(t)
         /\ NewRows(u) = NewRows(t) \ Numbered(s)
         /\ u.old = NoAlias
         /\ u.max \in Nat /\ t.max <= u.max /\ \A n \in Numbered(s) : n <= u.max
         /\ NumbersOnce(s) =>
              \A i \in DOMAIN s : Stored(s[i].inst, u.row[s[i].inst]) = s[i]
  <1> DEFINE inst == Numbered(s)
             of(n) == s[CHOOSE i \in BackendIndex(s, n) : TRUE]
             back(n) == [new |-> FALSE, alias |-> of(n).alias,
                         enabled |-> of(n).enabled, tag |-> of(n).tag]
             f == [n \in inst \cup Rows(t) |-> IF n \in inst THEN back(n) ELSE t.row[n]]
             m == CHOOSE k \in inst \cup {t.max} : \A n \in inst \cup {t.max} : n <= k
             u == BackendOptions(t, s)
  <1>1. u = [row |-> f, max |-> m, old |-> NoAlias]
    BY DEF BackendOptions, Numbered
  <1>2. /\ Rows(t) \in SUBSET Numbers /\ t.max \in 0..UlongLimit /\ NoAlias \in Aliases6
        /\ \A n \in Rows(t) : t.row[n] \in OptionType
    BY TableParts DEF SentTables, Aliases6
  <1>3. inst \in SUBSET Numbers
    BY StoredSeq
  <1>4. ASSUME NEW n \in inst
        PROVE  /\ back(n) \in OptionType /\ ~ back(n).new
               /\ of(n) \in StoredOption /\ of(n).inst = n
               /\ Stored(n, back(n)) = of(n)
    <2>1. of(n) \in StoredOption /\ of(n).inst = n
      BY BackendIndexParts, StoredSeq
    <2> HIDE DEF of, inst
    <2>2. PICK o \in StoredOption : o = of(n) /\ o.inst = n
      BY <2>1
    <2>3. back(n) = [new |-> FALSE, alias |-> o.alias, enabled |-> o.enabled, tag |-> o.tag]
      BY <2>2
    <2> HIDE DEF back
    <2>4. back(n) \in OptionType /\ ~ back(n).new
      BY <2>3 DEF OptionType, StoredOption
    <2>5. Stored(n, back(n)) = o
      BY <2>2, <2>3 DEF Stored, StoredOption
    <2> QED
      BY <2>2, <2>4, <2>5
  <1>5. /\ DOMAIN f = inst \cup Rows(t)
        /\ \A n \in inst : f[n] = back(n)
        /\ \A n \in Rows(t) \ inst : f[n] = t.row[n]
    OBVIOUS
  <1>6. m \in inst \cup {t.max} /\ \A n \in inst \cup {t.max} : n <= m
    <2>1. inst \cup {t.max} \in SUBSET (0..UlongLimit) /\ inst \cup {t.max} # {}
      BY <1>2, <1>3 DEF Numbers
    <2> HIDE DEF inst
    <2>2. \E k \in inst \cup {t.max} : \A n \in inst \cup {t.max} : n <= k
      BY <2>1, LargestNumber, UlongAssumption
    <2> QED
      BY <2>2
  <1>7. m \in 0..UlongLimit
    BY <1>2, <1>3, <1>6, UlongAssumption DEF Numbers
  <1>8. NumbersOnce(s) => \A i \in DOMAIN s : of(s[i].inst) = s[i] /\ s[i].inst \in inst
    <2> SUFFICES ASSUME NumbersOnce(s), NEW i \in DOMAIN s
                 PROVE  of(s[i].inst) = s[i] /\ s[i].inst \in inst
      OBVIOUS
    <2>1. PICK n \in Numbered(s) : n = s[i].inst
      BY DEF Numbered
    <2>2. PICK j : j = CHOOSE k \in BackendIndex(s, n) : TRUE
      OBVIOUS
    <2>3. i = j
      BY <2>1, <2>2, BackendIndexParts
    <2> QED
      BY <2>1, <2>2, <2>3
  <1> HIDE DEF inst, of, back, f, m, u
  <1>9. f \in [inst \cup Rows(t) -> OptionType]
    <2>1. \A n \in DOMAIN f : f[n] \in OptionType
      BY <1>2, <1>4, <1>5
    <2>2. f = [n \in DOMAIN f |-> f[n]]
      BY DEF f
    <2> QED
      BY <1>5, <2>1, <2>2
  <1>10. u.row = f /\ u.max = m /\ u.old = NoAlias
    BY <1>1
  <1>11. u \in SentTables /\ Rows(u) = inst \cup Rows(t)
    <2>1. Rows(u) = inst \cup Rows(t) /\ Rows(u) \subseteq Numbers
      BY <1>2, <1>3, <1>5, <1>10 DEF Rows
    <2>2. u = [row |-> u.row, max |-> u.max, old |-> u.old]
      BY <1>1
    <2>3. u \in Tables(OptionType, Aliases6)
      BY <1>2, <1>7, <1>9, <1>10, <2>1, <2>2, IsTable
    <2> QED
      BY <2>1, <2>3 DEF SentTables
  <1>12. NewRows(u) = NewRows(t) \ inst
    BY <1>4, <1>5, <1>10, <1>11 DEF NewRows
  <1>13. NumbersOnce(s) =>
              \A i \in DOMAIN s : Stored(s[i].inst, u.row[s[i].inst]) = s[i]
    BY <1>4, <1>5, <1>8, <1>10
  <1>14. u.max \in Nat /\ t.max <= u.max /\ \A n \in inst : n <= u.max
    <2>1. m \in Nat
      BY <1>7, UlongAssumption
    <2> QED
      BY <1>6, <1>10, <2>1
  <1> QED
    BY <1>10, <1>11, <1>12, <1>13, <1>14 DEF u, inst

LEMMA PutRowParts ==
  ASSUME NEW t \in ClientTables, NEW r \in ClientType
  PROVE  LET u == [PushEntry(t, 1, r) EXCEPT !.max = IF @ < 1 THEN 1 ELSE @] IN
         /\ u \in ClientTables /\ Rows(u) = Rows(t) \cup {1}
         /\ u.row[1] = r /\ \A c \in Rows(t) \ {1} : u.row[c] = t.row[c]
         /\ u.old = t.old /\ u.max \in Nat /\ u.max >= 1 /\ u.max >= t.max
  <1> DEFINE p == PushEntry(t, 1, r)
             m == IF p.max < 1 THEN 1 ELSE p.max
             u == [p EXCEPT !.max = IF @ < 1 THEN 1 ELSE @]
  <1>1. 1 \in Numbers
    BY UlongAssumption DEF Numbers
  <1>2. /\ p \in ClientTables /\ Rows(p) = Rows(t) \cup {1} /\ p.row[1] = r
        /\ \A c \in Rows(t) \ {1} : p.row[c] = t.row[c]
        /\ p.max = t.max /\ p.old = t.old
    BY <1>1, PushParts DEF ClientTables
  <1> HIDE DEF p
  <1>3. /\ p = [row |-> p.row, max |-> p.max, old |-> p.old]
        /\ Rows(p) \subseteq Numbers /\ p.row \in [Rows(p) -> ClientType]
        /\ p.max \in 0..UlongLimit /\ p.old \in Aliases6
    BY <1>2, TableParts DEF ClientTables
  <1>4. u = [row |-> p.row, max |-> m, old |-> p.old]
    BY <1>3
  <1>5. m \in 0..UlongLimit /\ m \in Nat /\ m >= 1 /\ m >= p.max
    BY <1>3, UlongAssumption
  <1> HIDE DEF m, u
  <1>6. u \in Tables(ClientType, Aliases6) /\ Rows(u) = Rows(p)
    BY <1>3, <1>4, <1>5, TableMadeOf
  <1>7. u.row = p.row /\ u.max = m /\ u.old = p.old
    BY <1>4
  <1> QED
    BY <1>2, <1>5, <1>6, <1>7 DEF u, p, ClientTables

LEMMA BackendGetParts ==
  ASSUME NEW t \in ClientTables, NEW g \in CfgType, NEW s \in Seq(StoredOption)
  PROVE  LET u == Dhcpv6BackendGet(t, g, s)
             o == IF 1 \in Rows(t) THEN t.row[1].sent ELSE EmptyTable IN
         /\ u \in ClientTables /\ Rows(u) = Rows(t) \cup {1}
         /\ \A c \in Rows(t) \ {1} : u.row[c] = t.row[c]
         /\ u.old = t.old /\ u.max \in Nat /\ u.max >= 1 /\ u.max >= t.max
         /\ ~ u.row[1].new /\ Cfg(u.row[1]) = g
         /\ o \in SentTables /\ u.row[1].sent = BackendOptions(o, s)
  <1> DEFINE o == IF 1 \in Rows(t) THEN t.row[1].sent ELSE EmptyTable
             b == BackendOptions(o, s)
             r == [new |-> FALSE, alias |-> g.alias, enabled |-> g.enabled,
                   t1 |-> g.t1, t2 |-> g.t2, req |-> g.req, sent |-> b]
             u == Dhcpv6BackendGet(t, g, s)
  <1>1. \A c \in Rows(t) : t.row[c].sent \in SentTables
    BY TableParts, ClientFields DEF ClientTables
  <1>2. o \in SentTables
    BY <1>1, EmptyTableParts DEF SentTables, Aliases6
  <1>3. b \in SentTables
    <2> HIDE DEF o
    <2> QED
      BY <1>2, BackendOptionsParts
  <1> HIDE DEF b
  <1>4. r \in ClientType /\ ~ r.new /\ Cfg(r) = g /\ r.sent = b
    BY <1>3 DEF ClientType, Cfg, CfgType
  <1>5. u = [PushEntry(t, 1, r) EXCEPT !.max = IF @ < 1 THEN 1 ELSE @]
    BY DEF Dhcpv6BackendGet, b
  <1> HIDE DEF r, u
  <1>6. /\ u \in ClientTables /\ Rows(u) = Rows(t) \cup {1}
        /\ u.row[1] = r /\ \A c \in Rows(t) \ {1} : u.row[c] = t.row[c]
        /\ u.old = t.old /\ u.max \in Nat /\ u.max >= 1 /\ u.max >= t.max
    BY <1>4, <1>5, PutRowParts
  <1> QED
    BY <1>2, <1>4, <1>6 DEF u, b

-----------------------------------------------------------------------------
(* What a step does to the rows: a call on a client's own row leaves the     *)
(* options and the other clients alone, a call on an option the rest.        *)
Phases == {"idle", "set", "commit", "rollback"}
Dibbler == [run : BOOLEAN, conf : ConfType, sent : SUBSET Tags]

Types6 ==
  /\ client6 \in ClientTables /\ reg6 \in RegTables
  /\ g6 \in CfgType /\ sent6 \in Seq(StoredOption)
  /\ conf6 \in ConfType /\ file6 \in SUBSET Tags /\ dib6 \in Dibbler
  /\ txn6 = [phase |-> txn6.phase, rows |-> txn6.rows] /\ txn6.phase \in Phases

Options(c) == client6.row[c].sent

ClientChanged(c, t) ==
  /\ t \in ClientTables /\ Rows(t) = Rows(client6) /\ t.max = client6.max
  /\ \A d \in Rows(client6) \ {c} : t.row[d] = client6.row[d]
  /\ t.row[c].sent = Options(c)

OptionChanged(c, o, t) ==
  /\ t \in ClientTables /\ Rows(t) = Rows(client6)
  /\ t.max = client6.max /\ t.old = client6.old
  /\ \A d \in Rows(client6) \ {c} : t.row[d] = client6.row[d]
  /\ t.row[c].new = client6.row[c].new /\ Cfg(t.row[c]) = Cfg(client6.row[c])
  /\ Rows(t.row[c].sent) = Rows(Options(c)) /\ t.row[c].sent.max = Options(c).max
  /\ \A p \in Rows(Options(c)) \ {o} : t.row[c].sent.row[p] = Options(c).row[p]

LEMMA NoAliasTyped == NoAlias \in Aliases6
  BY DEF Aliases6

LEMMA ClientRows ==
  ASSUME client6 \in ClientTables
  PROVE  /\ Rows(client6) \subseteq Numbers /\ client6.max \in 0..UlongLimit
         /\ client6.old \in Aliases6
         /\ \A c \in Rows(client6) : client6.row[c] \in ClientType /\ Options(c) \in SentTables
  BY TableParts, ClientFields DEF ClientTables, Options

LEMMA OptionRows ==
  ASSUME NEW t \in SentTables
  PROVE  /\ Rows(t) \subseteq Numbers /\ t.max \in 0..UlongLimit /\ t.old \in Aliases6
         /\ \A o \in Rows(t) : t.row[o] \in OptionType
  BY TableParts DEF SentTables

LEMMA ClientSet ==
  ASSUME client6 \in ClientTables, NEW c \in Rows(client6), NEW r \in ClientType,
         r.sent = Options(c)
  PROVE  LET t == SetRow(client6, c, r) IN
         ClientChanged(c, t) /\ t.row[c] = r /\ t.old = client6.old
  BY SetRowParts DEF ClientTables, ClientChanged

LEMMA OptionsSet ==
  ASSUME client6 \in ClientTables, NEW c \in Rows(client6), NEW u \in SentTables
  PROVE  LET t == [client6 EXCEPT !.row[c].sent = u] IN
         /\ t \in ClientTables /\ Rows(t) = Rows(client6)
         /\ t.max = client6.max /\ t.old = client6.old
         /\ \A d \in Rows(client6) \ {c} : t.row[d] = client6.row[d]
         /\ t.row[c].new = client6.row[c].new /\ Cfg(t.row[c]) = Cfg(client6.row[c])
         /\ t.row[c].sent = u
  <1> DEFINE r == [client6.row[c] EXCEPT !.sent = u]
             t == [client6 EXCEPT !.row[c].sent = u]
  <1>1. client6.row[c] \in ClientType
    BY ClientRows
  <1>2. r \in ClientType /\ r.new = client6.row[c].new /\ r.sent = u /\ Cfg(r) = Cfg(client6.row[c])
    BY <1>1, SentFields
  <1>3. t = SetRow(client6, c, r)
    BY DEF SetRow
  <1> HIDE DEF r, t
  <1>4. /\ t \in ClientTables /\ Rows(t) = Rows(client6) /\ t.row[c] = r
        /\ \A d \in Rows(client6) \ {c} : t.row[d] = client6.row[d]
        /\ t.max = client6.max /\ t.old = client6.old
    BY <1>2, <1>3, SetRowParts DEF ClientTables
  <1> QED
    BY <1>2, <1>4 DEF t

LEMMA OptionSet ==
  ASSUME client6 \in ClientTables, NEW c \in Rows(client6), NEW u \in SentTables,
         NEW o \in Rows(Options(c)), NEW r, Changed(Options(c), u, o, r)
  PROVE  LET t == [client6 EXCEPT !.row[c].sent = u] IN
         /\ OptionChanged(c, o, t) /\ t.row[c].sent = u /\ t.row[c].sent.row[o] = r
  <1> DEFINE t == [client6 EXCEPT !.row[c].sent = u]
  <1>1. /\ t \in ClientTables /\ Rows(t) = Rows(client6)
        /\ t.max = client6.max /\ t.old = client6.old
        /\ \A d \in Rows(client6) \ {c} : t.row[d] = client6.row[d]
        /\ t.row[c].new = client6.row[c].new /\ Cfg(t.row[c]) = Cfg(client6.row[c])
        /\ t.row[c].sent = u
    BY OptionsSet
  <1> HIDE DEF t
  <1>2. OptionChanged(c, o, t) /\ t.row[c].sent = u /\ t.row[c].sent.row[o] = r
    BY <1>1 DEF OptionChanged, Changed
  <1> QED
    BY <1>2 DEF t

LEMMA ClientSetEffect ==
  ASSUME Types6, NEW c \in Rows(client6),
         \/ Client3_SetParamBoolValue(c)
         \/ Client3_SetParamIntValue(c)
         \/ Client3_SetParamStringValue(c)
  PROVE  /\ MaySet(txn6) /\ txn6' = Touched(txn6, <<c, "client", 0>>)
         /\ UNCHANGED <<reg6, backend6>>
         /\ ClientChanged(c, client6') /\ client6'.row[c].new = client6.row[c].new
  <1>0. client6 \in ClientTables /\ client6.row[c] \in ClientType
    BY ClientRows DEF Types6
  <1> DEFINE q == client6.row[c]
  <1>1. CASE Client3_SetParamBoolValue(c)
    <2>1. PICK v \in BOOLEAN : \/ client6' = [client6 EXCEPT !.row[c].enabled = v]
                               \/ client6' = [client6 EXCEPT !.row[c].req = v]
      BY <1>1 DEF Client3_SetParamBoolValue
    <2>2. \/ client6' = SetRow(client6, c, [q EXCEPT !.enabled = v])
          \/ client6' = SetRow(client6, c, [q EXCEPT !.req = v])
      BY <2>1 DEF SetRow
    <2>3. \E r \in ClientType : /\ client6' = SetRow(client6, c, r)
                                /\ r.new = q.new /\ r.sent = Options(c)
      BY <1>0, <2>2, ClientStaged DEF Options
    <2>4. ClientChanged(c, client6') /\ client6'.row[c].new = q.new
      BY <1>0, <2>3, ClientSet
    <2> QED
      BY <1>1, <2>4 DEF Client3_SetParamBoolValue
  <1>2. CASE Client3_SetParamIntValue(c)
    <2>1. PICK v \in Times : \/ client6' = [client6 EXCEPT !.row[c].t1 = v]
                             \/ client6' = [client6 EXCEPT !.row[c].t2 = v]
      BY <1>2 DEF Client3_SetParamIntValue
    <2>2. \/ client6' = SetRow(client6, c, [q EXCEPT !.t1 = v])
          \/ client6' = SetRow(client6, c, [q EXCEPT !.t2 = v])
      BY <2>1 DEF SetRow
    <2>3. \E r \in ClientType : /\ client6' = SetRow(client6, c, r)
                                /\ r.new = q.new /\ r.sent = Options(c)
      BY <1>0, <2>2, ClientStaged DEF Options
    <2>4. ClientChanged(c, client6') /\ client6'.row[c].new = q.new
      BY <1>0, <2>3, ClientSet
    <2> QED
      BY <1>2, <2>4 DEF Client3_SetParamIntValue
  <1>3. CASE Client3_SetParamStringValue(c)
    <2>1. PICK a \in UserAliases : client6' = SetAlias(client6, c, a)
      BY <1>3 DEF Client3_SetParamStringValue
    <2>2. a \in Aliases6 /\ q.alias \in Aliases6
      BY <1>0, ClientFields DEF Aliases6
    <2>3. /\ [q EXCEPT !.alias = a] \in ClientType /\ [q EXCEPT !.alias = a].new = q.new
          /\ [q EXCEPT !.alias = a].sent = q.sent
      BY <1>0, <2>2, ClientCommitted
    <2>4. client6' \in ClientTables /\ Changed(client6, client6', c, [q EXCEPT !.alias = a])
      BY <1>0, <2>1, <2>2, <2>3, SetAliasParts DEF ClientTables
    <2>5. ClientChanged(c, client6') /\ client6'.row[c].new = q.new
      <3> HIDE DEF q
      <3>1. PICK r : r = [q EXCEPT !.alias = a]
        OBVIOUS
      <3> QED
        BY <2>3, <2>4, <3>1 DEF Changed, ClientChanged, Options, q
    <2> QED
      BY <1>3, <2>5 DEF Client3_SetParamStringValue
  <1> QED
    BY <1>1, <1>2, <1>3

LEMMA OptionSetEffect ==
  ASSUME Types6, NEW c \in Rows(client6), NEW o \in Rows(Options(c)),
         \/ SentOption1_SetParamBoolValue(c, o)
         \/ SentOption1_SetParamUlongValue(c, o)
         \/ SentOption1_SetParamStringValue(c, o)
  PROVE  /\ MaySet(txn6) /\ txn6' = Touched(txn6, <<c, "sent", o>>)
         /\ UNCHANGED <<reg6, backend6>>
         /\ OptionChanged(c, o, client6')
         /\ client6'.row[c].sent.row[o].new = Options(c).row[o].new
  <1> DEFINE t == Options(c)
             q == t.row[o]
  <1>0. client6 \in ClientTables /\ t \in SentTables /\ q \in OptionType
    BY ClientRows, OptionRows DEF Types6
  <1>1. CASE SentOption1_SetParamBoolValue(c, o)
    <2>1. PICK v \in BOOLEAN : client6' = [client6 EXCEPT !.row[c].sent.row[o].enabled = v]
      BY <1>1 DEF SentOption1_SetParamBoolValue
    <2>2. PICK r : r = [q EXCEPT !.enabled = v]
      OBVIOUS
    <2>3. r \in OptionType /\ r.new = q.new
      BY <1>0, <2>2, OptionFields
    <2>4. PICK u : u = SetRow(t, o, r)
      OBVIOUS
    <2>5. client6' = [client6 EXCEPT !.row[c].sent = u]
      BY <2>1, <2>2, <2>4 DEF SetRow, Options
    <2>6. u \in SentTables /\ Changed(t, u, o, r)
      BY <1>0, <2>3, <2>4, SetRowParts DEF SentTables, Changed
    <2>7. OptionChanged(c, o, client6') /\ client6'.row[c].sent.row[o] = r
      BY <1>0, <2>5, <2>6, OptionSet
    <2> QED
      BY <1>1, <2>3, <2>7 DEF SentOption1_SetParamBoolValue
  <1>2. CASE SentOption1_SetParamUlongValue(c, o)
    <2>1. PICK v \in Tags : client6' = [client6 EXCEPT !.row[c].sent.row[o].tag = v]
      BY <1>2 DEF SentOption1_SetParamUlongValue
    <2>2. PICK r : r = [q EXCEPT !.tag = v]
      OBVIOUS
    <2>3. r \in OptionType /\ r.new = q.new
      BY <1>0, <2>2, OptionFields
    <2>4. PICK u : u = SetRow(t, o, r)
      OBVIOUS
    <2>5. client6' = [client6 EXCEPT !.row[c].sent = u]
      BY <2>1, <2>2, <2>4 DEF SetRow, Options
    <2>6. u \in SentTables /\ Changed(t, u, o, r)
      BY <1>0, <2>3, <2>4, SetRowParts DEF SentTables, Changed
    <2>7. OptionChanged(c, o, client6') /\ client6'.row[c].sent.row[o] = r
      BY <1>0, <2>5, <2>6, OptionSet
    <2> QED
      BY <1>2, <2>3, <2>7 DEF SentOption1_SetParamUlongValue
  <1>3. CASE SentOption1_SetParamStringValue(c, o)
    <2>1. PICK a \in UserAliases :
            client6' = [client6 EXCEPT !.row[c].sent = SetAlias(client6.row[c].sent, o, a)]
      BY <1>3 DEF SentOption1_SetParamStringValue
    <2>2. a \in Aliases6 /\ q.alias \in Aliases6
      BY <1>0, OptionFields DEF Aliases6
    <2>3. PICK r : r = [q EXCEPT !.alias = a]
      OBVIOUS
    <2>4. r \in OptionType /\ r.new = q.new
      BY <1>0, <2>2, <2>3, OptionFields
    <2>5. PICK u : u = SetAlias(t, o, a)
      OBVIOUS
    <2>6. u \in SentTables /\ Changed(t, u, o, r)
      BY <1>0, <2>2, <2>3, <2>4, <2>5, SetAliasParts DEF SentTables
    <2>7. client6' = [client6 EXCEPT !.row[c].sent = u]
      BY <2>1, <2>5 DEF Options
    <2>8. OptionChanged(c, o, client6') /\ client6'.row[c].sent.row[o] = r
      BY <1>0, <2>6, <2>7, OptionSet
    <2> QED
      BY <1>3, <2>4, <2>8 DEF SentOption1_SetParamStringValue
  <1> QED
    BY <1>1, <1>2, <1>3

(* The three ends of a client's row: committed for the first time, written   *)
(* to the backend, or committed with no backend to write to.                 *)
LEMMA ClientCommitEffect ==
  ASSUME Types6, NEW c \in Rows(client6), Client3_Commit(c)
  PROVE  /\ ClientChanged(c, client6') /\ client6'.old = NoAlias
         /\ Cfg(client6'.row[c]) = Cfg(client6.row[c]) /\ ~ client6'.row[c].new
         /\ \/ /\ client6.row[c].new /\ UNCHANGED backend6
               /\ reg6' = Dhcpv6RegSet(client6')
            \/ /\ ~ client6.row[c].new /\ c = 1 /\ SetCfg(Cfg(client6.row[c]))
               /\ UNCHANGED reg6
            \/ /\ ~ client6.row[c].new /\ c # 1 /\ UNCHANGED <<reg6, backend6>>
  <1> DEFINE q == client6.row[c]
             z == ZeroAlias(client6)
  <1>1. client6 \in ClientTables /\ q \in ClientType /\ q.new \in BOOLEAN
    BY ClientRows, ClientFields DEF Types6
  <1>2. z \in ClientTables /\ Rows(z) = Rows(client6) /\ z.row = client6.row
        /\ z.max = client6.max /\ z.old = NoAlias
    BY <1>1, ZeroAliasParts, NoAliasTyped DEF ClientTables
  <1>3. CASE q.new
    <2>1. PICK r : r = [q EXCEPT !.new = FALSE]
      OBVIOUS
    <2>2. r \in ClientType /\ ~ r.new /\ r.sent = q.sent /\ Cfg(r) = Cfg(q)
      BY <1>1, <2>1, ClientCommitted
    <2>3. client6' = [z EXCEPT !.row[c].new = FALSE]
      BY <1>3 DEF Client3_Commit
    <2> HIDE DEF z
    <2>4. client6' = SetRow(z, c, r)
      BY <1>2, <2>1, <2>3 DEF SetRow
    <2>5. /\ client6' \in ClientTables /\ Rows(client6') = Rows(z) /\ client6'.row[c] = r
          /\ \A d \in Rows(z) \ {c} : client6'.row[d] = z.row[d]
          /\ client6'.max = z.max /\ client6'.old = z.old
      BY <1>2, <2>2, <2>4, SetRowParts DEF ClientTables
    <2>6. ClientChanged(c, client6') /\ client6'.old = NoAlias /\ client6'.row[c] = r
      BY <1>2, <2>2, <2>5 DEF ClientChanged, Options
    <2> QED
      BY <1>3, <2>2, <2>6 DEF Client3_Commit
  <1>4. CASE ~ q.new
    <2>1. client6' = z
      BY <1>4 DEF Client3_Commit
    <2> HIDE DEF z
    <2>2. ClientChanged(c, client6') /\ client6'.old = NoAlias /\ client6'.row[c] = q
      BY <1>2, <2>1 DEF ClientChanged, Options
    <2> QED
      BY <1>4, <2>2 DEF Client3_Commit
  <1> QED
    BY <1>1, <1>3, <1>4

LEMMA ClientRollbackEffect ==
  ASSUME Types6, NEW c \in Rows(client6), Client3_Rollback(c)
  PROVE  /\ ClientChanged(c, client6') /\ client6'.old = NoAlias
         /\ client6'.row[c].new = client6.row[c].new
         /\ (c = 1 /\ ~ client6.row[c].new) => Cfg(client6'.row[c]) = g6
         /\ UNCHANGED <<reg6, backend6>>
  <1> DEFINE q == client6.row[c]
  <1>1. client6 \in ClientTables /\ q \in ClientType /\ q.new \in BOOLEAN /\ g6 \in CfgType
    BY ClientRows, ClientFields DEF Types6
  <1>2. PICK t : t = RestoreAlias(client6, c)
    OBVIOUS
  <1>3. PICK s : s = t.row[c]
    OBVIOUS
  <1>4. /\ t \in ClientTables /\ Changed(client6, t, c, s) /\ s \in ClientType
        /\ s.new = q.new /\ s.sent = q.sent
    <2>1. \A a \in Aliases6 : [q EXCEPT !.alias = a] \in ClientType
      BY <1>1, ClientCommitted
    <2>2. PICK r \in ClientType :
            /\ t \in ClientTables /\ Changed(client6, t, c, r)
            /\ r = q \/ r = [q EXCEPT !.alias = client6.old]
      BY <1>1, <1>2, <2>1, RestoreAliasParts DEF ClientTables
    <2>3. client6.old \in Aliases6
      BY <1>1, ClientRows
    <2>4. r.new = q.new /\ r.sent = q.sent
      <3>1. PICK a \in Aliases6 : a = client6.old
        BY <2>3
      <3>2. [q EXCEPT !.alias = a].new = q.new /\ [q EXCEPT !.alias = a].sent = q.sent
        BY <1>1, ClientCommitted
      <3>3. r = q \/ r = [q EXCEPT !.alias = a]
        BY <2>2, <3>1
      <3> QED
        BY <3>2, <3>3
    <2> QED
      BY <1>3, <2>2, <2>4 DEF Changed
  <1>5. PICK r : r = CASE s.new -> [s EXCEPT !.enabled = FALSE]
                       [] ~s.new /\ c = 1 -> WithCfg(s, g6)
                       [] OTHER -> s
    OBVIOUS
  <1>6. /\ client6' = ZeroAlias([t EXCEPT !.row[c] = r])
        /\ UNCHANGED <<reg6, backend6>>
    BY <1>2, <1>3, <1>5 DEF Client3_Rollback
  <1>7. /\ r \in ClientType /\ r.new = s.new /\ r.sent = s.sent
        /\ (c = 1 /\ ~ s.new) => Cfg(r) = g6
    <2>1. CASE s.new
      <3>1. r = [s EXCEPT !.enabled = FALSE]
        BY <1>5, <2>1
      <3> QED
        BY <1>4, <2>1, <3>1, ClientStaged
    <2>2. CASE ~ s.new /\ c = 1
      <3>1. r = WithCfg(s, g6)
        BY <1>5, <2>2
      <3> QED
        BY <1>1, <1>4, <2>2, <3>1, WithCfgFields
    <2>3. CASE ~ s.new /\ c # 1
      <3>1. r = s
        BY <1>5, <2>3
      <3> QED
        BY <1>4, <2>3, <3>1
    <2> QED
      BY <1>1, <1>4, <2>1, <2>2, <2>3
  <1>8. PICK u : u = SetRow(t, c, r)
    OBVIOUS
  <1>9. /\ u \in ClientTables /\ Rows(u) = Rows(t) /\ u.row[c] = r
        /\ \A d \in Rows(t) \ {c} : u.row[d] = t.row[d]
        /\ u.max = t.max
    BY <1>4, <1>7, <1>8, SetRowParts DEF ClientTables, Changed
  <1>10. client6' = ZeroAlias(u)
    BY <1>6, <1>8 DEF SetRow
  <1>11. /\ client6' \in ClientTables /\ Rows(client6') = Rows(u) /\ client6'.row = u.row
         /\ client6'.max = u.max /\ client6'.old = NoAlias
    BY <1>9, <1>10, ZeroAliasParts, NoAliasTyped DEF ClientTables
  <1> QED
    BY <1>4, <1>6, <1>7, <1>9, <1>11 DEF Changed, ClientChanged, Options

LEMMA OptionRestored ==
  ASSUME NEW t \in SentTables, NEW o \in Rows(t)
  PROVE  \E r \in OptionType :
           /\ RestoreAlias(t, o) \in SentTables /\ Changed(t, RestoreAlias(t, o), o, r)
           /\ RestoreAlias(t, o).row[o] = r
           /\ r.new = t.row[o].new
  <1> DEFINE q == t.row[o]
  <1>1. q \in OptionType /\ t.old \in Aliases6
    BY OptionRows
  <1>2. \A a \in Aliases6 : [q EXCEPT !.alias = a] \in OptionType
    BY <1>1, OptionFields
  <1>3. PICK r \in OptionType :
          /\ RestoreAlias(t, o) \in SentTables /\ Changed(t, RestoreAlias(t, o), o, r)
          /\ r = q \/ r = [q EXCEPT !.alias = t.old]
    BY <1>2, RestoreAliasParts DEF SentTables
  <1>4. PICK a \in Aliases6 : a = t.old
    BY <1>1
  <1>5. [q EXCEPT !.alias = a].new = q.new
    BY <1>1, OptionFields
  <1>6. r = q \/ r = [q EXCEPT !.alias = a]
    BY <1>3, <1>4
  <1>7. r.new = q.new
    BY <1>5, <1>6
  <1> QED
    BY <1>3, <1>7 DEF Changed

(* The row is written and the buffer of the table cleared.                   *)
LEMMA OptionWritten ==
  ASSUME client6 \in ClientTables, NEW c \in Rows(client6), NEW o \in Rows(Options(c)),
         NEW t \in SentTables, NEW s, Changed(Options(c), t, o, s),
         NEW r \in OptionType, NEW u, u = ZeroAlias(SetRow(t, o, r)),
         client6' = [client6 EXCEPT !.row[c].sent = u]
  PROVE  /\ OptionChanged(c, o, client6') /\ client6'.row[c].sent.row[o] = r
         /\ client6'.row[c].sent.old = NoAlias
  <1>1. PICK v : v = SetRow(t, o, r)
    OBVIOUS
  <1>2. /\ v \in SentTables /\ Rows(v) = Rows(t) /\ v.row[o] = r
        /\ \A p \in Rows(t) \ {o} : v.row[p] = t.row[p]
        /\ v.max = t.max
    BY <1>1, SetRowParts DEF SentTables, Changed
  <1>3. /\ u \in SentTables /\ Rows(u) = Rows(v) /\ u.row = v.row
        /\ u.max = v.max /\ u.old = NoAlias
    BY <1>1, <1>2, ZeroAliasParts, NoAliasTyped DEF SentTables
  <1>4. Changed(Options(c), u, o, r)
    BY <1>2, <1>3 DEF Changed
  <1> QED
    BY <1>3, <1>4, OptionSet

LEMMA OptionCommitEffect ==
  ASSUME Types6, NEW c \in Rows(client6), NEW o \in Rows(Options(c)),
         SentOption1_Commit(c, o)
  PROVE  LET q == Options(c).row[o]
             r == client6'.row[c].sent.row[o] IN
         /\ OptionChanged(c, o, client6') /\ client6'.row[c].sent.old = NoAlias
         /\ \/ /\ q.new /\ c = 1 /\ AddSentOption(o, q)
               /\ ~ r.new /\ r.alias = q.alias /\ r.enabled = q.enabled /\ r.tag = q.tag
               /\ reg6' = Dhcpv6RegSet(client6')
            \/ /\ q.new /\ c # 1 /\ r.new
               /\ UNCHANGED <<reg6, backend6>>
            \/ /\ ~ q.new /\ SetSentOption(o, q) /\ r = q
               /\ UNCHANGED reg6
  <1> DEFINE t == Options(c)
             q == t.row[o]
  <1>1. client6 \in ClientTables /\ t \in SentTables /\ q \in OptionType /\ q.new \in BOOLEAN
    BY ClientRows, OptionRows, OptionFields DEF Types6
  <1>2. CASE q.new /\ c = 1
    <2>1. PICK r : r = [q EXCEPT !.new = FALSE]
      OBVIOUS
    <2>2. /\ r \in OptionType /\ ~ r.new
          /\ r.alias = q.alias /\ r.enabled = q.enabled /\ r.tag = q.tag
      BY <1>1, <2>1, OptionFields
    <2>3. PICK u : u = ZeroAlias(SetRow(t, o, r))
      OBVIOUS
    <2>4. Changed(t, t, o, q)
      BY DEF Changed
    <2>5. /\ client6' = [client6 EXCEPT !.row[c].sent = ZeroAlias([t EXCEPT !.row[o].new = FALSE])]
          /\ AddSentOption(o, q) /\ reg6' = Dhcpv6RegSet(client6')
      BY <1>2 DEF SentOption1_Commit, Options
    <2>6. client6' = [client6 EXCEPT !.row[c].sent = u]
      BY <2>1, <2>3, <2>5 DEF SetRow
    <2>7. /\ OptionChanged(c, o, client6') /\ client6'.row[c].sent.row[o] = r
          /\ client6'.row[c].sent.old = NoAlias
      BY <1>1, <2>2, <2>3, <2>4, <2>6, OptionWritten
    <2> QED
      BY <1>2, <2>2, <2>5, <2>7
  <1>3. CASE q.new /\ c # 1
    <2>1. PICK r : r = Defaulted(q)
      OBVIOUS
    <2>2. r \in OptionType /\ r.new
      BY <1>1, <1>3, <2>1, DefaultedFields
    <2>3. PICK v : v = SetRow(t, o, r)
      OBVIOUS
    <2>4. v \in SentTables /\ Changed(t, v, o, r) /\ o \in Rows(v)
      BY <1>1, <2>2, <2>3, SetRowParts DEF SentTables, Changed
    <2>5. PICK w : w = RestoreAlias(v, o)
      OBVIOUS
    <2>6. PICK s \in OptionType : w \in SentTables /\ Changed(v, w, o, s) /\ s.new
      BY <2>2, <2>4, <2>5, OptionRestored DEF Changed
    <2>7. PICK u : u = ZeroAlias(w)
      OBVIOUS
    <2>8. /\ client6' = [client6 EXCEPT !.row[c].sent =
               ZeroAlias(RestoreAlias([t EXCEPT !.row[o] = Defaulted(q)], o))]
          /\ UNCHANGED <<reg6, backend6>>
      BY <1>3 DEF SentOption1_Commit, Options
    <2>9. client6' = [client6 EXCEPT !.row[c].sent = u]
      BY <2>1, <2>3, <2>5, <2>7, <2>8 DEF SetRow
    <2>10. /\ u \in SentTables /\ Rows(u) = Rows(w) /\ u.row = w.row
           /\ u.max = w.max /\ u.old = NoAlias
      BY <2>6, <2>7, ZeroAliasParts, NoAliasTyped DEF SentTables
    <2>11. Changed(t, u, o, s)
      BY <2>4, <2>6, <2>10 DEF Changed
    <2>12. /\ OptionChanged(c, o, client6') /\ client6'.row[c].sent = u
           /\ client6'.row[c].sent.row[o] = s
      BY <1>1, <2>9, <2>10, <2>11, OptionSet
    <2> QED
      BY <1>3, <2>6, <2>8, <2>10, <2>12
  <1>4. CASE ~ q.new
    <2>1. PICK u : u = ZeroAlias(t)
      OBVIOUS
    <2>2. /\ u \in SentTables /\ Rows(u) = Rows(t) /\ u.row = t.row
          /\ u.max = t.max /\ u.old = NoAlias
      BY <1>1, <2>1, ZeroAliasParts, NoAliasTyped DEF SentTables
    <2>3. Changed(t, u, o, q)
      BY <2>2 DEF Changed
    <2>4. /\ client6' = [client6 EXCEPT !.row[c].sent = ZeroAlias(t)]
          /\ SetSentOption(o, q) /\ UNCHANGED reg6
      BY <1>4 DEF SentOption1_Commit, Options
    <2>5. /\ OptionChanged(c, o, client6') /\ client6'.row[c].sent = u
          /\ client6'.row[c].sent.row[o] = q
      BY <1>1, <2>1, <2>2, <2>3, <2>4, OptionSet
    <2> QED
      BY <1>4, <2>2, <2>4, <2>5
  <1> QED
    BY <1>1, <1>2, <1>3, <1>4

LEMMA OptionRollbackEffect ==
  ASSUME Types6, NEW c \in Rows(client6), NEW o \in Rows(Options(c)),
         SentOption1_Rollback(c, o)
  PROVE  LET q == Options(c).row[o]
             r == client6'.row[c].sent.row[o] IN
         /\ OptionChanged(c, o, client6') /\ client6'.row[c].sent.old = NoAlias
         /\ r.new = q.new
         /\ (~ q.new /\ NumbersOnce(sent6)) =>
              \A i \in DOMAIN sent6 : sent6[i].inst = o => Stored(o, r) = sent6[i]
         /\ UNCHANGED <<reg6, backend6>>
  <1> DEFINE t == Options(c)
             q == t.row[o]
             at == BackendIndex(sent6, o)
  <1>1. /\ client6 \in ClientTables /\ t \in SentTables
        /\ q \in OptionType /\ q.new \in BOOLEAN /\ sent6 \in Seq(StoredOption)
    BY ClientRows, OptionRows, OptionFields DEF Types6
  <1>2. PICK w : w = RestoreAlias(t, o)
    OBVIOUS
  <1>3. PICK s \in OptionType :
          w \in SentTables /\ Changed(t, w, o, s) /\ w.row[o] = s /\ s.new = q.new
    BY <1>1, <1>2, OptionRestored
  <1>4. PICK old : old = IF at = {} THEN s
             ELSE [s EXCEPT !.alias = sent6[CHOOSE i \in at : TRUE].alias,
                            !.enabled = sent6[CHOOSE i \in at : TRUE].enabled,
                            !.tag = sent6[CHOOSE i \in at : TRUE].tag]
    OBVIOUS
  <1>5. PICK r : r = IF s.new THEN Defaulted(s) ELSE old
    OBVIOUS
  <1>6. /\ client6' = [client6 EXCEPT !.row[c].sent = ZeroAlias([w EXCEPT !.row[o] = r])]
        /\ UNCHANGED <<reg6, backend6>>
    BY <1>2, <1>3, <1>4, <1>5 DEF SentOption1_Rollback, Options
  <1>7. /\ old \in OptionType /\ old.new = s.new
        /\ NumbersOnce(sent6) =>
             \A i \in DOMAIN sent6 : sent6[i].inst = o => Stored(o, old) = sent6[i]
    <2>1. CASE at = {}
      <3>1. old = s
        BY <1>4, <2>1
      <3>2. \A i \in DOMAIN sent6 : sent6[i].inst # o
        BY <2>1 DEF BackendIndex
      <3> QED
        BY <1>3, <3>1, <3>2
    <2>2. CASE at # {}
      <3>1. PICK i : i = CHOOSE j \in at : TRUE
        OBVIOUS
      <3>2. i \in DOMAIN sent6 /\ sent6[i].inst = o
        BY <2>2, <3>1 DEF BackendIndex
      <3>3. PICK b \in StoredOption : b = sent6[i] /\ b.inst = o
        BY <1>1, <3>2, StoredSeq
      <3>4. old = [s EXCEPT !.alias = b.alias, !.enabled = b.enabled, !.tag = b.tag]
        BY <1>4, <2>2, <3>1, <3>3
      <3>5. old \in OptionType /\ old.new = s.new /\ Stored(o, old) = b
        BY <1>3, <3>3, <3>4 DEF OptionType, StoredOption, Stored
      <3>6. NumbersOnce(sent6) => \A j \in DOMAIN sent6 : sent6[j].inst = o => j = i
        BY <3>2 DEF NumbersOnce
      <3> QED
        BY <3>3, <3>5, <3>6
    <2> QED
      BY <2>1, <2>2
  <1>8. r \in OptionType /\ r.new = q.new /\ (~ q.new => r = old)
    BY <1>1, <1>3, <1>5, <1>7, DefaultedFields
  <1>9. PICK u : u = ZeroAlias(SetRow(w, o, r))
    OBVIOUS
  <1>10. client6' = [client6 EXCEPT !.row[c].sent = u]
    BY <1>6, <1>9 DEF SetRow
  <1>11. /\ OptionChanged(c, o, client6') /\ client6'.row[c].sent.row[o] = r
         /\ client6'.row[c].sent.old = NoAlias
    BY <1>1, <1>3, <1>8, <1>9, <1>10, OptionWritten
  <1> QED
    BY <1>6, <1>7, <1>8, <1>11

LEMMA NewRowTypes ==
  ASSUME NEW n \in Numbers
  PROVE  /\ NewClient6(n) \in ClientType /\ NewClient6(n).new
         /\ NewClient6(n).sent = EmptyTable
         /\ NewOption(n) \in OptionType /\ NewOption(n).new
  <1>1. <<"Client", n>> \in Aliases6 /\ <<"SentOption", n>> \in Aliases6
    BY UlongAssumption DEF Aliases6, Numbers
  <1>2. EmptyTable \in SentTables
    BY EmptyTableParts, NoAliasTyped DEF SentTables
  <1>3. PICK e \in SentTables : e = EmptyTable
    BY <1>2
  <1>4. PICK a \in Aliases6 : a = <<"Client", n>>
    BY <1>1
  <1>5. NewClient6(n) = [new |-> TRUE, alias |-> a, enabled |-> FALSE, t1 |-> 0,
                         t2 |-> 0, req |-> FALSE, sent |-> e]
    BY <1>3, <1>4 DEF NewClient6
  <1>6. NewClient6(n) \in ClientType /\ NewClient6(n).new /\ NewClient6(n).sent = e
    BY <1>5, Tables6Assumption DEF ClientType
  <1>7. PICK b \in Aliases6 : b = <<"SentOption", n>>
    BY <1>1
  <1>8. NewOption(n) = [new |-> TRUE, alias |-> b, enabled |-> FALSE, tag |-> 0]
    BY <1>7 DEF NewOption
  <1>9. NewOption(n) \in OptionType /\ NewOption(n).new
    BY <1>8, Tables6Assumption DEF OptionType
  <1> QED
    BY <1>3, <1>6, <1>9

LEMMA AddClientEffect ==
  ASSUME Types6, Client3_AddEntry
  PROVE  LET n == NextInstance(client6.max) IN
         /\ n \in Numbers /\ client6' \in ClientTables
         /\ Rows(client6') = Rows(client6) \cup {n}
         /\ client6'.row[n].new /\ client6'.row[n].sent = EmptyTable
         /\ \A d \in Rows(client6) \ {n} : client6'.row[d] = client6.row[d]
         /\ client6'.max = n /\ client6'.old = client6.old
         /\ txn6.phase = "idle" /\ reg6' = Dhcpv6RegSet(client6')
         /\ UNCHANGED <<backend6, txn6>>
  <1>1. PICK n : n = NextInstance(client6.max)
    OBVIOUS
  <1>2. n \in Numbers
    BY <1>1, ClientRows, UlongAssumption DEF Types6, NextInstance, Numbers
  <1>3. PICK r : r = NewClient6(n)
    OBVIOUS
  <1>4. r \in ClientType /\ r.new /\ r.sent = EmptyTable
    BY <1>2, <1>3, NewRowTypes
  <1>5. client6' = AddRow(client6, r)
    BY <1>1, <1>3 DEF Client3_AddEntry
  <1>6. client6 \in Tables(ClientType, Aliases6)
    BY DEF Types6, ClientTables
  <1>7. /\ client6' \in ClientTables
        /\ Rows(client6') = Rows(client6) \cup {n} /\ client6'.row[n] = r
        /\ \A m \in Rows(client6) \ {n} : client6'.row[m] = client6.row[m]
        /\ client6'.max = n /\ client6'.old = client6.old
    BY <1>1, <1>4, <1>5, <1>6, AddRowParts DEF ClientTables
  <1> QED
    BY <1>1, <1>2, <1>4, <1>7 DEF Client3_AddEntry

LEMMA DelClientEffect ==
  ASSUME Types6, NEW c \in Rows(client6), Client3_DelEntry(c)
  PROVE  /\ client6' \in ClientTables /\ Rows(client6') = Rows(client6) \ {c}
         /\ \A d \in Rows(client6) \ {c} : client6'.row[d] = client6.row[d]
         /\ client6'.max = client6.max /\ client6'.old = client6.old
         /\ txn6.phase = "idle" /\ reg6' = Dhcpv6RegSet(client6')
         /\ UNCHANGED <<backend6, txn6>>
  BY PopParts DEF Types6, ClientTables, Client3_DelEntry

LEMMA AddOptionEffect ==
  ASSUME Types6, NEW c \in Rows(client6), SentOption1_AddEntry(c)
  PROVE  LET t == Options(c)
             u == client6'.row[c].sent
             n == NextInstance(t.max) IN
         /\ n \in Numbers /\ client6' \in ClientTables
         /\ Rows(client6') = Rows(client6)
         /\ client6'.max = client6.max /\ client6'.old = client6.old
         /\ \A d \in Rows(client6) \ {c} : client6'.row[d] = client6.row[d]
         /\ client6'.row[c].new = client6.row[c].new
         /\ Cfg(client6'.row[c]) = Cfg(client6.row[c])
         /\ Rows(u) = Rows(t) \cup {n} /\ u.row[n].new
         /\ \A p \in Rows(t) \ {n} : u.row[p] = t.row[p]
         /\ u.max = n /\ u.old = t.old
         /\ txn6.phase = "idle" /\ reg6' = Dhcpv6RegSet(client6')
         /\ UNCHANGED <<backend6, txn6>>
  <1> DEFINE t == Options(c)
  <1>0. client6 \in ClientTables /\ t \in SentTables
    BY ClientRows DEF Types6
  <1>1. PICK n : n = NextInstance(t.max)
    OBVIOUS
  <1>2. n \in Numbers
    BY <1>0, <1>1, OptionRows, UlongAssumption DEF NextInstance, Numbers
  <1>3. PICK r : r = NewOption(n)
    OBVIOUS
  <1>4. r \in OptionType /\ r.new
    BY <1>2, <1>3, NewRowTypes
  <1>5. PICK u : u = AddRow(t, r)
    OBVIOUS
  <1>6. client6' = [client6 EXCEPT !.row[c].sent = u]
    BY <1>1, <1>3, <1>5 DEF SentOption1_AddEntry, Options
  <1>7. /\ u \in SentTables
        /\ Rows(u) = Rows(t) \cup {n} /\ u.row[n] = r
        /\ \A m \in Rows(t) \ {n} : u.row[m] = t.row[m]
        /\ u.max = n /\ u.old = t.old
    BY <1>0, <1>1, <1>4, <1>5, AddRowParts DEF SentTables
  <1>8. /\ client6' \in ClientTables /\ Rows(client6') = Rows(client6)
        /\ client6'.max = client6.max /\ client6'.old = client6.old
        /\ \A d \in Rows(client6) \ {c} : client6'.row[d] = client6.row[d]
        /\ client6'.row[c].new = client6.row[c].new
        /\ Cfg(client6'.row[c]) = Cfg(client6.row[c])
        /\ client6'.row[c].sent = u
    BY <1>0, <1>6, <1>7, OptionsSet
  <1> QED
    BY <1>1, <1>2, <1>4, <1>7, <1>8 DEF SentOption1_AddEntry

LEMMA DelOptionEffect ==
  ASSUME Types6, NEW c \in Rows(client6), NEW o \in Rows(Options(c)),
         SentOption1_DelEntry(c, o)
  PROVE  LET t == Options(c)
             u == client6'.row[c].sent IN
         /\ client6' \in ClientTables /\ Rows(client6') = Rows(client6)
         /\ client6'.max = client6.max /\ client6'.old = client6.old
         /\ \A d \in Rows(client6) \ {c} : client6'.row[d] = client6.row[d]
         /\ client6'.row[c].new = client6.row[c].new
         /\ Cfg(client6'.row[c]) = Cfg(client6.row[c])
         /\ Rows(u) = Rows(t) \ {o} /\ \A p \in Rows(t) \ {o} : u.row[p] = t.row[p]
         /\ u.max = t.max /\ u.old = t.old
         /\ txn6.phase = "idle" /\ reg6' = Dhcpv6RegSet(client6') /\ UNCHANGED txn6
         /\ \/ t.row[o].new /\ UNCHANGED backend6
            \/ /\ ~ t.row[o].new /\ c = 1 /\ o \in Numbered(sent6)
               /\ DelSentOption(o)
  <1> DEFINE t == Options(c)
  <1>0. client6 \in ClientTables /\ t \in SentTables
    BY ClientRows DEF Types6
  <1>1. PICK u : u = PopEntry(t, o)
    OBVIOUS
  <1>2. client6' = [client6 EXCEPT !.row[c].sent = u]
    BY <1>1 DEF SentOption1_DelEntry, Options
  <1>3. /\ u \in SentTables /\ Rows(u) = Rows(t) \ {o}
        /\ \A m \in Rows(t) \ {o} : u.row[m] = t.row[m]
        /\ u.max = t.max /\ u.old = t.old
    BY <1>0, <1>1, PopParts DEF SentTables
  <1>4. /\ client6' \in ClientTables /\ Rows(client6') = Rows(client6)
        /\ client6'.max = client6.max /\ client6'.old = client6.old
        /\ \A d \in Rows(client6) \ {c} : client6'.row[d] = client6.row[d]
        /\ client6'.row[c].new = client6.row[c].new
        /\ Cfg(client6'.row[c]) = Cfg(client6.row[c])
        /\ client6'.row[c].sent = u
    BY <1>0, <1>2, <1>3, OptionsSet
  <1>5. \/ t.row[o].new /\ UNCHANGED backend6
        \/ ~ t.row[o].new /\ c = 1 /\ BackendIndex(sent6, o) # {} /\ DelSentOption(o)
    BY DEF SentOption1_DelEntry, Options
  <1>6. BackendIndex(sent6, o) # {} => o \in Numbered(sent6)
    BY DEF BackendIndex, Numbered
  <1> QED
    BY <1>3, <1>4, <1>5, <1>6 DEF SentOption1_DelEntry

-----------------------------------------------------------------------------
(* What a step does to the backend, its files and the dibbler process.       *)
LEMMA FileTyped ==
  ASSUME NEW s \in Seq(StoredOption)
  PROVE  FileOf(s) \in SUBSET Tags
  BY StoredSeq DEF FileOf, StoredOption

LEMMA SetCfgEffect ==
  ASSUME Types6, NEW cfg \in CfgType, SetCfg(cfg)
  PROVE  /\ g6' = cfg /\ conf6' \in ConfType /\ dib6' \in Dibbler
         /\ UNCHANGED <<sent6, file6>>
         /\ \/ /\ cfg.enabled /\ conf6' = Conf(cfg) /\ dib6' = Restarted(conf6', file6)
            \/ /\ Conf(cfg) = Conf(g6) /\ cfg.enabled = g6.enabled
               /\ UNCHANGED <<conf6, dib6>>
            \/ /\ ~ cfg.enabled /\ conf6' = conf6
               /\ dib6' = dib6 \/ dib6' = [dib6 EXCEPT !.run = FALSE]
  <1> DEFINE need == Conf(cfg) # Conf(g6) \/ cfg.enabled # g6.enabled
  <1>0. /\ Conf(cfg) \in ConfType /\ conf6 \in ConfType /\ dib6 \in Dibbler
        /\ file6 \in SUBSET Tags /\ cfg.enabled \in BOOLEAN /\ g6.enabled \in BOOLEAN
    BY DEF Types6, CfgType, Conf, ConfType
  <1>1. g6' = cfg /\ UNCHANGED <<sent6, file6>>
    BY DEF SetCfg
  <1>2. CASE need /\ cfg.enabled
    <2>1. conf6' = Conf(cfg) /\ dib6' = Restarted(conf6', file6)
      BY <1>2 DEF SetCfg
    <2>2. dib6' \in Dibbler
      BY <1>0, <2>1 DEF Restarted, Dibbler
    <2> QED
      BY <1>0, <1>1, <1>2, <2>1, <2>2
  <1>3. CASE ~ need
    <2>1. conf6' = conf6 /\ dib6' = dib6
      BY <1>3 DEF SetCfg
    <2> QED
      BY <1>0, <1>1, <1>3, <2>1
  <1>4. CASE need /\ ~ cfg.enabled
    <2>1. conf6' = conf6 /\ (dib6' = dib6 \/ dib6' = [dib6 EXCEPT !.run = FALSE])
      BY <1>0, <1>4 DEF SetCfg
    <2>2. [dib6 EXCEPT !.run = FALSE] \in Dibbler
      BY <1>0 DEF Dibbler
    <2> QED
      BY <1>0, <1>1, <1>4, <2>1, <2>2
  <1> QED
    BY <1>0, <1>2, <1>3, <1>4

(* An option is written: the file follows the options, and dibbler has read  *)
(* the new file if there is one.                                             *)
OptionsWritten ==
  /\ sent6' \in Seq(StoredOption) /\ file6' \in SUBSET Tags /\ dib6' \in Dibbler
  /\ file6 = FileOf(sent6) => file6' = FileOf(sent6')
  /\ \/ file6' = file6 /\ dib6' = dib6
     \/ dib6' = Restarted(conf6, file6')
  /\ UNCHANGED <<g6, conf6>>

LEMMA StoredTyped ==
  ASSUME NEW o \in Numbers, NEW q \in OptionType
  PROVE  /\ Stored(o, q) \in StoredOption /\ Stored(o, q).inst = o
         /\ Stored(o, q).alias = q.alias /\ Stored(o, q).enabled = q.enabled
         /\ Stored(o, q).tag = q.tag
  BY DEF Stored, StoredOption, OptionType, Numbers

LEMMA DibblerTyped ==
  ASSUME NEW c \in ConfType, NEW f \in SUBSET Tags
  PROVE  Restarted(c, f) \in Dibbler
  BY DEF Restarted, Dibbler

LEMMA AddSentOptionEffect ==
  ASSUME Types6, NEW o \in Numbers, NEW q \in OptionType, AddSentOption(o, q)
  PROVE  /\ OptionsWritten
         /\ DOMAIN sent6' = DOMAIN sent6 \cup {Len(sent6) + 1}
         /\ Len(sent6) + 1 \notin DOMAIN sent6
         /\ \A i \in DOMAIN sent6 : sent6'[i] = sent6[i]
         /\ sent6'[Len(sent6) + 1] = Stored(o, q)
  <1>1. PICK b \in StoredOption : b = Stored(o, q) /\ b.enabled = q.enabled
    BY StoredTyped
  <1>2. sent6 \in Seq(StoredOption) /\ sent6' = Append(sent6, b)
    BY <1>1 DEF Types6, AddSentOption
  <1>3. /\ sent6' \in Seq(StoredOption) /\ DOMAIN sent6' = 1..Len(sent6) + 1
        /\ \A i \in 1..Len(sent6) : sent6'[i] = sent6[i]
        /\ sent6'[Len(sent6) + 1] = b
        /\ DOMAIN sent6 = 1..Len(sent6) /\ Len(sent6) \in Nat
    BY <1>2, AppendProperties
  <1>4. ~ b.enabled => FileOf(sent6') = FileOf(sent6)
    <2> SUFFICES ASSUME ~ b.enabled PROVE FileOf(sent6') = FileOf(sent6)
      OBVIOUS
    <2>1. \A i \in DOMAIN sent6' : sent6'[i].enabled => i \in DOMAIN sent6
      BY <1>3
    <2> QED
      BY <1>3, <2>1 DEF FileOf
  <1>5. FileOf(sent6') \in SUBSET Tags
    BY <1>3, FileTyped
  <1>6. b.enabled \in BOOLEAN
    BY DEF StoredOption
  <1>7. OptionsWritten
    <2>1. CASE b.enabled
      <3>1. file6' = FileOf(sent6') /\ dib6' = Restarted(conf6, file6') /\ UNCHANGED <<g6, conf6>>
        BY <1>1, <2>1 DEF AddSentOption
      <3>2. dib6' \in Dibbler
        BY <1>5, <3>1, DibblerTyped DEF Types6
      <3> QED
        BY <1>3, <1>5, <3>1, <3>2 DEF OptionsWritten
    <2>2. CASE ~ b.enabled
      <3>1. UNCHANGED <<file6, dib6, g6, conf6>>
        BY <1>1, <2>2 DEF AddSentOption
      <3> QED
        BY <1>3, <1>4, <2>2, <3>1 DEF OptionsWritten, Types6
    <2> QED
      BY <1>6, <2>1, <2>2
  <1> QED
    BY <1>1, <1>3, <1>7

LEMMA SetSentOptionEffect ==
  ASSUME Types6, NEW o \in Numbers, NEW q \in OptionType, SetSentOption(o, q)
  PROVE  /\ OptionsWritten /\ DOMAIN sent6' = DOMAIN sent6
         /\ \A i \in DOMAIN sent6 :
              sent6'[i] = IF sent6[i].inst = o THEN Stored(o, q) ELSE sent6[i]
  <1> DEFINE at == BackendIndex(sent6, o)
             need == \E i \in at : \/ sent6[i].enabled # q.enabled
                                   \/ sent6[i].tag # q.tag
  <1>1. PICK b \in StoredOption : b = Stored(o, q) /\ b.enabled = q.enabled /\ b.tag = q.tag
    BY StoredTyped
  <1>2. /\ sent6 \in Seq(StoredOption)
        /\ sent6' = [i \in DOMAIN sent6 |-> IF i \in at THEN b ELSE sent6[i]]
    BY <1>1 DEF Types6, SetSentOption
  <1>3. DOMAIN sent6 = 1..Len(sent6) /\ Len(sent6) \in Nat
        /\ \A i \in DOMAIN sent6 : sent6[i] \in StoredOption
    BY <1>2, StoredSeq
  <1>4. /\ sent6' \in Seq(StoredOption) /\ DOMAIN sent6' = DOMAIN sent6
        /\ \A i \in DOMAIN sent6 :
              sent6'[i] = IF sent6[i].inst = o THEN b ELSE sent6[i]
    <2>1. \A i \in DOMAIN sent6 : i \in at <=> sent6[i].inst = o
      BY DEF BackendIndex
    <2> HIDE DEF at
    <2>2. sent6' = [i \in 1..Len(sent6) |-> IF i \in at THEN b ELSE sent6[i]]
      BY <1>2, <1>3
    <2>3. \A i \in 1..Len(sent6) : (IF i \in at THEN b ELSE sent6[i]) \in StoredOption
      BY <1>3
    <2>4. sent6' \in Seq(StoredOption)
      BY <1>3, <2>2, <2>3, IsASeq
    <2> QED
      BY <1>3, <2>1, <2>2, <2>4
  <1>5. ~ need => FileOf(sent6') = FileOf(sent6)
    <2> SUFFICES ASSUME ~ need PROVE FileOf(sent6') = FileOf(sent6)
      OBVIOUS
    <2>1. \A i \in DOMAIN sent6 : sent6[i].inst = o =>
            sent6[i].enabled = b.enabled /\ sent6[i].tag = b.tag
      BY <1>1 DEF BackendIndex
    <2>2. \A i \in DOMAIN sent6 : sent6'[i].enabled = sent6[i].enabled /\ sent6'[i].tag = sent6[i].tag
      BY <1>4, <2>1
    <2> QED
      BY <1>4, <2>2 DEF FileOf
  <1>6. FileOf(sent6') \in SUBSET Tags
    BY <1>4, FileTyped
  <1>7. OptionsWritten
    <2>1. CASE need
      <3>1. file6' = FileOf(sent6') /\ dib6' = Restarted(conf6, file6') /\ UNCHANGED <<g6, conf6>>
        BY <2>1 DEF SetSentOption
      <3>2. dib6' \in Dibbler
        BY <1>6, <3>1, DibblerTyped DEF Types6
      <3> QED
        BY <1>4, <1>6, <3>1, <3>2 DEF OptionsWritten
    <2>2. CASE ~ need
      <3>1. UNCHANGED <<file6, dib6, g6, conf6>>
        BY <2>2 DEF SetSentOption
      <3> QED
        BY <1>4, <1>5, <2>2, <3>1 DEF OptionsWritten, Types6
    <2> QED
      BY <2>1, <2>2
  <1> QED
    BY <1>1, <1>4, <1>7

(* The options behind the deleted one move up by one place.                  *)
Behind(i, j) == IF j < i THEN j ELSE j + 1

LEMMA DelSentOptionEffect ==
  ASSUME Types6, NEW o \in Numbered(sent6), DelSentOption(o)
  PROVE  /\ OptionsWritten
         /\ \E i \in DOMAIN sent6 :
              /\ sent6[i].inst = o /\ DOMAIN sent6' = 1..(Len(sent6) - 1)
              /\ \A j \in DOMAIN sent6' : sent6'[j] = sent6[Behind(i, j)]
  <1> DEFINE n == Len(sent6)
  <1>1. PICK i : i = CHOOSE j \in BackendIndex(sent6, o) : TRUE
    OBVIOUS
  <1>2. /\ sent6 \in Seq(StoredOption) /\ DOMAIN sent6 = 1..n /\ n \in Nat
        /\ \A j \in DOMAIN sent6 : sent6[j] \in StoredOption
    BY StoredSeq DEF Types6
  <1>3. i \in DOMAIN sent6 /\ sent6[i].inst = o
    BY <1>1, <1>2, BackendIndexParts
  <1>4. /\ sent6' = [j \in 1..(n - 1) |-> IF j < i THEN sent6[j] ELSE sent6[j + 1]]
        /\ IF sent6[i].enabled
           THEN /\ file6' = FileOf(sent6')
                /\ dib6' = Restarted(conf6, file6')
           ELSE UNCHANGED <<file6, dib6>>
        /\ UNCHANGED <<g6, conf6>>
    BY <1>1 DEF DelSentOption
  <1> HIDE DEF n
  <1>5. n - 1 \in Nat /\ i \in 1..n /\ \A j \in 1..(n - 1) : j \in 1..n /\ j + 1 \in 1..n
    BY <1>2, <1>3
  <1>6. /\ DOMAIN sent6' = 1..(n - 1)
        /\ \A j \in 1..(n - 1) : sent6'[j] = sent6[Behind(i, j)]
    BY <1>4 DEF Behind
  <1>7. sent6' \in Seq(StoredOption)
    <2>1. \A j \in 1..(n - 1) : (IF j < i THEN sent6[j] ELSE sent6[j + 1]) \in StoredOption
      BY <1>2, <1>5
    <2> QED
      BY <1>4, <1>5, <2>1, IsASeq
  <1>8. ~ sent6[i].enabled => FileOf(sent6') = FileOf(sent6)
    <2> SUFFICES ASSUME ~ sent6[i].enabled PROVE FileOf(sent6') = FileOf(sent6)
      OBVIOUS
    <2>1. \A j \in 1..(n - 1) : Behind(i, j) \in 1..n
      BY <1>5 DEF Behind
    <2>2. \A k \in 1..n : sent6[k].enabled => \E j \in 1..(n - 1) : Behind(i, j) = k
      <3> SUFFICES ASSUME NEW k \in 1..n, k # i
                   PROVE  \E j \in 1..(n - 1) : Behind(i, j) = k
        OBVIOUS
      <3>1. CASE k < i
        BY <1>2, <1>5, <3>1 DEF Behind
      <3>2. CASE k > i
        <4>1. k - 1 \in 1..(n - 1) /\ ~ (k - 1 < i) /\ (k - 1) + 1 = k
          BY <1>2, <1>5, <3>2
        <4> QED
          BY <4>1 DEF Behind
      <3> QED
        BY <1>2, <1>5, <3>1, <3>2
    <2>3. \A t : t \in FileOf(sent6') => t \in FileOf(sent6)
      BY <1>2, <1>6, <2>1 DEF FileOf
    <2>4. \A t : t \in FileOf(sent6) => t \in FileOf(sent6')
      <3> SUFFICES ASSUME NEW k \in 1..n, sent6[k].enabled
                   PROVE  sent6[k].tag \in FileOf(sent6')
        BY <1>2 DEF FileOf
      <3>1. PICK j \in 1..(n - 1) : Behind(i, j) = k
        BY <2>2
      <3>2. sent6'[j] = sent6[k]
        BY <1>6, <3>1
      <3> QED
        BY <1>6, <3>2 DEF FileOf
    <2> QED
      BY <2>3, <2>4
  <1>9. FileOf(sent6') \in SUBSET Tags
    BY <1>7, FileTyped
  <1>10. OptionsWritten
    <2>1. CASE sent6[i].enabled
      <3>1. file6' = FileOf(sent6') /\ dib6' = Restarted(conf6, file6') /\ UNCHANGED <<g6, conf6>>
        BY <1>4, <2>1
      <3>2. dib6' \in Dibbler
        BY <1>9, <3>1, DibblerTyped DEF Types6
      <3> QED
        BY <1>7, <1>9, <3>1, <3>2 DEF OptionsWritten
    <2>2. CASE ~ sent6[i].enabled
      <3>1. UNCHANGED <<file6, dib6, g6, conf6>>
        BY <1>4, <2>2
      <3> QED
        BY <1>7, <1>8, <2>2, <3>1 DEF OptionsWritten, Types6
    <2> QED
      BY <2>1, <2>2
  <1> QED
    BY <1>3, <1>6, <1>10 DEF n

-----------------------------------------------------------------------------
(* What a start of the process brings back.                                  *)
LEMMA StartParts ==
  ASSUME NEW reg \in RegTables, NEW g \in CfgType, NEW s \in Seq(StoredOption)
  PROVE  LET u == Dhcpv6BackendGet(Dhcpv6RegGet(reg), g, s)
             v == u.row[1].sent IN
         /\ u \in ClientTables /\ Rows(u) = DOMAIN reg.row \cup {1} /\ u.old = NoAlias
         /\ u.max \in Nat /\ u.max >= 1 /\ u.max >= reg.max
         /\ ~ u.row[1].new /\ Cfg(u.row[1]) = g
         /\ \A c \in DOMAIN reg.row \ {1} : u.row[c] = RestoredClient(reg.row[c])
         /\ Rows(v) = Numbered(s) \cup SavedOptions(reg, 1)
         /\ NewRows(v) = SavedOptions(reg, 1) \ Numbered(s)
         /\ v.old = NoAlias /\ v.max \in Nat
         /\ \A n \in Numbered(s) : n <= v.max
         /\ 1 \in DOMAIN reg.row => reg.row[1].max <= v.max
         /\ NumbersOnce(s) =>
              \A i \in DOMAIN s : Stored(s[i].inst, v.row[s[i].inst]) = s[i]
  <1>1. PICK t : t = Dhcpv6RegGet(reg)
    OBVIOUS
  <1>2. /\ t \in ClientTables /\ Rows(t) = DOMAIN reg.row
        /\ t.max = reg.max /\ t.old = NoAlias
        /\ \A c \in DOMAIN reg.row : t.row[c] = RestoredClient(reg.row[c])
    BY <1>1, RegGetParts
  <1>3. PICK o : o = IF 1 \in Rows(t) THEN t.row[1].sent ELSE EmptyTable
    OBVIOUS
  <1>4. PICK u : u = Dhcpv6BackendGet(t, g, s)
    OBVIOUS
  <1>5. /\ u \in ClientTables /\ Rows(u) = Rows(t) \cup {1}
        /\ \A c \in Rows(t) \ {1} : u.row[c] = t.row[c]
        /\ u.old = t.old /\ u.max \in Nat /\ u.max >= 1 /\ u.max >= t.max
        /\ ~ u.row[1].new /\ Cfg(u.row[1]) = g
        /\ o \in SentTables /\ u.row[1].sent = BackendOptions(o, s)
    BY <1>2, <1>3, <1>4, BackendGetParts
  <1>6. PICK v : v = BackendOptions(o, s)
    OBVIOUS
  <1>7. /\ v \in SentTables /\ Rows(v) = Numbered(s) \cup Rows(o)
        /\ NewRows(v) = NewRows(o) \ Numbered(s)
        /\ v.old = NoAlias
        /\ v.max \in Nat /\ o.max <= v.max /\ \A n \in Numbered(s) : n <= v.max
        /\ NumbersOnce(s) =>
              \A i \in DOMAIN s : Stored(s[i].inst, v.row[s[i].inst]) = s[i]
    BY <1>5, <1>6, BackendOptionsParts
  <1>8. /\ Rows(o) = SavedOptions(reg, 1) /\ NewRows(o) = SavedOptions(reg, 1)
        /\ 1 \in DOMAIN reg.row => o.max = reg.row[1].max
    <2>1. CASE 1 \in DOMAIN reg.row
      <3>1. PICK b \in SavedType : b = reg.row[1]
        BY <2>1, RegParts
      <3>2. o = RestoredClient(b).sent
        BY <1>2, <1>3, <2>1, <3>1
      <3>3. Rows(o) = DOMAIN b.sent /\ NewRows(o) = DOMAIN b.sent /\ o.max = b.max
        BY <3>2, RestoredParts
      <3> QED
        BY <2>1, <3>1, <3>3 DEF SavedOptions
    <2>2. CASE 1 \notin DOMAIN reg.row
      <3>1. o = EmptyTable
        BY <1>2, <1>3, <2>2
      <3>2. Rows(o) = {}
        BY <3>1, EmptyTableParts, NoAliasTyped
      <3> QED
        BY <2>2, <3>2 DEF SavedOptions, NewRows
    <2> QED
      BY <2>1, <2>2
  <1> QED
    BY <1>1, <1>2, <1>4, <1>5, <1>6, <1>7, <1>8

-----------------------------------------------------------------------------
(* The steps of the DHCPv6 tables.                                           *)
KeysExist ==
  \A k \in txn6.rows :
    \/ \E c \in Rows(client6) : k = <<c, "client", 0>>
    \/ \E c \in Rows(client6) : \E o \in Rows(Options(c)) : k = <<c, "sent", o>>

ClientKey(c) == c \in Rows(client6) /\ <<c, "client", 0>> \in txn6.rows
OptionKey(c, o) ==
  /\ c \in Rows(client6) /\ o \in Rows(Options(c)) /\ <<c, "sent", o>> \in txn6.rows

CommitsClient(c) ==
  /\ txn6.phase = "commit" /\ ClientKey(c) /\ Client3_Commit(c)
  /\ txn6' = Done(txn6, <<c, "client", 0>>)
CommitsOption(c, o) ==
  /\ txn6.phase = "commit" /\ OptionKey(c, o) /\ SentOption1_Commit(c, o)
  /\ txn6' = Done(txn6, <<c, "sent", o>>)
RollsBackClient(c) ==
  /\ txn6.phase = "rollback" /\ ClientKey(c) /\ Client3_Rollback(c)
  /\ txn6' = Done(txn6, <<c, "client", 0>>)
RollsBackOption(c, o) ==
  /\ txn6.phase = "rollback" /\ OptionKey(c, o) /\ SentOption1_Rollback(c, o)
  /\ txn6' = Done(txn6, <<c, "sent", o>>)

SetsClient(c) ==
  /\ c \in Rows(client6)
  /\ \/ Client3_SetParamBoolValue(c)
     \/ Client3_SetParamIntValue(c)
     \/ Client3_SetParamStringValue(c)
SetsOption(c, o) ==
  /\ c \in Rows(client6) /\ o \in Rows(Options(c))
  /\ \/ SentOption1_SetParamBoolValue(c, o)
     \/ SentOption1_SetParamUlongValue(c, o)
     \/ SentOption1_SetParamStringValue(c, o)
DeletesOption(c, o) ==
  /\ c \in Rows(client6) /\ o \in Rows(Options(c)) /\ SentOption1_DelEntry(c, o)

LEMMA CommitCases ==
  ASSUME KeysExist, Commit6
  PROVE  \/ \E c \in Rows(client6) : CommitsClient(c)
         \/ \E c \in Rows(client6) : \E o \in Rows(Options(c)) : CommitsOption(c, o)
  <1>1. PICK k \in txn6.rows :
          /\ IF k[2] = "client" THEN Client3_Commit(k[1])
             ELSE SentOption1_Commit(k[1], k[3])
          /\ txn6' = Done(txn6, k)
    BY DEF Commit6
  <1>2. txn6.phase = "commit"
    BY DEF Commit6
  <1>3. CASE \E c \in Rows(client6) : k = <<c, "client", 0>>
    <2>1. PICK c \in Rows(client6) : k = <<c, "client", 0>>
      BY <1>3
    <2>2. k[2] = "client" /\ k[1] = c
      BY <2>1
    <2>3. CommitsClient(c)
      BY <1>1, <1>2, <2>1, <2>2 DEF CommitsClient, ClientKey
    <2> QED
      BY <2>3
  <1>4. CASE \E c \in Rows(client6) : \E o \in Rows(Options(c)) : k = <<c, "sent", o>>
    <2>0. PICK c \in Rows(client6) : \E o \in Rows(Options(c)) : k = <<c, "sent", o>>
      BY <1>4
    <2>1. PICK o \in Rows(Options(c)) : k = <<c, "sent", o>>
      BY <2>0
    <2>2. k[2] # "client" /\ k[1] = c /\ k[3] = o
      BY <2>1
    <2>3. CommitsOption(c, o)
      BY <1>1, <1>2, <2>1, <2>2 DEF CommitsOption, OptionKey
    <2> QED
      BY <2>3
  <1> QED
    BY <1>3, <1>4 DEF KeysExist

LEMMA RollbackCases ==
  ASSUME KeysExist, Rollback6
  PROVE  \/ \E c \in Rows(client6) : RollsBackClient(c)
         \/ \E c \in Rows(client6) : \E o \in Rows(Options(c)) : RollsBackOption(c, o)
  <1>1. PICK k \in txn6.rows :
          /\ IF k[2] = "client" THEN Client3_Rollback(k[1])
             ELSE SentOption1_Rollback(k[1], k[3])
          /\ txn6' = Done(txn6, k)
    BY DEF Rollback6
  <1>2. txn6.phase = "rollback"
    BY DEF Rollback6
  <1>3. CASE \E c \in Rows(client6) : k = <<c, "client", 0>>
    <2>1. PICK c \in Rows(client6) : k = <<c, "client", 0>>
      BY <1>3
    <2>2. k[2] = "client" /\ k[1] = c
      BY <2>1
    <2>3. RollsBackClient(c)
      BY <1>1, <1>2, <2>1, <2>2 DEF RollsBackClient, ClientKey
    <2> QED
      BY <2>3
  <1>4. CASE \E c \in Rows(client6) : \E o \in Rows(Options(c)) : k = <<c, "sent", o>>
    <2>0. PICK c \in Rows(client6) : \E o \in Rows(Options(c)) : k = <<c, "sent", o>>
      BY <1>4
    <2>1. PICK o \in Rows(Options(c)) : k = <<c, "sent", o>>
      BY <2>0
    <2>2. k[2] # "client" /\ k[1] = c /\ k[3] = o
      BY <2>1
    <2>3. RollsBackOption(c, o)
      BY <1>1, <1>2, <2>1, <2>2 DEF RollsBackOption, OptionKey
    <2> QED
      BY <2>3
  <1> QED
    BY <1>3, <1>4 DEF KeysExist

LEMMA RowCases6 ==
  ASSUME KeysExist, Table6 \/ EndTransaction6
  PROVE  \/ Client3_AddEntry
         \/ \E c \in Rows(client6) : Client3_DelEntry(c)
         \/ \E c \in Rows(client6) : SetsClient(c)
         \/ \E c \in Rows(client6) : SentOption1_AddEntry(c)
         \/ \E c \in Rows(client6) : \E o \in Rows(Options(c)) : DeletesOption(c, o)
         \/ \E c \in Rows(client6) : \E o \in Rows(Options(c)) : SetsOption(c, o)
         \/ Validate6
         \/ \E c \in Rows(client6) : CommitsClient(c)
         \/ \E c \in Rows(client6) : \E o \in Rows(Options(c)) : CommitsOption(c, o)
         \/ \E c \in Rows(client6) : RollsBackClient(c)
         \/ \E c \in Rows(client6) : \E o \in Rows(Options(c)) : RollsBackOption(c, o)
  <1>1. CASE Table6
    BY <1>1 DEF Table6, SetsClient, DeletesOption, SetsOption, Options
  <1>2. CASE EndTransaction6
    BY <1>2, CommitCases, RollbackCases DEF EndTransaction6
  <1> QED
    BY <1>1, <1>2

LEMMA StepCases6 ==
  ASSUME KeysExist, Next6
  PROVE  \/ Client3_AddEntry
         \/ \E c \in Rows(client6) : Client3_DelEntry(c)
         \/ \E c \in Rows(client6) : SetsClient(c)
         \/ \E c \in Rows(client6) : SentOption1_AddEntry(c)
         \/ \E c \in Rows(client6) : \E o \in Rows(Options(c)) : DeletesOption(c, o)
         \/ \E c \in Rows(client6) : \E o \in Rows(Options(c)) : SetsOption(c, o)
         \/ Validate6
         \/ \E c \in Rows(client6) : CommitsClient(c)
         \/ \E c \in Rows(client6) : \E o \in Rows(Options(c)) : CommitsOption(c, o)
         \/ \E c \in Rows(client6) : RollsBackClient(c)
         \/ \E c \in Rows(client6) : \E o \in Rows(Options(c)) : RollsBackOption(c, o)
         \/ Dhcpv6Initialize
  BY RowCases6 DEF Next6

LEMMA DoneParts ==
  ASSUME NEW txn, txn = [phase |-> txn.phase, rows |-> txn.rows], NEW k \in txn.rows
  PROVE  /\ Done(txn, k) = [phase |-> Done(txn, k).phase, rows |-> Done(txn, k).rows]
         /\ Done(txn, k).rows = txn.rows \ {k}
         /\ Done(txn, k).phase = IF txn.rows = {k} THEN "idle" ELSE txn.phase
  <1>1. CASE txn.rows = {k}
    BY <1>1 DEF Done, TxnIdle
  <1>2. CASE txn.rows # {k}
    <2>1. Done(txn, k) = [phase |-> txn.phase, rows |-> txn.rows \ {k}]
      BY <1>2 DEF Done
    <2> QED
      BY <1>2, <2>1
  <1> QED
    BY <1>1, <1>2

LEMMA RegSetPrimed ==
  ASSUME client6' \in ClientTables, reg6' = Dhcpv6RegSet(client6')
  PROVE  /\ reg6' \in RegTables /\ reg6'.max = client6'.max
         /\ DOMAIN reg6'.row \subseteq Rows(client6')
         /\ \A c \in DOMAIN reg6'.row : reg6'.row[c] = SavedClient(client6'.row[c])
         /\ Follows(reg6', client6')
  <1>1. PICK t : t = client6'
    OBVIOUS
  <1>2. PICK reg : reg = Dhcpv6RegSet(t)
    OBVIOUS
  <1>3. /\ reg \in RegTables /\ reg.max = t.max /\ DOMAIN reg.row \subseteq Rows(t)
        /\ \A c \in DOMAIN reg.row : reg.row[c] = SavedClient(t.row[c])
        /\ Follows(reg, t)
    BY <1>1, <1>2, RegSetParts
  <1> QED
    BY <1>1, <1>2, <1>3

TypedTxn(t) == t = [phase |-> t.phase, rows |-> t.rows] /\ t.phase \in Phases

LEMMA TxnTyped ==
  /\ TypedTxn(TxnIdle)
  /\ \A t, k : TypedTxn(Touched(t, k))
  /\ \A t, ok : TypedTxn(t) => TypedTxn(Validated(t, ok))
  /\ \A t, k : TypedTxn(t) /\ k \in t.rows => TypedTxn(Done(t, k))
  <1>1. TypedTxn(TxnIdle)
    BY DEF TypedTxn, TxnIdle, Phases
  <1>2. \A t, k : TypedTxn(Touched(t, k))
    BY DEF TypedTxn, Touched, Phases
  <1>3. ASSUME NEW t, NEW ok, TypedTxn(t) PROVE TypedTxn(Validated(t, ok))
    <2>1. Validated(t, ok) = [phase |-> IF ok THEN "commit" ELSE "rollback", rows |-> t.rows]
      BY <1>3 DEF TypedTxn, Validated
    <2> QED
      BY <2>1 DEF TypedTxn, Phases
  <1>4. ASSUME NEW t, NEW k, TypedTxn(t), k \in t.rows PROVE TypedTxn(Done(t, k))
    BY <1>4, DoneParts DEF TypedTxn, Phases
  <1> QED
    BY <1>1, <1>2, <1>3, <1>4

LEMMA Types6Step ==
  ASSUME Types6, KeysExist, Next6
  PROVE  Types6'
  <1>0. /\ reg6 \in RegTables /\ g6 \in CfgType /\ sent6 \in Seq(StoredOption)
        /\ conf6 \in ConfType /\ file6 \in SUBSET Tags /\ dib6 \in Dibbler
        /\ client6 \in ClientTables /\ TypedTxn(txn6)
    BY DEF Types6, TypedTxn
  <1>00. \A c \in Rows(client6) : client6.row[c] \in ClientType /\ Cfg(client6.row[c]) \in CfgType
           /\ \A o \in Rows(Options(c)) : o \in Numbers /\ Options(c).row[o] \in OptionType
    BY <1>0, ClientRows, ClientFields, OptionRows
  <1> DEFINE Goal == /\ client6' \in ClientTables /\ reg6' \in RegTables
                     /\ g6' \in CfgType /\ sent6' \in Seq(StoredOption)
                     /\ conf6' \in ConfType /\ file6' \in SUBSET Tags /\ dib6' \in Dibbler
                     /\ TypedTxn(txn6')
  <1> SUFFICES Goal
    BY DEF Types6, TypedTxn
  <1>1. CASE Client3_AddEntry
    BY <1>0, <1>1, AddClientEffect, RegSetPrimed DEF backend6
  <1>2. CASE \E c \in Rows(client6) : Client3_DelEntry(c)
    BY <1>0, <1>2, DelClientEffect, RegSetPrimed DEF backend6
  <1>3. CASE \E c \in Rows(client6) : SetsClient(c)
    BY <1>0, <1>3, ClientSetEffect, TxnTyped DEF backend6, SetsClient, ClientChanged
  <1>4. CASE \E c \in Rows(client6) : SentOption1_AddEntry(c)
    BY <1>0, <1>4, AddOptionEffect, RegSetPrimed DEF backend6
  <1>5. CASE \E c \in Rows(client6) : \E o \in Rows(Options(c)) : DeletesOption(c, o)
    <2>1. PICK c \in Rows(client6) : \E o \in Rows(Options(c)) : DeletesOption(c, o)
      BY <1>5
    <2>2. PICK o \in Rows(Options(c)) : DeletesOption(c, o)
      BY <2>1
    <2>3. /\ client6' \in ClientTables /\ reg6' = Dhcpv6RegSet(client6') /\ UNCHANGED txn6
          /\ UNCHANGED backend6 \/ (o \in Numbered(sent6) /\ DelSentOption(o))
      BY <2>2, DelOptionEffect DEF DeletesOption
    <2>4. UNCHANGED backend6 \/ OptionsWritten
      BY <2>3, DelSentOptionEffect
    <2> QED
      BY <1>0, <2>3, <2>4, RegSetPrimed DEF backend6, OptionsWritten
  <1>6. CASE \E c \in Rows(client6) : \E o \in Rows(Options(c)) : SetsOption(c, o)
    <2>1. PICK c \in Rows(client6) : \E o \in Rows(Options(c)) : SetsOption(c, o)
      BY <1>6
    <2>2. PICK o \in Rows(Options(c)) : SetsOption(c, o)
      BY <2>1
    <2>3. /\ OptionChanged(c, o, client6') /\ txn6' = Touched(txn6, <<c, "sent", o>>)
          /\ UNCHANGED <<reg6, backend6>>
      BY <2>2, OptionSetEffect DEF SetsOption
    <2> QED
      BY <1>0, <2>3, TxnTyped DEF backend6, OptionChanged
  <1>7. CASE Validate6
    BY <1>0, <1>7, TxnTyped DEF Validate6, backend6
  <1>8. CASE \E c \in Rows(client6) : CommitsClient(c)
    <2>1. PICK c \in Rows(client6) : CommitsClient(c)
      BY <1>8
    <2>2. PICK g \in CfgType : g = Cfg(client6.row[c])
      BY <1>00
    <2>3. /\ ClientChanged(c, client6')
          /\ \/ UNCHANGED backend6 /\ reg6' = Dhcpv6RegSet(client6')
             \/ SetCfg(g) /\ UNCHANGED reg6
             \/ UNCHANGED <<reg6, backend6>>
      BY <2>1, <2>2, ClientCommitEffect DEF CommitsClient
    <2>4. TypedTxn(txn6')
      BY <1>0, <2>1, TxnTyped DEF CommitsClient, ClientKey
    <2>5. client6' \in ClientTables
      BY <2>3 DEF ClientChanged
    <2>6. reg6' \in RegTables
      BY <1>0, <2>3, <2>5, RegSetPrimed
    <2>7. UNCHANGED backend6 \/ SetCfg(g)
      BY <2>3
    <2>8. /\ g6' \in CfgType /\ sent6' \in Seq(StoredOption)
          /\ conf6' \in ConfType /\ file6' \in SUBSET Tags /\ dib6' \in Dibbler
      BY <1>0, <2>7, SetCfgEffect DEF backend6
    <2> QED
      BY <2>4, <2>5, <2>6, <2>8
  <1>9. CASE \E c \in Rows(client6) : \E o \in Rows(Options(c)) : CommitsOption(c, o)
    <2>1. PICK c \in Rows(client6) : \E o \in Rows(Options(c)) : CommitsOption(c, o)
      BY <1>9
    <2>2. PICK o \in Rows(Options(c)) : CommitsOption(c, o)
      BY <2>1
    <2>3. PICK q \in OptionType : q = Options(c).row[o] /\ o \in Numbers
      BY <1>00
    <2>4. /\ OptionChanged(c, o, client6')
          /\ \/ AddSentOption(o, q) /\ reg6' = Dhcpv6RegSet(client6')
             \/ UNCHANGED <<reg6, backend6>>
             \/ SetSentOption(o, q) /\ UNCHANGED reg6
      BY <2>2, <2>3, OptionCommitEffect DEF CommitsOption
    <2>5. TypedTxn(txn6')
      BY <1>0, <2>2, TxnTyped DEF CommitsOption, OptionKey
    <2>6. client6' \in ClientTables
      BY <2>4 DEF OptionChanged
    <2>7. reg6' \in RegTables
      BY <1>0, <2>4, <2>6, RegSetPrimed
    <2>8. UNCHANGED backend6 \/ OptionsWritten
      BY <2>3, <2>4, AddSentOptionEffect, SetSentOptionEffect
    <2>9. /\ g6' \in CfgType /\ sent6' \in Seq(StoredOption)
          /\ conf6' \in ConfType /\ file6' \in SUBSET Tags /\ dib6' \in Dibbler
      BY <1>0, <2>8 DEF backend6, OptionsWritten
    <2> QED
      BY <2>5, <2>6, <2>7, <2>9
  <1>10. CASE \E c \in Rows(client6) : RollsBackClient(c)
    <2>1. PICK c \in Rows(client6) : RollsBackClient(c)
      BY <1>10
    <2>2. ClientChanged(c, client6') /\ UNCHANGED <<reg6, backend6>>
      BY <2>1, ClientRollbackEffect DEF RollsBackClient
    <2>3. TypedTxn(txn6')
      BY <1>0, <2>1, TxnTyped DEF RollsBackClient, ClientKey
    <2> QED
      BY <1>0, <2>2, <2>3 DEF backend6, ClientChanged
  <1>11. CASE \E c \in Rows(client6) : \E o \in Rows(Options(c)) : RollsBackOption(c, o)
    <2>1. PICK c \in Rows(client6) : \E o \in Rows(Options(c)) : RollsBackOption(c, o)
      BY <1>11
    <2>2. PICK o \in Rows(Options(c)) : RollsBackOption(c, o)
      BY <2>1
    <2>3. OptionChanged(c, o, client6') /\ UNCHANGED <<reg6, backend6>>
      BY <2>2, OptionRollbackEffect DEF RollsBackOption
    <2>4. TypedTxn(txn6')
      BY <1>0, <2>2, TxnTyped DEF RollsBackOption, OptionKey
    <2> QED
      BY <1>0, <2>3, <2>4 DEF backend6, OptionChanged
  <1>12. CASE Dhcpv6Initialize
    <2>1. client6' \in ClientTables
      BY <1>0, <1>12, StartParts DEF Dhcpv6Initialize
    <2>2. FileOf(sent6) \in SUBSET Tags
      BY <1>0, FileTyped
    <2>3. Conf(g6) \in ConfType
      BY <1>0 DEF Conf, ConfType, CfgType
    <2>4. file6' \in SUBSET Tags /\ conf6' \in ConfType
      BY <1>0, <1>12, <2>2, <2>3 DEF Dhcpv6Initialize
    <2> QED
      BY <1>0, <1>12, <2>1, <2>4, TxnTyped DEF Dhcpv6Initialize
  <1> HIDE DEF Goal
  <1> QED
    BY <1>1, <1>2, <1>3, <1>4, <1>5, <1>6, <1>7, <1>8, <1>9, <1>10, <1>11, <1>12, StepCases6

(* A buffer that is in use waits for a row of its table to be committed or   *)
(* rolled back, and each of these clears it.                                 *)
BuffersInUse ==
  /\ txn6.phase = "idle" <=> txn6.rows = {}
  /\ client6.old # NoAlias => \E c : <<c, "client", 0>> \in txn6.rows
  /\ \A c \in Rows(client6) : Options(c).old # NoAlias =>
       \E o : <<c, "sent", o>> \in txn6.rows

RowsKept ==
  /\ Rows(client6') = Rows(client6)
  /\ \A c \in Rows(client6) : Rows(client6'.row[c].sent) = Rows(Options(c))

LEMMA RowsKeptBy ==
  ASSUME NEW c \in Rows(client6)
  PROVE  /\ ClientChanged(c, client6') => RowsKept
         /\ \A o : OptionChanged(c, o, client6') => RowsKept
  BY DEF ClientChanged, OptionChanged, RowsKept, Options

LEMMA KeysKept ==
  ASSUME KeysExist, RowsKept, txn6'.rows \subseteq txn6.rows
  PROVE  KeysExist'
  BY DEF KeysExist, RowsKept, Options

LEMMA BuffersStep ==
  ASSUME Types6, KeysExist, BuffersInUse, Next6
  PROVE  KeysExist' /\ BuffersInUse'
  <1>0. TypedTxn(txn6)
    BY DEF Types6, TypedTxn
  <1>idle. ASSUME txn6.phase = "idle", UNCHANGED txn6, client6'.old = client6.old,
                  \A c \in Rows(client6') :
                     \/ c \in Rows(client6) /\ client6'.row[c].sent.old = Options(c).old
                     \/ client6'.row[c].sent.old = NoAlias
           PROVE  KeysExist' /\ BuffersInUse'
    <2>1. txn6'.rows = {} /\ txn6'.phase = "idle"
      BY <1>idle DEF BuffersInUse
    <2>2. client6'.old = NoAlias /\ \A c \in Rows(client6') : client6'.row[c].sent.old = NoAlias
      BY <1>idle DEF BuffersInUse
    <2> QED
      BY <2>1, <2>2 DEF KeysExist, BuffersInUse, Options
  <1>1. CASE Client3_AddEntry
    BY <1>1, <1>idle, AddClientEffect, EmptyTableParts, NoAliasTyped DEF Options
  <1>2. CASE \E c \in Rows(client6) : Client3_DelEntry(c)
    BY <1>2, <1>idle, DelClientEffect DEF Options
  <1>3. CASE \E c \in Rows(client6) : SetsClient(c)
    <2>1. PICK c \in Rows(client6) : SetsClient(c)
      BY <1>3
    <2>2. /\ txn6' = Touched(txn6, <<c, "client", 0>>) /\ ClientChanged(c, client6')
      BY <2>1, ClientSetEffect DEF SetsClient
    <2>3. txn6'.rows = txn6.rows \cup {<<c, "client", 0>>} /\ txn6'.phase = "set"
      BY <2>2 DEF Touched
    <2>4. RowsKept
      BY <2>2, RowsKeptBy
    <2>5. KeysExist'
      BY <2>3, <2>4 DEF KeysExist, RowsKept, Options
    <2>6. \A d \in Rows(client6') : client6'.row[d].sent = Options(d)
      BY <2>2 DEF ClientChanged, Options
    <2>7. BuffersInUse'
      BY <2>3, <2>4, <2>6 DEF BuffersInUse, RowsKept, Options
    <2> QED
      BY <2>5, <2>7
  <1>4. CASE \E c \in Rows(client6) : SentOption1_AddEntry(c)
    BY <1>4, <1>idle, AddOptionEffect DEF Options
  <1>5. CASE \E c \in Rows(client6) : \E o \in Rows(Options(c)) : DeletesOption(c, o)
    BY <1>5, <1>idle, DelOptionEffect DEF Options, DeletesOption
  <1>6. CASE \E c \in Rows(client6) : \E o \in Rows(Options(c)) : SetsOption(c, o)
    <2>1. PICK c \in Rows(client6) : \E o \in Rows(Options(c)) : SetsOption(c, o)
      BY <1>6
    <2>2. PICK o \in Rows(Options(c)) : SetsOption(c, o)
      BY <2>1
    <2>3. OptionChanged(c, o, client6') /\ txn6' = Touched(txn6, <<c, "sent", o>>)
      BY <2>2, OptionSetEffect DEF SetsOption
    <2>4. txn6'.rows = txn6.rows \cup {<<c, "sent", o>>} /\ txn6'.phase = "set"
      BY <2>3 DEF Touched
    <2>5. RowsKept
      BY <2>3, RowsKeptBy
    <2>6. KeysExist'
      BY <2>4, <2>5 DEF KeysExist, RowsKept, Options
    <2>7. /\ client6'.old = client6.old
          /\ \A d \in Rows(client6) \ {c} : client6'.row[d] = client6.row[d]
      BY <2>3 DEF OptionChanged
    <2>8. BuffersInUse'
      BY <2>4, <2>5, <2>7 DEF BuffersInUse, RowsKept, Options
    <2> QED
      BY <2>6, <2>8
  <1>7. CASE Validate6
    <2>1. client6' = client6 /\ txn6'.rows = txn6.rows
          /\ txn6.phase = "set" /\ txn6'.phase \in {"commit", "rollback"}
      BY <1>0, <1>7 DEF Validate6, Validated, TypedTxn
    <2>2. KeysExist'
      BY <2>1 DEF KeysExist, Options
    <2>3. BuffersInUse'
      BY <2>1 DEF BuffersInUse, Options
    <2> QED
      BY <2>2, <2>3
  <1>done. ASSUME NEW k \in txn6.rows, txn6' = Done(txn6, k), txn6.phase # "idle"
           PROVE  /\ txn6'.rows = txn6.rows \ {k}
                  /\ txn6'.phase = "idle" <=> txn6'.rows = {}
    BY <1>0, <1>done, DoneParts DEF TypedTxn
  <1>client. ASSUME NEW c \in Rows(client6), ClientChanged(c, client6'),
                    client6'.old = NoAlias, <<c, "client", 0>> \in txn6.rows,
                    txn6' = Done(txn6, <<c, "client", 0>>), txn6.phase # "idle"
             PROVE  KeysExist' /\ BuffersInUse'
    <2>1. /\ txn6'.rows = txn6.rows \ {<<c, "client", 0>>}
          /\ txn6'.phase = "idle" <=> txn6'.rows = {}
      BY <1>client, <1>done
    <2>2. RowsKept
      BY <1>client, RowsKeptBy
    <2>3. KeysExist'
      BY <2>1, <2>2, KeysKept
    <2>4. \A d \in Rows(client6') : client6'.row[d].sent = Options(d)
      BY <1>client DEF ClientChanged, Options
    <2>5. BuffersInUse'
      BY <1>client, <2>1, <2>2, <2>4 DEF BuffersInUse, RowsKept, Options
    <2> QED
      BY <2>3, <2>5
  <1>option. ASSUME NEW c \in Rows(client6), NEW o \in Rows(Options(c)),
                    OptionChanged(c, o, client6'),
                    client6'.row[c].sent.old = NoAlias, <<c, "sent", o>> \in txn6.rows,
                    txn6' = Done(txn6, <<c, "sent", o>>), txn6.phase # "idle"
             PROVE  KeysExist' /\ BuffersInUse'
    <2>1. /\ txn6'.rows = txn6.rows \ {<<c, "sent", o>>}
          /\ txn6'.phase = "idle" <=> txn6'.rows = {}
      BY <1>option, <1>done
    <2>2. RowsKept
      BY <1>option, RowsKeptBy
    <2>3. KeysExist'
      BY <2>1, <2>2, KeysKept
    <2>4. /\ client6'.old = client6.old
          /\ \A d \in Rows(client6) \ {c} : client6'.row[d] = client6.row[d]
      BY <1>option DEF OptionChanged
    <2>5. BuffersInUse'
      BY <1>option, <2>1, <2>2, <2>4 DEF BuffersInUse, RowsKept, Options
    <2> QED
      BY <2>3, <2>5
  <1>8. CASE \E c \in Rows(client6) : CommitsClient(c)
    BY <1>8, <1>client, ClientCommitEffect DEF CommitsClient, ClientKey
  <1>9. CASE \E c \in Rows(client6) : \E o \in Rows(Options(c)) : CommitsOption(c, o)
    BY <1>9, <1>option, OptionCommitEffect DEF CommitsOption, OptionKey
  <1>10. CASE \E c \in Rows(client6) : RollsBackClient(c)
    BY <1>10, <1>client, ClientRollbackEffect DEF RollsBackClient, ClientKey
  <1>11. CASE \E c \in Rows(client6) : \E o \in Rows(Options(c)) : RollsBackOption(c, o)
    BY <1>11, <1>option, OptionRollbackEffect DEF RollsBackOption, OptionKey
  <1>12. CASE Dhcpv6Initialize
    <2>1. /\ client6'.old = NoAlias /\ client6'.row[1].sent.old = NoAlias
          /\ Rows(client6') = DOMAIN reg6.row \cup {1}
          /\ \A c \in DOMAIN reg6.row \ {1} : client6'.row[c] = RestoredClient(reg6.row[c])
      BY <1>12, StartParts DEF Dhcpv6Initialize, Types6
    <2>2. \A c \in DOMAIN reg6.row : RestoredClient(reg6.row[c]).sent.old = NoAlias
      BY RegParts, RestoredParts DEF Types6
    <2>3. \A c \in Rows(client6') : client6'.row[c].sent.old = NoAlias
      BY <2>1, <2>2
    <2>4. txn6'.rows = {} /\ txn6'.phase = "idle"
      BY <1>12 DEF Dhcpv6Initialize, TxnIdle
    <2> QED
      BY <2>1, <2>3, <2>4 DEF KeysExist, BuffersInUse, Options
  <1> QED
    BY <1>1, <1>2, <1>3, <1>4, <1>5, <1>6, <1>7, <1>8, <1>9, <1>10, <1>11, <1>12, StepCases6

-----------------------------------------------------------------------------
(* dibbler and its files follow the backend: the file of an enabled client   *)
(* is written too, and the timers a commit is about to write have passed     *)
(* the validation of the client.                                             *)
DibblerFollows ==
  /\ DibblerServesCommitted
  /\ g6.enabled => conf6 = Conf(g6)
  /\ (txn6.phase = "commit" /\ <<1, "client", 0>> \in txn6.rows) =>
       (client6.row[1].enabled => client6.row[1].t1 <= client6.row[1].t2)

LEMMA CfgTimers ==
  ASSUME NEW r, NEW s, Cfg(r) = Cfg(s)
  PROVE  r.enabled = s.enabled /\ r.t1 = s.t1 /\ r.t2 = s.t2
  BY DEF Cfg

LEMMA OptionsServed ==
  ASSUME DibblerFollows, OptionsWritten
  PROVE  DibblerServesCommitted' /\ (g6'.enabled => conf6' = Conf(g6'))
  BY DEF DibblerFollows, DibblerServesCommitted, OptionsWritten, Restarted

LEMMA BackendServed ==
  ASSUME DibblerFollows, UNCHANGED backend6
  PROVE  DibblerServesCommitted' /\ (g6'.enabled => conf6' = Conf(g6'))
  BY DEF DibblerFollows, DibblerServesCommitted, backend6

LEMMA CfgServed ==
  ASSUME Types6, DibblerFollows, NEW cfg \in CfgType, SetCfg(cfg),
         cfg.enabled => cfg.t1 <= cfg.t2
  PROVE  DibblerServesCommitted' /\ (g6'.enabled => conf6' = Conf(g6'))
  <1>1. g6' = cfg /\ UNCHANGED <<sent6, file6>>
    BY SetCfgEffect
  <1>2. CASE cfg.enabled /\ conf6' = Conf(cfg) /\ dib6' = Restarted(conf6', file6)
    BY <1>1, <1>2 DEF DibblerFollows, DibblerServesCommitted, Restarted
  <1>3. CASE /\ Conf(cfg) = Conf(g6) /\ cfg.enabled = g6.enabled
             /\ UNCHANGED <<conf6, dib6>>
    BY <1>1, <1>3 DEF DibblerFollows, DibblerServesCommitted, Conf
  <1>4. CASE /\ ~ cfg.enabled /\ conf6' = conf6
             /\ dib6' = dib6 \/ dib6' = [dib6 EXCEPT !.run = FALSE]
    <2>1. dib6' = dib6 \/ (~ dib6'.run /\ dib6'.sent = dib6.sent)
      BY <1>4 DEF Types6, Dibbler
    <2> QED
      BY <1>1, <1>4, <2>1 DEF DibblerFollows, DibblerServesCommitted
  <1> QED
    BY <1>2, <1>3, <1>4, SetCfgEffect

LEMMA DibblerStep ==
  ASSUME Types6, KeysExist, DibblerFollows, Next6
  PROVE  DibblerFollows'
  <1>0. /\ TypedTxn(txn6) /\ client6 \in ClientTables
        /\ \A c \in Rows(client6) : Cfg(client6.row[c]) \in CfgType
        /\ \A c \in Rows(client6) : \A o \in Rows(Options(c)) :
             o \in Numbers /\ Options(c).row[o] \in OptionType
    BY ClientRows, ClientFields, OptionRows DEF Types6, TypedTxn
  <1>plain. ASSUME UNCHANGED backend6, txn6'.phase # "commit"
            PROVE  DibblerFollows'
    BY <1>plain, BackendServed DEF DibblerFollows
  <1>1. CASE Client3_AddEntry
    BY <1>1, <1>plain, AddClientEffect
  <1>2. CASE \E c \in Rows(client6) : Client3_DelEntry(c)
    BY <1>2, <1>plain, DelClientEffect
  <1>3. CASE \E c \in Rows(client6) : SetsClient(c)
    BY <1>3, <1>plain, ClientSetEffect DEF SetsClient, Touched
  <1>4. CASE \E c \in Rows(client6) : SentOption1_AddEntry(c)
    BY <1>4, <1>plain, AddOptionEffect
  <1>5. CASE \E c \in Rows(client6) : \E o \in Rows(Options(c)) : DeletesOption(c, o)
    <2>1. PICK c \in Rows(client6) : \E o \in Rows(Options(c)) : DeletesOption(c, o)
      BY <1>5
    <2>2. PICK o \in Rows(Options(c)) : DeletesOption(c, o)
      BY <2>1
    <2>3. /\ txn6.phase = "idle" /\ UNCHANGED txn6
          /\ UNCHANGED backend6 \/ (o \in Numbered(sent6) /\ DelSentOption(o))
      BY <2>2, DelOptionEffect DEF DeletesOption
    <2>4. UNCHANGED backend6 \/ OptionsWritten
      BY <2>3, DelSentOptionEffect
    <2>5. DibblerServesCommitted' /\ (g6'.enabled => conf6' = Conf(g6'))
      BY <2>4, OptionsServed, BackendServed
    <2> QED
      BY <2>3, <2>5 DEF DibblerFollows
  <1>6. CASE \E c \in Rows(client6) : \E o \in Rows(Options(c)) : SetsOption(c, o)
    BY <1>6, <1>plain, OptionSetEffect DEF SetsOption, Touched
  <1>7. CASE Validate6
    <2>1. /\ UNCHANGED backend6 /\ client6' = client6 /\ txn6'.rows = txn6.rows
          /\ txn6'.phase = "commit" => \A k \in txn6.rows : Valid6(k)
      BY <1>0, <1>7 DEF Validate6, Validated, TypedTxn
    <2>2. ASSUME txn6'.phase = "commit", <<1, "client", 0>> \in txn6.rows
          PROVE  client6.row[1].enabled => client6.row[1].t1 <= client6.row[1].t2
      <3>1. Valid6(<<1, "client", 0>>)
        BY <2>1, <2>2
      <3> QED
        BY <3>1 DEF Valid6, Client3_Validate
    <2> QED
      BY <2>1, <2>2, BackendServed DEF DibblerFollows
  <1>8. CASE \E c \in Rows(client6) : CommitsClient(c)
    <2>1. PICK c \in Rows(client6) : CommitsClient(c)
      BY <1>8
    <2>2. /\ txn6.phase = "commit" /\ <<c, "client", 0>> \in txn6.rows
          /\ txn6' = Done(txn6, <<c, "client", 0>>)
      BY <2>1 DEF CommitsClient, ClientKey
    <2>3. txn6'.rows = txn6.rows \ {<<c, "client", 0>>}
      BY <1>0, <2>2, DoneParts DEF TypedTxn
    <2>4. PICK g \in CfgType : g = Cfg(client6.row[c])
      BY <1>0
    <2>5. /\ ClientChanged(c, client6')
          /\ UNCHANGED backend6 \/ (c = 1 /\ SetCfg(g))
      BY <2>1, <2>4, ClientCommitEffect DEF CommitsClient
    <2>6. c = 1 => (g.enabled => g.t1 <= g.t2)
      BY <2>2, <2>4 DEF DibblerFollows, Cfg
    <2>7. DibblerServesCommitted' /\ (g6'.enabled => conf6' = Conf(g6'))
      BY <2>5, <2>6, BackendServed, CfgServed
    <2>8. ASSUME <<1, "client", 0>> \in txn6'.rows
          PROVE  client6'.row[1].enabled => client6'.row[1].t1 <= client6'.row[1].t2
      <3>1. c # 1 /\ <<1, "client", 0>> \in txn6.rows
        BY <2>3, <2>8
      <3>2. 1 \in Rows(client6)
        BY <3>1 DEF KeysExist
      <3>3. client6'.row[1] = client6.row[1]
        BY <2>5, <3>1, <3>2 DEF ClientChanged
      <3> QED
        BY <2>2, <3>1, <3>3 DEF DibblerFollows
    <2> QED
      BY <2>7, <2>8 DEF DibblerFollows
  <1>9. CASE \E c \in Rows(client6) : \E o \in Rows(Options(c)) : CommitsOption(c, o)
    <2>1. PICK c \in Rows(client6) : \E o \in Rows(Options(c)) : CommitsOption(c, o)
      BY <1>9
    <2>2. PICK o \in Rows(Options(c)) : CommitsOption(c, o)
      BY <2>1
    <2>3. /\ txn6.phase = "commit" /\ <<c, "sent", o>> \in txn6.rows
          /\ txn6' = Done(txn6, <<c, "sent", o>>)
      BY <2>2 DEF CommitsOption, OptionKey
    <2>4. txn6'.rows = txn6.rows \ {<<c, "sent", o>>}
      BY <1>0, <2>3, DoneParts DEF TypedTxn
    <2>5. PICK q \in OptionType : q = Options(c).row[o] /\ o \in Numbers
      BY <1>0
    <2>6. /\ OptionChanged(c, o, client6')
          /\ AddSentOption(o, q) \/ UNCHANGED backend6 \/ SetSentOption(o, q)
      BY <2>2, <2>5, OptionCommitEffect DEF CommitsOption
    <2>7. UNCHANGED backend6 \/ OptionsWritten
      BY <2>5, <2>6, AddSentOptionEffect, SetSentOptionEffect
    <2>8. DibblerServesCommitted' /\ (g6'.enabled => conf6' = Conf(g6'))
      BY <2>7, OptionsServed, BackendServed
    <2>9. ASSUME <<1, "client", 0>> \in txn6'.rows
          PROVE  client6'.row[1].enabled => client6'.row[1].t1 <= client6'.row[1].t2
      <3>1. <<1, "client", 0>> \in txn6.rows
        BY <2>4, <2>9
      <3>2. 1 \in Rows(client6)
        BY <3>1 DEF KeysExist
      <3>3. Cfg(client6'.row[1]) = Cfg(client6.row[1])
        BY <2>6, <3>2 DEF OptionChanged
      <3>4. /\ client6'.row[1].enabled = client6.row[1].enabled
            /\ client6'.row[1].t1 = client6.row[1].t1 /\ client6'.row[1].t2 = client6.row[1].t2
        BY <3>3, CfgTimers
      <3> QED
        BY <2>3, <3>1, <3>4 DEF DibblerFollows
    <2> QED
      BY <2>8, <2>9 DEF DibblerFollows
  <1>10. CASE \E c \in Rows(client6) : RollsBackClient(c)
    BY <1>0, <1>10, <1>plain, ClientRollbackEffect, DoneParts
       DEF RollsBackClient, ClientKey, TypedTxn
  <1>11. CASE \E c \in Rows(client6) : \E o \in Rows(Options(c)) : RollsBackOption(c, o)
    BY <1>0, <1>11, <1>plain, OptionRollbackEffect, DoneParts
       DEF RollsBackOption, OptionKey, TypedTxn
  <1>12. CASE Dhcpv6Initialize
    <2>1. /\ UNCHANGED <<g6, sent6, dib6>> /\ txn6'.phase = "idle"
          /\ file6' = IF sent6 = <<>> THEN file6 ELSE FileOf(sent6)
          /\ conf6' = IF g6.enabled THEN Conf(g6) ELSE conf6
      BY <1>12 DEF Dhcpv6Initialize, TxnIdle
    <2>2. file6' = file6 /\ file6 = FileOf(sent6)
      BY <2>1 DEF DibblerFollows, DibblerServesCommitted
    <2> QED
      BY <2>1, <2>2 DEF DibblerFollows, DibblerServesCommitted
  <1> QED
    BY <1>1, <1>2, <1>3, <1>4, <1>5, <1>6, <1>7, <1>8, <1>9, <1>10, <1>11, <1>12, StepCases6

-----------------------------------------------------------------------------
(* The DHCPv4 tables.                                                        *)
Aliases4 == {NoAlias, <<"eRouter">>} \cup UserAliases4
              \cup ({"Client", "SentOption", "ReqOption"} \X Nat)
Option4Type == [new : BOOLEAN, alias : Aliases4, enabled : BOOLEAN, tag : Tags4]
Option4Tables == Tables(Option4Type, Aliases4)
Client4Type == [inst : Numbers, new : BOOLEAN, alias : Aliases4, enabled : BOOLEAN,
                opt : [OptionTables -> Option4Tables]]
Client4Tables == Tables(Client4Type, Aliases4)

Types4 ==
  client4 \in Client4Tables /\ txn4 = [phase |-> txn4.phase, rows |-> txn4.rows]

Options4(c, k) == client4.row[c].opt[k]

KeysExist4 ==
  \A x \in txn4.rows :
    \/ \E c \in Rows(client4) : x = <<c, "client", 0>>
    \/ \E c \in Rows(client4) : \E k \in OptionTables : \E o \in Rows(Options4(c, k)) :
         x = <<c, k, o>>

BuffersInUse4 ==
  /\ txn4.phase = "idle" <=> txn4.rows = {}
  /\ client4.old # NoAlias => \E c : <<c, "client", 0>> \in txn4.rows
  /\ \A c \in Rows(client4) : \A k \in OptionTables : Options4(c, k).old # NoAlias =>
       \E o : <<c, k, o>> \in txn4.rows

Inv4 == Types4 /\ KeysExist4 /\ BuffersInUse4

LEMMA Aliases4Typed ==
  /\ NoAlias \in Aliases4 /\ <<"eRouter">> \in Aliases4 /\ UserAliases4 \subseteq Aliases4
  /\ \A n \in Numbers : /\ <<"Client", n>> \in Aliases4
                        /\ <<"SentOption", n>> \in Aliases4 /\ <<"ReqOption", n>> \in Aliases4
  BY UlongAssumption DEF Aliases4, Numbers

LEMMA Option4Fields ==
  ASSUME NEW r \in Option4Type
  PROVE  /\ r.alias \in Aliases4
         /\ \A v \in BOOLEAN : [r EXCEPT !.enabled = v] \in Option4Type
         /\ \A v \in Tags4 : [r EXCEPT !.tag = v] \in Option4Type
         /\ \A v \in Aliases4 : [r EXCEPT !.alias = v] \in Option4Type
         /\ Default4(r) \in Option4Type
  BY Tables4Assumption DEF Option4Type, Default4

LEMMA Client4Fields ==
  ASSUME NEW r \in Client4Type
  PROVE  /\ r.new \in BOOLEAN /\ r.alias \in Aliases4
         /\ \A k \in OptionTables : r.opt[k] \in Option4Tables
         /\ [r EXCEPT !.new = FALSE] \in Client4Type /\ [r EXCEPT !.new = FALSE].opt = r.opt
         /\ \A v \in BOOLEAN : /\ [r EXCEPT !.enabled = v] \in Client4Type
                               /\ [r EXCEPT !.enabled = v].opt = r.opt
         /\ \A v \in Aliases4 : /\ [r EXCEPT !.alias = v] \in Client4Type
                                /\ [r EXCEPT !.alias = v].opt = r.opt
  BY DEF Client4Type

LEMMA BackendCfgFields ==
  ASSUME NEW r \in Client4Type
  PROVE  BackendCfg(r) \in Client4Type /\ BackendCfg(r).opt = r.opt
  <1>1. PICK a \in Aliases4 : a = <<"eRouter">>
    BY Aliases4Typed
  <1>2. BackendCfg(r) = [r EXCEPT !.inst = 1, !.alias = a, !.enabled = TRUE]
    BY <1>1 DEF BackendCfg
  <1>3. 1 \in Numbers
    BY UlongAssumption DEF Numbers
  <1> QED
    BY <1>2, <1>3 DEF Client4Type

LEMMA NewClient4Typed ==
  ASSUME NEW n \in Numbers
  PROVE  /\ NewClient4(n) \in Client4Type
         /\ \A k \in OptionTables : NewClient4(n).opt[k].old = NoAlias
  <1>1. PICK a \in Aliases4 : a = <<"Client", n>>
    BY Aliases4Typed
  <1>2. PICK e \in Option4Tables : e = EmptyTable /\ e.old = NoAlias
    BY EmptyTableParts, Aliases4Typed DEF Option4Tables
  <1>3. NewClient4(n) = [inst |-> n, new |-> TRUE, alias |-> a, enabled |-> FALSE,
                         opt |-> [k \in OptionTables |-> e]]
    BY <1>1, <1>2 DEF NewClient4
  <1>4. [k \in OptionTables |-> e] \in [OptionTables -> Option4Tables]
    OBVIOUS
  <1>5. PICK f \in [OptionTables -> Option4Tables] :
           f = [k \in OptionTables |-> e] /\ \A k \in OptionTables : f[k] = e
    BY <1>4
  <1> QED
    BY <1>2, <1>3, <1>5 DEF Client4Type

LEMMA Client4Rows ==
  ASSUME Types4
  PROVE  /\ client4.max \in 0..UlongLimit /\ client4.old \in Aliases4
         /\ \A c \in Rows(client4) : client4.row[c] \in Client4Type
         /\ \A c \in Rows(client4) : \A k \in OptionTables : Options4(c, k) \in Option4Tables
  <1>1. PICK t \in Tables(Client4Type, Aliases4) : t = client4
    BY DEF Types4, Client4Tables
  <1>2. /\ t.max \in 0..UlongLimit /\ t.old \in Aliases4
        /\ t.row \in [Rows(t) -> Client4Type]
    BY TableParts
  <1>3. \A c \in Rows(t) : t.row[c] \in Client4Type
    BY <1>2
  <1>4. \A c \in Rows(t) : \A k \in OptionTables : t.row[c].opt[k] \in Option4Tables
    BY <1>3, Client4Fields
  <1> QED
    BY <1>1, <1>2, <1>3, <1>4 DEF Options4

LEMMA Option4Rows ==
  ASSUME NEW t \in Option4Tables
  PROVE  /\ t.max \in 0..UlongLimit /\ t.old \in Aliases4
         /\ \A o \in Rows(t) : t.row[o] \in Option4Type
  BY TableParts DEF Option4Tables

(* A step changes the one row of a client, or the one option table of it.    *)
Client4Changed(c, t) ==
  /\ t \in Client4Tables /\ Rows(t) = Rows(client4)
  /\ \A d \in Rows(client4) : t.row[d].opt = client4.row[d].opt

Table4Changed(c, k, u, t) ==
  /\ t \in Client4Tables /\ Rows(t) = Rows(client4) /\ t.old = client4.old
  /\ t.row[c].opt[k] = u
  /\ \A d \in Rows(client4) : \A j \in OptionTables :
       (d # c \/ j # k) => t.row[d].opt[j] = Options4(d, j)

LEMMA Client4Set ==
  ASSUME Types4, NEW c \in Rows(client4), NEW r \in Client4Type, r.opt = client4.row[c].opt
  PROVE  Client4Changed(c, SetRow(client4, c, r)) /\ SetRow(client4, c, r).old = client4.old
  BY SetRowParts DEF Types4, Client4Tables, Client4Changed

LEMMA Table4Set ==
  ASSUME Types4, NEW c \in Rows(client4), NEW k \in OptionTables, NEW u \in Option4Tables
  PROVE  Table4Changed(c, k, u, [client4 EXCEPT !.row[c].opt[k] = u])
  <1> DEFINE q == client4.row[c]
             r == [q EXCEPT !.opt[k] = u]
             t == [client4 EXCEPT !.row[c].opt[k] = u]
  <1>1. q \in Client4Type /\ q.opt \in [OptionTables -> Option4Tables]
    BY Client4Rows DEF Client4Type
  <1>2. PICK f : f = [q.opt EXCEPT ![k] = u]
    OBVIOUS
  <1>3. /\ f \in [OptionTables -> Option4Tables] /\ f[k] = u
        /\ \A j \in OptionTables : j # k => f[j] = q.opt[j]
    BY <1>1, <1>2
  <1>4. r = [q EXCEPT !.opt = f]
    BY <1>2
  <1> HIDE DEF r
  <1>5. r \in Client4Type /\ r.opt = f
    <2> HIDE DEF q
    <2> QED
      BY <1>1, <1>3, <1>4 DEF Client4Type
  <1>6. t = SetRow(client4, c, r)
    BY DEF SetRow, r
  <1>7. /\ t \in Client4Tables /\ Rows(t) = Rows(client4) /\ t.row[c] = r
        /\ \A d \in Rows(client4) \ {c} : t.row[d] = client4.row[d]
        /\ t.old = client4.old
    <2> HIDE DEF t
    <2> QED
      BY <1>5, <1>6, SetRowParts DEF Types4, Client4Tables
  <1> HIDE DEF t
  <1>8. Table4Changed(c, k, u, t)
    BY <1>3, <1>5, <1>7 DEF Table4Changed, Options4
  <1> QED
    BY <1>8 DEF t

(* A step on a client's own row.                                             *)
LEMMA ClientSet4Effect ==
  ASSUME Types4, NEW c \in Rows(client4),
         Client_SetParamBoolValue(c) \/ Client_SetParamStringValue(c)
  PROVE  txn4' = Touched(txn4, <<c, "client", 0>>) /\ Client4Changed(c, client4')
  <1> DEFINE q == client4.row[c]
  <1>1. q \in Client4Type
    BY Client4Rows
  <1>2. CASE Client_SetParamBoolValue(c)
    <2>1. PICK v \in BOOLEAN : client4' = [client4 EXCEPT !.row[c].enabled = v]
      BY <1>2 DEF Client_SetParamBoolValue
    <2>2. PICK r : r = [q EXCEPT !.enabled = v]
      OBVIOUS
    <2>3. r \in Client4Type /\ r.opt = q.opt
      BY <1>1, <2>2, Client4Fields
    <2>4. client4' = SetRow(client4, c, r)
      BY <2>1, <2>2 DEF SetRow
    <2>5. Client4Changed(c, client4')
      BY <2>3, <2>4, Client4Set
    <2> QED
      BY <1>2, <2>5 DEF Client_SetParamBoolValue
  <1>3. CASE Client_SetParamStringValue(c)
    <2>1. PICK a \in UserAliases4 : client4' = SetAlias(client4, c, a)
      BY <1>3 DEF Client_SetParamStringValue
    <2>2. a \in Aliases4 /\ q.alias \in Aliases4
      BY <1>1, Client4Fields, Aliases4Typed
    <2>3. PICK r : r = [q EXCEPT !.alias = a]
      OBVIOUS
    <2>4. r \in Client4Type /\ r.opt = q.opt
      BY <1>1, <2>2, <2>3, Client4Fields
    <2>5. client4' \in Client4Tables /\ Changed(client4, client4', c, r)
      BY <2>1, <2>2, <2>3, <2>4, SetAliasParts DEF Types4, Client4Tables
    <2>6. Client4Changed(c, client4')
      BY <2>4, <2>5 DEF Changed, Client4Changed
    <2> QED
      BY <1>3, <2>6 DEF Client_SetParamStringValue
  <1> QED
    BY <1>2, <1>3

LEMMA ClientCommit4Effect ==
  ASSUME Types4, NEW c \in Rows(client4), Client_Commit(c)
  PROVE  Client4Changed(c, client4') /\ client4'.old = NoAlias
  <1> DEFINE q == client4.row[c]
  <1>1. PICK r : r = IF q.new THEN [q EXCEPT !.new = FALSE] ELSE BackendCfg(q)
    OBVIOUS
  <1>2. r \in Client4Type /\ r.opt = q.opt
    BY <1>1, Client4Rows, Client4Fields, BackendCfgFields
  <1>3. PICK t : t = SetRow(client4, c, r)
    OBVIOUS
  <1>4. Client4Changed(c, t)
    BY <1>2, <1>3, Client4Set
  <1>5. client4' = ZeroAlias(t)
    BY <1>1, <1>3 DEF Client_Commit, SetRow
  <1> QED
    BY <1>4, <1>5, ZeroAliasParts, Aliases4Typed DEF Client4Changed, Client4Tables

LEMMA ClientRollback4Effect ==
  ASSUME Types4, NEW c \in Rows(client4), Client_Rollback(c)
  PROVE  Client4Changed(c, client4') /\ client4'.old = NoAlias
  <1> DEFINE q == client4.row[c]
  <1>1. q \in Client4Type /\ client4.old \in Aliases4
    BY Client4Rows
  <1>2. PICK w : w = RestoreAlias(client4, c)
    OBVIOUS
  <1>3. \A a \in Aliases4 : [q EXCEPT !.alias = a] \in Client4Type
    BY <1>1, Client4Fields
  <1>4. PICK s \in Client4Type :
          /\ w \in Client4Tables /\ Changed(client4, w, c, s)
          /\ s = q \/ s = [q EXCEPT !.alias = client4.old]
    BY <1>2, <1>3, RestoreAliasParts DEF Types4, Client4Tables
  <1>5. s.opt = q.opt
    <2>1. PICK a \in Aliases4 : a = client4.old
      BY <1>1
    <2>2. [q EXCEPT !.alias = a].opt = q.opt
      BY <1>1, Client4Fields
    <2> QED
      BY <1>4, <2>1, <2>2
  <1>6. PICK r : r = IF s.new THEN [s EXCEPT !.enabled = FALSE] ELSE BackendCfg(s)
    OBVIOUS
  <1>7. r \in Client4Type /\ r.opt = s.opt
    BY <1>4, <1>6, Client4Fields, BackendCfgFields
  <1>8. PICK t : t = SetRow(w, c, r)
    OBVIOUS
  <1>9. /\ t \in Client4Tables /\ Rows(t) = Rows(w) /\ t.row[c] = r
        /\ \A d \in Rows(w) \ {c} : t.row[d] = w.row[d]
    BY <1>4, <1>7, <1>8, SetRowParts DEF Client4Tables, Changed
  <1>10. Client4Changed(c, t)
    BY <1>4, <1>5, <1>7, <1>9 DEF Changed, Client4Changed
  <1>11. s = w.row[c]
    BY <1>4 DEF Changed
  <1>12. client4' = ZeroAlias(t)
    BY <1>2, <1>6, <1>8, <1>11 DEF Client_Rollback, SetRow
  <1> QED
    BY <1>10, <1>12, ZeroAliasParts, Aliases4Typed DEF Client4Changed, Client4Tables

(* A step on an option: the rows of its table are still the same.            *)
Option4Changed(c, k, t) ==
  /\ t \in Client4Tables /\ Rows(t) = Rows(client4) /\ t.old = client4.old
  /\ Rows(t.row[c].opt[k]) = Rows(Options4(c, k))
  /\ \A d \in Rows(client4) : \A j \in OptionTables :
       (d # c \/ j # k) => t.row[d].opt[j] = Options4(d, j)

LEMMA Option4Written ==
  ASSUME Types4, NEW c \in Rows(client4), NEW k \in OptionTables,
         NEW u \in Option4Tables, Rows(u) = Rows(Options4(c, k)),
         client4' = [client4 EXCEPT !.row[c].opt[k] = u]
  PROVE  Option4Changed(c, k, client4') /\ client4'.row[c].opt[k] = u
  BY Table4Set DEF Table4Changed, Option4Changed

LEMMA OptionSet4Effect ==
  ASSUME Types4, NEW c \in Rows(client4), NEW k \in OptionTables,
         NEW o \in Rows(Options4(c, k)),
         SetEnable4(c, k, o) \/ SetTag4(c, k, o) \/ SetAlias4(c, k, o)
  PROVE  txn4' = Touched(txn4, <<c, k, o>>) /\ Option4Changed(c, k, client4')
  <1> DEFINE t == Options4(c, k)
             q == t.row[o]
  <1>1. t \in Option4Tables /\ q \in Option4Type
    BY Client4Rows, Option4Rows
  <1>2. CASE SetEnable4(c, k, o) \/ SetTag4(c, k, o)
    <2>1. PICK r \in Option4Type : client4' = [client4 EXCEPT !.row[c].opt[k].row[o] = r]
      <3>1. CASE SetEnable4(c, k, o)
        <4>1. PICK v \in BOOLEAN : client4' = [client4 EXCEPT !.row[c].opt[k].row[o].enabled = v]
          BY <3>1 DEF SetEnable4
        <4>2. [q EXCEPT !.enabled = v] \in Option4Type
          BY <1>1, Option4Fields
        <4> QED
          BY <4>1, <4>2 DEF Options4
      <3>2. CASE SetTag4(c, k, o)
        <4>1. PICK v \in Tags4 : client4' = [client4 EXCEPT !.row[c].opt[k].row[o].tag = v]
          BY <3>2 DEF SetTag4
        <4>2. [q EXCEPT !.tag = v] \in Option4Type
          BY <1>1, Option4Fields
        <4> QED
          BY <4>1, <4>2 DEF Options4
      <3> QED
        BY <1>2, <3>1, <3>2
    <2>2. PICK u : u = SetRow(t, o, r)
      OBVIOUS
    <2>3. client4' = [client4 EXCEPT !.row[c].opt[k] = u]
      BY <2>1, <2>2 DEF SetRow, Options4
    <2>4. u \in Option4Tables /\ Rows(u) = Rows(t)
      BY <1>1, <2>2, SetRowParts DEF Option4Tables
    <2>5. Option4Changed(c, k, client4')
      BY <2>3, <2>4, Option4Written
    <2> QED
      BY <1>2, <2>5 DEF SetEnable4, SetTag4
  <1>3. CASE SetAlias4(c, k, o)
    <2>1. PICK a \in UserAliases4 :
            client4' = [client4 EXCEPT !.row[c].opt[k] = SetAlias(client4.row[c].opt[k], o, a)]
      BY <1>3 DEF SetAlias4
    <2>2. a \in Aliases4 /\ q.alias \in Aliases4 /\ [q EXCEPT !.alias = a] \in Option4Type
      BY <1>1, Option4Fields, Aliases4Typed
    <2>3. PICK u : u = SetAlias(t, o, a)
      OBVIOUS
    <2>4. u \in Option4Tables /\ Rows(u) = Rows(t)
      BY <1>1, <2>2, <2>3, SetAliasParts DEF Option4Tables, Changed
    <2>5. client4' = [client4 EXCEPT !.row[c].opt[k] = u]
      BY <2>1, <2>3 DEF Options4
    <2>6. Option4Changed(c, k, client4')
      BY <2>4, <2>5, Option4Written
    <2> QED
      BY <1>3, <2>6 DEF SetAlias4
  <1> QED
    BY <1>2, <1>3

LEMMA Option4Restored ==
  ASSUME NEW t \in Option4Tables, NEW o \in Rows(t)
  PROVE  /\ RestoreAlias(t, o) \in Option4Tables
         /\ Rows(RestoreAlias(t, o)) = Rows(t)
         /\ RestoreAlias(t, o).row[o] \in Option4Type
  <1>1. t.row[o] \in Option4Type
    BY Option4Rows
  <1>2. \A a \in Aliases4 : [t.row[o] EXCEPT !.alias = a] \in Option4Type
    BY <1>1, Option4Fields
  <1>3. PICK r \in Option4Type :
          RestoreAlias(t, o) \in Option4Tables /\ Changed(t, RestoreAlias(t, o), o, r)
    BY <1>2, RestoreAliasParts DEF Option4Tables
  <1> QED
    BY <1>3 DEF Changed

LEMMA OptionEnd4Effect ==
  ASSUME Types4, NEW c \in Rows(client4), NEW k \in OptionTables,
         NEW o \in Rows(Options4(c, k)),
         CommitOption4(c, k, o) \/ RollbackOption4(c, k, o)
  PROVE  Option4Changed(c, k, client4') /\ client4'.row[c].opt[k].old = NoAlias
  <1> DEFINE t == Options4(c, k)
  <1>1. t \in Option4Tables
    BY Client4Rows
  <1>2. PICK u \in Option4Tables :
          /\ Rows(u) = Rows(t)
          /\ client4' = [client4 EXCEPT !.row[c].opt[k] = ZeroAlias(u)]
    <2>1. CASE CommitOption4(c, k, o)
      <3>1. PICK r : r = Default4(t.row[o])
        OBVIOUS
      <3>2. r \in Option4Type
        BY <1>1, <3>1, Option4Rows, Option4Fields
      <3>3. PICK v : v = SetRow(t, o, r)
        OBVIOUS
      <3>4. v \in Option4Tables /\ Rows(v) = Rows(t)
        BY <1>1, <3>2, <3>3, SetRowParts DEF Option4Tables
      <3>5. PICK u : u = RestoreAlias(v, o)
        OBVIOUS
      <3>6. u \in Option4Tables /\ Rows(u) = Rows(v)
        BY <3>4, <3>5, Option4Restored
      <3>7. client4' = [client4 EXCEPT !.row[c].opt[k] = ZeroAlias(u)]
        BY <2>1, <3>1, <3>3, <3>5 DEF CommitOption4, SetRow, Options4
      <3> QED
        BY <3>4, <3>6, <3>7
    <2>2. CASE RollbackOption4(c, k, o)
      <3>1. PICK w : w = RestoreAlias(t, o)
        OBVIOUS
      <3>2. w \in Option4Tables /\ Rows(w) = Rows(t) /\ w.row[o] \in Option4Type
        BY <1>1, <3>1, Option4Restored
      <3>3. PICK r : r = Default4(w.row[o])
        OBVIOUS
      <3>4. r \in Option4Type
        BY <3>2, <3>3, Option4Fields
      <3>5. PICK u : u = SetRow(w, o, r)
        OBVIOUS
      <3>6. u \in Option4Tables /\ Rows(u) = Rows(w)
        BY <3>2, <3>4, <3>5, SetRowParts DEF Option4Tables
      <3>7. client4' = [client4 EXCEPT !.row[c].opt[k] = ZeroAlias(u)]
        BY <2>2, <3>1, <3>3, <3>5 DEF RollbackOption4, SetRow, Options4
      <3> QED
        BY <3>2, <3>6, <3>7
    <2> QED
      BY <2>1, <2>2
  <1>3. PICK z : z = ZeroAlias(u)
    OBVIOUS
  <1>4. z \in Option4Tables /\ Rows(z) = Rows(u) /\ z.old = NoAlias
    BY <1>3, ZeroAliasParts, Aliases4Typed DEF Option4Tables
  <1> QED
    BY <1>2, <1>3, <1>4, Option4Written

LEMMA ClientAdd4Effect ==
  ASSUME Types4, Client_AddEntry
  PROVE  /\ client4' \in Client4Tables /\ client4'.old = client4.old
         /\ txn4.phase = "idle" /\ UNCHANGED txn4
         /\ \A c \in Rows(client4') : \A k \in OptionTables :
              \/ c \in Rows(client4) /\ client4'.row[c].opt[k].old = Options4(c, k).old
              \/ client4'.row[c].opt[k].old = NoAlias
  <1>1. PICK n : n = NextInstance(client4.max)
    OBVIOUS
  <1>2. n \in Numbers
    BY <1>1, Client4Rows, UlongAssumption DEF NextInstance, Numbers
  <1>3. PICK r : r = NewClient4(n)
    OBVIOUS
  <1>4. r \in Client4Type /\ \A k \in OptionTables : r.opt[k].old = NoAlias
    BY <1>2, <1>3, NewClient4Typed
  <1>5. client4' = AddRow(client4, r)
    BY <1>1, <1>3 DEF Client_AddEntry
  <1>6. /\ client4' \in Client4Tables
        /\ Rows(client4') = Rows(client4) \cup {n} /\ client4'.row[n] = r
        /\ \A m \in Rows(client4) \ {n} : client4'.row[m] = client4.row[m]
        /\ client4'.old = client4.old
    <2>1. client4 \in Tables(Client4Type, Aliases4)
      BY DEF Types4, Client4Tables
    <2> QED
      BY <1>1, <1>4, <1>5, <2>1, AddRowParts DEF Client4Tables
  <1> QED
    BY <1>4, <1>6 DEF Client_AddEntry, Options4

LEMMA ClientDel4Effect ==
  ASSUME Types4, NEW c \in Rows(client4), Client_DelEntry(c)
  PROVE  /\ client4' \in Client4Tables /\ client4'.old = client4.old
         /\ txn4.phase = "idle" /\ UNCHANGED txn4
         /\ \A d \in Rows(client4') : \A k \in OptionTables :
              d \in Rows(client4) /\ client4'.row[d].opt[k].old = Options4(d, k).old
  <1>1. /\ client4' \in Client4Tables /\ Rows(client4') = Rows(client4) \ {c}
        /\ \A d \in Rows(client4) \ {c} : client4'.row[d] = client4.row[d]
        /\ client4'.old = client4.old
    BY PopParts DEF Types4, Client4Tables, Client_DelEntry
  <1> QED
    BY <1>1 DEF Client_DelEntry, Options4

LEMMA OptionAdd4Effect ==
  ASSUME Types4, NEW c \in Rows(client4), NEW k \in OptionTables,
         NEW name \in {"SentOption", "ReqOption"}, AddOption4(c, k, name)
  PROVE  /\ client4' \in Client4Tables /\ client4'.old = client4.old
         /\ txn4.phase = "idle" /\ UNCHANGED txn4
         /\ \A d \in Rows(client4') : \A j \in OptionTables :
              d \in Rows(client4) /\ client4'.row[d].opt[j].old = Options4(d, j).old
  <1> DEFINE t == Options4(c, k)
  <1>0. t \in Option4Tables
    BY Client4Rows
  <1>1. PICK n : n = NextInstance(t.max)
    OBVIOUS
  <1>2. n \in Numbers
    BY <1>0, <1>1, Option4Rows, UlongAssumption DEF NextInstance, Numbers
  <1>3. PICK a \in Aliases4 : a = <<name, n>>
    BY <1>2, Aliases4Typed
  <1>4. PICK r : r = [new |-> TRUE, alias |-> a, enabled |-> FALSE, tag |-> 0]
    OBVIOUS
  <1>5. r \in Option4Type
    BY <1>4, Tables4Assumption DEF Option4Type
  <1>6. PICK u : u = AddRow(t, r)
    OBVIOUS
  <1>7. u \in Option4Tables /\ u.old = t.old
    BY <1>0, <1>5, <1>6, AddRowParts DEF Option4Tables
  <1>8. client4' = [client4 EXCEPT !.row[c].opt[k] = u]
    BY <1>1, <1>3, <1>4, <1>6 DEF AddOption4, Options4
  <1>9. Table4Changed(c, k, u, client4')
    BY <1>7, <1>8, Table4Set
  <1>10. \A d \in Rows(client4) : \A j \in OptionTables :
           client4'.row[d].opt[j].old = Options4(d, j).old
    BY <1>7, <1>9 DEF Table4Changed
  <1> QED
    BY <1>9, <1>10 DEF AddOption4, Table4Changed

LEMMA OptionDel4Effect ==
  ASSUME Types4, NEW c \in Rows(client4), NEW k \in OptionTables,
         NEW o \in Rows(Options4(c, k)), DelOption4(c, k, o)
  PROVE  /\ client4' \in Client4Tables /\ client4'.old = client4.old
         /\ txn4.phase = "idle" /\ UNCHANGED txn4
         /\ \A d \in Rows(client4') : \A j \in OptionTables :
              d \in Rows(client4) /\ client4'.row[d].opt[j].old = Options4(d, j).old
  <1> DEFINE t == Options4(c, k)
  <1>0. t \in Option4Tables
    BY Client4Rows
  <1>1. PICK u : u = PopEntry(t, o)
    OBVIOUS
  <1>2. u \in Option4Tables /\ u.old = t.old
    BY <1>0, <1>1, PopParts DEF Option4Tables
  <1>3. client4' = [client4 EXCEPT !.row[c].opt[k] = u]
    BY <1>1 DEF DelOption4, Options4
  <1>4. Table4Changed(c, k, u, client4')
    BY <1>2, <1>3, Table4Set
  <1>5. \A d \in Rows(client4) : \A j \in OptionTables :
           client4'.row[d].opt[j].old = Options4(d, j).old
    BY <1>2, <1>4 DEF Table4Changed
  <1> QED
    BY <1>4, <1>5 DEF DelOption4, Table4Changed

(* The start of the process: the backend's client is the only row.           *)
LEMMA Backend4Parts ==
  LET t == Dhcpv4BackendGet(Dhcpv4RegGet) IN
  /\ t \in Client4Tables /\ t.old = NoAlias
  /\ \A c \in Rows(t) : \A k \in OptionTables : t.row[c].opt[k].old = NoAlias
  <1>1. EmptyTable \in Client4Tables /\ Rows(EmptyTable) = {} /\ EmptyTable.old = NoAlias
    BY EmptyTableParts, Aliases4Typed DEF Client4Tables
  <1>2. 1 \in Numbers
    BY UlongAssumption DEF Numbers
  <1>3. PICK q \in Client4Type :
          q = NewClient4(1) /\ \A k \in OptionTables : q.opt[k].old = NoAlias
    BY <1>2, NewClient4Typed
  <1>4. PICK s \in Client4Type : s = [q EXCEPT !.new = FALSE] /\ s.opt = q.opt
    BY Client4Fields
  <1>5. PICK r \in Client4Type : r = BackendCfg(s) /\ r.opt = s.opt
    BY BackendCfgFields
  <1>6. PICK p : p = PushEntry(EmptyTable, 1, r)
    OBVIOUS
  <1>7. /\ p \in Client4Tables /\ Rows(p) = {1} /\ p.row[1] = r /\ p.old = NoAlias
    BY <1>1, <1>2, <1>6, PushParts DEF Client4Tables
  <1>8. PICK t : t = [p EXCEPT !.max = 1]
    OBVIOUS
  <1>9. /\ p = [row |-> p.row, max |-> p.max, old |-> p.old]
        /\ Rows(p) \subseteq Numbers /\ p.row \in [Rows(p) -> Client4Type]
        /\ p.old \in Aliases4
    BY <1>7, TableParts DEF Client4Tables
  <1>10. t = [row |-> p.row, max |-> 1, old |-> p.old]
    BY <1>8, <1>9
  <1>11. 1 \in 0..UlongLimit
    BY UlongAssumption
  <1>12. t \in Client4Tables /\ Rows(t) = Rows(p)
    BY <1>9, <1>10, <1>11, TableMadeOf DEF Client4Tables
  <1>13. t.row[1] = r /\ t.old = NoAlias /\ Rows(t) = {1}
    BY <1>7, <1>10, <1>12
  <1>14. t = Dhcpv4BackendGet(Dhcpv4RegGet)
    BY <1>3, <1>4, <1>5, <1>6, <1>8 DEF Dhcpv4BackendGet, Dhcpv4RegGet
  <1> QED
    BY <1>3, <1>4, <1>5, <1>12, <1>13, <1>14

Key4(x) == x \in txn4.rows
SetsClient4(c) == Client_SetParamBoolValue(c) \/ Client_SetParamStringValue(c)
SetsOption4(c, k, o) == SetEnable4(c, k, o) \/ SetTag4(c, k, o) \/ SetAlias4(c, k, o)
EndsClient4(c) ==
  /\ txn4.phase # "idle" /\ Key4(<<c, "client", 0>>)
  /\ Client_Commit(c) \/ Client_Rollback(c)
  /\ txn4' = Done(txn4, <<c, "client", 0>>)
EndsOption4(c, k, o) ==
  /\ txn4.phase # "idle" /\ Key4(<<c, k, o>>)
  /\ CommitOption4(c, k, o) \/ RollbackOption4(c, k, o)
  /\ txn4' = Done(txn4, <<c, k, o>>)

LEMMA EndCases4 ==
  ASSUME KeysExist4, Commit4 \/ Rollback4
  PROVE  \/ \E c \in Rows(client4) : EndsClient4(c)
         \/ \E c \in Rows(client4) : \E k \in OptionTables :
              \E o \in Rows(Options4(c, k)) : EndsOption4(c, k, o)
  <1>1. PICK x \in txn4.rows :
          /\ \/ x[2] = "client" /\ (Client_Commit(x[1]) \/ Client_Rollback(x[1]))
             \/ /\ x[2] \in OptionTables
                /\ CommitOption4(x[1], x[2], x[3]) \/ RollbackOption4(x[1], x[2], x[3])
          /\ txn4' = Done(txn4, x)
    <2>1. CASE Commit4
      <3>1. PICK x \in txn4.rows :
              /\ \/ x[2] = "client" /\ Client_Commit(x[1])
                 \/ x[2] = "sent"   /\ SentOption_Commit(x[1], x[3])
                 \/ x[2] = "req"    /\ ReqOption_Commit(x[1], x[3])
              /\ txn4' = Done(txn4, x)
        BY <2>1 DEF Commit4
      <3> QED
        BY <3>1 DEF SentOption_Commit, ReqOption_Commit, OptionTables
    <2>2. CASE Rollback4
      <3>1. PICK x \in txn4.rows :
              /\ \/ x[2] = "client" /\ Client_Rollback(x[1])
                 \/ x[2] = "sent"   /\ SentOption_Rollback(x[1], x[3])
                 \/ x[2] = "req"    /\ ReqOption_Rollback(x[1], x[3])
              /\ txn4' = Done(txn4, x)
        BY <2>2 DEF Rollback4
      <3> QED
        BY <3>1 DEF SentOption_Rollback, ReqOption_Rollback, OptionTables
    <2> QED
      BY <2>1, <2>2
  <1>2. txn4.phase # "idle"
    BY DEF Commit4, Rollback4
  <1>3. CASE \E c \in Rows(client4) : x = <<c, "client", 0>>
    <2>1. PICK c \in Rows(client4) : x = <<c, "client", 0>>
      BY <1>3
    <2>2. x[1] = c /\ x[2] = "client" /\ "client" \notin OptionTables
      BY <2>1 DEF OptionTables
    <2>3. EndsClient4(c)
      BY <1>1, <1>2, <2>1, <2>2 DEF EndsClient4, Key4
    <2> QED
      BY <2>3
  <1>4. CASE \E c \in Rows(client4) : \E k \in OptionTables : \E o \in Rows(Options4(c, k)) :
               x = <<c, k, o>>
    <2>1. PICK c \in Rows(client4) : \E k \in OptionTables : \E o \in Rows(Options4(c, k)) :
               x = <<c, k, o>>
      BY <1>4
    <2>2. PICK k \in OptionTables : \E o \in Rows(Options4(c, k)) : x = <<c, k, o>>
      BY <2>1
    <2>3. PICK o \in Rows(Options4(c, k)) : x = <<c, k, o>>
      BY <2>2
    <2>4. x[1] = c /\ x[2] = k /\ x[3] = o /\ k # "client"
      BY <2>3 DEF OptionTables
    <2>5. EndsOption4(c, k, o)
      BY <1>1, <1>2, <2>3, <2>4 DEF EndsOption4, Key4
    <2> QED
      BY <2>5
  <1> QED
    BY <1>3, <1>4 DEF KeysExist4

LEMMA StepCases4 ==
  ASSUME KeysExist4, Next4
  PROVE  \/ Client_AddEntry
         \/ \E c \in Rows(client4) : Client_DelEntry(c)
         \/ \E c \in Rows(client4) : SetsClient4(c)
         \/ \E c \in Rows(client4) : \E k \in OptionTables :
              \E name \in {"SentOption", "ReqOption"} : AddOption4(c, k, name)
         \/ \E c \in Rows(client4) : \E k \in OptionTables :
              \E o \in Rows(Options4(c, k)) : DelOption4(c, k, o)
         \/ \E c \in Rows(client4) : \E k \in OptionTables :
              \E o \in Rows(Options4(c, k)) : SetsOption4(c, k, o)
         \/ Validate4
         \/ \E c \in Rows(client4) : EndsClient4(c)
         \/ \E c \in Rows(client4) : \E k \in OptionTables :
              \E o \in Rows(Options4(c, k)) : EndsOption4(c, k, o)
         \/ Dhcpv4Initialize
  <1>1. CASE Table4
    <2>0. "sent" \in OptionTables /\ "req" \in OptionTables
      BY DEF OptionTables
    <2>1. CASE Client_AddEntry
      BY <2>1
    <2>2. CASE \E c \in Rows(client4) :
                 \/ Client_DelEntry(c)
                 \/ Client_SetParamBoolValue(c) \/ Client_SetParamStringValue(c)
      BY <2>2 DEF SetsClient4
    <2>3. CASE \E c \in Rows(client4) : SentOption_AddEntry(c) \/ ReqOption_AddEntry(c)
      BY <2>0, <2>3 DEF SentOption_AddEntry, ReqOption_AddEntry
    <2>4. CASE \E c \in Rows(client4) : \E o \in Rows(client4.row[c].opt["sent"]) :
            \/ SentOption_DelEntry(c, o) \/ SentOption_SetParamBoolValue(c, o)
            \/ SentOption_SetParamUlongValue(c, o)
            \/ SentOption_SetParamStringValue(c, o)
      <3>1. \E c \in Rows(client4) : \E o \in Rows(Options4(c, "sent")) :
              DelOption4(c, "sent", o) \/ SetsOption4(c, "sent", o)
        BY <2>4 DEF Options4, SetsOption4, SentOption_DelEntry, SentOption_SetParamBoolValue,
                    SentOption_SetParamUlongValue, SentOption_SetParamStringValue
      <3> QED
        BY <2>0, <3>1
    <2>5. CASE \E c \in Rows(client4) : \E o \in Rows(client4.row[c].opt["req"]) :
            \/ ReqOption_DelEntry(c, o) \/ ReqOption_SetParamBoolValue(c, o)
            \/ ReqOption_SetParamUlongValue(c, o)
            \/ ReqOption_SetParamStringValue(c, o)
      <3>1. \E c \in Rows(client4) : \E o \in Rows(Options4(c, "req")) :
              DelOption4(c, "req", o) \/ SetsOption4(c, "req", o)
        BY <2>5 DEF Options4, SetsOption4, ReqOption_DelEntry, ReqOption_SetParamBoolValue,
                    ReqOption_SetParamUlongValue, ReqOption_SetParamStringValue
      <3> QED
        BY <2>0, <3>1
    <2> QED
      BY <1>1, <2>1, <2>2, <2>3, <2>4, <2>5 DEF Table4
  <1>2. CASE Commit4 \/ Rollback4
    BY <1>2, EndCases4
  <1> QED
    BY <1>1, <1>2 DEF Next4, EndTransaction4

LEMMA Inv4Step ==
  ASSUME Inv4, Next4
  PROVE  Inv4'
  <1>0. Types4 /\ KeysExist4 /\ BuffersInUse4
        /\ txn4 = [phase |-> txn4.phase, rows |-> txn4.rows]
    BY DEF Inv4, Types4
  <1>idle. ASSUME txn4.phase = "idle", UNCHANGED txn4, client4' \in Client4Tables,
                  client4'.old = client4.old,
                  \A c \in Rows(client4') : \A k \in OptionTables :
                    \/ c \in Rows(client4) /\ client4'.row[c].opt[k].old = Options4(c, k).old
                    \/ client4'.row[c].opt[k].old = NoAlias
           PROVE  Inv4'
    <2>1. txn4'.rows = {} /\ txn4'.phase = "idle" /\ txn4.rows = {}
      BY <1>0, <1>idle DEF BuffersInUse4
    <2>2. /\ client4'.old = NoAlias
          /\ \A c \in Rows(client4') : \A k \in OptionTables : client4'.row[c].opt[k].old = NoAlias
      BY <1>0, <1>idle, <2>1 DEF BuffersInUse4
    <2>3. Types4'
      BY <1>0, <1>idle DEF Types4
    <2>4. KeysExist4' /\ BuffersInUse4'
      BY <2>1, <2>2 DEF KeysExist4, BuffersInUse4, Options4
    <2> QED
      BY <2>3, <2>4 DEF Inv4
  <1>client. ASSUME NEW c \in Rows(client4), Client4Changed(c, client4'),
                    txn4' = [phase |-> txn4'.phase, rows |-> txn4'.rows],
                    txn4'.rows \subseteq txn4.rows \cup {<<c, "client", 0>>},
                    txn4.rows \subseteq txn4'.rows \cup {<<c, "client", 0>>},
                    txn4'.phase = "idle" <=> txn4'.rows = {},
                    client4'.old = NoAlias \/ <<c, "client", 0>> \in txn4'.rows
             PROVE  Inv4'
    <2>1. Types4'
      BY <1>client DEF Types4, Client4Changed
    <2>2. /\ Rows(client4') = Rows(client4)
          /\ \A d \in Rows(client4) : \A k \in OptionTables :
               client4'.row[d].opt[k] = Options4(d, k)
      BY <1>client DEF Client4Changed, Options4
    <2>3. KeysExist4'
      BY <1>0, <1>client, <2>2 DEF KeysExist4, Options4
    <2>4. \A d, k, o : k \in OptionTables => <<d, k, o>> # <<c, "client", 0>>
      BY DEF OptionTables
    <2>5. ASSUME NEW d \in Rows(client4'), NEW k \in OptionTables,
                 client4'.row[d].opt[k].old # NoAlias
          PROVE  \E o : <<d, k, o>> \in txn4'.rows
      <3>1. d \in Rows(client4) /\ Options4(d, k).old # NoAlias
        BY <2>2, <2>5
      <3>2. PICK o : <<d, k, o>> \in txn4.rows
        BY <1>0, <3>1 DEF BuffersInUse4
      <3>3. <<d, k, o>> # <<c, "client", 0>>
        BY <2>4
      <3>4. <<d, k, o>> \in txn4'.rows
        BY <1>client, <3>2, <3>3
      <3> QED
        BY <3>4
    <2>6. BuffersInUse4'
      BY <1>client, <2>5 DEF BuffersInUse4, Options4
    <2> QED
      BY <2>1, <2>3, <2>6 DEF Inv4
  <1>option. ASSUME NEW c \in Rows(client4), NEW k \in OptionTables,
                    NEW o \in Rows(Options4(c, k)), Option4Changed(c, k, client4'),
                    txn4' = [phase |-> txn4'.phase, rows |-> txn4'.rows],
                    txn4'.rows \subseteq txn4.rows \cup {<<c, k, o>>},
                    txn4.rows \subseteq txn4'.rows \cup {<<c, k, o>>},
                    txn4'.phase = "idle" <=> txn4'.rows = {},
                    client4'.row[c].opt[k].old = NoAlias \/ <<c, k, o>> \in txn4'.rows
             PROVE  Inv4'
    <2>1. Types4'
      BY <1>option DEF Types4, Option4Changed
    <2>2. /\ Rows(client4') = Rows(client4) /\ client4'.old = client4.old
          /\ \A d \in Rows(client4) : \A j \in OptionTables :
               /\ Rows(client4'.row[d].opt[j]) = Rows(Options4(d, j))
               /\ (d # c \/ j # k) => client4'.row[d].opt[j] = Options4(d, j)
      BY <1>option DEF Option4Changed
    <2>3. KeysExist4'
      <3>1. KeysExist4' <=>
              \A x \in txn4'.rows :
                \/ \E d \in Rows(client4') : x = <<d, "client", 0>>
                \/ \E d \in Rows(client4') : \E j \in OptionTables :
                     \E p \in Rows(client4'.row[d].opt[j]) : x = <<d, j, p>>
        BY DEF KeysExist4, Options4
      <3>2. ASSUME NEW x \in txn4'.rows
            PROVE  \/ \E d \in Rows(client4') : x = <<d, "client", 0>>
                   \/ \E d \in Rows(client4') : \E j \in OptionTables :
                        \E p \in Rows(client4'.row[d].opt[j]) : x = <<d, j, p>>
        <4>1. CASE x = <<c, k, o>>
          BY <2>2, <4>1
        <4>2. CASE x \in txn4.rows
          BY <1>0, <2>2, <4>2 DEF KeysExist4
        <4> QED
          BY <1>option, <4>1, <4>2
      <3> QED
        BY <3>1, <3>2
    <2>4. \A d, j, p : (d # c \/ j # k) => <<d, j, p>> # <<c, k, o>>
      OBVIOUS
    <2>5. \A d : <<d, "client", 0>> # <<c, k, o>>
      BY DEF OptionTables
    <2>6. BuffersInUse4'
      <3>1. client4'.old # NoAlias => \E d : <<d, "client", 0>> \in txn4'.rows
        BY <1>0, <1>option, <2>2, <2>5 DEF BuffersInUse4
      <3>2. ASSUME NEW d \in Rows(client4'), NEW j \in OptionTables,
                   client4'.row[d].opt[j].old # NoAlias
            PROVE  \E p : <<d, j, p>> \in txn4'.rows
        <4>1. CASE d = c /\ j = k
          BY <1>option, <3>2, <4>1
        <4>2. CASE d # c \/ j # k
          <5>1. d \in Rows(client4) /\ Options4(d, j).old # NoAlias
            BY <2>2, <3>2, <4>2
          <5>2. PICK p : <<d, j, p>> \in txn4.rows
            BY <1>0, <5>1 DEF BuffersInUse4
          <5>3. <<d, j, p>> # <<c, k, o>>
            BY <4>2
          <5>4. <<d, j, p>> \in txn4'.rows
            BY <1>option, <5>2, <5>3
          <5> QED
            BY <5>4
        <4> QED
          BY <4>1, <4>2
      <3> QED
        BY <1>option, <3>1, <3>2 DEF BuffersInUse4, Options4
    <2> QED
      BY <2>1, <2>3, <2>6 DEF Inv4
  <1>touched. ASSUME NEW x, txn4' = Touched(txn4, x)
              PROVE  /\ txn4' = [phase |-> txn4'.phase, rows |-> txn4'.rows]
                     /\ txn4'.rows = txn4.rows \cup {x}
                     /\ txn4'.phase = "idle" <=> txn4'.rows = {}
    BY <1>touched DEF Touched
  <1>done. ASSUME NEW x \in txn4.rows, txn4' = Done(txn4, x), txn4.phase # "idle"
           PROVE  /\ txn4' = [phase |-> txn4'.phase, rows |-> txn4'.rows]
                  /\ txn4'.rows = txn4.rows \ {x}
                  /\ txn4'.phase = "idle" <=> txn4'.rows = {}
    <2>1. PICK t : t = Done(txn4, x)
      OBVIOUS
    <2>2. /\ t = [phase |-> t.phase, rows |-> t.rows] /\ t.rows = txn4.rows \ {x}
          /\ t.phase = IF txn4.rows = {x} THEN "idle" ELSE txn4.phase
      BY <1>0, <2>1, DoneParts
    <2> QED
      BY <1>done, <2>1, <2>2
  <1>1. CASE Client_AddEntry
    BY <1>0, <1>1, <1>idle, ClientAdd4Effect
  <1>2. CASE \E c \in Rows(client4) : Client_DelEntry(c)
    BY <1>0, <1>2, <1>idle, ClientDel4Effect
  <1>3. CASE \E c \in Rows(client4) : SetsClient4(c)
    <2>1. PICK c \in Rows(client4) : SetsClient4(c)
      BY <1>3
    <2>2. txn4' = Touched(txn4, <<c, "client", 0>>) /\ Client4Changed(c, client4')
      BY <1>0, <2>1, ClientSet4Effect DEF SetsClient4
    <2>3. /\ txn4' = [phase |-> txn4'.phase, rows |-> txn4'.rows]
          /\ txn4'.rows = txn4.rows \cup {<<c, "client", 0>>}
          /\ txn4'.phase = "idle" <=> txn4'.rows = {}
      BY <1>touched, <2>2
    <2> QED
      BY <1>client, <2>2, <2>3
  <1>4. CASE \E c \in Rows(client4) : \E k \in OptionTables :
               \E name \in {"SentOption", "ReqOption"} : AddOption4(c, k, name)
    BY <1>0, <1>4, <1>idle, OptionAdd4Effect
  <1>5. CASE \E c \in Rows(client4) : \E k \in OptionTables :
               \E o \in Rows(Options4(c, k)) : DelOption4(c, k, o)
    BY <1>0, <1>5, <1>idle, OptionDel4Effect
  <1>6. CASE \E c \in Rows(client4) : \E k \in OptionTables :
               \E o \in Rows(Options4(c, k)) : SetsOption4(c, k, o)
    <2>1. PICK c \in Rows(client4) : \E k \in OptionTables :
            \E o \in Rows(Options4(c, k)) : SetsOption4(c, k, o)
      BY <1>6
    <2>2. PICK k \in OptionTables : \E o \in Rows(Options4(c, k)) : SetsOption4(c, k, o)
      BY <2>1
    <2>3. PICK o \in Rows(Options4(c, k)) : SetsOption4(c, k, o)
      BY <2>2
    <2>4. txn4' = Touched(txn4, <<c, k, o>>) /\ Option4Changed(c, k, client4')
      BY <1>0, <2>3, OptionSet4Effect DEF SetsOption4
    <2>5. /\ txn4' = [phase |-> txn4'.phase, rows |-> txn4'.rows]
          /\ txn4'.rows = txn4.rows \cup {<<c, k, o>>}
          /\ txn4'.phase = "idle" <=> txn4'.rows = {}
      BY <1>touched, <2>4
    <2> QED
      BY <1>option, <2>4, <2>5
  <1>7. CASE Validate4
    <2>1. /\ client4' = client4 /\ txn4'.rows = txn4.rows
          /\ txn4' = [phase |-> txn4'.phase, rows |-> txn4'.rows]
          /\ txn4.phase = "set" /\ txn4'.phase \in {"commit", "rollback"}
      BY <1>0, <1>7 DEF Validate4, Validated
    <2>2. Types4'
      BY <1>0, <2>1 DEF Types4
    <2>3. KeysExist4'
      BY <1>0, <2>1 DEF KeysExist4, Options4
    <2>4. txn4'.rows # {} /\ txn4'.phase # "idle"
      BY <1>0, <2>1 DEF BuffersInUse4
    <2>5. client4'.old # NoAlias => \E c : <<c, "client", 0>> \in txn4'.rows
      BY <1>0, <2>1 DEF BuffersInUse4
    <2>6. \A c \in Rows(client4') : \A k \in OptionTables :
            client4'.row[c].opt[k].old # NoAlias => \E o : <<c, k, o>> \in txn4'.rows
      BY <1>0, <2>1 DEF BuffersInUse4, Options4
    <2>7. BuffersInUse4'
      BY <2>4, <2>5, <2>6 DEF BuffersInUse4, Options4
    <2> QED
      BY <2>2, <2>3, <2>7 DEF Inv4
  <1>8. CASE \E c \in Rows(client4) : EndsClient4(c)
    <2>1. PICK c \in Rows(client4) : EndsClient4(c)
      BY <1>8
    <2>2. Client4Changed(c, client4') /\ client4'.old = NoAlias
      BY <1>0, <2>1, ClientCommit4Effect, ClientRollback4Effect DEF EndsClient4
    <2>3. /\ txn4' = [phase |-> txn4'.phase, rows |-> txn4'.rows]
          /\ txn4'.rows = txn4.rows \ {<<c, "client", 0>>}
          /\ txn4'.phase = "idle" <=> txn4'.rows = {}
      BY <1>done, <2>1 DEF EndsClient4, Key4
    <2> QED
      BY <1>client, <2>2, <2>3
  <1>9. CASE \E c \in Rows(client4) : \E k \in OptionTables :
               \E o \in Rows(Options4(c, k)) : EndsOption4(c, k, o)
    <2>1. PICK c \in Rows(client4) : \E k \in OptionTables :
            \E o \in Rows(Options4(c, k)) : EndsOption4(c, k, o)
      BY <1>9
    <2>2. PICK k \in OptionTables : \E o \in Rows(Options4(c, k)) : EndsOption4(c, k, o)
      BY <2>1
    <2>3. PICK o \in Rows(Options4(c, k)) : EndsOption4(c, k, o)
      BY <2>2
    <2>4. Option4Changed(c, k, client4') /\ client4'.row[c].opt[k].old = NoAlias
      BY <1>0, <2>3, OptionEnd4Effect DEF EndsOption4
    <2>5. /\ txn4' = [phase |-> txn4'.phase, rows |-> txn4'.rows]
          /\ txn4'.rows = txn4.rows \ {<<c, k, o>>}
          /\ txn4'.phase = "idle" <=> txn4'.rows = {}
      BY <1>done, <2>3 DEF EndsOption4, Key4
    <2> QED
      BY <1>option, <2>4, <2>5
  <1>10. CASE Dhcpv4Initialize
    <2>1. /\ client4' \in Client4Tables /\ client4'.old = NoAlias
          /\ \A c \in Rows(client4') : \A k \in OptionTables : client4'.row[c].opt[k].old = NoAlias
      BY <1>10, Backend4Parts DEF Dhcpv4Initialize
    <2>2. txn4' = [phase |-> "idle", rows |-> {}]
      BY <1>10 DEF Dhcpv4Initialize, TxnIdle
    <2> QED
      BY <2>1, <2>2 DEF Inv4, Types4, KeysExist4, BuffersInUse4, Options4
  <1> QED
    BY <1>0, <1>1, <1>2, <1>3, <1>4, <1>5, <1>6, <1>7, <1>8, <1>9, <1>10, StepCases4

LEMMA Inv4Init ==
  ASSUME Init4
  PROVE  Inv4
  <1>1. /\ client4 \in Client4Tables /\ client4.old = NoAlias
        /\ \A c \in Rows(client4) : \A k \in OptionTables : client4.row[c].opt[k].old = NoAlias
    BY Backend4Parts DEF Init4
  <1>2. txn4 = [phase |-> "idle", rows |-> {}]
    BY DEF Init4, TxnIdle
  <1> QED
    BY <1>1, <1>2 DEF Inv4, Types4, KeysExist4, BuffersInUse4, Options4

-----------------------------------------------------------------------------
(* Both families: a step of one leaves the other alone.                      *)
Inv6 == Types6 /\ KeysExist /\ BuffersInUse /\ DibblerFollows

LEMMA InitTypes6 ==
  ASSUME Init6
  PROVE  /\ Types6 /\ reg6.max = 0 /\ DOMAIN reg6.row = {}
         /\ Distinct(sent6)
  <1>1. sent6 \in Seq(StoredOption) /\ Distinct(sent6)
    BY Tables6Assumption DEF Init6
  <1>2. PICK a \in Aliases6 : a = <<"Client", 1>>
    BY DEF Aliases6
  <1>3. g6 = [alias |-> a, enabled |-> TRUE, t1 |-> 0, t2 |-> 0, req |-> TRUE]
    BY <1>2 DEF Init6
  <1>4. g6 \in CfgType
    BY <1>3, Tables6Assumption DEF CfgType
  <1>5. reg6 = [max |-> 0, row |-> <<>>] /\ DOMAIN <<>> = {} /\ <<>> \in [{} -> SavedType]
    BY DEF Init6
  <1>6. reg6 \in RegTables
    <2>1. 0 \in 0..UlongLimit
      BY UlongAssumption
    <2>2. PICK S \in SUBSET Numbers : S = {}
      OBVIOUS
    <2>3. PICK f \in [S -> SavedType] : f = <<>>
      BY <1>5, <2>2
    <2>4. reg6 = [max |-> 0, row |-> f]
      BY <1>5, <2>3
    <2>5. reg6 \in [max : 0..UlongLimit, row : [S -> SavedType]]
      BY <2>1, <2>4
    <2> QED
      BY <2>5 DEF RegTables
  <1>7. client6 \in ClientTables
    BY <1>1, <1>4, <1>6, StartParts DEF Init6
  <1>8. conf6 \in ConfType
    BY <1>4 DEF Init6, Conf, CfgType, ConfType
  <1>9. file6 \in SUBSET Tags
    BY <1>1, FileTyped DEF Init6
  <1>10. dib6 \in Dibbler
    BY <1>8, <1>9, DibblerTyped DEF Init6
  <1>11. TypedTxn(txn6)
    BY TxnTyped DEF Init6
  <1>12. Types6
    BY <1>1, <1>4, <1>6, <1>7, <1>8, <1>9, <1>10, <1>11 DEF Types6, TypedTxn
  <1> QED
    BY <1>1, <1>5, <1>12

LEMMA Inv6Init ==
  ASSUME Init6
  PROVE  Inv6
  <1>1. Types6 /\ DOMAIN reg6.row = {}
    BY InitTypes6
  <1>2. /\ client6.old = NoAlias /\ client6.row[1].sent.old = NoAlias
        /\ Rows(client6) = {1}
    BY <1>1, StartParts DEF Init6, Types6
  <1>3. txn6.rows = {} /\ txn6.phase = "idle"
    BY DEF Init6, TxnIdle
  <1>4. KeysExist /\ BuffersInUse
    BY <1>2, <1>3 DEF KeysExist, BuffersInUse, Options
  <1>5. DibblerFollows
    <2>1. /\ g6.t1 = 0 /\ g6.t2 = 0 /\ conf6 = Conf(g6) /\ file6 = FileOf(sent6)
          /\ dib6 = [run |-> TRUE, conf |-> conf6, sent |-> file6]
      BY DEF Init6, Restarted
    <2> QED
      BY <1>3, <2>1 DEF DibblerFollows, DibblerServesCommitted
  <1> QED
    BY <1>1, <1>4, <1>5 DEF Inv6

LEMMA Inv6Step ==
  ASSUME Inv6, Next6
  PROVE  Inv6'
  BY Types6Step, BuffersStep, DibblerStep DEF Inv6

LEMMA FamilySteps ==
  ASSUME [MCNext]_mcvars
  PROVE  /\ Next6 \/ UNCHANGED vars6
         /\ Next4 \/ UNCHANGED vars4
  BY DEF MCNext, mcvars, Next6, Next4

LEMMA Inv6Kept ==
  ASSUME Inv6, UNCHANGED vars6
  PROVE  Inv6'
  BY DEF Inv6, vars6, Types6, KeysExist, BuffersInUse, DibblerFollows,
         DibblerServesCommitted, Options

LEMMA Inv4Kept ==
  ASSUME Inv4, UNCHANGED vars4
  PROVE  Inv4'
  BY DEF Inv4, vars4, Types4, KeysExist4, BuffersInUse4, Options4

(* The rows, the buffers and dibbler in every reachable state.               *)
THEOREM DhcpInvariant == MCSpec => [](Inv6 /\ Inv4)
  <1>1. MCInit => Inv6 /\ Inv4
    BY Inv6Init, Inv4Init DEF MCInit
  <1>2. Inv6 /\ Inv4 /\ [MCNext]_mcvars => (Inv6 /\ Inv4)'
    BY FamilySteps, Inv6Step, Inv6Kept, Inv4Step, Inv4Kept
  <1> QED
    BY <1>1, <1>2, PTL DEF MCSpec

(* Every parameter has its type, and the rows a transaction still has to     *)
(* commit or roll back exist: no row of the DHCPv6 tables is deleted while a *)
(* request that set it is under way, whatever the restarts.                  *)
THEOREM Dhcpv6TypeCorrect == MCSpec => []Table6TypeOK
  <1>1. ASSUME Inv6 PROVE Table6TypeOK
    <2>1. /\ txn6.phase \in Phases /\ file6 \subseteq Tags /\ dib6.run \in BOOLEAN
          /\ g6.t1 \in Times /\ g6.t2 \in Times
      BY <1>1 DEF Inv6, Types6, CfgType, Dibbler
    <2>2. \A c \in Rows(client6) :
            /\ client6.row[c].enabled \in BOOLEAN /\ client6.row[c].new \in BOOLEAN
            /\ client6.row[c].t1 \in Times /\ client6.row[c].t2 \in Times
            /\ client6.row[c].sent.max \in Nat
      <3> SUFFICES ASSUME NEW c \in Rows(client6)
                   PROVE  /\ client6.row[c].enabled \in BOOLEAN /\ client6.row[c].new \in BOOLEAN
                          /\ client6.row[c].t1 \in Times /\ client6.row[c].t2 \in Times
                          /\ client6.row[c].sent.max \in Nat
        OBVIOUS
      <3>1. client6.row[c] \in ClientType /\ Options(c) \in SentTables
        BY <1>1, ClientRows DEF Inv6, Types6
      <3>2. Options(c).max \in Nat
        BY <3>1, OptionRows, UlongAssumption
      <3> QED
        BY <3>1, <3>2, ClientFields DEF Options
    <2>3. \A k \in txn6.rows :
            /\ k[1] \in Rows(client6)
            /\ k[2] = "sent" => k[3] \in Rows(client6.row[k[1]].sent)
      BY <1>1 DEF Inv6, KeysExist, Options
    <2> QED
      BY <1>1, <2>1, <2>2, <2>3 DEF Table6TypeOK, Inv6, BuffersInUse, Phases
  <1> QED
    BY <1>1, DhcpInvariant, PTL

(* dibbler serves what is committed: whatever option is added, changed or    *)
(* deleted and whichever rows a request commits, the option file holds the   *)
(* enabled options of the backend, the process has read it, and an enabled   *)
(* client runs with the committed parameters and timers in order.            *)
THEOREM DibblerServes == MCSpec => []DibblerServesCommitted
  <1>1. Inv6 => DibblerServesCommitted
    BY DEF Inv6, DibblerFollows
  <1> QED
    BY <1>1, DhcpInvariant, PTL

(* No alias buffer survives the request that filled it, in any of the four   *)
(* kinds of tables.                                                          *)
THEOREM BuffersEmptied == MCSpec => []AliasBuffersEmpty
  <1>1. Inv6 /\ Inv4 => AliasBuffersEmpty
    BY DEF Inv6, Inv4, BuffersInUse, BuffersInUse4, AliasBuffersEmpty, Options, Options4
  <1> QED
    BY <1>1, DhcpInvariant, PTL

-----------------------------------------------------------------------------
(* Instance numbers.  An ULONG wraps around after UlongLimit: the number a   *)
(* table then hands out may be one that is in use, and the new row replaces  *)
(* the old one.  What follows holds as long as no table has used them up.    *)
NumbersLeft ==
  /\ client6.max < UlongLimit
  /\ \A c \in Rows(client6) : Options(c).max < UlongLimit

ClientNumbers(t) ==
  /\ t.max >= 1 /\ Rows(t) \subseteq 1..t.max
  /\ \A c \in Rows(t) : Rows(t.row[c].sent) \subseteq 1..t.row[c].sent.max

SavedNumbers(reg) ==
  /\ DOMAIN reg.row \subseteq 1..reg.max
  /\ \A c \in DOMAIN reg.row : DOMAIN reg.row[c].sent \subseteq 1..reg.row[c].max

NumbersGrow == ClientNumbers(client6) /\ SavedNumbers(reg6)

LEMMA RegNumbers ==
  ASSUME NEW t \in ClientTables, ClientNumbers(t)
  PROVE  SavedNumbers(Dhcpv6RegSet(t))
  <1>1. PICK reg : reg = Dhcpv6RegSet(t)
    OBVIOUS
  <1>2. /\ reg.max = t.max /\ DOMAIN reg.row \subseteq Rows(t)
        /\ \A c \in DOMAIN reg.row : reg.row[c] = SavedClient(t.row[c])
    BY <1>1, RegSetParts
  <1>3. \A c \in Rows(t) : t.row[c] \in ClientType
    BY TableParts DEF ClientTables
  <1>4. \A c \in Rows(t) : DOMAIN SavedClient(t.row[c]).sent \subseteq 1..SavedClient(t.row[c]).max
    BY <1>3, SavedClientParts DEF ClientNumbers
  <1> QED
    BY <1>1, <1>2, <1>4 DEF SavedNumbers, ClientNumbers

(* The registry is either left alone or saved again.                         *)
LEMMA RegCases ==
  ASSUME Types6, KeysExist, Next6
  PROVE  UNCHANGED reg6 \/ reg6' = Dhcpv6RegSet(client6')
  <1>1. CASE Client3_AddEntry
    BY <1>1, AddClientEffect
  <1>2. CASE \E c \in Rows(client6) : Client3_DelEntry(c)
    BY <1>2, DelClientEffect
  <1>3. CASE \E c \in Rows(client6) : SetsClient(c)
    BY <1>3, ClientSetEffect DEF SetsClient
  <1>4. CASE \E c \in Rows(client6) : SentOption1_AddEntry(c)
    BY <1>4, AddOptionEffect
  <1>5. CASE \E c \in Rows(client6) : \E o \in Rows(Options(c)) : DeletesOption(c, o)
    BY <1>5, DelOptionEffect DEF DeletesOption
  <1>6. CASE \E c \in Rows(client6) : \E o \in Rows(Options(c)) : SetsOption(c, o)
    BY <1>6, OptionSetEffect DEF SetsOption
  <1>7. CASE Validate6
    BY <1>7 DEF Validate6
  <1>8. CASE \E c \in Rows(client6) : CommitsClient(c)
    BY <1>8, ClientCommitEffect DEF CommitsClient
  <1>9. CASE \E c \in Rows(client6) : \E o \in Rows(Options(c)) : CommitsOption(c, o)
    BY <1>9, OptionCommitEffect DEF CommitsOption
  <1>10. CASE \E c \in Rows(client6) : RollsBackClient(c)
    BY <1>10, ClientRollbackEffect DEF RollsBackClient
  <1>11. CASE \E c \in Rows(client6) : \E o \in Rows(Options(c)) : RollsBackOption(c, o)
    BY <1>11, OptionRollbackEffect DEF RollsBackOption
  <1>12. CASE Dhcpv6Initialize
    BY <1>12 DEF Dhcpv6Initialize
  <1> QED
    BY <1>1, <1>2, <1>3, <1>4, <1>5, <1>6, <1>7, <1>8, <1>9, <1>10, <1>11, <1>12, StepCases6

LEMMA NumbersKept ==
  ASSUME client6 \in ClientTables, ClientNumbers(client6), NEW c \in Rows(client6),
         ClientChanged(c, client6') \/ \E o : OptionChanged(c, o, client6')
  PROVE  ClientNumbers(client6')
  <1>1. PICK t : t = client6'
    OBVIOUS
  <1>2. /\ Rows(t) = Rows(client6) /\ t.max = client6.max
        /\ \A d \in Rows(client6) \ {c} : t.row[d] = client6.row[d]
        /\ Rows(t.row[c].sent) = Rows(Options(c)) /\ t.row[c].sent.max = Options(c).max
    BY <1>1 DEF ClientChanged, OptionChanged
  <1>3. ClientNumbers(t)
    BY <1>2 DEF ClientNumbers, Options
  <1> QED
    BY <1>1, <1>3

LEMMA NextLeft ==
  ASSUME NEW m \in 0..UlongLimit, m < UlongLimit
  PROVE  /\ NextInstance(m) = m + 1 /\ m + 1 >= 1
         /\ \A S : S \subseteq 1..m => m + 1 \notin S /\ S \cup {m + 1} \subseteq 1..(m + 1)
  BY UlongAssumption DEF NextInstance

LEMMA StartNumbers ==
  ASSUME NEW reg \in RegTables, NEW g \in CfgType, NEW s \in Seq(StoredOption),
         SavedNumbers(reg)
  PROVE  ClientNumbers(Dhcpv6BackendGet(Dhcpv6RegGet(reg), g, s))
  <1>1. PICK u : u = Dhcpv6BackendGet(Dhcpv6RegGet(reg), g, s)
    OBVIOUS
  <1>2. PICK v : v = u.row[1].sent
    OBVIOUS
  <1>3. /\ Rows(u) = DOMAIN reg.row \cup {1}
        /\ u.max \in Nat /\ u.max >= 1 /\ u.max >= reg.max
        /\ \A c \in DOMAIN reg.row \ {1} : u.row[c] = RestoredClient(reg.row[c])
        /\ Rows(v) = Numbered(s) \cup SavedOptions(reg, 1) /\ v.max \in Nat
        /\ \A n \in Numbered(s) : n <= v.max
        /\ 1 \in DOMAIN reg.row => reg.row[1].max <= v.max
    BY <1>1, <1>2, StartParts
  <1>4. /\ reg.max \in 0..UlongLimit
        /\ \A c \in DOMAIN reg.row : reg.row[c] \in SavedType
    BY RegParts
  <1>5. Rows(u) \subseteq 1..u.max
    BY <1>3, <1>4, UlongAssumption DEF SavedNumbers
  <1>6. \A c \in DOMAIN reg.row \ {1} : Rows(u.row[c].sent) \subseteq 1..u.row[c].sent.max
    BY <1>3, <1>4, RestoredParts DEF SavedNumbers
  <1>7. Rows(v) \subseteq 1..v.max
    <2>1. ASSUME NEW n \in Numbered(s) PROVE n \in 1..v.max
      BY <1>3, StoredSeq, UlongAssumption DEF Numbers
    <2>2. ASSUME NEW n \in SavedOptions(reg, 1) PROVE n \in 1..v.max
      <3>1. 1 \in DOMAIN reg.row /\ n \in DOMAIN reg.row[1].sent
        BY <2>2 DEF SavedOptions
      <3>2. PICK b \in SavedType : b = reg.row[1]
        BY <1>4, <3>1
      <3>3. b.max \in 0..UlongLimit /\ n \in 1..b.max /\ b.max <= v.max
        BY <1>3, <3>1, <3>2, SavedParts DEF SavedNumbers
      <3> QED
        BY <1>3, <3>3, UlongAssumption
    <2> QED
      BY <1>3, <2>1, <2>2
  <1>8. ClientNumbers(u)
    BY <1>2, <1>3, <1>5, <1>6, <1>7 DEF ClientNumbers
  <1> QED
    BY <1>1, <1>8

LEMMA ClientNumbersStep ==
  ASSUME Types6, KeysExist, NumbersGrow, NumbersLeft, Next6
  PROVE  ClientNumbers(client6')
  <1>0. /\ client6 \in ClientTables /\ ClientNumbers(client6) /\ SavedNumbers(reg6)
        /\ client6.max \in 0..UlongLimit /\ client6.max < UlongLimit
        /\ \A c \in Rows(client6) : Options(c).max \in 0..UlongLimit /\ Options(c).max < UlongLimit
    BY ClientRows, OptionRows DEF Types6, NumbersGrow, NumbersLeft
  <1>1. CASE Client3_AddEntry
    <2>1. PICK n : n = NextInstance(client6.max)
      OBVIOUS
    <2>2. PICK t : t = client6'
      OBVIOUS
    <2>3. /\ Rows(t) = Rows(client6) \cup {n} /\ t.max = n
          /\ t.row[n].sent = EmptyTable
          /\ \A d \in Rows(client6) \ {n} : t.row[d] = client6.row[d]
      BY <1>1, <2>1, <2>2, AddClientEffect
    <2>4. Rows(EmptyTable) = {}
      BY EmptyTableParts, NoAliasTyped
    <2>5. n >= 1 /\ Rows(t) \subseteq 1..n
      BY <1>0, <2>1, <2>3, NextLeft DEF ClientNumbers
    <2>6. ClientNumbers(t)
      BY <1>0, <2>3, <2>4, <2>5 DEF ClientNumbers
    <2> QED
      BY <2>2, <2>6
  <1>2. CASE \E c \in Rows(client6) : Client3_DelEntry(c)
    <2>1. PICK t : t = client6'
      OBVIOUS
    <2>2. /\ Rows(t) \subseteq Rows(client6) /\ t.max = client6.max
          /\ \A d \in Rows(t) : t.row[d] = client6.row[d]
      BY <1>2, <2>1, DelClientEffect
    <2>3. ClientNumbers(t)
      BY <1>0, <2>2 DEF ClientNumbers
    <2> QED
      BY <2>1, <2>3
  <1>3. CASE \E c \in Rows(client6) : SetsClient(c)
    BY <1>0, <1>3, ClientSetEffect, NumbersKept DEF SetsClient
  <1>4. CASE \E c \in Rows(client6) : SentOption1_AddEntry(c)
    <2>1. PICK c \in Rows(client6) : SentOption1_AddEntry(c)
      BY <1>4
    <2>2. PICK n : n = NextInstance(Options(c).max)
      OBVIOUS
    <2>3. PICK t : t = client6'
      OBVIOUS
    <2>4. /\ Rows(t) = Rows(client6) /\ t.max = client6.max
          /\ \A d \in Rows(client6) \ {c} : t.row[d] = client6.row[d]
          /\ Rows(t.row[c].sent) = Rows(Options(c)) \cup {n} /\ t.row[c].sent.max = n
      BY <2>1, <2>2, <2>3, AddOptionEffect
    <2>5. Rows(Options(c)) \subseteq 1..Options(c).max
      BY <1>0 DEF ClientNumbers, Options
    <2>6. Rows(t.row[c].sent) \subseteq 1..n
      BY <1>0, <2>2, <2>4, <2>5, NextLeft
    <2>7. ClientNumbers(t)
      BY <1>0, <2>4, <2>6 DEF ClientNumbers
    <2> QED
      BY <2>3, <2>7
  <1>5. CASE \E c \in Rows(client6) : \E o \in Rows(Options(c)) : DeletesOption(c, o)
    <2>1. PICK c \in Rows(client6) : \E o \in Rows(Options(c)) : DeletesOption(c, o)
      BY <1>5
    <2>2. PICK o \in Rows(Options(c)) : DeletesOption(c, o)
      BY <2>1
    <2>3. PICK t : t = client6'
      OBVIOUS
    <2>4. /\ Rows(t) = Rows(client6) /\ t.max = client6.max
          /\ \A d \in Rows(client6) \ {c} : t.row[d] = client6.row[d]
          /\ Rows(t.row[c].sent) \subseteq Rows(Options(c)) /\ t.row[c].sent.max = Options(c).max
      BY <2>2, <2>3, DelOptionEffect DEF DeletesOption
    <2>5. ClientNumbers(t)
      BY <1>0, <2>4 DEF ClientNumbers, Options
    <2> QED
      BY <2>3, <2>5
  <1>6. CASE \E c \in Rows(client6) : \E o \in Rows(Options(c)) : SetsOption(c, o)
    BY <1>0, <1>6, OptionSetEffect, NumbersKept DEF SetsOption
  <1>7. CASE Validate6
    BY <1>0, <1>7 DEF Validate6
  <1>8. CASE \E c \in Rows(client6) : CommitsClient(c)
    BY <1>0, <1>8, ClientCommitEffect, NumbersKept DEF CommitsClient
  <1>9. CASE \E c \in Rows(client6) : \E o \in Rows(Options(c)) : CommitsOption(c, o)
    BY <1>0, <1>9, OptionCommitEffect, NumbersKept DEF CommitsOption
  <1>10. CASE \E c \in Rows(client6) : RollsBackClient(c)
    BY <1>0, <1>10, ClientRollbackEffect, NumbersKept DEF RollsBackClient
  <1>11. CASE \E c \in Rows(client6) : \E o \in Rows(Options(c)) : RollsBackOption(c, o)
    BY <1>0, <1>11, OptionRollbackEffect, NumbersKept DEF RollsBackOption
  <1>12. CASE Dhcpv6Initialize
    <2>1. PICK t : t = client6'
      OBVIOUS
    <2>2. client6' = Dhcpv6BackendGet(Dhcpv6RegGet(reg6), g6, sent6)
      BY <1>12 DEF Dhcpv6Initialize
    <2>3. ClientNumbers(t)
      BY <1>0, <2>1, <2>2, StartNumbers DEF Types6
    <2> QED
      BY <2>1, <2>3
  <1> QED
    BY <1>1, <1>2, <1>3, <1>4, <1>5, <1>6, <1>7, <1>8, <1>9, <1>10, <1>11, <1>12, StepCases6

LEMMA NumbersStep ==
  ASSUME Types6, KeysExist, NumbersGrow, NumbersLeft, Next6
  PROVE  NumbersGrow'
  <1>1. client6' \in ClientTables /\ ClientNumbers(client6')
    BY Types6Step, ClientNumbersStep DEF Types6
  <1>2. PICK t \in ClientTables : t = client6' /\ ClientNumbers(t)
    BY <1>1
  <1>3. SavedNumbers(Dhcpv6RegSet(t))
    BY <1>2, RegNumbers
  <1>4. reg6' = reg6 \/ reg6' = Dhcpv6RegSet(t)
    BY <1>2, RegCases
  <1>5. SavedNumbers(reg6')
    BY <1>3, <1>4 DEF NumbersGrow
  <1> QED
    BY <1>1, <1>5 DEF NumbersGrow

-----------------------------------------------------------------------------
(* Which rows are new: a step on a row changes this only when it commits it. *)
NewKept ==
  /\ Rows(client6') = Rows(client6)
  /\ \A c \in Rows(client6) :
       /\ client6'.row[c].new = client6.row[c].new
       /\ Rows(client6'.row[c].sent) = Rows(Options(c))
       /\ \A o \in Rows(Options(c)) : client6'.row[c].sent.row[o].new = Options(c).row[o].new

LEMMA NewKeptBy ==
  ASSUME NEW c \in Rows(client6)
  PROVE  /\ (ClientChanged(c, client6') /\ client6'.row[c].new = client6.row[c].new) => NewKept
         /\ \A o \in Rows(Options(c)) :
              (/\ OptionChanged(c, o, client6')
               /\ client6'.row[c].sent.row[o].new = Options(c).row[o].new) => NewKept
  BY DEF ClientChanged, OptionChanged, NewKept, Options

(* The client of the backend is never new, its options only are committed.   *)
OneBackendClient ==
  /\ 1 \notin NewRows(client6)
  /\ \A c \in Rows(client6) \ {1} : \A o \in Rows(Options(c)) : Options(c).row[o].new

LEMMA OneBackendStep ==
  ASSUME Types6, KeysExist, NumbersGrow, NumbersLeft, OneBackendClient, Next6
  PROVE  OneBackendClient'
  <1>0. /\ client6 \in ClientTables /\ client6.max \in 0..UlongLimit
        /\ client6.max < UlongLimit /\ client6.max >= 1
    BY ClientRows DEF Types6, NumbersGrow, NumbersLeft, ClientNumbers
  <1>kept. ASSUME NewKept PROVE OneBackendClient'
    BY <1>kept DEF NewKept, OneBackendClient, NewRows, Options
  <1>1. CASE Client3_AddEntry
    <2>1. PICK n : n = NextInstance(client6.max)
      OBVIOUS
    <2>2. n # 1
      BY <1>0, <2>1, NextLeft
    <2>3. /\ Rows(client6') = Rows(client6) \cup {n} /\ Rows(client6'.row[n].sent) = {}
          /\ \A d \in Rows(client6) \ {n} : client6'.row[d] = client6.row[d]
      BY <1>1, <2>1, AddClientEffect, EmptyTableParts, NoAliasTyped
    <2> QED
      BY <2>2, <2>3 DEF OneBackendClient, NewRows, Options
  <1>2. CASE \E c \in Rows(client6) : Client3_DelEntry(c)
    BY <1>2, DelClientEffect DEF OneBackendClient, NewRows, Options
  <1>3. CASE \E c \in Rows(client6) : SetsClient(c)
    BY <1>3, <1>kept, ClientSetEffect, NewKeptBy DEF SetsClient
  <1>4. CASE \E c \in Rows(client6) : SentOption1_AddEntry(c)
    <2>1. PICK c \in Rows(client6) : SentOption1_AddEntry(c)
      BY <1>4
    <2>2. PICK n : n = NextInstance(Options(c).max)
      OBVIOUS
    <2>3. /\ Rows(client6') = Rows(client6) /\ client6'.row[c].new = client6.row[c].new
          /\ \A d \in Rows(client6) \ {c} : client6'.row[d] = client6.row[d]
          /\ Rows(client6'.row[c].sent) = Rows(Options(c)) \cup {n}
          /\ client6'.row[c].sent.row[n].new
          /\ \A p \in Rows(Options(c)) \ {n} : client6'.row[c].sent.row[p] = Options(c).row[p]
      BY <2>1, <2>2, AddOptionEffect
    <2> QED
      BY <2>3 DEF OneBackendClient, NewRows, Options
  <1>5. CASE \E c \in Rows(client6) : \E o \in Rows(Options(c)) : DeletesOption(c, o)
    <2>1. PICK c \in Rows(client6) : \E o \in Rows(Options(c)) : DeletesOption(c, o)
      BY <1>5
    <2>2. PICK o \in Rows(Options(c)) : DeletesOption(c, o)
      BY <2>1
    <2>3. /\ Rows(client6') = Rows(client6) /\ client6'.row[c].new = client6.row[c].new
          /\ \A d \in Rows(client6) \ {c} : client6'.row[d] = client6.row[d]
          /\ Rows(client6'.row[c].sent) = Rows(Options(c)) \ {o}
          /\ \A p \in Rows(Options(c)) \ {o} : client6'.row[c].sent.row[p] = Options(c).row[p]
      BY <2>2, DelOptionEffect DEF DeletesOption
    <2> QED
      BY <2>3 DEF OneBackendClient, NewRows, Options
  <1>6. CASE \E c \in Rows(client6) : \E o \in Rows(Options(c)) : SetsOption(c, o)
    BY <1>6, <1>kept, OptionSetEffect, NewKeptBy DEF SetsOption
  <1>7. CASE Validate6
    BY <1>7 DEF Validate6, OneBackendClient, NewRows, Options
  <1>8. CASE \E c \in Rows(client6) : CommitsClient(c)
    <2>1. PICK c \in Rows(client6) : CommitsClient(c)
      BY <1>8
    <2>2. ClientChanged(c, client6') /\ ~ client6'.row[c].new
      BY <2>1, ClientCommitEffect DEF CommitsClient
    <2> QED
      BY <2>2 DEF ClientChanged, OneBackendClient, NewRows, Options
  <1>9. CASE \E c \in Rows(client6) : \E o \in Rows(Options(c)) : CommitsOption(c, o)
    <2>1. PICK c \in Rows(client6) : \E o \in Rows(Options(c)) : CommitsOption(c, o)
      BY <1>9
    <2>2. PICK o \in Rows(Options(c)) : CommitsOption(c, o)
      BY <2>1
    <2>3. /\ OptionChanged(c, o, client6')
          /\ c # 1 /\ Options(c).row[o].new => client6'.row[c].sent.row[o].new
      BY <2>2, OptionCommitEffect DEF CommitsOption
    <2> QED
      BY <2>3 DEF OptionChanged, OneBackendClient, NewRows, Options
  <1>10. CASE \E c \in Rows(client6) : RollsBackClient(c)
    BY <1>10, <1>kept, ClientRollbackEffect, NewKeptBy DEF RollsBackClient
  <1>11. CASE \E c \in Rows(client6) : \E o \in Rows(Options(c)) : RollsBackOption(c, o)
    BY <1>11, <1>kept, OptionRollbackEffect, NewKeptBy DEF RollsBackOption
  <1>12. CASE Dhcpv6Initialize
    <2>1. /\ Rows(client6') = DOMAIN reg6.row \cup {1} /\ ~ client6'.row[1].new
          /\ \A c \in DOMAIN reg6.row \ {1} : client6'.row[c] = RestoredClient(reg6.row[c])
      BY <1>12, StartParts DEF Dhcpv6Initialize, Types6
    <2>2. \A c \in DOMAIN reg6.row :
            NewRows(RestoredClient(reg6.row[c]).sent) = Rows(RestoredClient(reg6.row[c]).sent)
      BY RegParts, RestoredParts DEF Types6
    <2> QED
      BY <2>1, <2>2 DEF OneBackendClient, NewRows, Options
  <1> QED
    BY <1>1, <1>2, <1>3, <1>4, <1>5, <1>6, <1>7, <1>8, <1>9, <1>10, <1>11, <1>12, StepCases6

(* The registry holds the rows that are new, after a restart too.            *)
LEMMA FollowsKept ==
  ASSUME Follows(reg6, client6), UNCHANGED reg6, NewKept
  PROVE  Follows(reg6', client6')
  <1>1. NewRows(client6') = NewRows(client6)
    BY DEF NewKept, NewRows
  <1>2. \A c : AddedOptions(client6', c) = AddedOptions(client6, c)
    BY DEF NewKept, NewRows, AddedOptions, Options
  <1> QED
    BY <1>1, <1>2 DEF Follows

(* What a start brings back is what was new, but for what the backend has.   *)
LEMMA StartFollows ==
  ASSUME NEW reg \in RegTables, NEW g \in CfgType, NEW s \in Seq(StoredOption), NEW t,
         Follows(reg, t), 1 \notin NewRows(t), AddedOptions(t, 1) \cap Numbered(s) = {}
  PROVE  LET u == Dhcpv6BackendGet(Dhcpv6RegGet(reg), g, s) IN
         NewRows(u) = NewRows(t) /\ \A c : AddedOptions(u, c) = AddedOptions(t, c)
  <1>1. PICK u : u = Dhcpv6BackendGet(Dhcpv6RegGet(reg), g, s)
    OBVIOUS
  <1>2. PICK v : v = u.row[1].sent
    OBVIOUS
  <1>3. /\ Rows(u) = DOMAIN reg.row \cup {1} /\ ~ u.row[1].new
        /\ \A c \in DOMAIN reg.row \ {1} : u.row[c] = RestoredClient(reg.row[c])
        /\ NewRows(v) = SavedOptions(reg, 1) \ Numbered(s)
    BY <1>1, <1>2, StartParts
  <1>4. \A c \in DOMAIN reg.row \ {1} : /\ u.row[c].new = reg.row[c].new
                                        /\ NewRows(u.row[c].sent) = DOMAIN reg.row[c].sent
    BY <1>3, RegParts, RestoredParts
  <1>5. NewRows(u) = NewRows(t)
    <2>1. \A c : c \in NewRows(u) <=> c # 1 /\ c \in DOMAIN reg.row /\ reg.row[c].new
      BY <1>3, <1>4 DEF NewRows
    <2> QED
      BY <2>1 DEF Follows
  <1>6. ASSUME NEW c PROVE AddedOptions(u, c) = AddedOptions(t, c)
    <2>1. SavedOptions(reg, c) = AddedOptions(t, c)
      BY DEF Follows
    <2>2. CASE c = 1
      <3>1. AddedOptions(u, 1) = NewRows(v)
        BY <1>2, <1>3 DEF AddedOptions
      <3> QED
        BY <1>3, <2>1, <2>2, <3>1
    <2>3. CASE c # 1
      BY <1>3, <1>4, <2>1, <2>3 DEF AddedOptions, SavedOptions
    <2> QED
      BY <2>2, <2>3
  <1> QED
    BY <1>1, <1>5, <1>6

NotStored == AddedOptions(client6, 1) \cap Numbered(sent6) = {}

LEMMA FollowsStep ==
  ASSUME Types6, KeysExist, OneBackendClient, NotStored, Follows(reg6, client6), Next6
  PROVE  Follows(reg6', client6')
  <1>saved. ASSUME reg6' = Dhcpv6RegSet(client6') PROVE Follows(reg6', client6')
    <2>1. client6' \in ClientTables
      BY Types6Step DEF Types6
    <2> QED
      BY <1>saved, <2>1, RegSetPrimed
  <1>1. CASE Client3_AddEntry
    BY <1>1, <1>saved, AddClientEffect
  <1>2. CASE \E c \in Rows(client6) : Client3_DelEntry(c)
    BY <1>2, <1>saved, DelClientEffect
  <1>3. CASE \E c \in Rows(client6) : SetsClient(c)
    BY <1>3, ClientSetEffect, NewKeptBy, FollowsKept DEF SetsClient
  <1>4. CASE \E c \in Rows(client6) : SentOption1_AddEntry(c)
    BY <1>4, <1>saved, AddOptionEffect
  <1>5. CASE \E c \in Rows(client6) : \E o \in Rows(Options(c)) : DeletesOption(c, o)
    BY <1>5, <1>saved, DelOptionEffect DEF DeletesOption
  <1>6. CASE \E c \in Rows(client6) : \E o \in Rows(Options(c)) : SetsOption(c, o)
    BY <1>6, OptionSetEffect, NewKeptBy, FollowsKept DEF SetsOption
  <1>7. CASE Validate6
    BY <1>7 DEF Validate6
  <1>8. CASE \E c \in Rows(client6) : CommitsClient(c)
    <2>1. PICK c \in Rows(client6) : CommitsClient(c)
      BY <1>8
    <2>2. /\ ClientChanged(c, client6') /\ ~ client6'.row[c].new
          /\ \/ reg6' = Dhcpv6RegSet(client6')
             \/ ~ client6.row[c].new /\ UNCHANGED reg6
      BY <2>1, ClientCommitEffect DEF CommitsClient
    <2>3. client6.row[c].new \in BOOLEAN /\ client6'.row[c].new \in BOOLEAN
      BY <2>2, Types6Step, ClientRows, ClientFields, TableParts
         DEF Types6, ClientTables, ClientChanged
    <2>4. ~ client6.row[c].new => NewKept
      BY <2>2, <2>3, NewKeptBy
    <2> QED
      BY <1>saved, <2>2, <2>4, FollowsKept
  <1>9. CASE \E c \in Rows(client6) : \E o \in Rows(Options(c)) : CommitsOption(c, o)
    <2>1. PICK c \in Rows(client6) : \E o \in Rows(Options(c)) : CommitsOption(c, o)
      BY <1>9
    <2>2. PICK o \in Rows(Options(c)) : CommitsOption(c, o)
      BY <2>1
    <2>3. PICK q : q = Options(c).row[o]
      OBVIOUS
    <2>4. PICK r : r = client6'.row[c].sent.row[o]
      OBVIOUS
    <2>5. /\ OptionChanged(c, o, client6')
          /\ \/ reg6' = Dhcpv6RegSet(client6')
             \/ q.new /\ r.new /\ UNCHANGED reg6
             \/ r = q /\ UNCHANGED reg6
      BY <2>2, <2>3, <2>4, OptionCommitEffect DEF CommitsOption
    <2>6. q.new \in BOOLEAN
      BY <2>3, ClientRows, OptionRows, OptionFields DEF Types6
    <2>7. r.new \in BOOLEAN
      <3>1. client6' \in ClientTables /\ c \in Rows(client6') /\ o \in Rows(client6'.row[c].sent)
        BY <2>5 DEF OptionChanged
      <3>2. PICK t \in ClientTables : t = client6'
        BY <3>1
      <3>3. t.row[c] \in ClientType
        BY <3>1, <3>2, TableParts DEF ClientTables
      <3>4. t.row[c].sent \in SentTables
        BY <3>3, ClientFields
      <3> QED
        BY <2>4, <3>1, <3>2, <3>4, OptionRows, OptionFields
    <2>8. r.new = q.new => NewKept
      BY <2>3, <2>4, <2>5, NewKeptBy
    <2> QED
      BY <1>saved, <2>5, <2>6, <2>7, <2>8, FollowsKept
  <1>10. CASE \E c \in Rows(client6) : RollsBackClient(c)
    BY <1>10, ClientRollbackEffect, NewKeptBy, FollowsKept DEF RollsBackClient
  <1>11. CASE \E c \in Rows(client6) : \E o \in Rows(Options(c)) : RollsBackOption(c, o)
    BY <1>11, OptionRollbackEffect, NewKeptBy, FollowsKept DEF RollsBackOption
  <1>12. CASE Dhcpv6Initialize
    <2>1. client6' = Dhcpv6BackendGet(Dhcpv6RegGet(reg6), g6, sent6) /\ reg6' = reg6
      BY <1>12 DEF Dhcpv6Initialize
    <2>2. NewRows(client6') = NewRows(client6)
          /\ \A c : AddedOptions(client6', c) = AddedOptions(client6, c)
      BY <2>1, StartFollows DEF Types6, OneBackendClient, NotStored
    <2> QED
      BY <2>1, <2>2 DEF Follows
  <1> QED
    BY <1>1, <1>2, <1>3, <1>4, <1>5, <1>6, <1>7, <1>8, <1>9, <1>10, <1>11, <1>12, StepCases6

-----------------------------------------------------------------------------
(* The rows of the backend's client against what the backend holds: whatever *)
(* the request under way has not touched is the same on both sides.          *)
CfgStored == <<1, "client", 0>> \notin txn6.rows => Cfg(client6.row[1]) = g6

OptionsStored ==
  /\ Numbered(sent6) = Rows(Options(1)) \ NewRows(Options(1))
  /\ \A i \in DOMAIN sent6 : <<1, "sent", sent6[i].inst>> \notin txn6.rows =>
       Stored(sent6[i].inst, Options(1).row[sent6[i].inst]) = sent6[i]

CommittedIsStored == 1 \in Rows(client6) => CfgStored /\ OptionsStored

LEMMA CfgKept ==
  ASSUME CfgStored, Cfg(client6'.row[1]) = Cfg(client6.row[1]), g6' = g6,
         <<1, "client", 0>> \in txn6.rows => <<1, "client", 0>> \in txn6'.rows
  PROVE  CfgStored'
  BY DEF CfgStored

LEMMA OptionsKept ==
  ASSUME OptionsStored, client6'.row[1].sent = Options(1), sent6' = sent6,
         \A o : <<1, "sent", o>> \in txn6.rows => <<1, "sent", o>> \in txn6'.rows
  PROVE  OptionsStored'
  BY DEF OptionsStored, Options

(* A step on one option leaves the backend alone.                            *)
LEMMA OptionKept ==
  ASSUME OptionsStored, NEW o \in Rows(Options(1)), OptionChanged(1, o, client6'),
         sent6' = sent6, client6'.row[1].sent.row[o].new = Options(1).row[o].new,
         \A p : p # o /\ <<1, "sent", p>> \in txn6.rows => <<1, "sent", p>> \in txn6'.rows,
         \/ <<1, "sent", o>> \in txn6'.rows
         \/ \A i \in DOMAIN sent6 : sent6[i].inst = o =>
              Stored(o, client6'.row[1].sent.row[o]) = sent6[i]
  PROVE  OptionsStored'
  <1>1. PICK u : u = client6'.row[1].sent
    OBVIOUS
  <1>2. /\ Rows(u) = Rows(Options(1)) /\ u.row[o].new = Options(1).row[o].new
        /\ \A p \in Rows(Options(1)) \ {o} : u.row[p] = Options(1).row[p]
    BY <1>1 DEF OptionChanged
  <1>3. NewRows(u) = NewRows(Options(1))
    BY <1>2 DEF NewRows
  <1>4. ASSUME NEW i \in DOMAIN sent6, <<1, "sent", sent6[i].inst>> \notin txn6'.rows
        PROVE  Stored(sent6[i].inst, u.row[sent6[i].inst]) = sent6[i]
    <2>1. sent6[i].inst \in Rows(Options(1))
      BY DEF OptionsStored, Numbered
    <2>2. CASE sent6[i].inst = o
      BY <1>1, <1>4, <2>2
    <2>3. CASE sent6[i].inst # o
      BY <1>2, <1>4, <2>1, <2>3 DEF OptionsStored
    <2> QED
      BY <2>2, <2>3
  <1> QED
    BY <1>1, <1>2, <1>3, <1>4 DEF OptionsStored, Options

LEMMA OtherClient ==
  ASSUME CommittedIsStored, UNCHANGED <<g6, sent6>>,
         1 \in Rows(client6') =>
           1 \in Rows(client6) /\ client6'.row[1] = client6.row[1],
         <<1, "client", 0>> \in txn6.rows => <<1, "client", 0>> \in txn6'.rows,
         \A o : <<1, "sent", o>> \in txn6.rows => <<1, "sent", o>> \in txn6'.rows
  PROVE  CommittedIsStored'
  <1> SUFFICES ASSUME 1 \in Rows(client6') PROVE CfgStored' /\ OptionsStored'
    BY DEF CommittedIsStored
  <1>1. CfgStored /\ OptionsStored /\ client6'.row[1] = client6.row[1]
    BY DEF CommittedIsStored
  <1> QED
    BY <1>1, CfgKept, OptionsKept DEF Options

LEMMA OptionAdded ==
  ASSUME Types6, OptionsStored, NumbersGrow, NumbersLeft, 1 \in Rows(client6),
         SentOption1_AddEntry(1)
  PROVE  OptionsStored'
  <1>1. PICK n : n = NextInstance(Options(1).max)
    OBVIOUS
  <1>2. PICK u : u = client6'.row[1].sent
    OBVIOUS
  <1>3. /\ Rows(u) = Rows(Options(1)) \cup {n} /\ u.row[n].new
        /\ \A p \in Rows(Options(1)) \ {n} : u.row[p] = Options(1).row[p]
        /\ UNCHANGED <<sent6, txn6>>
    BY <1>1, <1>2, AddOptionEffect DEF backend6
  <1>4. n \notin Rows(Options(1))
    <2>1. /\ Options(1).max \in 0..UlongLimit /\ Options(1).max < UlongLimit
          /\ Rows(Options(1)) \subseteq 1..Options(1).max
      BY ClientRows, OptionRows DEF Types6, NumbersLeft, NumbersGrow, ClientNumbers, Options
    <2> QED
      BY <1>1, <2>1, NextLeft
  <1>5. NewRows(u) = NewRows(Options(1)) \cup {n}
    BY <1>3, <1>4 DEF NewRows
  <1>6. Numbered(sent6) = Rows(u) \ NewRows(u)
    BY <1>3, <1>4, <1>5 DEF OptionsStored
  <1>7. \A i \in DOMAIN sent6 : u.row[sent6[i].inst] = Options(1).row[sent6[i].inst]
    BY <1>3, <1>4 DEF OptionsStored, Numbered
  <1> QED
    BY <1>2, <1>3, <1>6, <1>7 DEF OptionsStored, Options

(* The options of the backend have numbers of their own.                     *)
LEMMA NumberedWithout ==
  ASSUME Types6, NEW i \in DOMAIN sent6, NumbersOnce(sent6),
         DOMAIN sent6' = 1..(Len(sent6) - 1),
         \A j \in DOMAIN sent6' : sent6'[j] = sent6[Behind(i, j)]
  PROVE  /\ \A j \in DOMAIN sent6' : Behind(i, j) \in DOMAIN sent6 \ {i}
         /\ \A j, k \in DOMAIN sent6' : j # k => Behind(i, j) # Behind(i, k)
         /\ NumbersOnce(sent6')
         /\ Numbered(sent6') = Numbered(sent6) \ {sent6[i].inst}
  <1>1. DOMAIN sent6 = 1..Len(sent6) /\ Len(sent6) \in Nat /\ i \in 1..Len(sent6)
    BY StoredSeq DEF Types6
  <1>2. PICK n \in Nat : n = Len(sent6)
    BY <1>1
  <1>3. \A j \in DOMAIN sent6' : Behind(i, j) \in DOMAIN sent6 \ {i}
    BY <1>1, <1>2 DEF Behind
  <1>4. \A j, k \in DOMAIN sent6' : j # k => Behind(i, j) # Behind(i, k)
    BY <1>1, <1>2 DEF Behind
  <1>5. \A k \in DOMAIN sent6 \ {i} : \E j \in DOMAIN sent6' : Behind(i, j) = k
    <2> SUFFICES ASSUME NEW k \in 1..n, k # i
                 PROVE  \E j \in 1..(n - 1) : Behind(i, j) = k
      BY <1>1, <1>2
    <2>1. CASE k < i
      BY <1>1, <1>2, <2>1 DEF Behind
    <2>2. CASE k > i
      <3>1. k - 1 \in 1..(n - 1) /\ ~ (k - 1 < i) /\ (k - 1) + 1 = k
        BY <1>1, <1>2, <2>2
      <3> QED
        BY <3>1 DEF Behind
    <2> QED
      BY <1>1, <1>2, <2>1, <2>2
  <1>6. NumbersOnce(sent6')
    BY <1>3, <1>4 DEF NumbersOnce
  <1>7. \A m : m \in Numbered(sent6') => m \in Numbered(sent6) /\ m # sent6[i].inst
    BY <1>3 DEF Numbered, NumbersOnce
  <1>8. \A m : m \in Numbered(sent6) /\ m # sent6[i].inst => m \in Numbered(sent6')
    <2> SUFFICES ASSUME NEW k \in DOMAIN sent6, sent6[k].inst # sent6[i].inst
                 PROVE  sent6[k].inst \in Numbered(sent6')
      BY DEF Numbered
    <2>1. PICK j \in DOMAIN sent6' : Behind(i, j) = k
      BY <1>5
    <2>2. sent6'[j] = sent6[k]
      BY <2>1
    <2> QED
      BY <2>2 DEF Numbered
  <1> QED
    BY <1>3, <1>4, <1>6, <1>7, <1>8

LEMMA OptionDeleted ==
  ASSUME Types6, OptionsStored, NumbersOnce(sent6), 1 \in Rows(client6),
         NEW o \in Rows(Options(1)), SentOption1_DelEntry(1, o)
  PROVE  OptionsStored'
  <1>1. PICK u : u = client6'.row[1].sent
    OBVIOUS
  <1>2. /\ Rows(u) = Rows(Options(1)) \ {o}
        /\ \A p \in Rows(Options(1)) \ {o} : u.row[p] = Options(1).row[p]
        /\ UNCHANGED txn6
        /\ \/ Options(1).row[o].new /\ UNCHANGED backend6
           \/ ~ Options(1).row[o].new /\ o \in Numbered(sent6) /\ DelSentOption(o)
    BY <1>1, DelOptionEffect
  <1>3. NewRows(u) = NewRows(Options(1)) \ {o}
    BY <1>2 DEF NewRows
  <1>4. CASE Options(1).row[o].new /\ UNCHANGED backend6
    <2>1. sent6' = sent6 /\ Numbered(sent6) = Rows(u) \ NewRows(u)
      BY <1>2, <1>3, <1>4 DEF OptionsStored, NewRows, backend6
    <2>2. \A i \in DOMAIN sent6 : u.row[sent6[i].inst] = Options(1).row[sent6[i].inst]
      BY <1>2, <1>4 DEF OptionsStored, Numbered, NewRows
    <2> QED
      BY <1>1, <1>2, <2>1, <2>2 DEF OptionsStored, Options
  <1>5. CASE ~ Options(1).row[o].new /\ o \in Numbered(sent6) /\ DelSentOption(o)
    <2>1. PICK i \in DOMAIN sent6 :
            /\ sent6[i].inst = o /\ DOMAIN sent6' = 1..(Len(sent6) - 1)
            /\ \A j \in DOMAIN sent6' : sent6'[j] = sent6[Behind(i, j)]
      BY <1>5, DelSentOptionEffect
    <2>2. /\ Numbered(sent6') = Numbered(sent6) \ {o}
          /\ \A j \in DOMAIN sent6' : Behind(i, j) \in DOMAIN sent6 \ {i}
      BY <2>1, NumberedWithout
    <2>3. Numbered(sent6') = Rows(u) \ NewRows(u)
      BY <1>2, <1>3, <2>2 DEF OptionsStored
    <2>4. ASSUME NEW j \in DOMAIN sent6', <<1, "sent", sent6'[j].inst>> \notin txn6'.rows
          PROVE  Stored(sent6'[j].inst, u.row[sent6'[j].inst]) = sent6'[j]
      <3>1. PICK k \in DOMAIN sent6 : k = Behind(i, j) /\ k # i /\ sent6'[j] = sent6[k]
        BY <2>1, <2>2
      <3>2. sent6[k].inst # o /\ sent6[k].inst \in Rows(Options(1))
        BY <2>1, <3>1 DEF NumbersOnce, OptionsStored, Numbered
      <3>3. u.row[sent6[k].inst] = Options(1).row[sent6[k].inst]
        BY <1>2, <3>2
      <3> QED
        BY <1>2, <2>4, <3>1, <3>3 DEF OptionsStored
    <2> QED
      BY <1>1, <2>3, <2>4 DEF OptionsStored, Options
  <1> QED
    BY <1>2, <1>4, <1>5

LEMMA OptionCommitted ==
  ASSUME Types6, OptionsStored, NumbersOnce(sent6), 1 \in Rows(client6),
         NEW o \in Rows(Options(1)), SentOption1_Commit(1, o),
         txn6'.rows = txn6.rows \ {<<1, "sent", o>>}
  PROVE  OptionsStored' /\ NumbersOnce(sent6')
  <1>1. PICK u : u = client6'.row[1].sent
    OBVIOUS
  <1>2. PICK q \in OptionType : q = Options(1).row[o] /\ o \in Numbers /\ q.new \in BOOLEAN
    <2>1. Options(1) \in SentTables
      BY ClientRows DEF Types6
    <2>2. o \in Numbers /\ Options(1).row[o] \in OptionType
      BY <2>1, OptionRows
    <2> QED
      BY <2>2, OptionFields
  <1>3. PICK r : r = u.row[o]
    OBVIOUS
  <1>4. /\ OptionChanged(1, o, client6')
        /\ \/ /\ q.new /\ AddSentOption(o, q)
              /\ ~ r.new /\ r.alias = q.alias /\ r.enabled = q.enabled /\ r.tag = q.tag
           \/ ~ q.new /\ SetSentOption(o, q) /\ r = q
    BY <1>1, <1>2, <1>3, OptionCommitEffect
  <1>5. /\ Rows(u) = Rows(Options(1))
        /\ \A p \in Rows(Options(1)) \ {o} : u.row[p] = Options(1).row[p]
    BY <1>1, <1>4 DEF OptionChanged
  <1>6. ~ r.new /\ NewRows(u) = NewRows(Options(1)) \ {o}
    BY <1>2, <1>3, <1>4, <1>5 DEF NewRows
  <1>7. PICK b : b = Stored(o, q) /\ b.inst = o
    BY <1>2, StoredTyped
  <1>8. Stored(o, r) = b
    BY <1>4, <1>7 DEF Stored
  <1>old. ASSUME NEW i \in DOMAIN sent6, sent6[i].inst # o,
                 <<1, "sent", sent6[i].inst>> \notin txn6'.rows
          PROVE  Stored(sent6[i].inst, u.row[sent6[i].inst]) = sent6[i]
    <2>1. sent6[i].inst \in Rows(Options(1)) /\ <<1, "sent", sent6[i].inst>> # <<1, "sent", o>>
      BY <1>old DEF OptionsStored, Numbered
    <2> QED
      BY <1>5, <1>old, <2>1 DEF OptionsStored
  <1>9. CASE q.new /\ AddSentOption(o, q)
    <2>1. PICK n : n = Len(sent6) + 1
      OBVIOUS
    <2>2. /\ DOMAIN sent6' = DOMAIN sent6 \cup {n} /\ n \notin DOMAIN sent6
          /\ \A i \in DOMAIN sent6 : sent6'[i] = sent6[i]
          /\ sent6'[n] = b
      BY <1>2, <1>7, <1>9, <2>1, AddSentOptionEffect
    <2>3. o \notin Numbered(sent6)
      BY <1>2, <1>9 DEF OptionsStored, NewRows
    <2>4. \A i \in DOMAIN sent6 : sent6[i].inst # o
      BY <2>3 DEF Numbered
    <2>5. Numbered(sent6') = Numbered(sent6) \cup {o}
      BY <1>7, <2>2 DEF Numbered
    <2>6. NumbersOnce(sent6')
      BY <1>7, <2>2, <2>4 DEF NumbersOnce
    <2>7. Numbered(sent6') = Rows(u) \ NewRows(u)
      BY <1>5, <1>6, <2>5 DEF OptionsStored
    <2>8. ASSUME NEW i \in DOMAIN sent6', <<1, "sent", sent6'[i].inst>> \notin txn6'.rows
          PROVE  Stored(sent6'[i].inst, u.row[sent6'[i].inst]) = sent6'[i]
      <3>1. CASE i = n
        BY <1>3, <1>7, <1>8, <2>2, <3>1
      <3>2. CASE i \in DOMAIN sent6
        BY <1>old, <2>2, <2>4, <2>8, <3>2
      <3> QED
        BY <2>2, <3>1, <3>2
    <2> QED
      BY <1>1, <2>6, <2>7, <2>8 DEF OptionsStored, Options
  <1>10. CASE ~ q.new /\ SetSentOption(o, q)
    <2>1. /\ DOMAIN sent6' = DOMAIN sent6
          /\ \A i \in DOMAIN sent6 : sent6'[i] = IF sent6[i].inst = o THEN b ELSE sent6[i]
      BY <1>2, <1>7, <1>10, SetSentOptionEffect
    <2>2. \A i \in DOMAIN sent6 : sent6'[i].inst = sent6[i].inst
      BY <1>7, <2>1
    <2>3. Numbered(sent6') = Numbered(sent6) /\ NumbersOnce(sent6')
      BY <2>1, <2>2 DEF Numbered, NumbersOnce
    <2>4. Numbered(sent6') = Rows(u) \ NewRows(u)
      BY <1>2, <1>5, <1>6, <1>10, <2>3 DEF OptionsStored, NewRows
    <2>5. ASSUME NEW i \in DOMAIN sent6', <<1, "sent", sent6'[i].inst>> \notin txn6'.rows
          PROVE  Stored(sent6'[i].inst, u.row[sent6'[i].inst]) = sent6'[i]
      <3>1. CASE sent6[i].inst = o
        BY <1>3, <1>7, <1>8, <2>1, <3>1
      <3>2. CASE sent6[i].inst # o
        BY <1>old, <2>1, <2>5, <3>2
      <3> QED
        BY <3>1, <3>2
    <2> QED
      BY <1>1, <2>3, <2>4, <2>5 DEF OptionsStored, Options
  <1> QED
    BY <1>4, <1>9, <1>10

LEMMA CommittedStep ==
  ASSUME Types6, KeysExist, BuffersInUse, NumbersGrow, NumbersLeft, OneBackendClient,
         NumbersOnce(sent6), CommittedIsStored, Next6
  PROVE  CommittedIsStored' /\ NumbersOnce(sent6')
  <1>0. /\ TypedTxn(txn6) /\ client6 \in ClientTables
        /\ \A c \in Rows(client6) : client6.row[c].new \in BOOLEAN
        /\ \A c \in Rows(client6) : \A o \in Rows(Options(c)) : Options(c).row[o].new \in BOOLEAN
    <2>1. client6 \in ClientTables
      BY DEF Types6
    <2>2. \A c \in Rows(client6) : client6.row[c] \in ClientType /\ Options(c) \in SentTables
      BY <2>1, ClientRows
    <2>3. \A c \in Rows(client6) : \A o \in Rows(Options(c)) : Options(c).row[o] \in OptionType
      BY <2>2, OptionRows
    <2> QED
      BY <2>1, <2>2, <2>3, ClientFields, OptionFields DEF Types6, TypedTxn
  <1>stored. 1 \in Rows(client6) => CfgStored /\ OptionsStored
    BY DEF CommittedIsStored
  <1>done. ASSUME NEW k \in txn6.rows, txn6' = Done(txn6, k)
           PROVE  txn6'.rows = txn6.rows \ {k}
    BY <1>0, <1>done, DoneParts DEF TypedTxn
  <1>1. CASE Client3_AddEntry
    <2>1. PICK n : n = NextInstance(client6.max)
      OBVIOUS
    <2>2. n # 1
      BY <2>1, ClientRows, NextLeft DEF Types6, NumbersGrow, NumbersLeft, ClientNumbers
    <2>3. /\ Rows(client6') = Rows(client6) \cup {n}
          /\ \A d \in Rows(client6) \ {n} : client6'.row[d] = client6.row[d]
          /\ UNCHANGED <<backend6, txn6>>
      BY <1>1, <2>1, AddClientEffect
    <2> QED
      BY <2>2, <2>3, OtherClient DEF backend6
  <1>2. CASE \E c \in Rows(client6) : Client3_DelEntry(c)
    <2>1. PICK c \in Rows(client6) : Client3_DelEntry(c)
      BY <1>2
    <2>2. /\ Rows(client6') = Rows(client6) \ {c}
          /\ \A d \in Rows(client6) \ {c} : client6'.row[d] = client6.row[d]
          /\ UNCHANGED <<backend6, txn6>>
      BY <2>1, DelClientEffect
    <2> QED
      BY <2>2, OtherClient DEF backend6
  <1>3. CASE \E c \in Rows(client6) : SetsClient(c)
    <2>1. PICK c \in Rows(client6) : SetsClient(c)
      BY <1>3
    <2>2. /\ txn6' = Touched(txn6, <<c, "client", 0>>) /\ UNCHANGED <<reg6, backend6>>
          /\ ClientChanged(c, client6')
      BY <2>1, ClientSetEffect DEF SetsClient
    <2>3. txn6'.rows = txn6.rows \cup {<<c, "client", 0>>} /\ UNCHANGED <<g6, sent6>>
      BY <2>2 DEF Touched, backend6
    <2>4. CASE c = 1
      <3>1. CfgStored'
        BY <2>3, <2>4 DEF CfgStored
      <3>2. client6'.row[1].sent = Options(1)
        BY <2>2, <2>4 DEF ClientChanged
      <3>3. OptionsStored'
        BY <1>stored, <2>3, <2>4, <3>2, OptionsKept
      <3> QED
        BY <2>3, <3>1, <3>3 DEF CommittedIsStored
    <2>5. CASE c # 1
      BY <2>2, <2>3, <2>5, OtherClient DEF ClientChanged
    <2> QED
      BY <2>4, <2>5
  <1>4. CASE \E c \in Rows(client6) : SentOption1_AddEntry(c)
    <2>1. PICK c \in Rows(client6) : SentOption1_AddEntry(c)
      BY <1>4
    <2>2. /\ Rows(client6') = Rows(client6)
          /\ \A d \in Rows(client6) \ {c} : client6'.row[d] = client6.row[d]
          /\ Cfg(client6'.row[c]) = Cfg(client6.row[c])
          /\ UNCHANGED <<backend6, txn6>>
      BY <2>1, AddOptionEffect
    <2>3. UNCHANGED <<g6, sent6, txn6>>
      BY <2>2 DEF backend6
    <2>4. CASE c = 1
      <3>1. CfgStored'
        BY <1>stored, <2>2, <2>3, <2>4, CfgKept
      <3>2. OptionsStored'
        BY <1>stored, <2>1, <2>4, OptionAdded
      <3> QED
        BY <2>3, <3>1, <3>2 DEF CommittedIsStored
    <2>5. CASE c # 1
      BY <2>2, <2>3, <2>5, OtherClient
    <2> QED
      BY <2>4, <2>5
  <1>5. CASE \E c \in Rows(client6) : \E o \in Rows(Options(c)) : DeletesOption(c, o)
    <2>1. PICK c \in Rows(client6) : \E o \in Rows(Options(c)) : DeletesOption(c, o)
      BY <1>5
    <2>2. PICK o \in Rows(Options(c)) : DeletesOption(c, o)
      BY <2>1
    <2>3. /\ Rows(client6') = Rows(client6)
          /\ \A d \in Rows(client6) \ {c} : client6'.row[d] = client6.row[d]
          /\ Cfg(client6'.row[c]) = Cfg(client6.row[c])
          /\ UNCHANGED txn6
          /\ \/ UNCHANGED backend6
             \/ c = 1 /\ o \in Numbered(sent6) /\ DelSentOption(o)
      BY <2>2, DelOptionEffect DEF DeletesOption
    <2>4. NumbersOnce(sent6') /\ g6' = g6
      <3>1. CASE UNCHANGED backend6
        BY <3>1 DEF backend6
      <3>2. CASE o \in Numbered(sent6) /\ DelSentOption(o)
        BY <3>2, DelSentOptionEffect, NumberedWithout DEF OptionsWritten
      <3> QED
        BY <2>3, <3>1, <3>2
    <2>5. CASE c = 1
      <3>1. CfgStored'
        BY <1>stored, <2>3, <2>4, <2>5, CfgKept
      <3>2. OptionsStored'
        BY <1>stored, <2>2, <2>5, OptionDeleted DEF DeletesOption
      <3> QED
        BY <2>4, <3>1, <3>2 DEF CommittedIsStored
    <2>6. CASE c # 1
      BY <2>3, <2>4, <2>6, OtherClient DEF backend6
    <2> QED
      BY <2>5, <2>6
  <1>6. CASE \E c \in Rows(client6) : \E o \in Rows(Options(c)) : SetsOption(c, o)
    <2>1. PICK c \in Rows(client6) : \E o \in Rows(Options(c)) : SetsOption(c, o)
      BY <1>6
    <2>2. PICK o \in Rows(Options(c)) : SetsOption(c, o)
      BY <2>1
    <2>3. /\ txn6' = Touched(txn6, <<c, "sent", o>>) /\ UNCHANGED <<reg6, backend6>>
          /\ OptionChanged(c, o, client6')
          /\ client6'.row[c].sent.row[o].new = Options(c).row[o].new
      BY <2>2, OptionSetEffect DEF SetsOption
    <2>4. txn6'.rows = txn6.rows \cup {<<c, "sent", o>>} /\ UNCHANGED <<g6, sent6>>
      BY <2>3 DEF Touched, backend6
    <2>5. CASE c = 1
      <3>1. Cfg(client6'.row[1]) = Cfg(client6.row[1])
        BY <2>3, <2>5 DEF OptionChanged
      <3>2. CfgStored'
        BY <1>stored, <2>4, <2>5, <3>1, CfgKept
      <3>3. OptionsStored'
        BY <1>stored, <2>3, <2>4, <2>5, OptionKept
      <3> QED
        BY <2>4, <3>2, <3>3 DEF CommittedIsStored
    <2>6. CASE c # 1
      BY <2>3, <2>4, <2>6, OtherClient DEF OptionChanged
    <2> QED
      BY <2>5, <2>6
  <1>7. CASE Validate6
    <2>1. UNCHANGED <<client6, g6, sent6>> /\ txn6'.rows = txn6.rows
      BY <1>0, <1>7 DEF Validate6, Validated, TypedTxn, backend6
    <2> QED
      BY <2>1, OtherClient
  <1>8. CASE \E c \in Rows(client6) : CommitsClient(c)
    <2>1. PICK c \in Rows(client6) : CommitsClient(c)
      BY <1>8
    <2>2. txn6'.rows = txn6.rows \ {<<c, "client", 0>>}
      BY <1>done, <2>1 DEF CommitsClient, ClientKey
    <2>3. PICK g \in CfgType : g = Cfg(client6.row[c])
      BY ClientRows, ClientFields DEF Types6
    <2>4. /\ ClientChanged(c, client6') /\ Cfg(client6'.row[c]) = g
          /\ \/ client6.row[c].new /\ UNCHANGED backend6
             \/ c = 1 /\ SetCfg(g)
             \/ c # 1 /\ UNCHANGED backend6
      BY <2>1, <2>3, ClientCommitEffect DEF CommitsClient
    <2>5. CASE c = 1
      <3>1. ~ client6.row[1].new
        BY <2>5 DEF OneBackendClient, NewRows
      <3>2. g6' = g /\ sent6' = sent6
        BY <2>4, <2>5, <3>1, SetCfgEffect
      <3>3. CfgStored'
        BY <2>4, <2>5, <3>2 DEF CfgStored
      <3>4. client6'.row[1].sent = Options(1)
        BY <2>4, <2>5 DEF ClientChanged
      <3>5. OptionsStored'
        BY <1>stored, <2>2, <2>5, <3>2, <3>4, OptionsKept
      <3> QED
        BY <3>2, <3>3, <3>5 DEF CommittedIsStored
    <2>6. CASE c # 1
      <3>1. UNCHANGED <<g6, sent6>>
        BY <2>4, <2>6 DEF backend6
      <3> QED
        BY <2>2, <2>4, <2>6, <3>1, OtherClient DEF ClientChanged
    <2> QED
      BY <2>5, <2>6
  <1>9. CASE \E c \in Rows(client6) : \E o \in Rows(Options(c)) : CommitsOption(c, o)
    <2>1. PICK c \in Rows(client6) : \E o \in Rows(Options(c)) : CommitsOption(c, o)
      BY <1>9
    <2>2. PICK o \in Rows(Options(c)) : CommitsOption(c, o)
      BY <2>1
    <2>3. txn6'.rows = txn6.rows \ {<<c, "sent", o>>}
      BY <1>done, <2>2 DEF CommitsOption, OptionKey
    <2>4. PICK q \in OptionType : q = Options(c).row[o] /\ o \in Numbers
      <3>1. Options(c) \in SentTables
        BY <1>0, ClientRows
      <3> QED
        BY <3>1, OptionRows
    <2>5. /\ OptionChanged(c, o, client6')
          /\ \/ c = 1 /\ AddSentOption(o, q)
             \/ c # 1 /\ q.new /\ UNCHANGED <<reg6, backend6>>
             \/ ~ q.new /\ SetSentOption(o, q)
      BY <2>2, <2>4, OptionCommitEffect DEF CommitsOption
    <2>6. CASE c = 1
      <3>1. g6' = g6
        BY <2>4, <2>5, <2>6, AddSentOptionEffect, SetSentOptionEffect DEF OptionsWritten
      <3>2. Cfg(client6'.row[1]) = Cfg(client6.row[1])
        BY <2>5, <2>6 DEF OptionChanged
      <3>3. CfgStored'
        BY <1>stored, <2>3, <2>6, <3>1, <3>2, CfgKept
      <3>4. OptionsStored' /\ NumbersOnce(sent6')
        BY <1>stored, <2>2, <2>3, <2>6, OptionCommitted DEF CommitsOption
      <3> QED
        BY <3>3, <3>4 DEF CommittedIsStored
    <2>7. CASE c # 1
      <3>1. q.new
        BY <2>4, <2>7 DEF OneBackendClient
      <3>2. UNCHANGED <<g6, sent6>>
        BY <2>5, <2>7, <3>1 DEF backend6
      <3>3. 1 \in Rows(client6') => 1 \in Rows(client6) /\ client6'.row[1] = client6.row[1]
        BY <2>5, <2>7 DEF OptionChanged
      <3> QED
        BY <2>3, <2>7, <3>2, <3>3, OtherClient
    <2> QED
      BY <2>6, <2>7
  <1>10. CASE \E c \in Rows(client6) : RollsBackClient(c)
    <2>1. PICK c \in Rows(client6) : RollsBackClient(c)
      BY <1>10
    <2>2. txn6'.rows = txn6.rows \ {<<c, "client", 0>>}
      BY <1>done, <2>1 DEF RollsBackClient, ClientKey
    <2>3. /\ ClientChanged(c, client6') /\ UNCHANGED <<reg6, backend6>>
          /\ (c = 1 /\ ~ client6.row[c].new) => Cfg(client6'.row[c]) = g6
      BY <2>1, ClientRollbackEffect DEF RollsBackClient
    <2>4. UNCHANGED <<g6, sent6>>
      BY <2>3 DEF backend6
    <2>5. CASE c = 1
      <3>1. ~ client6.row[1].new
        BY <2>5 DEF OneBackendClient, NewRows
      <3>2. CfgStored'
        BY <2>3, <2>4, <2>5, <3>1 DEF CfgStored
      <3>3. client6'.row[1].sent = Options(1)
        BY <2>3, <2>5 DEF ClientChanged
      <3>4. OptionsStored'
        BY <1>stored, <2>2, <2>4, <2>5, <3>3, OptionsKept
      <3> QED
        BY <2>4, <3>2, <3>4 DEF CommittedIsStored
    <2>6. CASE c # 1
      BY <2>2, <2>3, <2>4, <2>6, OtherClient DEF ClientChanged
    <2> QED
      BY <2>5, <2>6
  <1>11. CASE \E c \in Rows(client6) : \E o \in Rows(Options(c)) : RollsBackOption(c, o)
    <2>1. PICK c \in Rows(client6) : \E o \in Rows(Options(c)) : RollsBackOption(c, o)
      BY <1>11
    <2>2. PICK o \in Rows(Options(c)) : RollsBackOption(c, o)
      BY <2>1
    <2>3. txn6'.rows = txn6.rows \ {<<c, "sent", o>>}
      BY <1>done, <2>2 DEF RollsBackOption, OptionKey
    <2>4. /\ OptionChanged(c, o, client6') /\ UNCHANGED <<reg6, backend6>>
          /\ client6'.row[c].sent.row[o].new = Options(c).row[o].new
          /\ ~ Options(c).row[o].new =>
               \A i \in DOMAIN sent6 : sent6[i].inst = o =>
                 Stored(o, client6'.row[c].sent.row[o]) = sent6[i]
      BY <2>2, OptionRollbackEffect DEF RollsBackOption
    <2>5. UNCHANGED <<g6, sent6>>
      BY <2>4 DEF backend6
    <2>6. CASE c = 1
      <3>1. Cfg(client6'.row[1]) = Cfg(client6.row[1])
        BY <2>4, <2>6 DEF OptionChanged
      <3>2. CfgStored'
        BY <1>stored, <2>3, <2>5, <2>6, <3>1, CfgKept
      <3>3. Options(1).row[o].new => \A i \in DOMAIN sent6 : sent6[i].inst # o
        BY <1>stored, <2>6 DEF OptionsStored, Numbered, NewRows
      <3>4. \A i \in DOMAIN sent6 : sent6[i].inst = o =>
              Stored(o, client6'.row[1].sent.row[o]) = sent6[i]
        BY <2>4, <2>6, <3>3
      <3>5. OptionsStored'
        BY <1>stored, <2>3, <2>4, <2>5, <2>6, <3>4, OptionKept
      <3> QED
        BY <2>5, <3>2, <3>5 DEF CommittedIsStored
    <2>7. CASE c # 1
      BY <2>3, <2>4, <2>5, <2>7, OtherClient DEF OptionChanged
    <2> QED
      BY <2>6, <2>7
  <1>12. CASE Dhcpv6Initialize
    <2>1. PICK v : v = client6'.row[1].sent
      OBVIOUS
    <2>2. /\ Cfg(client6'.row[1]) = g6
          /\ Rows(v) = Numbered(sent6) \cup SavedOptions(reg6, 1)
          /\ NewRows(v) = SavedOptions(reg6, 1) \ Numbered(sent6)
          /\ \A i \in DOMAIN sent6 : Stored(sent6[i].inst, v.row[sent6[i].inst]) = sent6[i]
          /\ UNCHANGED <<g6, sent6>>
      BY <1>12, <2>1, StartParts DEF Dhcpv6Initialize, Types6
    <2>3. Numbered(sent6) = Rows(v) \ NewRows(v)
      BY <2>2
    <2> QED
      BY <2>1, <2>2, <2>3 DEF CommittedIsStored, CfgStored, OptionsStored, Options
  <1> QED
    BY <1>1, <1>2, <1>3, <1>4, <1>5, <1>6, <1>7, <1>8, <1>9, <1>10, <1>11, <1>12, StepCases6

-----------------------------------------------------------------------------
(* Validation looks at the rows in memory; the backend gets them one by one. *)
(* While they are being committed the rows that are committed already, or    *)
(* about to be, are pairwise apart: when the last one is written, so are the *)
(* options of the backend.                                                   *)
Apart(r, s) == r.alias # s.alias /\ ~ (r.enabled /\ s.enabled /\ r.tag = s.tag)

Standing(o) ==
  /\ o \in Rows(Options(1))
  /\ ~ Options(1).row[o].new \/ <<1, "sent", o>> \in txn6.rows

StandingApart ==
  \A o, p : (Standing(o) /\ Standing(p) /\ o # p) =>
              Apart(Options(1).row[o], Options(1).row[p])

OptionsApart ==
  IF txn6.phase = "commit" /\ 1 \in Rows(client6) THEN StandingApart ELSE Distinct(sent6)

LEMMA StoredFields ==
  ASSUME NEW n, NEW r, NEW b, Stored(n, r) = b
  PROVE  b.inst = n /\ b.alias = r.alias /\ b.enabled = r.enabled /\ b.tag = r.tag
  BY DEF Stored

(* All that stands is written: the backend holds what the rows hold.         *)
LEMMA WrittenApart ==
  ASSUME NEW u, NEW s, NumbersOnce(s), Numbered(s) = Rows(u) \ NewRows(u),
         \A i \in DOMAIN s : Stored(s[i].inst, u.row[s[i].inst]) = s[i],
         \A o, p \in Rows(u) \ NewRows(u) : o # p => Apart(u.row[o], u.row[p])
  PROVE  Distinct(s)
  <1>1. \A i \in DOMAIN s :
          /\ s[i].inst \in Rows(u) \ NewRows(u)
          /\ s[i].alias = u.row[s[i].inst].alias
          /\ s[i].enabled = u.row[s[i].inst].enabled
          /\ s[i].tag = u.row[s[i].inst].tag
    BY StoredFields DEF Numbered
  <1> QED
    BY <1>1 DEF Distinct, NumbersOnce, Apart

LEMMA ValidatedRows ==
  ASSUME 1 \in Rows(client6), OptionsStored, Distinct(sent6),
         \A k \in txn6.rows : Valid6(k)
  PROVE  StandingApart
  <1>1. ASSUME NEW o, NEW p, <<1, "sent", o>> \in txn6.rows, p \in Rows(Options(1)), o # p
        PROVE  Apart(Options(1).row[o], Options(1).row[p])
    <2>1. Valid6(<<1, "sent", o>>)
      BY <1>1
    <2>2. SentOption1_Validate(1, o)
      BY <2>1 DEF Valid6
    <2> QED
      BY <1>1, <2>2 DEF SentOption1_Validate, AliasFree, Options, Apart
  <1>2. ASSUME NEW o, NEW p, o \in Rows(Options(1)), p \in Rows(Options(1)), o # p,
               ~ Options(1).row[o].new, ~ Options(1).row[p].new,
               <<1, "sent", o>> \notin txn6.rows, <<1, "sent", p>> \notin txn6.rows
        PROVE  Apart(Options(1).row[o], Options(1).row[p])
    <2>1. PICK i \in DOMAIN sent6 : sent6[i].inst = o
      BY <1>2 DEF OptionsStored, Numbered, NewRows
    <2>2. PICK j \in DOMAIN sent6 : sent6[j].inst = p
      BY <1>2 DEF OptionsStored, Numbered, NewRows
    <2>3. Stored(o, Options(1).row[o]) = sent6[i] /\ Stored(p, Options(1).row[p]) = sent6[j]
      BY <1>2, <2>1, <2>2 DEF OptionsStored
    <2>4. i # j
      BY <1>2, <2>1, <2>2
    <2>5. /\ sent6[i].alias # sent6[j].alias
          /\ ~ (sent6[i].enabled /\ sent6[j].enabled /\ sent6[i].tag = sent6[j].tag)
      BY <2>4 DEF Distinct
    <2> QED
      BY <2>3, <2>5, StoredFields DEF Apart
  <1>3. \A r, s : Apart(r, s) => Apart(s, r)
    BY DEF Apart
  <1>4. ASSUME NEW o, NEW p, Standing(o), Standing(p), o # p
        PROVE  Apart(Options(1).row[o], Options(1).row[p])
    <2>1. CASE <<1, "sent", o>> \in txn6.rows
      BY <1>1, <1>4, <2>1 DEF Standing
    <2>2. CASE <<1, "sent", p>> \in txn6.rows
      BY <1>1, <1>3, <1>4, <2>2 DEF Standing
    <2>3. CASE <<1, "sent", o>> \notin txn6.rows /\ <<1, "sent", p>> \notin txn6.rows
      BY <1>2, <1>4, <2>3 DEF Standing
    <2> QED
      BY <2>1, <2>2, <2>3
  <1> QED
    BY <1>4 DEF StandingApart

(* A commit takes nothing new into what stands and changes none of it.       *)
LEMMA StandingKept ==
  ASSUME StandingApart, Rows(client6'.row[1].sent) = Rows(Options(1)),
         \A o \in Rows(Options(1)) :
           /\ client6'.row[1].sent.row[o].alias = Options(1).row[o].alias
           /\ client6'.row[1].sent.row[o].enabled = Options(1).row[o].enabled
           /\ client6'.row[1].sent.row[o].tag = Options(1).row[o].tag
           /\ \/ ~ client6'.row[1].sent.row[o].new
              \/ <<1, "sent", o>> \in txn6'.rows
              => Standing(o)
  PROVE  StandingApart'
  <1>1. PICK u : u = client6'.row[1].sent
    OBVIOUS
  <1>2. ASSUME NEW o, Standing(o)'
        PROVE  /\ o \in Rows(Options(1)) /\ Standing(o)
               /\ u.row[o].alias = Options(1).row[o].alias
               /\ u.row[o].enabled = Options(1).row[o].enabled
               /\ u.row[o].tag = Options(1).row[o].tag
    <2>1. o \in Rows(u) /\ (~ u.row[o].new \/ <<1, "sent", o>> \in txn6'.rows)
      BY <1>1, <1>2 DEF Standing, Options
    <2>2. o \in Rows(Options(1))
      BY <1>1, <2>1
    <2> QED
      BY <1>1, <2>1, <2>2
  <1>3. ASSUME NEW o, NEW p, Standing(o)', Standing(p)', o # p
        PROVE  Apart(u.row[o], u.row[p])
    <2>1. Apart(Options(1).row[o], Options(1).row[p])
      BY <1>2, <1>3 DEF StandingApart
    <2> QED
      BY <1>2, <1>3, <2>1 DEF Apart
  <1>4. ASSUME NEW o, NEW p, (Standing(o) /\ Standing(p) /\ o # p)'
        PROVE  Apart(Options(1).row[o], Options(1).row[p])'
    <2>1. Options(1)' = u
      BY <1>1 DEF Options
    <2>2. Apart(u.row[o], u.row[p])
      BY <1>3, <1>4
    <2> QED
      BY <2>1, <2>2 DEF Apart
  <1> QED
    BY <1>4 DEF StandingApart

LEMMA ApartDone ==
  ASSUME NumbersOnce(sent6'), CommittedIsStored', (1 \in Rows(client6))',
         StandingApart', txn6'.rows = {}
  PROVE  Distinct(sent6')
  <1>1. PICK u : u = client6'.row[1].sent
    OBVIOUS
  <1>2. PICK s : s = sent6'
    OBVIOUS
  <1>3. /\ Numbered(s) = Rows(u) \ NewRows(u)
        /\ \A i \in DOMAIN s : Stored(s[i].inst, u.row[s[i].inst]) = s[i]
    BY <1>1, <1>2 DEF CommittedIsStored, OptionsStored, Options
  <1>4. ASSUME NEW o \in Rows(u) \ NewRows(u), NEW p \in Rows(u) \ NewRows(u), o # p
        PROVE  Apart(u.row[o], u.row[p])
    <2>1. Standing(o)' /\ Standing(p)'
      BY <1>1 DEF Standing, Options, NewRows
    <2>2. Apart(Options(1).row[o], Options(1).row[p])'
      BY <1>4, <2>1 DEF StandingApart
    <2> QED
      BY <1>1, <2>2 DEF Options, Apart
  <1> QED
    BY <1>2, <1>3, <1>4, WrittenApart

LEMMA StandingSame ==
  ASSUME StandingApart, client6'.row[1].sent = Options(1), txn6'.rows \subseteq txn6.rows
  PROVE  StandingApart'
  <1>1. \A o \in Rows(Options(1)) :
          (~ Options(1).row[o].new \/ <<1, "sent", o>> \in txn6'.rows) => Standing(o)
    BY DEF Standing
  <1>2. PICK u : u = Options(1)
    OBVIOUS
  <1>3. client6'.row[1].sent = u
    BY <1>2
  <1> QED
    BY <1>1, <1>2, <1>3, StandingKept

LEMMA StandingWritten ==
  ASSUME Types6, StandingApart, 1 \in Rows(client6), NEW o \in Rows(Options(1)),
         CommitsOption(1, o), txn6'.rows \subseteq txn6.rows
  PROVE  StandingApart'
  <1>1. PICK u : u = client6'.row[1].sent
    OBVIOUS
  <1>2. PICK v : v = Options(1)
    OBVIOUS
  <1>3. /\ OptionChanged(1, o, client6')
        /\ u.row[o].alias = v.row[o].alias /\ u.row[o].enabled = v.row[o].enabled
        /\ u.row[o].tag = v.row[o].tag
    <2>1. PICK q : q = v.row[o]
      OBVIOUS
    <2>2. PICK r : r = u.row[o]
      OBVIOUS
    <2>3. /\ OptionChanged(1, o, client6')
          /\ \/ r.alias = q.alias /\ r.enabled = q.enabled /\ r.tag = q.tag
             \/ r = q
      BY <1>1, <1>2, <2>1, <2>2, OptionCommitEffect DEF CommitsOption
    <2> QED
      BY <2>1, <2>2, <2>3
  <1>4. Rows(u) = Rows(v) /\ \A p \in Rows(v) \ {o} : u.row[p] = v.row[p]
    BY <1>1, <1>2, <1>3 DEF OptionChanged
  <1>5. Standing(o)
    BY DEF CommitsOption, OptionKey, Standing
  <1>6. ASSUME NEW p \in Rows(v)
        PROVE  /\ u.row[p].alias = v.row[p].alias /\ u.row[p].enabled = v.row[p].enabled
               /\ u.row[p].tag = v.row[p].tag
               /\ (~ u.row[p].new \/ <<1, "sent", p>> \in txn6'.rows) => Standing(p)
    <2>1. CASE p = o
      BY <1>3, <1>5, <2>1
    <2>2. CASE p # o
      BY <1>2, <1>4, <2>2 DEF Standing
    <2> QED
      BY <2>1, <2>2
  <1> QED
    BY <1>1, <1>2, <1>4, <1>6, StandingKept

LEMMA ApartCommits ==
  ASSUME Types6, NumbersOnce(sent6'), CommittedIsStored', OptionsApart,
         txn6.phase = "commit", Rows(client6') = Rows(client6),
         NEW k \in txn6.rows, txn6' = Done(txn6, k),
         1 \in Rows(client6) => (StandingApart => StandingApart'),
         1 \notin Rows(client6) => sent6' = sent6
  PROVE  OptionsApart'
  <1>1. /\ txn6'.rows = txn6.rows \ {k}
        /\ txn6'.phase = IF txn6.rows = {k} THEN "idle" ELSE "commit"
    BY DoneParts DEF Types6
  <1>2. CASE 1 \in Rows(client6)
    <2>1. StandingApart' /\ (1 \in Rows(client6))'
      BY <1>2 DEF OptionsApart
    <2>2. txn6'.phase = "idle" => Distinct(sent6')
      BY <1>1, <2>1, ApartDone
    <2> QED
      BY <1>1, <2>1, <2>2 DEF OptionsApart
  <1>3. CASE 1 \notin Rows(client6)
    BY <1>3 DEF OptionsApart
  <1> QED
    BY <1>2, <1>3

LEMMA ApartStep ==
  ASSUME Types6, KeysExist, OneBackendClient, CommittedIsStored, NumbersOnce(sent6),
         CommittedIsStored', NumbersOnce(sent6'), OptionsApart,
         Table6 \/ EndTransaction6 \/ (Dhcpv6Initialize /\ txn6.phase # "commit")
  PROVE  OptionsApart'
  <1>same. ASSUME txn6.phase # "commit", txn6'.phase # "commit", sent6' = sent6
           PROVE  OptionsApart'
    BY <1>same DEF OptionsApart
  <1>done. ASSUME NEW k \in txn6.rows, txn6' = Done(txn6, k)
           PROVE  /\ txn6'.rows \subseteq txn6.rows
                  /\ txn6'.phase # "commit" \/ txn6'.phase = txn6.phase
    BY <1>done, DoneParts DEF Types6
  <1>1. CASE Client3_AddEntry
    BY <1>1, <1>same, AddClientEffect DEF backend6
  <1>2. CASE \E c \in Rows(client6) : Client3_DelEntry(c)
    BY <1>2, <1>same, DelClientEffect DEF backend6
  <1>3. CASE \E c \in Rows(client6) : SetsClient(c)
    BY <1>3, <1>same, ClientSetEffect DEF SetsClient, MaySet, Touched, backend6
  <1>4. CASE \E c \in Rows(client6) : SentOption1_AddEntry(c)
    BY <1>4, <1>same, AddOptionEffect DEF backend6
  <1>5. CASE \E c \in Rows(client6) : \E o \in Rows(Options(c)) : DeletesOption(c, o)
    <2>1. PICK c \in Rows(client6) : \E o \in Rows(Options(c)) : DeletesOption(c, o)
      BY <1>5
    <2>2. PICK o \in Rows(Options(c)) : DeletesOption(c, o)
      BY <2>1
    <2>3. /\ txn6.phase = "idle" /\ UNCHANGED txn6
          /\ \/ UNCHANGED backend6
             \/ o \in Numbered(sent6) /\ DelSentOption(o)
      BY <2>2, DelOptionEffect DEF DeletesOption
    <2>4. CASE UNCHANGED backend6
      BY <1>same, <2>3, <2>4 DEF backend6
    <2>5. CASE o \in Numbered(sent6) /\ DelSentOption(o)
      <3>1. PICK i \in DOMAIN sent6 :
              /\ DOMAIN sent6' = 1..(Len(sent6) - 1)
              /\ \A j \in DOMAIN sent6' : sent6'[j] = sent6[Behind(i, j)]
        BY <2>5, DelSentOptionEffect
      <3>2. /\ \A j \in DOMAIN sent6' : Behind(i, j) \in DOMAIN sent6
            /\ \A j, k \in DOMAIN sent6' : j # k => Behind(i, j) # Behind(i, k)
        BY <3>1, NumberedWithout
      <3>3. Distinct(sent6)
        BY <2>3 DEF OptionsApart
      <3>4. Distinct(sent6')
        BY <3>1, <3>2, <3>3 DEF Distinct
      <3> QED
        BY <2>3, <3>4 DEF OptionsApart
    <2> QED
      BY <2>3, <2>4, <2>5
  <1>6. CASE \E c \in Rows(client6) : \E o \in Rows(Options(c)) : SetsOption(c, o)
    BY <1>6, <1>same, OptionSetEffect DEF SetsOption, MaySet, Touched, backend6
  <1>7. CASE Validate6
    <2>1. PICK ok \in BOOLEAN : ok = (\A k \in txn6.rows : Valid6(k))
      OBVIOUS
    <2>2. /\ txn6.phase = "set" /\ UNCHANGED <<client6, sent6>>
          /\ txn6' = [phase |-> IF ok THEN "commit" ELSE "rollback", rows |-> txn6.rows]
      BY <1>7, <2>1 DEF Validate6, Validated, backend6, Types6
    <2>3. Distinct(sent6)
      BY <2>2 DEF OptionsApart
    <2>4. CASE ok /\ 1 \in Rows(client6)
      <3>1. StandingApart
        BY <2>1, <2>3, <2>4, ValidatedRows DEF CommittedIsStored
      <3>2. client6'.row[1].sent = Options(1) /\ txn6'.rows \subseteq txn6.rows
        BY <2>2 DEF Options
      <3>3. StandingApart'
        BY <3>1, <3>2, StandingSame
      <3> QED
        BY <2>2, <2>4, <3>3 DEF OptionsApart
    <2>5. CASE ~ (ok /\ 1 \in Rows(client6))
      BY <2>2, <2>3, <2>5 DEF OptionsApart
    <2> QED
      BY <2>4, <2>5
  <1>8. CASE \E c \in Rows(client6) : CommitsClient(c)
    <2>1. PICK c \in Rows(client6) : CommitsClient(c)
      BY <1>8
    <2>2. PICK k \in txn6.rows : txn6' = Done(txn6, k)
      BY <2>1 DEF CommitsClient, ClientKey
    <2>3. PICK g \in CfgType : g = Cfg(client6.row[c])
      BY ClientRows, ClientFields DEF Types6
    <2>4. ClientChanged(c, client6') /\ (SetCfg(g) \/ UNCHANGED backend6)
      BY <2>1, <2>3, ClientCommitEffect DEF CommitsClient
    <2>5. sent6' = sent6
      BY <2>4, SetCfgEffect DEF backend6
    <2>6. Rows(client6') = Rows(client6)
      BY <2>4 DEF ClientChanged
    <2>7. 1 \in Rows(client6) => client6'.row[1].sent = Options(1)
      BY <2>4 DEF ClientChanged, Options
    <2>8. 1 \in Rows(client6) => (StandingApart => StandingApart')
      BY <1>done, <2>2, <2>7, StandingSame
    <2> QED
      BY <2>1, <2>2, <2>5, <2>6, <2>8, ApartCommits DEF CommitsClient
  <1>9. CASE \E c \in Rows(client6) : \E o \in Rows(Options(c)) : CommitsOption(c, o)
    <2>1. PICK c \in Rows(client6) : \E o \in Rows(Options(c)) : CommitsOption(c, o)
      BY <1>9
    <2>2. PICK o \in Rows(Options(c)) : CommitsOption(c, o)
      BY <2>1
    <2>3. PICK k \in txn6.rows : txn6' = Done(txn6, k)
      BY <2>2 DEF CommitsOption, OptionKey
    <2>4. OptionChanged(c, o, client6')
      BY <2>2, OptionCommitEffect DEF CommitsOption
    <2>5. Rows(client6') = Rows(client6)
      BY <2>4 DEF OptionChanged
    <2>6. CASE c = 1
      <3>1. 1 \in Rows(client6) => (StandingApart => StandingApart')
        BY <1>done, <2>2, <2>3, <2>6, StandingWritten
      <3> QED
        BY <2>2, <2>3, <2>5, <2>6, <3>1, ApartCommits DEF CommitsOption
    <2>7. CASE c # 1
      <3>1. Options(c).row[o].new
        BY <2>7 DEF OneBackendClient
      <3>2. sent6' = sent6
        BY <2>2, <2>7, <3>1, OptionCommitEffect DEF CommitsOption, backend6
      <3>3. 1 \in Rows(client6) => client6'.row[1].sent = Options(1)
        BY <2>4, <2>7 DEF OptionChanged, Options
      <3>4. 1 \in Rows(client6) => (StandingApart => StandingApart')
        BY <1>done, <2>3, <3>3, StandingSame
      <3> QED
        BY <2>2, <2>3, <2>5, <3>2, <3>4, ApartCommits DEF CommitsOption
    <2> QED
      BY <2>6, <2>7
  <1>10. CASE \E c \in Rows(client6) : RollsBackClient(c)
    BY <1>10, <1>done, <1>same, ClientRollbackEffect DEF RollsBackClient, ClientKey, backend6
  <1>11. CASE \E c \in Rows(client6) : \E o \in Rows(Options(c)) : RollsBackOption(c, o)
    BY <1>11, <1>done, <1>same, OptionRollbackEffect DEF RollsBackOption, OptionKey, backend6
  <1>12. CASE Dhcpv6Initialize /\ txn6.phase # "commit"
    BY <1>12, <1>same DEF Dhcpv6Initialize, TxnIdle
  <1> QED
    BY <1>1, <1>2, <1>3, <1>4, <1>5, <1>6, <1>7, <1>8, <1>9, <1>10, <1>11, <1>12, RowCases6

-----------------------------------------------------------------------------
(* What the three theorems rest on.                                          *)
Reads ==
  NumbersGrow /\ OneBackendClient /\ NumbersOnce(sent6) /\ CommittedIsStored
  /\ Follows(reg6, client6)

TornApart == restarts \in Nat /\ (~ torn => OptionsApart)

LEMMA ReadsInit ==
  ASSUME Init6
  PROVE  Reads /\ OptionsApart
  <1>1. Types6 /\ reg6.max = 0 /\ DOMAIN reg6.row = {} /\ Distinct(sent6)
    BY InitTypes6
  <1>2. txn6.rows = {} /\ txn6.phase = "idle"
    BY DEF Init6, TxnIdle
  <1>3. NumbersOnce(sent6)
    BY <1>1 DEF Distinct, NumbersOnce
  <1>4. SavedNumbers(reg6)
    BY <1>1 DEF SavedNumbers
  <1>5. client6 = Dhcpv6BackendGet(Dhcpv6RegGet(reg6), g6, sent6)
    BY DEF Init6
  <1>6. ClientNumbers(client6)
    BY <1>1, <1>4, <1>5, StartNumbers DEF Types6
  <1>7. PICK v : v = client6.row[1].sent
    OBVIOUS
  <1>8. /\ Rows(client6) = {1} /\ ~ client6.row[1].new /\ Cfg(client6.row[1]) = g6
        /\ Rows(v) = Numbered(sent6) /\ NewRows(v) = {}
        /\ \A i \in DOMAIN sent6 : Stored(sent6[i].inst, v.row[sent6[i].inst]) = sent6[i]
    <2>1. SavedOptions(reg6, 1) = {}
      BY <1>1 DEF SavedOptions
    <2>2. /\ Rows(client6) = DOMAIN reg6.row \cup {1} /\ ~ client6.row[1].new
          /\ Cfg(client6.row[1]) = g6
          /\ Rows(v) = Numbered(sent6) \cup SavedOptions(reg6, 1)
          /\ NewRows(v) = SavedOptions(reg6, 1) \ Numbered(sent6)
      BY <1>1, <1>5, <1>7, StartParts DEF Types6
    <2>3. \A i \in DOMAIN sent6 : Stored(sent6[i].inst, v.row[sent6[i].inst]) = sent6[i]
      BY <1>1, <1>3, <1>5, <1>7, StartParts DEF Types6
    <2> QED
      BY <1>1, <2>1, <2>2, <2>3
  <1>9. OneBackendClient
    BY <1>8 DEF OneBackendClient, NewRows
  <1>10. CommittedIsStored
    BY <1>7, <1>8 DEF CommittedIsStored, CfgStored, OptionsStored, Options
  <1>11. Follows(reg6, client6)
    BY <1>1, <1>7, <1>8 DEF Follows, NewRows, AddedOptions, SavedOptions
  <1> QED
    BY <1>1, <1>2, <1>3, <1>4, <1>6, <1>9, <1>10, <1>11 DEF Reads, NumbersGrow, OptionsApart

LEMMA NewNotStored ==
  ASSUME CommittedIsStored
  PROVE  NotStored
  BY DEF CommittedIsStored, OptionsStored, NotStored, AddedOptions, Options

LEMMA ReadsStep ==
  ASSUME Inv6, Reads, NumbersLeft, Next6
  PROVE  Reads'
  <1>1. NumbersGrow'
    BY NumbersStep DEF Inv6, Reads
  <1>2. OneBackendClient'
    BY OneBackendStep DEF Inv6, Reads
  <1>3. CommittedIsStored' /\ NumbersOnce(sent6')
    BY CommittedStep DEF Inv6, Reads
  <1>4. Follows(reg6', client6')
    BY FollowsStep, NewNotStored DEF Inv6, Reads
  <1> QED
    BY <1>1, <1>2, <1>3, <1>4 DEF Reads

LEMMA ReadsKept ==
  ASSUME UNCHANGED vars6
  PROVE  (Reads => Reads') /\ (OptionsApart => OptionsApart')
  BY DEF vars6, Reads, NumbersGrow, ClientNumbers, OneBackendClient, CommittedIsStored,
         CfgStored, OptionsStored, OptionsApart, StandingApart, Standing, Options

LEMMA TornApartStep ==
  ASSUME Inv6, Reads, Reads', TornApart, [MCNext]_mcvars
  PROVE  TornApart'
  <1>1. CASE UNCHANGED <<vars6, torn, restarts>>
    BY <1>1, ReadsKept DEF TornApart
  <1>2. CASE UNCHANGED <<vars6, torn>> /\ restarts' \in {restarts, restarts + 1}
    BY <1>2, ReadsKept DEF TornApart
  <1>3. CASE /\ \/ (Table6 \/ EndTransaction6) /\ UNCHANGED restarts
                \/ Dhcpv6Initialize /\ restarts' = restarts + 1
             /\ torn' = (torn \/ (restarts' > restarts /\ txn6.phase = "commit"))
    <2>1. restarts' \in Nat
      BY <1>3 DEF TornApart
    <2>2. CASE torn
      BY <1>3, <2>1, <2>2 DEF TornApart
    <2>3. CASE ~ torn
      <3>1. SUFFICES ASSUME ~ torn' PROVE OptionsApart'
        BY <2>1 DEF TornApart
      <3>2. restarts + 1 > restarts
        BY DEF TornApart
      <3>3. ~ (restarts' > restarts /\ txn6.phase = "commit")
        BY <1>3, <3>1, Zenon
      <3>4. Table6 \/ EndTransaction6 \/ (Dhcpv6Initialize /\ txn6.phase # "commit")
        BY <1>3, <3>2, <3>3
      <3> QED
        BY <1>3, <2>3, <3>4, ApartStep DEF TornApart, Inv6, Reads
    <2> QED
      BY <2>2, <2>3
  <1>4. CASE MCNext
    <2>1. CASE UNCHANGED <<vars6, torn>>
      BY <1>2, <1>4, <2>1 DEF MCNext, TableOp, Process
    <2>2. CASE /\ \/ Table6 /\ TableOp
                  \/ EndTransaction6 /\ UNCHANGED <<ops, restarts>>
                  \/ Dhcpv6Initialize /\ Process
               /\ torn' = (torn \/ (restarts' > restarts /\ txn6.phase = "commit"))
      <3>1. CASE Dhcpv6Initialize /\ Process
        BY <1>3, <2>2, <3>1 DEF Process
      <3>2. CASE ~ (Dhcpv6Initialize /\ Process)
        <4>1. (Table6 \/ EndTransaction6) /\ UNCHANGED restarts
          BY <2>2, <3>2 DEF TableOp
        <4> QED
          BY <1>3, <2>2, <4>1
      <3> QED
        BY <3>1, <3>2
    <2> QED
      BY <1>4, <2>1, <2>2 DEF MCNext
  <1> QED
    BY <1>1, <1>4 DEF mcvars

(* The registry and the rows agree with the backend in every reachable state.*)
LEMMA ReadsInvariant == MCSpec /\ []NumbersLeft => [](Inv6 /\ Reads)
  <1>1. MCInit => Reads
    BY ReadsInit DEF MCInit
  <1>2. Inv6 /\ Reads /\ NumbersLeft /\ [MCNext]_mcvars => Reads'
    BY FamilySteps, ReadsStep, ReadsKept
  <1> QED
    BY <1>1, <1>2, DhcpInvariant, PTL DEF MCSpec

(* Outside a request a management client reads, for the client the backend   *)
(* has, exactly what the backend holds: no order of commits and rollbacks,   *)
(* no deletion and no restart in the middle of a request lets the two drift  *)
(* apart.                                                                    *)
THEOREM ReadsStored == MCSpec /\ []NumbersLeft => []ReadsWhatIsStored
  <1>1. ASSUME Inv6, Reads PROVE ReadsWhatIsStored
    <2> SUFFICES ASSUME txn6.phase = "idle", 1 \in Rows(client6)
                 PROVE  /\ CommittedOptions(1) = {sent6[i].inst : i \in DOMAIN sent6}
                        /\ \A i \in DOMAIN sent6 :
                             Stored(sent6[i].inst, SentOption1_GetParam(1, sent6[i].inst))
                               = sent6[i]
                        /\ Client3_GetParamIntValue(1) = <<g6.t1, g6.t2>>
                        /\ Client3_GetParamBoolValue(1).req = g6.req
                        /\ Client3_GetParamStringValue(1) = g6.alias
      BY DEF ReadsWhatIsStored
    <2>1. /\ Cfg(client6.row[1]) = g6 /\ Numbered(sent6) = Rows(Options(1)) \ NewRows(Options(1))
          /\ \A i \in DOMAIN sent6 : Stored(sent6[i].inst, Options(1).row[sent6[i].inst]) = sent6[i]
      BY <1>1 DEF Inv6, BuffersInUse, Reads, CommittedIsStored, CfgStored, OptionsStored
    <2>2. CommittedOptions(1) = {sent6[i].inst : i \in DOMAIN sent6}
      BY <2>1 DEF CommittedOptions, Options, NewRows, Numbered
    <2>3. \A i \in DOMAIN sent6 :
            Stored(sent6[i].inst, SentOption1_GetParam(1, sent6[i].inst)) = sent6[i]
      BY <2>1 DEF Stored, SentOption1_GetParam, SentOption1_GetParamBoolValue, Options
    <2>4. /\ client6.row[1].t1 = g6.t1 /\ client6.row[1].t2 = g6.t2
          /\ client6.row[1].req = g6.req /\ client6.row[1].alias = g6.alias
      BY <2>1 DEF Cfg
    <2> QED
      BY <2>2, <2>3, <2>4
         DEF Client3_GetParamIntValue, Client3_GetParamBoolValue, Client3_GetParamStringValue
  <1> QED
    BY <1>1, ReadsInvariant, PTL

(* A start of the process, in the middle of a request or between two, brings *)
(* back every client and every option that was added and not committed yet:  *)
(* the registry has them all, and it has none that the backend took.         *)
THEOREM RestartKeeps == MCSpec /\ []NumbersLeft => RestartKeepsDelayAdded
  <1>1. ASSUME NEW t, NEW u, NewRows(u) = NewRows(t),
               \A c : AddedOptions(u, c) = AddedOptions(t, c)
        PROVE  DelayAdded(u) = DelayAdded(t)
    <2>1. \A x, v : (x \in UNION {{<<c, o>> : o \in NewRows(v.row[c].sent)} : c \in Rows(v)})
                      <=> \E c : \E o \in AddedOptions(v, c) : x = <<c, o>>
      BY DEF AddedOptions
    <2>2. \A x : x \in DelayAdded(u) <=> x \in DelayAdded(t)
      BY <1>1, <2>1 DEF DelayAdded
    <2> QED
      BY <2>2 DEF DelayAdded
  <1>2. ASSUME Inv6, Reads, Dhcpv6Initialize PROVE DelayAdded(client6') = DelayAdded(client6)
    <2>1. PICK u : u = Dhcpv6BackendGet(Dhcpv6RegGet(reg6), g6, sent6)
      OBVIOUS
    <2>2. NewRows(u) = NewRows(client6) /\ \A c : AddedOptions(u, c) = AddedOptions(client6, c)
      BY <1>2, <2>1, StartFollows, NewNotStored
         DEF Inv6, Types6, Reads, OneBackendClient, NotStored
    <2>3. client6' = u
      BY <1>2, <2>1 DEF Dhcpv6Initialize
    <2> QED
      BY <1>1, <2>2, <2>3
  <1>3. Inv6 /\ Reads => [Dhcpv6Initialize => DelayAdded(client6') = DelayAdded(client6)]_vars6
    BY <1>2
  <1> QED
    BY <1>3, ReadsInvariant, PTL DEF RestartKeepsDelayAdded

(* The options of the backend differ in number and alias, and the enabled    *)
(* ones in tag, although a request is validated as a whole and committed row *)
(* by row: only a restart between two commits leaves what is half done.      *)
THEOREM OptionsStayDistinct == MCSpec /\ []NumbersLeft => []CommittedOptionsDistinct
  <1>1. MCInit => TornApart
    BY ReadsInit DEF MCInit, TornApart
  <1>2. Inv6 /\ Reads /\ Reads' /\ TornApart /\ [MCNext]_mcvars => TornApart'
    BY TornApartStep
  <1>3. TornApart => CommittedOptionsDistinct
    BY DEF TornApart, OptionsApart, CommittedOptionsDistinct, OptionsDistinct
  <1> QED
    BY <1>1, <1>2, <1>3, ReadsInvariant, PTL DEF MCSpec
=============================================================================
