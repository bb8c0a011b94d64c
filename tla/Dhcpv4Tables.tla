---------------------------- MODULE Dhcpv4Tables ----------------------------
(***************************************************************************)
(* Device.DHCPv4.Client.{i} with its SentOption.{i} and ReqOption.{i}.     *)
(* The registry folder of these tables is never opened and the backend     *)
(* refuses every write (only the client it has, "eRouter" with number 1,   *)
(* can be read): the tables live in memory and no option is ever accepted. *)
(* The two option tables have the same life, on lists of their own: opt is *)
(* "sent" or "req".  An option's Tag, Value and Order are one value, tag.  *)
(***************************************************************************)
EXTENDS DhcpTables

CONSTANTS Tags4,         \* the tags of options, 0 is the default
          UserAliases4   \* the aliases a management client sets

ASSUME Tables4Assumption == 0 \in Tags4

VARIABLES client4,   \* ClientList with maxInstanceOfClient, AliasOfClient
          txn4       \* the transaction of the management framework

vars4 == <<client4, txn4>>

OptionTables == {"sent", "req"}

Default4(r) == [r EXCEPT !.enabled = FALSE, !.tag = 0]

(***************************************************************************)
(* WanMgr_DmlDhcpcGetCfg: whatever client asks, it gets the one of eRouter *)
(***************************************************************************)
BackendCfg(r) == [r EXCEPT !.inst = 1, !.alias = <<"eRouter">>, !.enabled = TRUE]

NewClient4(n) ==
  [inst |-> n, new |-> TRUE, alias |-> <<"Client", n>>, enabled |-> FALSE,
   opt |-> [k \in OptionTables |-> EmptyTable]]

(* the registry has no folder: what RegSet saves and RegGet finds is nothing *)
Dhcpv4RegGet == EmptyTable

Dhcpv4BackendGet(t) ==
  [PushEntry(t, 1, BackendCfg([NewClient4(1) EXCEPT !.new = FALSE]))
     EXCEPT !.max = 1]

---------------------------------------------------------------------------
(***************************************************************************)
(* Device.DHCPv4.Client.                                                   *)
(***************************************************************************)
Client_AddEntry ==
  /\ txn4.phase = "idle"
  /\ client4' = AddRow(client4, NewClient4(NextInstance(client4.max)))
  /\ UNCHANGED txn4

(* the backend refuses to delete: only a client never committed goes *)
Client_DelEntry(c) ==
  /\ txn4.phase = "idle"
  /\ client4.row[c].new
  /\ client4' = PopEntry(client4, c)
  /\ UNCHANGED txn4

Client_SetParamBoolValue(c) ==
  /\ MaySet(txn4)
  /\ \E v \in BOOLEAN : client4' = [client4 EXCEPT !.row[c].enabled = v]
  /\ txn4' = Touched(txn4, <<c, "client", 0>>)

Client_SetParamStringValue(c) ==
  /\ MaySet(txn4)
  /\ \E alias \in UserAliases4 : client4' = SetAlias(client4, c, alias)
  /\ txn4' = Touched(txn4, <<c, "client", 0>>)

Client_Validate(c) == client4.old = NoAlias \/ AliasFree(client4, c)

(* a client that is not new is overwritten with the backend's configuration *)
Client_Commit(c) ==
  LET r == client4.row[c] IN
  client4' = ZeroAlias([client4 EXCEPT !.row[c] =
               IF r.new THEN [r EXCEPT !.new = FALSE] ELSE BackendCfg(r)])

Client_Rollback(c) ==
  LET t == RestoreAlias(client4, c)
      r == t.row[c] IN
  client4' = ZeroAlias([t EXCEPT !.row[c] =
               IF r.new THEN [r EXCEPT !.enabled = FALSE] ELSE BackendCfg(r)])

---------------------------------------------------------------------------
(***************************************************************************)
(* What the two option tables do on their own list.                        *)
(***************************************************************************)
AddOption4(c, k, name) ==
  /\ txn4.phase = "idle"
  /\ LET t == client4.row[c].opt[k]
         n == NextInstance(t.max) IN
     client4' = [client4 EXCEPT !.row[c].opt[k] =
                   AddRow(t, [new |-> TRUE, alias |-> <<name, n>>,
                              enabled |-> FALSE, tag |-> 0])]
  /\ UNCHANGED txn4

DelOption4(c, k, o) ==
  /\ txn4.phase = "idle"
  /\ client4.row[c].opt[k].row[o].new
  /\ client4' = [client4 EXCEPT !.row[c].opt[k] = PopEntry(@, o)]
  /\ UNCHANGED txn4

SetEnable4(c, k, o) ==
  /\ MaySet(txn4)
  /\ \E v \in BOOLEAN :
       client4' = [client4 EXCEPT !.row[c].opt[k].row[o].enabled = v]
  /\ txn4' = Touched(txn4, <<c, k, o>>)

SetTag4(c, k, o) ==
  /\ MaySet(txn4)
  /\ \E v \in Tags4 :
       client4' = [client4 EXCEPT !.row[c].opt[k].row[o].tag = v]
  /\ txn4' = Touched(txn4, <<c, k, o>>)

SetAlias4(c, k, o) ==
  /\ MaySet(txn4)
  /\ \E alias \in UserAliases4 :
       client4' = [client4 EXCEPT !.row[c].opt[k] = SetAlias(@, o, alias)]
  /\ txn4' = Touched(txn4, <<c, k, o>>)

(* an alias is compared only when one was set in this transaction *)
ValidOption4(c, k, o) ==
  LET t == client4.row[c].opt[k] IN
  /\ ~client4.row[c].new
  /\ t.old = NoAlias \/ AliasFree(t, o)

(* refused by the backend: the defaults, and the alias before the request *)
CommitOption4(c, k, o) ==
  LET t == client4.row[c].opt[k] IN
  client4' = [client4 EXCEPT !.row[c].opt[k] =
    ZeroAlias(RestoreAlias([t EXCEPT !.row[o] = Default4(@)], o))]

RollbackKeepsBuffer(c, k, o) ==  \* mutant: the alias buffer is not cleared
  LET t == RestoreAlias(client4.row[c].opt[k], o) IN
  client4' = [client4 EXCEPT !.row[c].opt[k] =
    [t EXCEPT !.row[o] = Default4(@)]]

RollbackOption4(c, k, o) ==
  LET t == RestoreAlias(client4.row[c].opt[k], o) IN
  client4' = [client4 EXCEPT !.row[c].opt[k] =
    ZeroAlias([t EXCEPT !.row[o] = Default4(@)])]

---------------------------------------------------------------------------
SentOption_AddEntry(c)    == AddOption4(c, "sent", "SentOption")
SentOption_DelEntry(c, o) == DelOption4(c, "sent", o)
SentOption_SetParamBoolValue(c, o)   == SetEnable4(c, "sent", o)
SentOption_SetParamUlongValue(c, o)  == SetTag4(c, "sent", o)
SentOption_SetParamStringValue(c, o) == SetAlias4(c, "sent", o)
SentOption_Validate(c, o) == ValidOption4(c, "sent", o)
SentOption_Commit(c, o)   == CommitOption4(c, "sent", o)
SentOption_Rollback(c, o) == RollbackOption4(c, "sent", o)

ReqOption_AddEntry(c)     == AddOption4(c, "req", "ReqOption")
ReqOption_DelEntry(c, o)  == DelOption4(c, "req", o)
ReqOption_SetParamBoolValue(c, o)   == SetEnable4(c, "req", o)
ReqOption_SetParamUlongValue(c, o)  == SetTag4(c, "req", o)
ReqOption_SetParamStringValue(c, o) == SetAlias4(c, "req", o)
ReqOption_Validate(c, o)  == ValidOption4(c, "req", o)
ReqOption_Commit(c, o)    == CommitOption4(c, "req", o)
ReqOption_Rollback(c, o)  == RollbackOption4(c, "req", o)

---------------------------------------------------------------------------
Valid4(k) ==
  CASE k[2] = "client" -> Client_Validate(k[1])
    [] k[2] = "sent"   -> SentOption_Validate(k[1], k[3])
    [] k[2] = "req"    -> ReqOption_Validate(k[1], k[3])

Validate4 ==
  /\ txn4.phase = "set"
  /\ txn4' = Validated(txn4, \A k \in txn4.rows : Valid4(k))
  /\ UNCHANGED client4

Commit4 ==
  /\ txn4.phase = "commit"
  /\ \E k \in txn4.rows :
       /\ \/ k[2] = "client" /\ Client_Commit(k[1])
          \/ k[2] = "sent"   /\ SentOption_Commit(k[1], k[3])
          \/ k[2] = "req"    /\ ReqOption_Commit(k[1], k[3])
       /\ txn4' = Done(txn4, k)

Rollback4 ==
  /\ txn4.phase = "rollback"
  /\ \E k \in txn4.rows :
       /\ \/ k[2] = "client" /\ Client_Rollback(k[1])
          \/ k[2] = "sent"   /\ SentOption_Rollback(k[1], k[3])
          \/ k[2] = "req"    /\ ReqOption_Rollback(k[1], k[3])
       /\ txn4' = Done(txn4, k)

Dhcpv4Initialize ==
  /\ client4' = Dhcpv4BackendGet(Dhcpv4RegGet)
  /\ txn4' = TxnIdle

Init4 ==
  /\ client4 = Dhcpv4BackendGet(Dhcpv4RegGet)
  /\ txn4 = TxnIdle

Table4 ==
  \/ Client_AddEntry
  \/ \E c \in Rows(client4) :
       \/ Client_DelEntry(c)
       \/ Client_SetParamBoolValue(c) \/ Client_SetParamStringValue(c)
       \/ SentOption_AddEntry(c) \/ ReqOption_AddEntry(c)
       \/ \E o \in Rows(client4.row[c].opt["sent"]) :
            \/ SentOption_DelEntry(c, o) \/ SentOption_SetParamBoolValue(c, o)
            \/ SentOption_SetParamUlongValue(c, o)
            \/ SentOption_SetParamStringValue(c, o)
       \/ \E o \in Rows(client4.row[c].opt["req"]) :
            \/ ReqOption_DelEntry(c, o) \/ ReqOption_SetParamBoolValue(c, o)
            \/ ReqOption_SetParamUlongValue(c, o)
            \/ ReqOption_SetParamStringValue(c, o)

EndTransaction4 == Validate4 \/ Commit4 \/ Rollback4

Next4 == Table4 \/ EndTransaction4 \/ Dhcpv4Initialize
=============================================================================
