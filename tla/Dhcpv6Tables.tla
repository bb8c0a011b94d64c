---------------------------- MODULE Dhcpv6Tables ----------------------------
(***************************************************************************)
(* Device.DHCPv6.Client.{i} and its SentOption.{i}: the tables in memory,  *)
(* the registry that keeps the delay-added rows over a restart, the        *)
(* backend (the one client and the sent options kept in syscfg) and the    *)
(* dibbler client the backend configures and restarts.                     *)
(* A client's remaining parameters (RequestAddresses, RequestPrefixes,     *)
(* RapidCommit, RequestedOptions) are one value, req; an option's Tag and  *)
(* Value are one value, tag.                                               *)
(***************************************************************************)
EXTENDS DhcpTables

CONSTANTS Times,         \* the values SuggestedT1 and SuggestedT2 take
          Tags,          \* the tags of sent options, 0 is the default
          UserAliases,   \* the aliases a management client sets
          StoredOptions  \* what syscfg holds of sent options at first

Aliases6 == {NoAlias} \cup UserAliases \cup ({"Client", "SentOption"} \X Nat)

StoredOption == [inst : 1..UlongLimit, alias : Aliases6, enabled : BOOLEAN,
                 tag : Tags]

(***************************************************************************)
(* No two options have the same number or alias, and no two enabled ones   *)
(* the same tag.                                                           *)
(***************************************************************************)
Distinct(s) ==
  \A i, j \in DOMAIN s :
    (i # j) => /\ s[i].inst # s[j].inst
               /\ s[i].alias # s[j].alias
               /\ ~(s[i].enabled /\ s[j].enabled /\ s[i].tag = s[j].tag)

ASSUME Tables6Assumption ==
  /\ Times \subseteq Nat /\ 0 \in Times /\ 0 \in Tags
  /\ \A s \in StoredOptions : s \in Seq(StoredOption) /\ Distinct(s)

VARIABLES client6,   \* ClientList with maxInstanceOfClient, AliasOfClient
          reg6,      \* the registry folder of the DHCPv6 tables
          g6,        \* g_dhcpv6_client.Cfg, with its copy in syscfg
          sent6,     \* g_sent_options, with their copy in syscfg
          conf6,     \* the configuration file of dibbler
          file6,     \* /tmp/.dibbler-info/client_sent_options
          dib6,      \* the dibbler process
          txn6       \* the transaction of the management framework

vars6 == <<client6, reg6, g6, sent6, conf6, file6, dib6, txn6>>
backend6 == <<g6, sent6, conf6, file6, dib6>>

Defaulted(r) == [r EXCEPT !.enabled = FALSE, !.tag = 0]

Cfg(r)  == [alias |-> r.alias, enabled |-> r.enabled, t1 |-> r.t1, t2 |-> r.t2,
            req |-> r.req]
Conf(c) == [t1 |-> c.t1, t2 |-> c.t2, req |-> c.req]
WithCfg(r, g) == [r EXCEPT !.alias = g.alias, !.enabled = g.enabled,
                           !.t1 = g.t1, !.t2 = g.t2, !.req = g.req]

(* _write_dibbler_sent_option_file: the options that are enabled *)
FileOf(s) == {s[i].tag : i \in {j \in DOMAIN s : s[j].enabled}}

BackendIndex(s, n) == {i \in DOMAIN s : s[i].inst = n}

---------------------------------------------------------------------------
(***************************************************************************)
(* The registry keeps the next numbers and the delay-added rows.  A client *)
(* the backend knows, that has no options and never had one, is skipped;   *)
(* the number of the last option is written only when there is an option.  *)
(***************************************************************************)
SavedClient(r) ==
  [alias |-> r.alias, new |-> r.new,
   max   |-> IF Rows(r.sent) = {} THEN 0 ELSE r.sent.max,
   sent  |-> [o \in NewRows(r.sent) |-> r.sent.row[o].alias]]

RegSetNewClientsOnly(t) ==      \* mutant: options of committed clients dropped
  [max |-> t.max,
   row |-> [c \in NewRows(t) |-> SavedClient(t.row[c])]]

Dhcpv6RegSet(t) ==
  [max |-> t.max,
   row |-> [c \in {d \in Rows(t) : \/ t.row[d].new
                                   \/ Rows(t.row[d].sent) # {}
                                   \/ t.row[d].sent.max # 0} |->
              SavedClient(t.row[c])]]

SavedOption(alias) ==
  [new |-> TRUE, alias |-> alias, enabled |-> FALSE, tag |-> 0]

RestoredClient(s) ==
  [new |-> s.new, alias |-> s.alias, enabled |-> FALSE, t1 |-> 0, t2 |-> 0,
   req |-> FALSE,
   sent |-> [row |-> [o \in DOMAIN s.sent |-> SavedOption(s.sent[o])],
             max |-> s.max, old |-> NoAlias]]

Dhcpv6RegGet(reg) ==
  [row |-> [c \in DOMAIN reg.row |-> RestoredClient(reg.row[c])],
   max |-> reg.max, old |-> NoAlias]

(***************************************************************************)
(* The backend's client is client 1 and its options are options of it:     *)
(* they replace the rows of the same number that the registry restored.    *)
(***************************************************************************)
BackendOptions(t, s) ==
  LET inst == {s[i].inst : i \in DOMAIN s}
      of(n) == s[CHOOSE i \in BackendIndex(s, n) : TRUE] IN
  [row |-> [n \in inst \cup Rows(t) |->
              IF n \in inst THEN [new |-> FALSE, alias |-> of(n).alias,
                                  enabled |-> of(n).enabled, tag |-> of(n).tag]
                            ELSE t.row[n]],
   max |-> CHOOSE m \in inst \cup {t.max} : \A n \in inst \cup {t.max} : n <= m,
   old |-> NoAlias]

Dhcpv6BackendGet(t, g, s) ==
  LET sent == IF 1 \in Rows(t) THEN t.row[1].sent ELSE EmptyTable
      row  == [new |-> FALSE, alias |-> g.alias, enabled |-> g.enabled,
               t1 |-> g.t1, t2 |-> g.t2, req |-> g.req,
               sent |-> BackendOptions(sent, s)] IN
  [PushEntry(t, 1, row) EXCEPT !.max = IF @ < 1 THEN 1 ELSE @]

NewClientUninitialised(n) ==    \* mutant: the timers are not cleared
  [new |-> TRUE, alias |-> <<"Client", n>>, enabled |-> FALSE, t1 |-> 99,
   t2 |-> 0, req |-> FALSE, sent |-> EmptyTable]

---------------------------------------------------------------------------
(***************************************************************************)
(* Device.DHCPv6.Client.                                                   *)
(***************************************************************************)
NewClient6(n) ==
  [new |-> TRUE, alias |-> <<"Client", n>>, enabled |-> FALSE, t1 |-> 0,
   t2 |-> 0, req |-> FALSE, sent |-> EmptyTable]

Client3_AddEntry ==
  /\ txn6.phase = "idle"
  /\ client6' = AddRow(client6, NewClient6(NextInstance(client6.max)))
  /\ reg6' = Dhcpv6RegSet(client6')
  /\ UNCHANGED <<backend6, txn6>>

(* the backend accepts every deletion, of its own client too *)
Client3_DelEntry(c) ==
  /\ txn6.phase = "idle"
  /\ client6' = PopEntry(client6, c)
  /\ reg6' = Dhcpv6RegSet(client6')
  /\ UNCHANGED <<backend6, txn6>>

Client3_SetParamBoolValue(c) ==
  /\ MaySet(txn6)
  /\ \E v \in BOOLEAN :
       \/ client6' = [client6 EXCEPT !.row[c].enabled = v]
       \/ client6' = [client6 EXCEPT !.row[c].req = v]
  /\ txn6' = Touched(txn6, <<c, "client", 0>>)
  /\ UNCHANGED <<reg6, backend6>>

Client3_SetParamIntValue(c) ==
  /\ MaySet(txn6)
  /\ \E v \in Times :
       \/ client6' = [client6 EXCEPT !.row[c].t1 = v]
       \/ client6' = [client6 EXCEPT !.row[c].t2 = v]
  /\ txn6' = Touched(txn6, <<c, "client", 0>>)
  /\ UNCHANGED <<reg6, backend6>>

Client3_SetParamStringValue(c) ==
  /\ MaySet(txn6)
  /\ \E alias \in UserAliases : client6' = SetAlias(client6, c, alias)
  /\ txn6' = Touched(txn6, <<c, "client", 0>>)
  /\ UNCHANGED <<reg6, backend6>>

(* the timers are compared only when the client is enabled *)
Client3_Validate(c) ==
  LET r == client6.row[c] IN
  /\ client6.old = NoAlias \/ AliasFree(client6, c)
  /\ r.enabled => r.t1 <= r.t2

(***************************************************************************)
(* WanMgr_DmlDhcpv6cSetCfg: every parameter but the alias takes a restart. *)
(* dibbler is stopped when the client becomes disabled, and gets its new   *)
(* file and is restarted whenever the client is enabled.                   *)
(***************************************************************************)
Restarted(conf, file) == [run |-> TRUE, conf |-> conf, sent |-> file]

SetCfg(cfg) ==
  LET need == Conf(cfg) # Conf(g6) \/ cfg.enabled # g6.enabled IN
  /\ g6' = cfg
  /\ conf6' = IF need /\ cfg.enabled THEN Conf(cfg) ELSE conf6
  /\ dib6' = CASE need /\ cfg.enabled -> Restarted(conf6', file6)
               [] need /\ ~cfg.enabled /\ g6.enabled ->
                    [dib6 EXCEPT !.run = FALSE]
               [] OTHER -> dib6
  /\ UNCHANGED <<sent6, file6>>

(* the backend has one client: the others are neither stored nor reloaded *)
Client3_Commit(c) ==
  LET r == client6.row[c]
      t == ZeroAlias(client6) IN
  \/ /\ r.new
     /\ client6' = [t EXCEPT !.row[c].new = FALSE]
     /\ reg6' = Dhcpv6RegSet(client6')
     /\ UNCHANGED backend6
  \/ /\ ~r.new /\ c = 1
     /\ SetCfg(Cfg(r))
     /\ client6' = t
     /\ UNCHANGED reg6
  \/ /\ ~r.new /\ c # 1
     /\ client6' = t
     /\ UNCHANGED <<reg6, backend6>>

Client3_Rollback(c) ==
  LET t == RestoreAlias(client6, c)
      r == t.row[c]
      row == CASE r.new         -> [r EXCEPT !.enabled = FALSE]
               [] ~r.new /\ c = 1 -> WithCfg(r, g6)
               [] OTHER         -> r IN
  /\ client6' = ZeroAlias([t EXCEPT !.row[c] = row])
  /\ UNCHANGED <<reg6, backend6>>

---------------------------------------------------------------------------
(***************************************************************************)
(* Device.DHCPv6.Client.{c}.SentOption.                                    *)
(***************************************************************************)
NewOption(n) ==
  [new |-> TRUE, alias |-> <<"SentOption", n>>, enabled |-> FALSE, tag |-> 0]

SentOption1_AddEntry(c) ==
  /\ txn6.phase = "idle"
  /\ LET t == client6.row[c].sent IN
     client6' = [client6 EXCEPT !.row[c].sent =
                   AddRow(t, NewOption(NextInstance(t.max)))]
  /\ reg6' = Dhcpv6RegSet(client6')
  /\ UNCHANGED <<backend6, txn6>>

DelSentOptionSilently(n) ==     \* mutant: dibbler keeps the deleted option
  LET i == CHOOSE j \in BackendIndex(sent6, n) : TRUE IN
  /\ sent6' = [j \in 1..(Len(sent6) - 1) |-> IF j < i THEN sent6[j]
                                             ELSE sent6[j + 1]]
  /\ UNCHANGED <<g6, conf6, file6, dib6>>

(***************************************************************************)
(* WanMgr_DmlDhcpv6cDelSentOption: the options behind the deleted one move *)
(* up; dibbler is restarted when the option was enabled.                   *)
(***************************************************************************)
DelSentOption(n) ==
  LET i == CHOOSE j \in BackendIndex(sent6, n) : TRUE IN
  /\ sent6' = [j \in 1..(Len(sent6) - 1) |-> IF j < i THEN sent6[j]
                                             ELSE sent6[j + 1]]
  /\ IF sent6[i].enabled
     THEN /\ file6' = FileOf(sent6')
          /\ dib6' = Restarted(conf6, file6')
     ELSE UNCHANGED <<file6, dib6>>
  /\ UNCHANGED <<g6, conf6>>

(* a committed option the backend does not find is not deleted *)
SentOption1_DelEntry(c, o) ==
  /\ txn6.phase = "idle"
  /\ \/ /\ client6.row[c].sent.row[o].new
        /\ UNCHANGED backend6
     \/ /\ ~client6.row[c].sent.row[o].new
        /\ c = 1 /\ BackendIndex(sent6, o) # {}
        /\ DelSentOption(o)
  /\ client6' = [client6 EXCEPT !.row[c].sent = PopEntry(@, o)]
  /\ reg6' = Dhcpv6RegSet(client6')
  /\ UNCHANGED txn6

SentOption1_SetParamBoolValue(c, o) ==
  /\ MaySet(txn6)
  /\ \E v \in BOOLEAN :
       client6' = [client6 EXCEPT !.row[c].sent.row[o].enabled = v]
  /\ txn6' = Touched(txn6, <<c, "sent", o>>)
  /\ UNCHANGED <<reg6, backend6>>

SentOption1_SetParamUlongValue(c, o) ==
  /\ MaySet(txn6)
  /\ \E v \in Tags :
       client6' = [client6 EXCEPT !.row[c].sent.row[o].tag = v]
  /\ txn6' = Touched(txn6, <<c, "sent", o>>)
  /\ UNCHANGED <<reg6, backend6>>

SentOption1_SetParamStringValue(c, o) ==
  /\ MaySet(txn6)
  /\ \E alias \in UserAliases :
       client6' = [client6 EXCEPT !.row[c].sent = SetAlias(@, o, alias)]
  /\ txn6' = Touched(txn6, <<c, "sent", o>>)
  /\ UNCHANGED <<reg6, backend6>>

ValidateAliasOnly(c, o) ==      \* mutant: tags are not compared
  ~client6.row[c].new /\ AliasFree(client6.row[c].sent, o)

SentOption1_Validate(c, o) ==
  LET t == client6.row[c].sent IN
  /\ ~client6.row[c].new
  /\ AliasFree(t, o)
  /\ \A p \in Rows(t) \ {o} :
       ~(t.row[o].enabled /\ t.row[p].enabled /\ t.row[o].tag = t.row[p].tag)

Stored(n, r) == [inst |-> n, alias |-> r.alias, enabled |-> r.enabled,
                 tag |-> r.tag]

(***************************************************************************)
(* WanMgr_DmlDhcpv6cAddSentOption: only an enabled option needs dibbler.   *)
(***************************************************************************)
AddSentOption(o, r) ==
  /\ sent6' = Append(sent6, Stored(o, r))
  /\ IF r.enabled
     THEN /\ file6' = FileOf(sent6')
          /\ dib6' = Restarted(conf6, file6')
     ELSE UNCHANGED <<file6, dib6>>
  /\ UNCHANGED <<g6, conf6>>

(***************************************************************************)
(* WanMgr_DmlDhcpv6cSetSentOption: the row of that number, if there is     *)
(* one; dibbler is restarted for every change but one of the alias.        *)
(***************************************************************************)
SetSentOption(o, r) ==
  LET at   == BackendIndex(sent6, o)
      need == \E i \in at : \/ sent6[i].enabled # r.enabled
                            \/ sent6[i].tag # r.tag IN
  /\ sent6' = [i \in DOMAIN sent6 |-> IF i \in at THEN Stored(o, r)
                                      ELSE sent6[i]]
  /\ IF need
     THEN /\ file6' = FileOf(sent6')
          /\ dib6' = Restarted(conf6, file6')
     ELSE UNCHANGED <<file6, dib6>>
  /\ UNCHANGED <<g6, conf6>>

(* the backend takes options of its own client only *)
SentOption1_Commit(c, o) ==
  LET t == client6.row[c].sent
      r == t.row[o] IN
  \/ /\ r.new /\ c = 1
     /\ AddSentOption(o, r)
     /\ client6' = [client6 EXCEPT !.row[c].sent =
                      ZeroAlias([t EXCEPT !.row[o].new = FALSE])]
     /\ reg6' = Dhcpv6RegSet(client6')
  \/ /\ r.new /\ c # 1
     /\ client6' = [client6 EXCEPT !.row[c].sent =
                      ZeroAlias(RestoreAlias(
                        [t EXCEPT !.row[o] = Defaulted(r)], o))]
     /\ UNCHANGED <<reg6, backend6>>
  \/ /\ ~r.new
     /\ SetSentOption(o, r)
     /\ client6' = [client6 EXCEPT !.row[c].sent = ZeroAlias(t)]
     /\ UNCHANGED reg6

RollbackAliasOnly(c, o) ==      \* mutant: the values set are not taken back
  /\ client6' = [client6 EXCEPT !.row[c].sent =
                   ZeroAlias(RestoreAlias(client6.row[c].sent, o))]
  /\ UNCHANGED <<reg6, backend6>>

SentOption1_Rollback(c, o) ==
  LET t   == RestoreAlias(client6.row[c].sent, o)
      r   == t.row[o]
      at  == BackendIndex(sent6, o)
      old == IF at = {} THEN r
             ELSE [r EXCEPT !.alias = sent6[CHOOSE i \in at : TRUE].alias,
                            !.enabled = sent6[CHOOSE i \in at : TRUE].enabled,
                            !.tag = sent6[CHOOSE i \in at : TRUE].tag] IN
  /\ client6' = [client6 EXCEPT !.row[c].sent =
       ZeroAlias([t EXCEPT !.row[o] = IF r.new THEN Defaulted(r)
                                      ELSE old])]
  /\ UNCHANGED <<reg6, backend6>>

---------------------------------------------------------------------------
(***************************************************************************)
(* The end of a transaction: every row it touched is validated, then they  *)
(* are committed, or rolled back, one by one.                              *)
(***************************************************************************)
Valid6(k) == IF k[2] = "client" THEN Client3_Validate(k[1])
             ELSE SentOption1_Validate(k[1], k[3])

Validate6 ==
  /\ txn6.phase = "set"
  /\ txn6' = Validated(txn6, \A k \in txn6.rows : Valid6(k))
  /\ UNCHANGED <<client6, reg6, backend6>>

Commit6 ==
  /\ txn6.phase = "commit"
  /\ \E k \in txn6.rows :
       /\ IF k[2] = "client" THEN Client3_Commit(k[1])
          ELSE SentOption1_Commit(k[1], k[3])
       /\ txn6' = Done(txn6, k)

Rollback6 ==
  /\ txn6.phase = "rollback"
  /\ \E k \in txn6.rows :
       /\ IF k[2] = "client" THEN Client3_Rollback(k[1])
          ELSE SentOption1_Rollback(k[1], k[3])
       /\ txn6' = Done(txn6, k)

(***************************************************************************)
(* The process starts: registry first, then the backend, whose last option *)
(* writes the option file and whose enabled client the configuration file. *)
(* dibbler is another process and goes on running.                         *)
(***************************************************************************)
Dhcpv6Initialize ==
  /\ client6' = Dhcpv6BackendGet(Dhcpv6RegGet(reg6), g6, sent6)
  /\ file6' = IF sent6 = <<>> THEN file6 ELSE FileOf(sent6)
  /\ conf6' = IF g6.enabled THEN Conf(g6) ELSE conf6
  /\ txn6' = TxnIdle
  /\ UNCHANGED <<reg6, g6, sent6, dib6>>

Init6 ==
  /\ g6 = [alias |-> <<"Client", 1>>, enabled |-> TRUE, t1 |-> 0, t2 |-> 0,
           req |-> TRUE]
  /\ sent6 \in StoredOptions
  /\ reg6 = [max |-> 0, row |-> <<>>]
  /\ client6 = Dhcpv6BackendGet(Dhcpv6RegGet(reg6), g6, sent6)
  /\ conf6 = Conf(g6)
  /\ file6 = FileOf(sent6)
  /\ dib6 = Restarted(conf6, file6)
  /\ txn6 = TxnIdle

Table6 ==
  \/ Client3_AddEntry
  \/ \E c \in Rows(client6) :
       \/ Client3_DelEntry(c)
       \/ Client3_SetParamBoolValue(c) \/ Client3_SetParamIntValue(c)
       \/ Client3_SetParamStringValue(c)
       \/ SentOption1_AddEntry(c)
       \/ \E o \in Rows(client6.row[c].sent) :
            \/ SentOption1_DelEntry(c, o)
            \/ SentOption1_SetParamBoolValue(c, o)
            \/ SentOption1_SetParamUlongValue(c, o)
            \/ SentOption1_SetParamStringValue(c, o)

EndTransaction6 == Validate6 \/ Commit6 \/ Rollback6

Next6 == Table6 \/ EndTransaction6 \/ Dhcpv6Initialize
---------------------------------------------------------------------------
(***************************************************************************)
(* What a management client reads.  Enable is not the parameter that was   *)
(* set: it tells whether the dibbler process is found.                     *)
(***************************************************************************)
Client3_GetParamBoolValue(c) == [Enable |-> dib6.run, req |-> client6.row[c].req]
Client3_GetParamIntValue(c)  == <<client6.row[c].t1, client6.row[c].t2>>
Client3_GetParamStringValue(c) == client6.row[c].alias
SentOption1_GetParamBoolValue(c, o) == client6.row[c].sent.row[o].enabled
SentOption1_GetParam(c, o) ==
  [alias   |-> client6.row[c].sent.row[o].alias,
   enabled |-> SentOption1_GetParamBoolValue(c, o),
   tag     |-> client6.row[c].sent.row[o].tag]

CommittedOptions(c) == {o \in Rows(client6.row[c].sent) :
                          ~client6.row[c].sent.row[o].new}

---------------------------------------------------------------------------
Table6TypeOK ==
  /\ txn6.phase \in {"idle", "set", "commit", "rollback"}
  /\ \A k \in txn6.rows :
       /\ k[1] \in Rows(client6)
       /\ k[2] = "sent" => k[3] \in Rows(client6.row[k[1]].sent)
  /\ txn6.phase = "idle" <=> txn6.rows = {}
  /\ \A c \in Rows(client6) :
       /\ client6.row[c].enabled \in BOOLEAN /\ client6.row[c].new \in BOOLEAN
       /\ client6.row[c].t1 \in Times /\ client6.row[c].t2 \in Times
       /\ client6.row[c].sent.max \in Nat
  /\ g6.t1 \in Times /\ g6.t2 \in Times
  /\ file6 \subseteq Tags /\ dib6.run \in BOOLEAN

(***************************************************************************)
(* Outside a transaction the rows a management client reads for the        *)
(* backend's client are what the backend holds, option by option: no step  *)
(* of commits, rollbacks, deletions that shift the backend's array, and    *)
(* restarts in the middle of a transaction lets the two drift apart.       *)
(***************************************************************************)
ReadsWhatIsStored ==
  (txn6.phase = "idle" /\ 1 \in Rows(client6)) =>
    /\ CommittedOptions(1) = {sent6[i].inst : i \in DOMAIN sent6}
    /\ \A i \in DOMAIN sent6 :
         Stored(sent6[i].inst, SentOption1_GetParam(1, sent6[i].inst)) = sent6[i]
    /\ Client3_GetParamIntValue(1) = <<g6.t1, g6.t2>>
    /\ Client3_GetParamBoolValue(1).req = g6.req
    /\ Client3_GetParamStringValue(1) = g6.alias

(***************************************************************************)
(* dibbler serves what is committed: its option file holds the enabled     *)
(* options of the backend, the running process has read that file, and an  *)
(* enabled client runs with the committed parameters, whose timers are in  *)
(* order.                                                                  *)
(***************************************************************************)
DibblerServesCommitted ==
  /\ file6 = FileOf(sent6)
  /\ dib6.run => dib6.sent = file6
  /\ g6.enabled => /\ dib6.run /\ dib6.conf = Conf(g6)
                   /\ g6.t1 <= g6.t2

(***************************************************************************)
(* The options of the backend are distinct.                                *)
(***************************************************************************)
OptionsDistinct == Distinct(sent6)

(***************************************************************************)
(* A restart of the process, at any point of a transaction, brings back    *)
(* every delay-added client and option with its number.                    *)
(***************************************************************************)
DelayAdded(t) ==
  {<<c, 0>> : c \in NewRows(t)} \cup
  UNION {{<<c, o>> : o \in NewRows(t.row[c].sent)} : c \in Rows(t)}

RestartKeepsDelayAdded ==
  [][Dhcpv6Initialize => DelayAdded(client6') = DelayAdded(client6)]_vars6
=============================================================================
