----------------------------- MODULE DhcpTables -----------------------------
(***************************************************************************)
(* What the DHCP data model tables have in common: the client table of     *)
(* DHCPv4 and of DHCPv6 and the option tables under every client are       *)
(* lists of context links kept in instance number order, with              *)
(*   max  the last instance number handed out (maxInstanceOf...),          *)
(*   old  the one buffer all the rows of the table share for the alias a   *)
(*        row had before the transaction (AliasOf...), empty when unused.  *)
(* A row is created "new" (bNew: delay-added) and stays new until a commit *)
(* of the row is accepted by the backend.                                  *)
(* The management framework groups the parameters set by one request into  *)
(* a transaction: it sets them, validates every row it touched and then    *)
(* commits all of them or rolls all of them back.                          *)
(***************************************************************************)
EXTENDS Naturals, Sequences, FiniteSets, TLC

CONSTANT UlongLimit      \* the largest value of an instance number (ULONG)

ASSUME UlongAssumption == UlongLimit \in Nat \ {0}

NoAlias == <<>>                          \* an alias buffer that holds nothing

EmptyTable == [row |-> <<>>, max |-> 0, old |-> NoAlias]

Rows(t) == DOMAIN t.row
NewRows(t) == {n \in Rows(t) : t.row[n].new}

(***************************************************************************)
(* `if ( !++max ) max = 1`: the number after max, 0 is never a number.     *)
(***************************************************************************)
NextInstance(max) == IF max = UlongLimit THEN 1 ELSE max + 1

(***************************************************************************)
(* SListPushEntryByInsNum and AnscSListPopEntryByLink.                     *)
(***************************************************************************)
PushEntry(t, n, r) ==
  [t EXCEPT !.row = [m \in DOMAIN @ \cup {n} |-> IF m = n THEN r ELSE @[m]]]
PopEntry(t, n) == [t EXCEPT !.row = [m \in DOMAIN @ \ {n} |-> @[m]]]

AddRow(t, r) ==
  LET n == NextInstance(t.max) IN [PushEntry(t, n, r) EXCEPT !.max = n]

(***************************************************************************)
(* Setting an alias first saves the one it replaces, in the buffer of the  *)
(* table: a second alias set in the same transaction replaces it there.    *)
(***************************************************************************)
SetAlias(t, n, alias) ==
  [t EXCEPT !.old = t.row[n].alias, !.row[n].alias = alias]

AliasFree(t, n) == \A m \in Rows(t) \ {n} : t.row[m].alias # t.row[n].alias

RestoreAlias(t, n) ==
  IF t.old = NoAlias THEN t ELSE [t EXCEPT !.row[n].alias = t.old]

ZeroAlias(t) == [t EXCEPT !.old = NoAlias]

(***************************************************************************)
(* The transaction: "idle", parameters being "set", the rows it touched    *)
(* being committed or rolled back one after the other.  A row is named by  *)
(* <<client, table, number>>; the number of a client's own row is 0.       *)
(***************************************************************************)
TxnIdle == [phase |-> "idle", rows |-> {}]

Touched(txn, key) == [phase |-> "set", rows |-> txn.rows \cup {key}]

Done(txn, key) ==
  IF txn.rows = {key} THEN TxnIdle ELSE [txn EXCEPT !.rows = @ \ {key}]

Validated(txn, ok) == [txn EXCEPT !.phase = IF ok THEN "commit" ELSE "rollback"]

MaySet(txn)  == txn.phase \in {"idle", "set"}
=============================================================================
