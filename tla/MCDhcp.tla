-------------------------------- MODULE MCDhcp --------------------------------
(***************************************************************************)
(* The DHCPv4 and the DHCPv6 tables share nothing: a behaviour works on    *)
(* one family, chosen in the initial state.                                *)
(***************************************************************************)
EXTENDS Dhcpv6Tables, Dhcpv4Tables

CONSTANTS Families,      \* the families of the run
          MaxTableOps,   \* rows added or deleted and parameters set
          MaxRestarts    \* restarts of the process

VARIABLES family, ops, restarts,
          torn           \* a restart came between two commits of a transaction

mcvars == <<vars6, vars4, family, ops, restarts, torn>>

MCAliases == {<<"SentOption", 2>>}
MCStored  == {<<>>, <<[inst |-> 1, alias |-> <<"SentOption", 1>>,
                       enabled |-> TRUE, tag |-> 1]>>}

MCInit ==
  /\ Init6 /\ Init4
  /\ family \in Families
  /\ ops = 0 /\ restarts = 0 /\ torn = FALSE

TableOp == ops < MaxTableOps /\ ops' = ops + 1 /\ UNCHANGED restarts
Process == restarts < MaxRestarts /\ restarts' = restarts + 1 /\ UNCHANGED ops

MCNext ==
  /\ \/ /\ family = "v6" /\ UNCHANGED vars4
        /\ \/ Table6 /\ TableOp
           \/ EndTransaction6 /\ UNCHANGED <<ops, restarts>>
           \/ Dhcpv6Initialize /\ Process
        /\ torn' = (torn \/ (restarts' > restarts /\ txn6.phase = "commit"))
     \/ /\ family = "v4" /\ UNCHANGED <<vars6, torn>>
        /\ \/ Table4 /\ TableOp
           \/ EndTransaction4 /\ UNCHANGED <<ops, restarts>>
           \/ Dhcpv4Initialize /\ Process
  /\ UNCHANGED family

(***************************************************************************)
(* Validation keeps the committed options apart: SentOption1_Validate looks *)
(* at what is staged in memory, so two rows that swap a tag in one request *)
(* are accepted, and only a restart between their commits lets the backend *)
(* keep both.                                                              *)
(***************************************************************************)
CommittedOptionsDistinct ==
  (family = "v6" /\ txn6.phase = "idle" /\ ~torn) => OptionsDistinct

(***************************************************************************)
(* The alias buffers of all tables are empty between transactions: a       *)
(* leftover would be written into another row when a later request is      *)
(* refused.                                                                *)
(***************************************************************************)
AliasBuffersEmpty ==
  /\ txn4.phase = "idle" =>
       /\ client4.old = NoAlias
       /\ \A c \in Rows(client4) : \A k \in OptionTables :
            client4.row[c].opt[k].old = NoAlias
  /\ txn6.phase = "idle" =>
       /\ client6.old = NoAlias
       /\ \A c \in Rows(client6) : client6.row[c].sent.old = NoAlias

MCSpec == MCInit /\ [][MCNext]_mcvars
==============================================================================
