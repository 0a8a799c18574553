---- MODULE MCOperator ----
(* What the operator does to the server's files: `v2vctl config sync`,      *)
(* `config take` and `instance init`, `v2vctl migrate`, and edits of .env   *)
(* while the server runs; `area` says which of them moves.                  *)
EXTENDS Settings, KeyMigrate, TLC
VARIABLES area,
  present, disk, release, cmd, picked, commands, changes, before, touched, enabled

(* Three keys: the port, a key the manifest only adds as a comment, and one *)
(* that the second release drops.                                           *)
E(k, v)  == [kind |-> "active", key |-> k, val |-> <<v, 0>>, quoted |-> FALSE, note |-> FALSE]
Q(k, v)  == [E(k, v) EXCEPT !.quoted = TRUE]
C(k, v)  == [E(k, v) EXCEPT !.kind = "commented"]
Prose    == [E(0, 0) EXCEPT !.kind = "prose"]
LocalLines == {[Q(1, 3) EXCEPT !.note = TRUE], E(1, 1), E(1, 2), E(2, 2), C(2, 2), E(3, 3), E(4, 1)}
Releases == {
  [env |-> <<Prose, E(2, 1), C(3, 1), E(1, 1)>>, roles |-> [r \in {"admin", "mod"} |-> "shipped"],
   trust |-> {"cdn"}, client |-> [c \in {"theme", "keys"} |-> "shipped"]],
  [env |-> <<Q(1, 1), Prose, E(3, 2), E(2, 1)>>, roles |-> [r \in {"mod"} |-> "shipped"],
   trust |-> {}, client |-> [c \in {"theme"} |-> "shipped"]]}
S == INSTANCE ConfigSync WITH
  Envs <- {<<a, b>> : a \in LocalLines, b \in LocalLines}, RoleNames <- {"ops"},
  Templates <- Releases, Policy <- {2}, Skip <- {"mod"}, PortKey <- 1, Spaced <- {3},
  MaxCommands <- 2, MaxChanges <- 1

(* Files with two tiers and with three, one that leaves keys to the         *)
(* environment, and files with one half malformed or out of order.          *)
Two   == [port |-> 1, send |-> 0, lookup |-> 9, tiers |-> 2, gate |-> 1, engine |-> TRUE, t1 |-> <<4, 2>>]
Three == [port |-> 1, send |-> 2, lookup |-> 3, tiers |-> 3, gate |-> 2, engine |-> TRUE,
          t1 |-> <<4, 2>>, t2 |-> <<7, 5>>]
Off   == [port |-> 1, send |-> 1, lookup |-> 2, tiers |-> 3, gate |-> 0, engine |-> FALSE]
Dotenvs == {Two, Three, Off, [send |-> 3, tiers |-> 2],
  [Two EXCEPT !.send = Bad], [Three EXCEPT !.send = 1, !.t2 = <<7, 4>>],
  [Two EXCEPT !.send = 4, !.gate = 2], [Three EXCEPT !.send = 5, !.t1 = Bad]}
NoEnv == [k \in {} |-> 0]
Starts == {NoEnv, [send |-> 7], [gate |-> 0]}

syncVars == <<present, disk, release, cmd, picked, commands, changes, before, touched, enabled>>

MCInit ==
  /\ MigrateInit /\ S!Init
  /\ area \in {"sync", "keys", "settings"}
  /\ area # "sync" => ~present /\ release = (CHOOSE r \in Releases : TRUE)
  /\ IF area = "settings" THEN Init ELSE Boot(Two, NoEnv)
MCNext ==
  \/ area = "sync" /\ S!Next /\ UNCHANGED <<area, migrateVars, vars>>
  \/ area = "keys" /\ MigrateNext /\ UNCHANGED <<area, syncVars, vars>>
  \/ area = "settings" /\ Next /\ UNCHANGED <<area, syncVars, migrateVars>>
MCSpec == MCInit /\ [][MCNext]_<<area, syncVars, migrateVars, vars>>

(* The property of the commands on the configuration. *)
FilesAreKept == S!FilesAreKept
====
