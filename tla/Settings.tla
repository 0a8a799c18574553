---- MODULE Settings ----
(* The server's configuration: internal/serverconfig reads it from the      *)
(* process environment, into which godotenv puts the .env file, at boot     *)
(* without overriding what the environment already has, on every reload     *)
(* with overriding it.  A setting stands for the keys of one check: `port`  *)
(* for the required static ones, `send` and `lookup` for the dynamic ones,  *)
(* `tiers`, `gate`, `engine` and the pairs <<ENTER, EXIT>> `t1`, `t2` for   *)
(* the abuse ones.  A malformed number is Bad.                              *)
EXTENDS Integers, Sequences
CONSTANTS
  EnvFiles,      \* the .env files the operator may write
  Shells,        \* what the environment may hold at the start
  Bad,
  DefaultSend, MaxLookup,
  MaxClock, MaxEdits
VARIABLES
  wall, dotenv, stamp,       \* the clock, the file, its modification time
  shell,                     \* the process environment
  dynamic, abuse,            \* Cfg.Dynamic, Cfg.Abuse
  seenStamp, reload,         \* WatchEnvFile: lastModTime, and where a reload is
  edits,
  blind,                     \* the file changed without a later time, or before the first look
  stored                     \* the environment of the last reload that stored something
vars == <<wall, dotenv, stamp, shell, dynamic, abuse, seenStamp, reload, edits, blind, stored>>

Has(e, k) == k \in DOMAIN e /\ e[k] # Bad

(* LoadStaticConfig: what the boot insists on.                              *)
StaticLoads(e) == Has(e, "port")

(* LoadDynamicConfig: the latch of EnvLoader, then the floors.              *)
DynamicLoads(e) == Has(e, "send") /\ Has(e, "lookup")
Dynamic(e) ==
  [send |-> IF e["send"] <= 0 THEN DefaultSend ELSE e["send"],
   lookup |-> IF e["lookup"] \in 0..MaxLookup THEN e["lookup"] ELSE 0]

(* LoadAbuseConfig: the ranges of group A; with the engine on, which is the *)
(* default, the tables of the tiers, each of which must enter above its     *)
(* exit and leave above the tier below.                                     *)
Threshold == <<"t1", "t2">>
GroupA(e) ==
  /\ Has(e, "tiers") /\ e["tiers"] >= 2
  /\ Has(e, "gate") /\ e["gate"] \in 0..(e["tiers"] - 1)
  /\ "engine" \in DOMAIN e => e["engine"] \in BOOLEAN
BehaviorEnabled(e) == "engine" \notin DOMAIN e \/ e["engine"]
Mut_NoOrder(e) == \A n \in 1..(e["tiers"] - 1) : Has(e, Threshold[n])
TiersOrdered(e) ==
  \A n \in 1..(e["tiers"] - 1) :
    /\ Has(e, Threshold[n])
    /\ e[Threshold[n]][1] > e[Threshold[n]][2]
    /\ e[Threshold[n]][2] > IF n = 1 THEN 0 ELSE e[Threshold[n - 1]][1]
AbuseLoads(e) == GroupA(e) /\ (BehaviorEnabled(e) => TiersOrdered(e))
Abuse(e) ==
  [tiers |-> e["tiers"], gate |-> e["gate"],
   tables |-> [n \in 1..(IF BehaviorEnabled(e) THEN e["tiers"] - 1 ELSE 0) |-> e[Threshold[n]]]]

(* godotenv (external).                                                     *)
Put(over, under) == [k \in DOMAIN over \cup DOMAIN under |-> IF k \in DOMAIN over THEN over[k] ELSE under[k]]
Load(file, e) == Put(e, file)
Mut_NoOverride(file, e) == Put(e, file)
Overload(file, e) == Put(file, e)

(* main: a configuration that does not load ends the boot.                  *)
Boot(file, env) ==
  /\ wall = 1 /\ stamp = 1 /\ edits = 0 /\ blind = FALSE
  /\ dotenv = file /\ shell = Load(file, env)
  /\ StaticLoads(shell) /\ DynamicLoads(shell) /\ AbuseLoads(shell)
  /\ dynamic = Dynamic(shell) /\ abuse = Abuse(shell)
  /\ seenStamp = 0 /\ reload = "none" /\ stored = shell

Init == \E file \in EnvFiles, env \in Shells : Boot(file, env)

(* The operator, at any time. *)
Edit ==
  /\ edits < MaxEdits /\ edits' = edits + 1
  /\ dotenv' \in EnvFiles \ {dotenv}
  /\ stamp' = wall
  /\ blind' = (stamp = wall \/ seenStamp = 0)
  /\ UNCHANGED <<wall, shell, dynamic, abuse, seenStamp, reload, stored>>

(* WatchEnvFile, one tick: the first look only notes the time.              *)
Watch ==
  /\ reload = "none"
  /\ \/ seenStamp = 0 /\ seenStamp' = stamp /\ UNCHANGED reload
     \/ seenStamp # 0 /\ stamp > seenStamp /\ seenStamp' = stamp /\ reload' = "read"
  /\ UNCHANGED <<wall, dotenv, stamp, shell, dynamic, abuse, edits, blind, stored>>

(* ReloadDynamicConfig: the environment is changed first, whatever is in    *)
(* the file ...                                                             *)
ReadFile ==
  /\ reload = "read"
  /\ shell' = Overload(dotenv, shell)
  /\ reload' = "load"
  /\ UNCHANGED <<wall, dotenv, stamp, dynamic, abuse, seenStamp, edits, blind, stored>>

(* ... both configurations must load before the first is stored ...         *)
Mut_DynamicAlone(e) == DynamicLoads(e)
BothLoad(e) == DynamicLoads(e) /\ AbuseLoads(e)
StoreDynamic ==
  /\ reload = "load"
  /\ \/ BothLoad(shell) /\ dynamic' = Dynamic(shell) /\ stored' = shell /\ reload' = "half"
     \/ ~BothLoad(shell) /\ reload' = "none" /\ UNCHANGED <<dynamic, stored>>
  /\ UNCHANGED <<wall, dotenv, stamp, shell, abuse, seenStamp, edits, blind>>

(* ... and the second one follows in another store.                         *)
StoreAbuse ==
  /\ reload = "half"
  /\ abuse' = Abuse(shell)
  /\ reload' = "none"
  /\ UNCHANGED <<wall, dotenv, stamp, shell, dynamic, seenStamp, edits, blind, stored>>

Tick ==
  /\ wall < MaxClock /\ wall' = wall + 1
  /\ UNCHANGED <<dotenv, stamp, shell, dynamic, abuse, seenStamp, reload, edits, blind, stored>>

Next == Edit \/ Watch \/ ReadFile \/ StoreDynamic \/ StoreAbuse \/ Tick

Spec == Init /\ [][Next]_vars

(* A file with everything in it.                                            *)
Loads(e) == DynamicLoads(e) /\ AbuseLoads(e)
Complete(file) == Loads(file) /\ "engine" \in DOMAIN file

(* When the watcher has caught up with a complete file, the server runs on  *)
(* that file, whatever was in the environment, and however many files that  *)
(* did not load came before.                                                *)
SettingsFollow ==
  (reload = "none" /\ seenStamp = stamp /\ edits > 0 /\ ~blind /\ Complete(dotenv)) =>
     dynamic = Dynamic(dotenv) /\ abuse = Abuse(dotenv)

(* The two configurations that are read separately belong to one reload,    *)
(* except between its two stores: a file of which only one half loads       *)
(* changes neither.                                                         *)
OneReload ==
  reload = "none" =>
     Loads(stored) /\ dynamic = Dynamic(stored) /\ abuse = Abuse(stored)

(* Whatever the files said, the tables of the running server can be walked: *)
(* the gate's tier has a preset, and the engine, when it is on, has for     *)
(* every tier one that is entered above the point where it is left, which   *)
(* is above the tier below.                                                 *)
TablesUsable ==
  /\ abuse.gate < abuse.tiers
  /\ abuse.tables # << >> => Len(abuse.tables) = abuse.tiers - 1
  /\ \A n \in DOMAIN abuse.tables :
       /\ abuse.tables[n][1] > abuse.tables[n][2]
       /\ n > 1 => abuse.tables[n][2] > abuse.tables[n - 1][1]

(* A reload is taken whole and leaves tables that can be walked.            *)
ReloadsAreWhole == OneReload /\ TablesUsable
====
