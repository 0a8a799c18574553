---- MODULE ConfigSync ----
(* cmd/v2vctl: `config sync`, `config take` and `instance init`, which      *)
(* bring an instance's files up to the release's templates.  A command      *)
(* reads and merges every file first, shows the difference (in a pager: the *)
(* operator may take long), and then replaces one file after another;       *)
(* another command may write roles.json meanwhile.                          *)
EXTENDS Integers, Sequences, FiniteSets
CONSTANTS
  Envs,        \* the .env files an operator may start from
  RoleNames,   \* the entries of roles.json that commands add
  Templates,   \* the releases: [env, roles, trust, client]
  Policy,      \* add_policy env "comment", and
  Skip,        \* add_policy roles "skip"
  PortKey,     \* the key `instance init --port` sets
  Spaced,
  MaxCommands, MaxChanges
VARIABLES
  present,     \* the instance's directory exists
  disk,        \* its files: [env, roles, trust, client, noted]
  release,     \* the template in place
  cmd,         \* the command that runs, or Idle
  picked,      \* the entries chosen in `config take`: none or one
  commands, changes,
  before,      \* the files the last command read,
  touched,     \* the roles written since, and
  enabled      \* the keys somebody made active
vars == <<present, disk, release, cmd, picked, commands, changes, before, touched, enabled>>

M == INSTANCE ConfigMerge
Idle == [kind |-> "idle", plan |-> << >>, select |-> {}, take |-> {}, whole |-> FALSE, port |-> 0]
Empty == [x \in {} |-> {}]
Nothing == [env |-> << >>, roles |-> Empty, trust |-> {}, client |-> Empty, noted |-> FALSE]
Files == <<"env", "roles", "trust", "client">>

(* selectFiles: without --only, everything but the client's file.           *)
Selections == {{"env", "roles", "trust"}, {"env"}, {"client"}}

(* parseTakeSpec: a key the template does not have is refused.              *)
Takeable == M!AllKeys(release.env)

(* mergeAll: every selected file, from one look at the disk.                *)
Merged(f, take, whole) ==
  CASE f = "env" -> M!MergeEnv(disk.env, release.env, take, Policy)
    [] f = "roles" -> M!MergeJSON(disk.roles, release.roles, {}, Skip)
    [] f = "trust" -> M!MergeTrust(disk.trust, release.trust, whole)
    [] f = "client" -> M!MergeJSON(disk.client, release.client, {}, {})

(* A file with comments never equals what is rendered from it.              *)
Differs(f, take, whole) ==
  disk[f] # Merged(f, take, whole) \/ (f = "client" /\ disk.noted)

Plan(select, take, whole) ==
  SelectSeq(Files, LAMBDA f : f \in select /\ Differs(f, take, whole))

(* The refusals of mergeAll and of ConfigSyncCmd.Run, before any write.     *)
Refused(select, take, whole, yes, force) ==
  \/ ~(take \subseteq Takeable)
  \/ whole /\ release.trust = {}
  \/ "env" \in select /\ ~M!Verified(disk.env, release.env, take, Policy)
  \/ "client" \in select /\ Differs("client", take, whole) /\ ~force
  \/ ~yes /\ ((take # {} /\ M!Dropped(disk.env, take) # {}) \/ (whole /\ disk.trust # {}))

(* What the command has settled on: its writes, with what each will write.  *)
Begin(kind, select, take, whole, port) ==
  /\ cmd' = [kind |-> kind, select |-> select, take |-> take, whole |-> whole, port |-> port,
             plan |-> LET p == Plan(select, take, whole)
                      IN  [i \in DOMAIN p |-> <<p[i], Merged(p[i], take, whole)>>]]
  /\ before' = disk
  /\ touched' = {}
  /\ commands' = commands + 1

(* ConfigSyncCmd.Run. *)
Sync(select, take, whole, yes, force) ==
  /\ cmd = Idle /\ picked = {} /\ commands < MaxCommands
  /\ (take # {} => "env" \in select) /\ (whole => "trust" \in select)
  /\ ~Refused(select, take, whole, yes, force)
  /\ Begin("sync", select, take, whole, 0)
  /\ UNCHANGED <<present, disk, release, picked, changes, enabled>>

(* takeCandidates and the picker of ConfigTakeCmd.Run: some of what drifted *)
Candidates == M!Overlay(disk.env, release.env).overridden
Pick(take, whole) ==
  /\ cmd = Idle /\ picked = {} /\ commands < MaxCommands
  /\ take \subseteq Candidates
  /\ whole => disk.trust \ release.trust # {}
  /\ take # {} \/ whole
  /\ picked' = {[take |-> take, whole |-> whole]}
  /\ UNCHANGED <<present, disk, release, cmd, commands, changes, before, touched, enabled>>

(* ... and the sync it starts, which looks at everything again.             *)
Take ==
  /\ picked # {}
  /\ picked' = {}
  /\ LET files == {"env", "roles", "trust"}
     IN  \E p \in picked :
           IF Refused(files, p.take, p.whole, TRUE, FALSE)
           THEN /\ commands' = commands + 1
                /\ UNCHANGED <<cmd, before, touched>>
           ELSE Begin("sync", files, p.take, p.whole, 0)
  /\ UNCHANGED <<present, disk, release, changes, enabled>>

(* InstanceInitCmd.initOne. *)
InitOne(port) ==
  /\ cmd = Idle /\ picked = {} /\ commands < MaxCommands
  /\ ~present
  /\ ~Refused({"env", "roles", "trust"}, {}, FALSE, FALSE, FALSE)
  /\ Begin("init", {"env", "roles", "trust"}, {}, FALSE, port)
  /\ UNCHANGED <<present, disk, release, picked, changes, enabled>>

(* writeConfigFile: one file is replaced as a whole.                        *)
Replaced ==
  LET w == Head(cmd.plan)
  IN  [disk EXCEPT ![w[1]] = w[2], !.noted = @ /\ w[1] # "client"]
NowEnabled == enabled \cup (cmd.take \cap M!KeysOf(Replaced.env, "active"))
Write ==
  /\ cmd.plan # << >>
  /\ disk' = Replaced
  /\ present' = TRUE
  /\ enabled' = NowEnabled
  /\ cmd' = [cmd EXCEPT !.plan = Tail(@)]
  /\ UNCHANGED <<release, picked, commands, changes, before, touched>>

(* setEnvValue at the end of `instance init`. *)
SetPort ==
  /\ cmd.kind = "init" /\ cmd.plan = << >> /\ cmd.port # 0
  /\ disk' = [disk EXCEPT !.env = M!SetEnv(@, PortKey, <<cmd.port, 0>>)]
  /\ enabled' = enabled \cup {PortKey}
  /\ cmd' = [cmd EXCEPT !.kind = "ready"]
  /\ UNCHANGED <<present, release, picked, commands, changes, before, touched>>

Finish ==
  /\ cmd # Idle /\ cmd.plan = << >>
  /\ cmd.kind = "init" => cmd.port = 0
  /\ cmd' = Idle
  /\ UNCHANGED <<present, disk, release, picked, commands, changes, before, touched, enabled>>

(* A write fails, before or after the file was replaced: the rest is not    *)
(* written; a failed `instance init` removes what it made.                  *)
Fail ==
  /\ cmd # Idle /\ (cmd.plan # << >> \/ cmd.kind = "init")
  /\ cmd' = Idle
  /\ IF cmd.kind = "init"
     THEN disk' = Nothing /\ present' = FALSE /\ UNCHANGED enabled
     ELSE /\ disk' \in {disk, Replaced}
          /\ enabled' = IF disk' = disk THEN enabled ELSE NowEnabled
          /\ UNCHANGED present
  /\ UNCHANGED <<release, picked, commands, changes, before, touched>>

(* The command is killed between two writes: nothing is cleaned up.         *)
Kill ==
  /\ cmd # Idle
  /\ cmd' = Idle
  /\ UNCHANGED <<present, disk, release, picked, commands, changes, before, touched, enabled>>

(* Meanwhile: a new release; the operator's editor, between commands; a     *)
(* `v2vctl role` command, which may also run in the sync's pager.           *)
Change(d) == changes < MaxChanges /\ changes' = changes + 1 /\ disk' = d
Upgrade ==
  /\ changes < MaxChanges /\ changes' = changes + 1
  /\ cmd = Idle
  /\ release' \in Templates \ {release}
  /\ UNCHANGED <<present, disk, cmd, picked, commands, before, touched, enabled>>
Edit(i, kind) ==
  /\ cmd = Idle /\ i \in DOMAIN disk.env /\ disk.env[i].kind # "prose"
  /\ disk.env[i].kind # kind
  /\ Change([disk EXCEPT !.env[i].kind = kind])
  /\ enabled' = enabled \cup (IF kind = "active" THEN {disk.env[i].key} ELSE {})
  /\ UNCHANGED <<present, release, cmd, picked, commands, before, touched>>
WriteRole(r) ==
  /\ present
  /\ Change([disk EXCEPT !.roles = [x \in DOMAIN @ \cup {r} |-> IF x = r THEN "mine" ELSE @[x]]])
  /\ touched' = touched \cup {r}
  /\ UNCHANGED <<present, release, cmd, picked, commands, before, enabled>>

Init ==
  /\ release \in Templates
  /\ \/ present = FALSE /\ disk = Nothing
     \/ /\ present = TRUE
        /\ \E e \in Envs :
             disk = [env |-> e, roles |-> [r \in {"admin"} |-> "mine"], trust |-> {"old"},
                     client |-> [c \in {"theme"} |-> "mine"], noted |-> TRUE]
  /\ cmd = Idle /\ picked = {} /\ commands = 0 /\ changes = 0
  /\ before = disk /\ touched = {}
  /\ enabled = M!KeysOf(disk.env, "active")

Next ==
  \/ \E s \in Selections, take \in SUBSET Takeable, whole, yes, force \in BOOLEAN :
       Sync(s, take, whole, yes, force)
  \/ \E take \in SUBSET Candidates, whole \in BOOLEAN : Pick(take, whole)
  \/ Take
  \/ \E port \in {0, 2} : InitOne(port)
  \/ Write \/ SetPort \/ Finish \/ Fail \/ Kill \/ Upgrade
  \/ \E i \in DOMAIN disk.env, kind \in {"active", "commented"} : Edit(i, kind)
  \/ \E r \in RoleNames : WriteRole(r)

Spec == Init /\ [][Next]_vars

-----------------------------------------------------------------------------
(* However far a sync has come, every setting of the operator that was not  *)
(* taken still has its value, as the server will load it (a quoted value    *)
(* with a comment behind it is the exception); entries of the other files   *)
(* stay too, except a role written while the sync ran.                      *)
Misread(l) == l.quoted /\ l.note
LocalValuesWin ==
  cmd.kind = "sync" =>
    /\ \A k \in DOMAIN M!Loaded(before.env) \ cmd.take :
         /\ k \in DOMAIN M!Loaded(disk.env)
         /\ (\A i \in DOMAIN before.env : before.env[i].key = k => ~Misread(before.env[i])) =>
               M!Loaded(disk.env)[k] = M!Loaded(before.env)[k]
    /\ \A r \in DOMAIN before.roles \ touched :
         r \in DOMAIN disk.roles /\ disk.roles[r] = before.roles[r]
    /\ ~cmd.whole => before.trust \subseteq disk.trust

(* A key the manifest adds only as a comment becomes active only by the     *)
(* operator's hand: an edit, or an explicit take.                           *)
CommentedOnAdd == M!KeysOf(disk.env, "active") \cap Policy \subseteq enabled

(* A sync that stops anywhere is made good by running it again: whatever it *)
(* has written by then, the same merge is what a rerun sets out to write,   *)
(* and a file it is done with is in sync.  (When the rendered template ends *)
(* in comments, the first key of the operator's own that follows takes them *)
(* for its own, and every run writes them once more.)                       *)
EndsInEntry ==
  LET l == release.env[Len(release.env)] IN l.kind = "active" /\ l.key \notin Policy
RerunSettles ==
  (cmd.kind = "sync" /\ EndsInEntry /\ touched = {}) =>
     LET ahead == {cmd.plan[i][1] : i \in DOMAIN cmd.plan}
     IN  /\ \A i \in DOMAIN cmd.plan : Merged(cmd.plan[i][1], cmd.take, cmd.whole) = cmd.plan[i][2]
         /\ \A f \in cmd.select \ ahead : Merged(f, {}, FALSE) = disk[f]

(* A completed `config take` or --prefer-template: the keys have what the   *)
(* template gives them, and are off when it has them off.                   *)
TakeResets ==
  (cmd.kind = "sync" /\ cmd.plan = << >>) =>
     /\ \A k \in cmd.take :
          IF k \in DOMAIN M!Values(release.env)
          THEN k \in DOMAIN M!Values(disk.env) /\ M!Values(disk.env)[k] = M!Values(release.env)[k]
          ELSE k \notin DOMAIN M!Values(disk.env)
     /\ cmd.whole => disk.trust = release.trust

(* A new instance listens where the operator said it should. *)
PortIsSet ==
  cmd.kind = "ready" =>
     /\ PortKey \in DOMAIN M!Loaded(disk.env)
     /\ M!Loaded(disk.env)[PortKey] = <<cmd.port, 0>>

(* What the operator set survives every sync, take and init, killed or not, *)
(* and each of them delivers what it promised.                              *)
FilesAreKept == LocalValuesWin /\ CommentedOnAdd /\ RerunSettles /\ TakeResets /\ PortIsSet
====
