------------------------------ MODULE RolesFile ------------------------------
(***************************************************************************)
(* roles.json between its two users: `v2vctl role ...` (cmd/v2vctl/role.go,*)
(* role_identity.go, lib/identity), where every command looks at the file, *)
(* may ask the operator, and then rewrites it; and the server, which polls *)
(* the modification time and replaces its registry (server/main.go,        *)
(* server/auth.go).  An editor may also leave the file unreadable.         *)
(***************************************************************************)
EXTENDS Integers, FiniteSets

CONSTANTS Operators, RoleNames, Ids, Prefixes,
  Present,   \* the roles that are there when the server boots
  MaxWrites, \* bound: rewrites of the file
  MaxPeriods \* bound: the clock, in watcher periods

VARIABLES
  period,
  roles,     \* the entries; Absent for a role that is not there
  readable,  \* whether the file parses
  mtime,
  roleRegistry, \* RoleRegistry
  lastMod,   \* lastModTime of the watcher, -1 before its first look
  operators, \* what each command is doing
  writes,
  lost,      \* history: a whole-file write replaced a version it had not read
  versions,  \* history: every content the file had
  granted,   \* history: identities added and neither deleted nor overwritten
  looks,     \* history: looks of the watcher since the file last changed
  unseen     \* history: the last change cannot be told from its time

rolesVars == <<period, roles, readable, mtime, roleRegistry, lastMod, operators, writes,
               lost, versions, granted, looks, unseen>>

Absent == [there |-> FALSE, prefix |-> "", ids |-> {}]
Entry(p, i) == [there |-> TRUE, prefix |-> p, ids |-> i]
Idle == [op |-> "idle"]

(* loadRolesMap, and the wait for a confirmation where a command asks one. *)
Look(o, c) ==
  /\ operators[o] = Idle /\ readable
  /\ c.op \in {"create", "add"} \/ (c.op = "update" /\ roles[c.role].there)
       \/ (c.op = "delete" /\ roles[c.role].there) \/ c.op = "import"
  /\ operators' = [operators EXCEPT ![o] = [op |-> "looked", cmd |-> c, seen |-> roles, stale |-> FALSE]]
  /\ UNCHANGED <<period, roles, readable, mtime, roleRegistry, lastMod, writes, lost,
                 versions, granted, looks, unseen>>

(* What each command makes of one entry: create and update keep the        *)
(* identities, add-identity keeps the rest.                                *)
Created(c, e) == Entry(c.prefix, e.ids)
Updated(c, old, e) == Entry(IF c.prefix = "" THEN old.prefix ELSE c.prefix, e.ids)
Added(c, e) == Entry(e.prefix, e.ids \cup {c.id})

Merged(c, seen, e) ==
  CASE c.op = "create" -> Created(c, e)
    [] c.op = "update" -> Updated(c, seen[c.role], e)
    [] c.op = "add"    -> Added(c, e)

Mut_RewritesSeen(cur, c, seen) == [seen EXCEPT ![c.role] = Merged(c, seen, seen[c.role])]

(* MergeRolesFile changes one entry of the file as it read it again. *)
MergedFile(cur, c, seen) == [cur EXCEPT ![c.role] = Merged(c, seen, cur[c.role])]

(* delete and import rewrite the copy they looked at. *)
Deleted(c, seen) == [seen EXCEPT ![c.role] = Absent]

Imported(c, seen) ==
  IF c.force \/ ~seen[c.role].there
  THEN [seen EXCEPT ![c.role] = Entry(c.prefix, {c.id})] ELSE seen

WholeFile(c, seen) == IF c.op = "delete" THEN Deleted(c, seen) ELSE Imported(c, seen)

Whole(c) == c.op \in {"delete", "import"}

Reread(o) ==
  /\ operators[o].op = "looked" /\ ~Whole(operators[o].cmd) /\ readable
  /\ operators' = [operators EXCEPT ![o] = [op |-> "read", cmd |-> @.cmd, seen |-> @.seen,
                                            cur |-> roles, stale |-> FALSE]]
  /\ UNCHANGED <<period, roles, readable, mtime, roleRegistry, lastMod, writes, lost,
                 versions, granted, looks, unseen>>

(* The file is replaced: the other commands' copies are now old, and the   *)
(* watcher sees it only if the time moved since its last look.             *)
Replace(new, others) ==
  /\ writes < MaxWrites /\ writes' = writes + 1
  /\ roles' = new /\ readable' = TRUE /\ mtime' = period
  /\ versions' = versions \cup {new}
  /\ operators' = [o \in Operators |->
       IF o \in others /\ operators[o] # Idle THEN [operators[o] EXCEPT !.stale = TRUE] ELSE Idle]
  /\ looks' = 0
  /\ unseen' = (lastMod < 0 \/ period <= lastMod)
  /\ UNCHANGED <<period, roleRegistry, lastMod>>

(* The command's write; create asks for --force, or for a confirmation,    *)
(* when the role is there.                                                 *)
Write(o) ==
  LET c == operators[o].cmd
      seen == operators[o].seen
      new == IF Whole(c) THEN WholeFile(c, seen) ELSE MergedFile(operators[o].cur, c, seen)
  IN
  /\ operators[o] # Idle /\ (Whole(c) \/ operators[o].op = "read")
  /\ c.op = "create" => ~seen[c.role].there \/ c.force
  /\ Replace(new, Operators \ {o})
  /\ lost' = (lost \/ operators[o].stale)
  /\ granted' =
       LET after == IF c.op = "add" THEN granted \cup {<<c.role, c.id>>}
                    ELSE IF Whole(c) /\ (c.op = "delete" \/ c.force)
                    THEN {g \in granted : g[1] # c.role} ELSE granted
       IN after

(* A refusal, an unreadable file, or the operator's No. *)
GiveUp(o) ==
  /\ operators[o] # Idle
  /\ operators' = [operators EXCEPT ![o] = Idle]
  /\ UNCHANGED <<period, roles, readable, mtime, roleRegistry, lastMod, writes, lost,
                 versions, granted, looks, unseen>>

(* An editor saves a half-finished file. *)
Spoil ==
  /\ readable /\ writes < MaxWrites /\ writes' = writes + 1
  /\ readable' = FALSE /\ mtime' = period /\ looks' = 0
  /\ unseen' = (lastMod < 0 \/ period <= lastMod)
  /\ UNCHANGED <<period, roles, roleRegistry, lastMod, operators, lost, versions, granted>>

(* ... and finishes it, with the entries it had. *)
Repair ==
  /\ ~readable
  /\ readable' = TRUE /\ mtime' = period /\ looks' = 0
  /\ unseen' = (lastMod < 0 \/ period <= lastMod)
  /\ UNCHANGED <<period, roles, roleRegistry, lastMod, operators, writes, lost, versions, granted>>

Mut_FailureClears == [r \in RoleNames |-> Absent]

(* LoadRoles: an unreadable file keeps the registry. *)
AfterFailure == roleRegistry

LoadRoles == IF readable THEN roles ELSE AfterFailure

Mut_NotStrictlyAfter(m, last) == m > last + 1

After(m, last) == m > last

(* WatchRolesFile: the first look only remembers the time. *)
Watch ==
  /\ period < MaxPeriods /\ period' = period + 1
  /\ lastMod' = IF lastMod < 0 \/ After(mtime, lastMod) THEN mtime ELSE lastMod
  /\ roleRegistry' = IF lastMod >= 0 /\ After(mtime, lastMod) THEN LoadRoles ELSE roleRegistry
  /\ looks' = 1
  /\ UNCHANGED <<roles, readable, mtime, operators, writes, lost, versions, granted, unseen>>

Commands ==
  [op : {"create"}, role : RoleNames, prefix : Prefixes \ {""}, force : BOOLEAN, id : {""}]
    \cup [op : {"update"}, role : RoleNames, prefix : Prefixes, force : {TRUE}, id : {""}]
    \cup [op : {"add"}, role : RoleNames, prefix : {""}, force : {TRUE}, id : Ids]
    \cup [op : {"import"}, role : RoleNames, prefix : {""}, force : BOOLEAN, id : Ids]
    \cup [op : {"delete"}, role : RoleNames, prefix : {""}, force : {TRUE}, id : {""}]

RolesInit ==
  /\ period = 1 /\ mtime = 0 /\ lastMod = -1 /\ writes = 0 /\ looks = 1
  /\ readable = TRUE /\ lost = FALSE /\ unseen = FALSE /\ granted = {}
  /\ roles = [r \in RoleNames |-> IF r \in Present THEN Entry("", {}) ELSE Absent]
  /\ roleRegistry = roles /\ versions = {roles}
  /\ operators = [o \in Operators |-> Idle]

RolesNext ==
  \/ \E o \in Operators : Reread(o) \/ Write(o) \/ GiveUp(o)
  \/ \E o \in Operators, c \in Commands : Look(o, c)
  \/ Spoil \/ Repair \/ Watch

RolesSpec == RolesInit /\ [][RolesNext]_rolesVars

-----------------------------------------------------------------------------
(* An identity that a command added stays until its role is deleted or     *)
(* imported over: creating the role again, updating it and every command   *)
(* on other roles keep it, whatever they looked at before.  A write over a *)
(* version its command did not read may lose it: a delete or an import     *)
(* that waited for its operator.                                           *)
IdentityStays == ~lost => \A g \in granted : g[2] \in roles[g[1]].ids

(* Once the watcher has looked at a readable file it enforces that file,   *)
(* unless the change came before its first look or within the time of the  *)
(* one before.                                                             *)
RegistryFollows == looks >= 1 /\ readable /\ ~unseen => roleRegistry = roles

(* The registry always is a content roles.json had, never a part of one.   *)
RegistryWasFile == roleRegistry \in versions

(* roles.json and the registry settle: no command drops what another one   *)
(* granted, and the server enforces the file, whole.                       *)
RolesSettle == IdentityStays /\ RegistryFollows /\ RegistryWasFile
=============================================================================
