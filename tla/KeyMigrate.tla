---- MODULE KeyMigrate ----
(* cmd/v2vctl/migrate.go: re-encrypting an identity file in place.  The new *)
(* copy is written beside the file (or to --out), the file becomes its own  *)
(* .old, and the copy is renamed onto the file's name; a rename may fail    *)
(* and the tool may be killed between any two of them.                      *)
EXTENDS Integers
CONSTANTS
  Passes,    \* the passphrases; "plain" is none
  MaxRuns
VARIABLES
  files,     \* what `in`, `old`, `copy` (the temporary file or --out) hold
  step, pass, runs
migrateVars == <<files, step, pass, runs>>

Gone == [id |-> "none", pass |-> "none"]
Key(p) == [id |-> "key", pass |-> p]

MigrateInit ==
  /\ files = [in |-> Key("plain"), old |-> Gone, copy |-> Gone]
  /\ step = "idle" /\ pass = <<"plain", "plain">> /\ runs = 0

(* The prompts: an existing .old may be overwritten only when the operator  *)
(* says so; the file is opened with its present passphrase.                 *)
Open(p) ==
  /\ step = "idle" /\ runs < MaxRuns
  /\ files.in # Gone
  /\ step' = "open" /\ pass' = <<files.in.pass, p>> /\ runs' = runs + 1
  /\ UNCHANGED files

(* Save, SaveEncrypted: atomic. *)
SaveCopy ==
  /\ step = "open"
  /\ files' = [files EXCEPT !.copy = Key(pass[2])]
  /\ step' = "saved"
  /\ UNCHANGED <<pass, runs>>

Mut_RemovesIn(f) == [f EXCEPT !.in = Gone]
BackedUp(f) == [f EXCEPT !.old = f.in, !.in = Gone]
Backup ==
  /\ step = "saved"
  /\ files' = BackedUp(files)
  /\ step' = "backed up"
  /\ UNCHANGED <<pass, runs>>

InPlace(f) == [f EXCEPT !.in = f.copy, !.copy = Gone]
Rename ==
  /\ step = "backed up"
  /\ files' = InPlace(files)
  /\ step' = "idle"
  /\ UNCHANGED <<pass, runs>>

(* A failed rename: the copy goes, and the backup gets its name back unless *)
(* that fails too.                                                          *)
RolledBack(f) == [f EXCEPT !.in = IF f.old = Gone THEN f.in ELSE f.old, !.old = Gone, !.copy = Gone]
Fail ==
  /\ \/ step = "open" /\ UNCHANGED files
     \/ step = "saved" /\ files' = [files EXCEPT !.copy = Gone]
     \/ step = "backed up" /\ files' \in {RolledBack(files), [files EXCEPT !.copy = Gone]}
  /\ step' = "idle"
  /\ UNCHANGED <<pass, runs>>

Kill == step # "idle" /\ step' = "idle" /\ UNCHANGED <<files, pass, runs>>

(* The operator, when the file is missing after a kill: the backup is put   *)
(* back by hand.                                                            *)
Restore ==
  /\ step = "idle" /\ files.in = Gone
  /\ files' = [files EXCEPT !.in = files.old, !.old = Gone]
  /\ UNCHANGED <<step, pass, runs>>

MigrateNext == (\E p \in Passes : Open(p)) \/ SaveCopy \/ Backup \/ Rename \/ Fail \/ Kill \/ Restore

MigrateSpec == MigrateInit /\ [][MigrateNext]_migrateVars

(* At every moment the identity is on disk, as the file or as its backup,   *)
(* under the passphrase it was last opened with or the one chosen then: no  *)
(* stray copy has to be searched for, and no older passphrase remembered.   *)
KeySurvives ==
  \E f \in {files.in, files.old} : f.id = "key" /\ f.pass \in {pass[1], pass[2]}
====
