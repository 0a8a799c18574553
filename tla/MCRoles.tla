---- MODULE MCRoles ----
(* Who may have a role, side by side: the handshake with pairing (Login),  *)
(* the passkey store (with several enrolments, and with counters), and     *)
(* roles.json; `part` says which one moves.                                *)
EXTENDS Login, RolesFile, Passkeys, TLC
CONSTANTS q1, q2, q3, k1, k2, t1, t2, d1, d2, home, away, o1, o2

VARIABLE part

From == d1 :> home @@ d2 :> away

loginVars == <<now, registry, tickets, nonces, clients, proving, dials, reloads, sessions, proofs,
               swept, probes>>

MCInit ==
  /\ Init /\ RolesInit /\ KeysInit
  /\ part \in {"passkeys", "counters", "login", "rolesfile"}

(* Bound: two tickets and credentials without counters, or one with.       *)
Counterless == \A q \in Requests : "count" \in DOMAIN requests'[q] => requests'[q].count = 0
OneEach ==
  /\ operator' # NoWork => operator'.new.pending[t2].state = "none"
  /\ \A q \in Requests : /\ "ticket" \in DOMAIN requests'[q] => requests'[q].ticket = t1
                         /\ "cred" \in DOMAIN requests'[q] => requests'[q].cred = k1

(* A store or a file that lost an update says nothing more: the part ends. *)
MCNext ==
  \/ part = "passkeys" /\ ~clobbered /\ KeysNext /\ Counterless /\ UNCHANGED <<part, loginVars, rolesVars>>
  \/ part = "counters" /\ ~clobbered /\ KeysNext /\ OneEach /\ UNCHANGED <<part, loginVars, rolesVars>>
  \/ part = "login" /\ Next /\ UNCHANGED <<part, pvars, rolesVars>>
  \/ part = "rolesfile" /\ ~lost /\ RolesNext /\ UNCHANGED <<part, pvars, loginVars>>

MCSpec == MCInit /\ [][MCNext]_<<part, pvars, loginVars, rolesVars>>

Symmetry == Permutations({q1, q2, q3}) \cup Permutations({o1, o2})
====
