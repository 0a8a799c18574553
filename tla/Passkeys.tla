------------------------------ MODULE Passkeys ------------------------------
(***************************************************************************)
(* The passkey store (server/webauthn_store.go) and the handlers that use  *)
(* it: enrolment over HTTP (server/webauthn_http.go), the sign counter of  *)
(* a login (server/auth.go, server/pair_submit.go), and `v2vctl enroll`    *)
(* (cmd/v2vctl/enroll.go, list.go), which writes the same file from        *)
(* another process.  A mutation loads the file, changes the copy and       *)
(* replaces the file; the server's are serialised by its own mutex, which  *)
(* the operator's process does not take.                                   *)
(***************************************************************************)
EXTENDS Integers, FiniteSets

CONSTANTS
  KeyRoles, Creds,
  Invites,   \* enrolment tickets
  Requests,  \* HTTP requests and handshakes being served
  TTL,       \* lifetime of a ticket
  MaxCount,  \* bound: sign counters
  MaxTime    \* bound: the clock

VARIABLES
  clock,
  file,      \* webauthn.json: pending tickets and credentials per role
  server,    \* the mutation the server's mutex is held for
  operator,  \* the copy `v2vctl enroll` has loaded
  requests,  \* what each request is doing
  clobbered, \* history: a write replaced a version it had not read
  enrolled,  \* history: the credentials each ticket stored and acknowledged
  lastCount, \* history: the last counter a login of each credential presented
  repeated   \* history: a login was granted on a counter not above it

pvars == <<clock, file, server, operator, requests, clobbered, enrolled, lastCount, repeated>>

NoWork == [op |-> "idle"]
NoTicket == [state |-> "none", role |-> "none", expires |-> 0, challenge |-> "none"]
NotStored == -1   \* a credential the file does not have

(* findPending: the first answer is that the ticket is used, the second    *)
(* that it is unknown or out of time.                                      *)
Mut_UsedStillFound(f, t) ==
  f.pending[t].state # "none" /\ clock <= f.pending[t].expires

FindPending(f, t) ==
  f.pending[t].state = "open" /\ clock <= f.pending[t].expires

(* PruneExpired *)
Pruned(f) ==
  [f EXCEPT !.pending = [t \in Invites |->
     IF f.pending[t].state = "used" \/ clock > f.pending[t].expires THEN NoTicket ELSE f.pending[t]]]

(* BindChallenge: the first begin wins for the ticket's lifetime. *)
Mut_Rebinds(f, t) == FindPending(f, t)

Bindable(f, t) == FindPending(f, t) /\ f.pending[t].challenge = "none"

(* CompleteEnrollment *)
Completable(f, t, k) == FindPending(f, t) /\ f.creds[f.pending[t].role][k] = NotStored

Mut_ReplacesList(f, t, k, n) ==
  [f EXCEPT !.pending[t].state = "used",
            !.creds[f.pending[t].role] = [c \in Creds |-> IF c = k THEN n ELSE NotStored]]

Completed(f, t, k, n) ==
  [f EXCEPT !.pending[t].state = "used", !.creds[f.pending[t].role][k] = n]

(* UpdateSignCount: two non-zero counters must increase. *)
Mut_CountUnchecked(old, n) == TRUE

Increases(old, n) == n = 0 \/ old = 0 \/ n > old

-----------------------------------------------------------------------------
(* mutate: load and change under the mutex ... *)
Load(q, new) ==
  /\ server = NoWork
  /\ server' = [op |-> "save", for |-> q, new |-> new, stale |-> FALSE]
  /\ UNCHANGED <<clock, file, operator, clobbered, enrolled, lastCount, repeated>>

(* handleEnrollBegin: prune, then bind a fresh challenge; the challenge of  *)
(* a request is its own name.                                              *)
BeginEnroll(q, t) ==
  /\ requests[q] = NoWork
  /\ requests' = [requests EXCEPT ![q] = [op |-> "prune", ticket |-> t]]
  /\ Load(q, Pruned(file))

Bind(q) ==
  LET r == requests[q] IN
  /\ r.op = "bind"
  /\ IF Bindable(file, r.ticket)
     THEN /\ requests' = [requests EXCEPT ![q].op = "binding"]
          /\ Load(q, [file EXCEPT !.pending[r.ticket].challenge = q])
     ELSE /\ requests' = [requests EXCEPT ![q] = NoWork]
          /\ server = NoWork
          /\ UNCHANGED <<clock, file, server, operator, clobbered, enrolled, lastCount, repeated>>

(* handleEnrollFinish: PendingInfo, the library's check of the ceremony     *)
(* against the bound challenge, CompleteEnrollment.  The browser signed    *)
(* the challenge the begin request `b` was answered with.                  *)
FinishEnroll(q, b, k, n) ==
  LET t == requests[b].ticket IN
  /\ requests[q] = NoWork /\ requests[b].op = "bound" /\ server = NoWork
  /\ FindPending(file, t) /\ file.pending[t].challenge = b
  /\ requests' = [requests EXCEPT ![q] = [op |-> "complete", ticket |-> t, cred |-> k, count |-> n]]
  /\ UNCHANGED <<clock, file, server, operator, clobbered, enrolled, lastCount, repeated>>

Complete(q) ==
  LET r == requests[q] IN
  /\ r.op = "complete"
  /\ IF Completable(file, r.ticket, r.cred)
     THEN /\ requests' = [requests EXCEPT ![q] =
               [op |-> "completing", ticket |-> r.ticket, cred |-> r.cred,
                role |-> file.pending[r.ticket].role]]
          /\ Load(q, Completed(file, r.ticket, r.cred, r.count))
     ELSE /\ requests' = [requests EXCEPT ![q] = NoWork]
          /\ server = NoWork
          /\ UNCHANGED <<clock, file, server, operator, clobbered, enrolled, lastCount, repeated>>

(* A login, direct or through a pairing: the credential is read, the       *)
(* assertion verifies, and the counter is checked against what was read.   *)
LogIn(q, r, k, n) ==
  /\ requests[q] = NoWork /\ server = NoWork
  /\ file.creds[r][k] # NotStored /\ Increases(file.creds[r][k], n)
  /\ requests' = [requests EXCEPT ![q] = [op |-> "count", role |-> r, cred |-> k, count |-> n]]
  /\ UNCHANGED <<clock, file, server, operator, clobbered, enrolled, lastCount, repeated>>

(* ... and a non-zero counter is persisted before access is granted. *)
Count(q) ==
  LET r == requests[q]
      old == file.creds[r.role][r.cred]
  IN
  /\ r.op = "count"
  /\ \/ /\ r.count # 0 /\ old # NotStored /\ Increases(old, r.count)
        /\ requests' = [requests EXCEPT ![q].op = "counting"]
        /\ Load(q, [file EXCEPT !.creds[r.role][r.cred] = r.count])
     \/ /\ server = NoWork
        /\ r.count = 0 \/ old = NotStored \/ ~Increases(old, r.count)
        /\ requests' = [requests EXCEPT ![q] = NoWork]
        /\ UNCHANGED <<clock, file, server, operator, clobbered, enrolled, lastCount, repeated>>

(* A copy loaded before the file was replaced. *)
Outdated(copy) == IF copy = NoWork THEN NoWork ELSE [copy EXCEPT !.stale = TRUE]

(* What the handler does once the file is replaced. *)
Answered(r) ==
  CASE r.op = "prune"   -> [op |-> "bind", ticket |-> r.ticket]
    [] r.op = "binding" -> [op |-> "bound", ticket |-> r.ticket]
    [] OTHER            -> NoWork

(* ... saveFile: an atomic replacement of whatever is there by now. *)
Save ==
  LET q == server.for
      r == requests[q]
  IN
  /\ server # NoWork
  /\ file' = server.new /\ server' = NoWork
  /\ clobbered' = (clobbered \/ server.stale)
  /\ operator' = Outdated(operator)
  /\ requests' = [requests EXCEPT ![q] = Answered(r)]
  /\ enrolled' = IF r.op = "completing"
                 THEN [enrolled EXCEPT ![r.ticket] = @ \cup {<<r.role, r.cred>>}] ELSE enrolled
  /\ lastCount' = IF r.op = "counting" THEN [lastCount EXCEPT ![r.role][r.cred] = r.count]
                  ELSE lastCount
  /\ repeated' = (repeated \/ (r.op = "counting" /\ r.count <= lastCount[r.role][r.cred]))
  /\ UNCHANGED clock

(* A begin request is over when its page is closed. *)
Close(q) ==
  /\ requests[q].op = "bound"
  /\ requests' = [requests EXCEPT ![q] = NoWork]
  /\ UNCHANGED <<clock, file, server, operator, clobbered, enrolled, lastCount, repeated>>

(* `v2vctl enroll`: loadStore, append a ticket, saveStore. *)
OperatorLoad(t, r) ==
  /\ operator = NoWork /\ file.pending[t].state = "none" /\ enrolled[t] = {}
  /\ \A q \in Requests : "ticket" \in DOMAIN requests[q] => requests[q].ticket # t
  /\ operator' = [op |-> "save", stale |-> FALSE, new |->
       [file EXCEPT !.pending[t] =
          [state |-> "open", role |-> r, expires |-> clock + TTL, challenge |-> "none"]]]
  /\ UNCHANGED <<clock, file, server, requests, clobbered, enrolled, lastCount, repeated>>

OperatorSave ==
  /\ operator # NoWork
  /\ file' = operator.new /\ operator' = NoWork
  /\ clobbered' = (clobbered \/ operator.stale)
  /\ server' = Outdated(server)
  /\ UNCHANGED <<clock, requests, enrolled, lastCount, repeated>>

KeysTick ==
  /\ clock < MaxTime /\ clock' = clock + 1
  /\ UNCHANGED <<file, server, operator, requests, clobbered, enrolled, lastCount, repeated>>

KeysInit ==
  /\ clock = 0 /\ server = NoWork /\ operator = NoWork /\ clobbered = FALSE /\ repeated = FALSE
  /\ file = [pending |-> [t \in Invites |-> NoTicket],
             creds |-> [r \in KeyRoles |-> [k \in Creds |-> NotStored]]]
  /\ requests = [q \in Requests |-> NoWork]
  /\ enrolled = [t \in Invites |-> {}]
  /\ lastCount = [r \in KeyRoles |-> [k \in Creds |-> 0]]

KeysNext ==
  \/ \E q \in Requests, t \in Invites : BeginEnroll(q, t)
  \/ \E q, b \in Requests, k \in Creds, n \in 0..MaxCount : FinishEnroll(q, b, k, n)
  \/ \E q \in Requests, r \in KeyRoles, k \in Creds, n \in 0..MaxCount : LogIn(q, r, k, n)
  \/ \E q \in Requests : Bind(q) \/ Complete(q) \/ Count(q) \/ Close(q)
  \/ \E t \in Invites, r \in KeyRoles : OperatorLoad(t, r)
  \/ Save \/ OperatorSave \/ KeysTick

KeysSpec == KeysInit /\ [][KeysNext]_pvars

-----------------------------------------------------------------------------
(* A credential whose enrolment was acknowledged stays in the store,       *)
(* whatever tickets, logins and prunes run beside it; only a write of the  *)
(* other process over a version it had not read may lose it.               *)
EnrolledSticks ==
  ~clobbered => \A t \in Invites : \A e \in enrolled[t] : file.creds[e[1]][e[2]] # NotStored

(* A ticket enrols one credential, also when several finishes passed the   *)
(* ceremony check before the first of them was stored.                     *)
OnePerTicket == ~clobbered => \A t \in Invites : Cardinality(enrolled[t]) <= 1

(* A second begin never moves the challenge under a ceremony in flight.    *)
ChallengeStays ==
  ~clobbered =>
    \A q \in Requests : requests[q].op = "bound" =>
      LET p == file.pending[requests[q].ticket] IN p.state = "open" => p.challenge = q

(* Two logins of a credential never pass on the same counter, or on an     *)
(* older one after a newer one, even when both read the store first.       *)
CounterGrows == repeated => clobbered

(* The store keeps what it acknowledged and uses nothing twice: tickets,   *)
(* challenges and counters, whatever requests and commands interleave.     *)
PasskeysHold == EnrolledSticks /\ OnePerTicket /\ ChallengeStays /\ CounterGrows
=============================================================================
