-------------------------------- MODULE Login --------------------------------
(***************************************************************************)
(* Logging in: the client's connect (client/session.go, pair.go,           *)
(* pair_other.go), the handshake (server/auth.go) and desktop pairing      *)
(* (server/pair*.go), where a browser proves a ticket that the desktop     *)
(* asked for over HTTP and spends with its one dial.  Nonces, tickets and  *)
(* the role registry expire, are swept and change under the handshake.     *)
(***************************************************************************)
EXTENDS Integers, FiniteSets

CONSTANTS
  Desktops, Addr,   \* clients, and the address each connects from
  Addresses, Roles, Tickets,
  TicketTTL,        \* pairTicketTTL
  NonceTTL,         \* ten seconds
  AuthTimeout,      \* authResponseTimeout, above NonceTTL
  MaxPending,       \* PAIR_MAX_PENDING
  MaxDials,         \* bound: connections
  MaxReloads,       \* bound: changes of roles.json
  MaxNow            \* bound: the clock

VARIABLES
  now,
  registry,  \* RoleRegistry
  tickets,   \* PairTickets
  nonces,    \* ActiveNonces, by connection; nonce n is the n-th dial's
  clients,   \* what each client is doing
  proving,   \* submissions whose assertion verified, before markPairVerified
  dials, reloads,
  sessions,  \* history: the sessions granted
  proofs,    \* history: tickets for which an assertion of the role verified
  swept,     \* history: tickets dropped by the sweep or the issue path
  probes     \* history: refused dials that were remembered as probes

lvars == <<now, registry, tickets, nonces, clients, proving, dials, reloads,
           sessions, proofs, swept, probes>>

Free == [state |-> "free"]
Gone == [state |-> "gone"]
Start == [phase |-> "start"]
None == "none"

Expired(t) == now > tickets[t].expires

(* livePairTicketLocked: unknown or spent, then out of time, then the      *)
(* wrong address.                                                          *)
Mut_ExpiredIsUnknown(t, a) ==
  IF tickets[t].state # "live" \/ tickets[t].consumed \/ Expired(t) \/ tickets[t].ip # a
  THEN "unknown" ELSE "live"

Lookup(t, a) ==
  CASE tickets[t].state # "live" -> "unknown"
    [] tickets[t].state = "live" /\ tickets[t].consumed -> "unknown"
    [] tickets[t].state = "live" /\ ~tickets[t].consumed /\ Expired(t) -> "expired"
    [] OTHER -> IF tickets[t].ip # a THEN "unknown" ELSE "live"

(* A lookup that finds the ticket out of time deletes it. *)
AfterLookup(t, a) == IF Lookup(t, a) = "expired" THEN [tickets EXCEPT ![t] = Gone] ELSE tickets

Overdue == {t \in Tickets : tickets[t].state = "live" /\ Expired(t)}

(* prunePairTicketsLocked *)
PruneTickets == [t \in Tickets |-> IF t \in Overdue THEN Gone ELSE tickets[t]]

-----------------------------------------------------------------------------
(* handlePairRequest: the registry is asked before the table. *)
Offered(r) == r \in registry

(* issuePairTicket: the table is pruned before it is measured. *)
Full(table) == Cardinality({u \in Tickets : table[u].state = "live"}) >= MaxPending

Issued(table, t, r, a) ==
  [table EXCEPT ![t] = [state |-> "live", role |-> r, ip |-> a, expires |-> now + TicketTTL,
                        verified |-> FALSE, consumed |-> FALSE]]

(* acquirePairTicket *)
AskForTicket(d, r, t) ==
  LET pruned == PruneTickets IN
  /\ clients[d] = Start /\ tickets[t] = Free /\ Offered(r)
  /\ swept' = swept \cup Overdue
  /\ tickets' = IF Full(pruned) THEN pruned ELSE Issued(pruned, t, r, Addr[d])
  /\ clients' = [clients EXCEPT ![d] =
       IF Full(pruned) THEN [phase |-> "out"]
       ELSE [phase |-> "polling", ticket |-> t, role |-> r, deadline |-> now + TicketTTL]]
  /\ UNCHANGED <<now, registry, nonces, proving, dials, reloads, sessions, proofs, probes>>

(* handlePairStatus *)
Status(t, a) ==
  IF Lookup(t, a) # "live" THEN "gone"
  ELSE IF tickets[t].verified THEN "verified" ELSE "pending"

(* pollPairStatus: until proved, gone, or out of budget. *)
Poll(d) ==
  LET c == clients[d]
      t == c.ticket
  IN
  /\ c.phase = "polling"
  /\ \/ /\ now >= c.deadline \/ Status(t, Addr[d]) = "gone"
        /\ clients' = [clients EXCEPT ![d] = [phase |-> "out"]]
     \/ /\ now < c.deadline /\ Status(t, Addr[d]) = "verified"
        /\ clients' = [clients EXCEPT ![d] = [phase |-> "ready", ticket |-> t, role |-> c.role]]
  /\ tickets' = IF now >= c.deadline THEN tickets ELSE AfterLookup(t, Addr[d])
  /\ UNCHANGED <<now, registry, nonces, proving, dials, reloads, sessions, proofs, swept, probes>>

(* handlePairSubmit up to the stored counter: the ticket is read from the  *)
(* submitting address, and an assertion of its role verifies.              *)
Submit(t, a) ==
  /\ Lookup(t, a) = "live" /\ t \notin proving
  /\ proving' = proving \cup {t} /\ proofs' = proofs \cup {t}
  /\ UNCHANGED <<now, registry, tickets, nonces, clients, dials, reloads, sessions, swept, probes>>

Mut_RejectionClears(t) == [tickets EXCEPT ![t].verified = FALSE]

(* notePairRejection: a refused assertion leaves the ticket as it was. *)
AfterRejection(t) == tickets

SubmitRejected(t, a) ==
  /\ Lookup(t, a) = "live"
  /\ tickets' = AfterRejection(t)
  /\ UNCHANGED <<now, registry, nonces, clients, proving, dials, reloads, sessions, proofs, swept, probes>>

(* markPairVerified: whatever became of the ticket, the page is told 202. *)
MarkVerified(t) ==
  /\ t \in proving
  /\ proving' = proving \ {t}
  /\ tickets' = IF tickets[t].state = "live" /\ ~tickets[t].consumed /\ ~Expired(t)
                THEN [tickets EXCEPT ![t].verified = TRUE] ELSE tickets
  /\ UNCHANGED <<now, registry, nonces, clients, dials, reloads, sessions, proofs, swept, probes>>

(* HandleAuth opens with a fresh nonce bound to the address. *)
Challenge(a) == [state |-> "live", ip |-> a, expires |-> now + NonceTTL]

(* connect: a guest and a key holder dial at once; a paired client after   *)
(* the ceremony, and after the prompts that follow it.                     *)
Dial(d, kind, r) ==
  /\ dials < MaxDials /\ dials' = dials + 1
  /\ \/ kind = "pair" /\ clients[d].phase = "ready" /\ r = clients[d].role
     \/ kind \in {"guest", "key"} /\ clients[d] = Start
  /\ nonces' = [nonces EXCEPT ![dials'] = Challenge(Addr[d])]
  /\ clients' = [clients EXCEPT ![d] =
       [phase |-> "dialled", kind |-> kind, role |-> r, nonce |-> dials', by |-> now + AuthTimeout,
        ticket |-> IF kind = "pair" THEN clients[d].ticket ELSE None]]
  /\ UNCHANGED <<now, registry, tickets, proving, reloads, sessions, proofs, swept, probes>>

Mut_NonceKept(n) == nonces

(* consumeNonce: gone with its first use, whatever the use comes to. *)
AfterConsume(n) == [nonces EXCEPT ![n] = Gone]

NonceGood(n, a) == nonces[n].state = "live" /\ now <= nonces[n].expires /\ nonces[n].ip = a

(* takeVerifiedPairTicket, loginWithPairTicket: why a dial is refused. *)
Verdict(c, a) ==
  CASE c.kind = "guest" -> "ok"
    [] c.kind = "key"  -> IF c.role \in registry THEN "ok" ELSE "role"
    [] OTHER ->
       LET l == Lookup(c.ticket, a) IN
       IF l # "live" THEN l
       ELSE IF ~tickets[c.ticket].verified THEN "unknown"
       ELSE IF tickets[c.ticket].role \in registry THEN "ok" ELSE "role"

AfterTake(c, a) ==
  IF c.kind # "pair" THEN tickets
  ELSE IF Lookup(c.ticket, a) = "live" /\ tickets[c.ticket].verified
  THEN [tickets EXCEPT ![c.ticket].consumed = TRUE]
  ELSE AfterLookup(c.ticket, a)

(* authErrIsProbe and penalizeAuthFailure: running out of time is not a    *)
(* probe, and a packet without a role is never penalised.                  *)
IsProbe(c, why) == why \notin {"ok", "expired"} /\ c.kind # "guest"

(* authenticateClient: the session that HandleAuth's permission opens. *)
Opened(c, n, a) ==
  [dial |-> c.nonce, nonce |-> n, ip |-> a, ticket |-> c.ticket,
   role |-> CASE c.kind = "guest" -> None [] c.kind = "key" -> c.role
              [] OTHER -> tickets[c.ticket].role]

(* HandleAuth after the packet is read.  The packet names a nonce: its     *)
(* own, or in a repeated packet an older one.                              *)
Answer(d, n) ==
  LET c == clients[d]
      a == Addr[d]
      why == IF NonceGood(n, a) THEN Verdict(c, a) ELSE "nonce"
  IN
  /\ c.phase = "dialled" /\ n <= c.nonce /\ now <= c.by
  /\ nonces' = AfterConsume(n)
  /\ tickets' = IF NonceGood(n, a) THEN AfterTake(c, a) ELSE tickets
  /\ clients' = [clients EXCEPT ![d] = [phase |-> IF why = "ok" THEN "in" ELSE "out"]]
  /\ sessions' = IF why = "ok" THEN sessions \cup {Opened(c, n, a)} ELSE sessions
  /\ probes' = IF IsProbe(c, why)
               THEN probes \cup {[ticket |-> c.ticket, why |-> why]} ELSE probes
  /\ UNCHANGED <<now, registry, proving, dials, reloads, proofs, swept>>

(* The read deadline: the connection is closed, nothing is remembered. *)
TimeOut(d) ==
  /\ clients[d].phase = "dialled" /\ now > clients[d].by
  /\ clients' = [clients EXCEPT ![d] = [phase |-> "out"]]
  /\ UNCHANGED <<now, registry, tickets, nonces, proving, dials, reloads, sessions, proofs, swept, probes>>

(* connect refuses a server whose key is not the pinned one, or that does  *)
(* not prove it: no packet is sent.                                        *)
HangUp(d) ==
  /\ clients[d].phase = "dialled" /\ clients[d].kind = "key"
  /\ clients' = [clients EXCEPT ![d] = [phase |-> "out"]]
  /\ UNCHANGED <<now, registry, tickets, nonces, proving, dials, reloads, sessions, proofs, swept, probes>>

(* The program is started again. *)
Again(d) ==
  /\ clients[d].phase \in {"in", "out"}
  /\ clients' = [clients EXCEPT ![d] = Start]
  /\ UNCHANGED <<now, registry, tickets, nonces, proving, dials, reloads, sessions, proofs, swept, probes>>

(* The sweep of nonces and tickets, every thirty seconds. *)
Sweep ==
  /\ Overdue # {} \/ \E n \in 1..MaxDials : nonces[n].state = "live" /\ now > nonces[n].expires
  /\ tickets' = PruneTickets /\ swept' = swept \cup Overdue
  /\ nonces' = [n \in 1..MaxDials |->
       IF nonces[n].state = "live" /\ now > nonces[n].expires THEN Gone ELSE nonces[n]]
  /\ UNCHANGED <<now, registry, clients, proving, dials, reloads, sessions, proofs, probes>>

(* LoadRoles: the registry is replaced while ceremonies run. *)
Reload(new) ==
  /\ reloads < MaxReloads /\ new # registry
  /\ reloads' = reloads + 1 /\ registry' = new
  /\ UNCHANGED <<now, tickets, nonces, clients, proving, dials, sessions, proofs, swept, probes>>

Tick ==
  /\ now < MaxNow /\ now' = now + 1
  /\ UNCHANGED <<registry, tickets, nonces, clients, proving, dials, reloads, sessions, proofs, swept, probes>>

Init ==
  /\ now = 0 /\ dials = 0 /\ reloads = 0 /\ registry = Roles
  /\ tickets = [t \in Tickets |-> Free]
  /\ nonces = [n \in 1..MaxDials |-> Free]
  /\ clients = [d \in Desktops |-> Start]
  /\ proving = {} /\ sessions = {} /\ proofs = {} /\ swept = {} /\ probes = {}

Next ==
  \/ \E d \in Desktops, r \in Roles, t \in Tickets : AskForTicket(d, r, t)
  \/ \E d \in Desktops : Poll(d) \/ TimeOut(d) \/ HangUp(d) \/ Again(d)
  \/ \E d \in Desktops, k \in {"guest", "key", "pair"}, r \in Roles : Dial(d, k, r)
  \/ \E d \in Desktops, n \in 1..MaxDials : Answer(d, n)
  \/ \E t \in Tickets, a \in Addresses : Submit(t, a) \/ SubmitRejected(t, a)
  \/ \E t \in Tickets : MarkVerified(t)
  \/ \E new \in SUBSET Roles : Reload(new)
  \/ Sweep \/ Tick

Spec == Init /\ [][Next]_lvars

-----------------------------------------------------------------------------
(* HandleAuth: every session stands on a nonce of its own, used once, and  *)
(* a paired one on a ticket that its address asked for, that a browser     *)
(* proved, and that opened no other session.                               *)
SessionsProved ==
  \A s \in sessions :
    /\ \A o \in sessions : o.nonce = s.nonce \/ (o.ticket = s.ticket /\ s.ticket # None) => o = s
    /\ s.ticket # None =>
         /\ s.ticket \in proofs
         /\ tickets[s.ticket].state = "live" => tickets[s.ticket].ip = s.ip

(* A client that was told its ticket is proved finds it so when it dials:  *)
(* no refused assertion, sweep or other login takes it back, only time or  *)
(* another login of the same address.                                      *)
ReadyStays ==
  \A d \in Desktops : clients[d].phase = "ready" =>
    LET t == clients[d].ticket IN
    \/ tickets[t] = Gone
    \/ tickets[t].state = "live" /\ (Expired(t) \/ (tickets[t].verified /\ ~tickets[t].consumed))
    \/ \E s \in sessions : s.ticket = t /\ s.ip = Addr[d]

(* A person who took too long is not remembered as a probe, unless the     *)
(* sweep had already dropped the ticket, when it reads as never issued.    *)
PatienceIsNoProbe ==
  \A p \in probes : p.why = "unknown" =>
    p.ticket \in swept \/ \E s \in sessions : s.ticket = p.ticket

(* Whoever finishes the ceremony gets in, and whoever was too slow is not  *)
(* taken for a probe.                                                      *)
PairingIsFair == ReadyStays /\ PatienceIsNoProbe
=============================================================================
