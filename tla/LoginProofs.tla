----------------------------- MODULE LoginProofs -----------------------------
(***************************************************************************)
(* Theorems about who is let in.  Login, for any clients, addresses,       *)
(* roles, tickets and times: every session stands on a nonce and, when     *)
(* paired, on a proved ticket that no other session used, which rests on   *)
(* what may happen to a ticket in one step (TicketMove); and a client that *)
(* holds a ticket is the only one that does, so nobody takes from it what  *)
(* it was told.  Passkeys, for any requests, credentials and commands: the *)
(* store keeps what it acknowledged, which rests on what a mutation that   *)
(* waits for its save has put in its copy (Prepared).  RolesFile, for any  *)
(* commands and any interleaving of them with the watcher: what was        *)
(* granted stays, and the registry is a whole file.                        *)
(***************************************************************************)
EXTENDS Login, RolesFile, Passkeys, FiniteSetTheorems, TLAPS

LoginConstants ==
  /\ None \notin Tickets
  /\ Addr \in [Desktops -> Addresses]
  /\ MaxDials \in Nat /\ TicketTTL \in Int /\ NonceTTL \in Int /\ AuthTimeout \in Int

Live == [state : {"live"}, role : Roles, ip : Addresses, expires : Int,
         verified : BOOLEAN, consumed : BOOLEAN]
LiveNonce == [state : {"live"}, ip : Addresses, expires : Int]
Dialled == [phase : {"dialled"}, kind : {"guest", "key", "pair"}, role : Roles,
            nonce : 1 .. MaxDials, by : Int, ticket : Tickets \cup {None}]
Waiting == [phase : {"polling"}, ticket : Tickets, role : Roles, deadline : Int]
             \cup [phase : {"ready"}, ticket : Tickets, role : Roles]
AtRest == [phase : {"start", "in", "out"}]

ClientTypes ==
  /\ now \in Int /\ dials \in 0 .. MaxDials
  /\ nonces \in [1 .. MaxDials -> LiveNonce \cup {Free, Gone}]
  /\ clients \in [Desktops -> Dialled \cup Waiting \cup AtRest]
  /\ \A d \in Desktops : clients[d].phase = "dialled" =>
       /\ clients[d].nonce <= dials
       /\ clients[d].kind = "pair" <=> clients[d].ticket # None

LoginTypes == ClientTypes /\ tickets \in [Tickets -> Live \cup {Free, Gone}]

(* A ticket's next state: the same, dropped, issued, proved or consumed.   *)
TicketMove(t) ==
  \/ tickets'[t] = tickets[t]
  \/ tickets'[t] = Gone /\ tickets[t] \in Live
  \/ tickets[t] = Free /\ tickets'[t] \in Live /\ tickets'[t].verified = FALSE /\ tickets'[t].consumed = FALSE
  \/ tickets[t] \in Live /\ t \in proving /\ tickets'[t] = [tickets[t] EXCEPT !.verified = TRUE]
  \/ /\ tickets[t] \in Live /\ tickets[t].verified = TRUE /\ tickets[t].consumed = FALSE
     /\ tickets'[t] = [tickets[t] EXCEPT !.consumed = TRUE]

LEMMA States ==
  /\ Free.state = "free" /\ Gone.state = "gone" /\ Free # Gone
  /\ \A x \in Live : x.state = "live" /\ x # Free /\ x # Gone
  /\ \A x \in LiveNonce : x.state = "live" /\ x # Free /\ x # Gone
  BY DEF Free, Gone, Live, LiveNonce

LEMMA LookupLive ==
  ASSUME LoginTypes, NEW t \in Tickets, NEW a
  PROVE  /\ Lookup(t, a) = "live" => tickets[t] \in Live /\ tickets[t].consumed = FALSE /\ tickets[t].ip = a
         /\ Lookup(t, a) = "expired" => tickets[t] \in Live
<1>1. tickets[t] \in Live \cup {Free, Gone}
  BY DEF LoginTypes, ClientTypes
<1>2. CASE tickets[t].state # "live"
  BY <1>2 DEF Lookup
<1>3. CASE tickets[t].state = "live"
  <2>1. tickets[t] \in Live
    BY <1>1, <1>3, States
  <2>2. CASE tickets[t].consumed
    BY <1>3, <2>2 DEF Lookup
  <2>3. CASE ~tickets[t].consumed
    <3>1. tickets[t].consumed = FALSE
      BY <2>1, <2>3 DEF Live
    <3>2. CASE Expired(t)
      BY <1>3, <2>1, <2>3, <3>2 DEF Lookup
    <3>3. CASE ~Expired(t)
      BY <1>3, <2>1, <2>3, <3>1, <3>3 DEF Lookup
    <3> QED BY <3>2, <3>3
  <2> QED BY <2>2, <2>3
<1> QED BY <1>2, <1>3

LEMMA SweepMoves ==
  ASSUME LoginTypes
  PROVE  /\ PruneTickets \in [Tickets -> Live \cup {Free, Gone}]
         /\ \A u \in Tickets : PruneTickets[u] = tickets[u] \/ (PruneTickets[u] = Gone /\ tickets[u] \in Live)
<1>1. \A u \in Overdue : u \in Tickets /\ tickets[u] \in Live
  BY States DEF Overdue, LoginTypes, ClientTypes
<1>2. tickets \in [Tickets -> Live \cup {Free, Gone}]
  BY DEF LoginTypes, ClientTypes
<1>3. \A u \in Tickets : PruneTickets[u] = IF u \in Overdue THEN Gone ELSE tickets[u]
  BY DEF PruneTickets
<1>4. PruneTickets \in [Tickets -> Live \cup {Free, Gone}]
  BY <1>2 DEF PruneTickets
<1> QED BY <1>1, <1>3, <1>4

LEMMA LookedUp ==
  ASSUME LoginTypes, NEW t \in Tickets, NEW a
  PROVE  /\ AfterLookup(t, a) \in [Tickets -> Live \cup {Free, Gone}]
         /\ \A u \in Tickets : AfterLookup(t, a)[u] = tickets[u] \/ (AfterLookup(t, a)[u] = Gone /\ tickets[u] \in Live)
<1>0. tickets \in [Tickets -> Live \cup {Free, Gone}]
  BY DEF LoginTypes, ClientTypes
<1>1. CASE Lookup(t, a) = "expired"
  <2>1. AfterLookup(t, a) = [tickets EXCEPT ![t] = Gone] /\ tickets[t] \in Live
    BY <1>1, LookupLive DEF AfterLookup
  <2> QED BY <1>0, <2>1
<1>2. CASE Lookup(t, a) # "expired"
  <2>1. AfterLookup(t, a) = tickets
    BY <1>2 DEF AfterLookup
  <2> QED BY <1>0, <2>1
<1> QED BY <1>1, <1>2

(* takeVerifiedPairTicket spends the ticket only when it is proved.        *)
LEMMA Taken ==
  ASSUME LoginTypes, NEW d \in Desktops, clients[d].phase = "dialled"
  PROVE  LET c == clients[d]
             after == AfterTake(c, Addr[d])
         IN /\ after \in [Tickets -> Live \cup {Free, Gone}]
            /\ \A u \in Tickets :
                 \/ after[u] = tickets[u]
                 \/ after[u] = Gone /\ tickets[u] \in Live
                 \/ /\ tickets[u] \in Live /\ tickets[u].verified = TRUE /\ tickets[u].consumed = FALSE
                    /\ after[u] = [tickets[u] EXCEPT !.consumed = TRUE]
            /\ c.kind = "pair" /\ Verdict(c, Addr[d]) = "ok" =>
                 /\ c.ticket \in Tickets /\ tickets[c.ticket] \in Live /\ tickets[c.ticket].verified = TRUE
                 /\ tickets[c.ticket].consumed = FALSE /\ tickets[c.ticket].ip = Addr[d]
                 /\ after[c.ticket] = [tickets[c.ticket] EXCEPT !.consumed = TRUE]
<1> DEFINE c == clients[d]
           a == Addr[d]
           t == c.ticket
<1>1. c.kind \in {"guest", "key", "pair"} /\ (c.kind = "pair" => t \in Tickets)
  <2>1. c \in Dialled
    BY DEF LoginTypes, ClientTypes, Waiting, AtRest
  <2> QED BY <2>1 DEF LoginTypes, ClientTypes, Dialled
<1>2. CASE c.kind # "pair"
  BY <1>1, <1>2 DEF AfterTake, LoginTypes, ClientTypes
<1>3. CASE c.kind = "pair" /\ Lookup(t, a) = "live" /\ tickets[t].verified
  <2>1. t \in Tickets /\ tickets[t] \in Live /\ tickets[t].consumed = FALSE /\ tickets[t].ip = a
    BY <1>1, <1>3, LookupLive
  <2>2. tickets[t].verified = TRUE
    BY <1>3, <2>1 DEF Live
  <2>3. AfterTake(c, a) = [tickets EXCEPT ![t] = [tickets[t] EXCEPT !.consumed = TRUE]]
    BY <1>3 DEF AfterTake
  <2>4. [tickets[t] EXCEPT !.consumed = TRUE] \in Live
    BY <2>1 DEF Live
  <2> QED BY <2>1, <2>2, <2>3, <2>4 DEF LoginTypes, ClientTypes
<1>4. CASE c.kind = "pair" /\ ~(Lookup(t, a) = "live" /\ tickets[t].verified)
  <2>1. AfterTake(c, a) = AfterLookup(t, a)
    BY <1>4 DEF AfterTake
  <2>2. Verdict(c, a) # "ok"
    <3>1. CASE Lookup(t, a) # "live"
      BY <1>4, <3>1 DEF Verdict, Lookup
    <3>2. CASE Lookup(t, a) = "live" /\ ~tickets[t].verified
      BY <1>4, <3>2 DEF Verdict
    <3> QED BY <1>4, <3>1, <3>2
  <2> QED BY <1>1, <1>4, <2>1, <2>2, LookedUp
<1> QED BY <1>2, <1>3, <1>4

LEMMA TicketMoves ==
  ASSUME LoginConstants, LoginTypes, [Next]_lvars
  PROVE  tickets' \in [Tickets -> Live \cup {Free, Gone}] /\ \A u \in Tickets : TicketMove(u)
<1> DEFINE Goal == tickets' \in [Tickets -> Live \cup {Free, Gone}] /\ \A u \in Tickets : TicketMove(u)
<1>0. CASE tickets' = tickets
  BY <1>0 DEF TicketMove, LoginTypes, ClientTypes
<1>1. ASSUME NEW d \in Desktops, NEW r \in Roles, NEW t \in Tickets, AskForTicket(d, r, t) PROVE Goal
  <2> DEFINE x == [state |-> "live", role |-> r, ip |-> Addr[d], expires |-> now + TicketTTL,
                   verified |-> FALSE, consumed |-> FALSE]
  <2>1. x \in Live /\ x.verified = FALSE /\ x.consumed = FALSE
    BY DEF Live, LoginConstants, LoginTypes, ClientTypes
  <2>2. tickets' = PruneTickets \/ tickets' = [PruneTickets EXCEPT ![t] = x]
    BY <1>1 DEF AskForTicket, Issued
  <2>3. tickets[t] = Free
    BY <1>1 DEF AskForTicket
  <2> HIDE DEF x
  <2> QED BY <2>1, <2>2, <2>3, SweepMoves DEF TicketMove
<1>2. ASSUME NEW d \in Desktops, Poll(d) PROVE Goal
  <2>1. clients[d].ticket \in Tickets
    <3>1. clients[d].phase = "polling" /\ clients[d] \in Dialled \cup Waiting \cup AtRest
      BY <1>2 DEF Poll, LoginTypes, ClientTypes
    <3> QED BY <3>1 DEF Dialled, Waiting, AtRest
  <2>2. tickets' = tickets \/ tickets' = AfterLookup(clients[d].ticket, Addr[d])
    BY <1>2 DEF Poll
  <2>3. CASE tickets' = AfterLookup(clients[d].ticket, Addr[d])
    <3>1. /\ tickets' \in [Tickets -> Live \cup {Free, Gone}]
          /\ \A u \in Tickets : tickets'[u] = tickets[u] \/ (tickets'[u] = Gone /\ tickets[u] \in Live)
      BY <2>1, <2>3, LookedUp
    <3> QED BY <3>1 DEF TicketMove
  <2> QED BY <1>0, <2>2, <2>3
<1>3. ASSUME NEW d \in Desktops, NEW n \in 1 .. MaxDials, Answer(d, n) PROVE Goal
  <2>1. clients[d].phase = "dialled"
    BY <1>3 DEF Answer
  <2>2. tickets' = tickets \/ tickets' = AfterTake(clients[d], Addr[d])
    BY <1>3 DEF Answer
  <2>3. CASE tickets' = AfterTake(clients[d], Addr[d])
    <3>1. /\ tickets' \in [Tickets -> Live \cup {Free, Gone}]
          /\ \A u \in Tickets :
               \/ tickets'[u] = tickets[u]
               \/ tickets'[u] = Gone /\ tickets[u] \in Live
               \/ /\ tickets[u] \in Live /\ tickets[u].verified = TRUE /\ tickets[u].consumed = FALSE
                  /\ tickets'[u] = [tickets[u] EXCEPT !.consumed = TRUE]
      BY <2>1, <2>3, Taken
    <3> QED BY <3>1 DEF TicketMove
  <2> QED BY <1>0, <2>2, <2>3
<1>4. ASSUME NEW t \in Tickets, MarkVerified(t) PROVE Goal
  <2>1. CASE tickets[t].state = "live" /\ ~tickets[t].consumed /\ ~Expired(t)
    <3>1. tickets' = [tickets EXCEPT ![t] = [tickets[t] EXCEPT !.verified = TRUE]] /\ t \in proving
      BY <1>4, <2>1 DEF MarkVerified
    <3>2. tickets[t] \in Live
      BY <2>1, States DEF LoginTypes, ClientTypes
    <3>3. [tickets[t] EXCEPT !.verified = TRUE] \in Live
      BY <3>2 DEF Live
    <3> QED BY <3>1, <3>2, <3>3 DEF TicketMove, LoginTypes, ClientTypes
  <2>2. CASE ~(tickets[t].state = "live" /\ ~tickets[t].consumed /\ ~Expired(t))
    BY <1>0, <1>4, <2>2 DEF MarkVerified
  <2> QED BY <2>1, <2>2
<1>5. CASE Sweep
  BY <1>5, SweepMoves DEF Sweep, TicketMove
<1>6. ASSUME NEW t \in Tickets, NEW a \in Addresses, Submit(t, a) \/ SubmitRejected(t, a) PROVE Goal
  BY <1>0, <1>6 DEF Submit, SubmitRejected, AfterRejection
<1>7. ASSUME NEW d \in Desktops, TimeOut(d) \/ HangUp(d) \/ Again(d) PROVE Goal
  BY <1>0, <1>7 DEF TimeOut, HangUp, Again
<1>8. ASSUME NEW d \in Desktops, NEW k \in {"guest", "key", "pair"}, NEW r \in Roles, Dial(d, k, r) PROVE Goal
  BY <1>0, <1>8 DEF Dial
<1>9. ASSUME NEW new \in SUBSET Roles, Reload(new) PROVE Goal
  BY <1>0, <1>9 DEF Reload
<1>10. CASE Tick \/ UNCHANGED lvars
  BY <1>0, <1>10 DEF Tick, lvars
<1> QED BY <1>1, <1>2, <1>3, <1>4, <1>5, <1>6, <1>7, <1>8, <1>9, <1>10 DEF Next

-----------------------------------------------------------------------------
(* Nonces: issued in the order of the dials, and gone once used.           *)
NonceMove(n) ==
  \/ nonces'[n] = nonces[n]
  \/ nonces'[n] = Gone
  \/ n = dials + 1 /\ dials' = dials + 1

LEMMA ClientMoves ==
  ASSUME LoginConstants, LoginTypes, [Next]_lvars
  PROVE  /\ ClientTypes'
         /\ dials <= dials' /\ \A n \in 1 .. MaxDials : NonceMove(n)
<1> DEFINE Goal == /\ ClientTypes'
                   /\ dials <= dials' /\ \A n \in 1 .. MaxDials : NonceMove(n)
<1>a. /\ now \in Int /\ dials \in 0 .. MaxDials /\ MaxDials \in Nat
      /\ nonces \in [1 .. MaxDials -> LiveNonce \cup {Free, Gone}]
      /\ clients \in [Desktops -> Dialled \cup Waiting \cup AtRest]
      /\ \A d \in Desktops : clients[d].phase = "dialled" =>
           /\ clients[d].nonce <= dials
           /\ clients[d].kind = "pair" <=> clients[d].ticket # None
  BY DEF LoginTypes, ClientTypes, LoginConstants
<1>b. /\ \A x \in AtRest \cup Waiting : x.phase # "dialled"
      /\ \A p \in {"start", "in", "out"} : [phase |-> p] \in AtRest
  BY DEF AtRest, Waiting
(* A client goes from one of its phases to another, and nothing else.      *)
<1>c. ASSUME NEW d \in Desktops, NEW x \in AtRest \cup Waiting, clients' = [clients EXCEPT ![d] = x],
             now' = now, dials' = dials, nonces' \in [1 .. MaxDials -> LiveNonce \cup {Free, Gone}],
             \A n \in 1 .. MaxDials : nonces'[n] = nonces[n] \/ nonces'[n] = Gone
      PROVE  Goal
  <2>1. clients' \in [Desktops -> Dialled \cup Waiting \cup AtRest]
    BY <1>a, <1>c
  <2>2. \A e \in Desktops : clients'[e].phase = "dialled" => clients'[e] = clients[e]
    BY <1>a, <1>b, <1>c
  <2> QED BY <1>a, <1>c, <2>1, <2>2 DEF ClientTypes, NonceMove
<1>d. CASE clients' = clients /\ nonces' = nonces /\ dials' = dials /\ now' \in Int
  BY <1>a, <1>d DEF ClientTypes, NonceMove
<1>1. ASSUME NEW d \in Desktops, NEW r \in Roles, NEW t \in Tickets, AskForTicket(d, r, t) PROVE Goal
  <2>1. [phase |-> "polling", ticket |-> t, role |-> r, deadline |-> now + TicketTTL] \in Waiting
    BY <1>a DEF Waiting, LoginConstants
  <2>2. PICK x \in AtRest \cup Waiting : clients' = [clients EXCEPT ![d] = x]
    BY <1>1, <1>b, <2>1 DEF AskForTicket
  <2> QED BY <1>1, <1>a, <1>c, <2>2 DEF AskForTicket
<1>2. ASSUME NEW d \in Desktops, Poll(d) PROVE Goal
  <2>1. clients[d].ticket \in Tickets /\ clients[d].role \in Roles
    <3>1. clients[d].phase = "polling" /\ clients[d] \in Dialled \cup Waiting \cup AtRest
      BY <1>2, <1>a DEF Poll
    <3> QED BY <3>1 DEF Dialled, Waiting, AtRest
  <2>2. [phase |-> "ready", ticket |-> clients[d].ticket, role |-> clients[d].role] \in Waiting
    BY <2>1 DEF Waiting
  <2>3. PICK x \in AtRest \cup Waiting : clients' = [clients EXCEPT ![d] = x]
    BY <1>2, <1>b, <2>2 DEF Poll
  <2> QED BY <1>2, <1>a, <1>c, <2>3 DEF Poll
<1>3. ASSUME NEW d \in Desktops, TimeOut(d) \/ HangUp(d) \/ Again(d) PROVE Goal
  <2>1. PICK x \in AtRest : clients' = [clients EXCEPT ![d] = x]
    BY <1>3, <1>b DEF TimeOut, HangUp, Again, Start
  <2> QED BY <1>3, <1>a, <1>c, <2>1 DEF TimeOut, HangUp, Again
<1>4. ASSUME NEW d \in Desktops, NEW k \in {"guest", "key", "pair"}, NEW r \in Roles, Dial(d, k, r) PROVE Goal
  <2> DEFINE x == [phase |-> "dialled", kind |-> k, role |-> r, nonce |-> dials', by |-> now + AuthTimeout,
                   ticket |-> IF k = "pair" THEN clients[d].ticket ELSE None]
  <2>1. dials' = dials + 1 /\ dials' \in 1 .. MaxDials /\ now' = now
    BY <1>4, <1>a DEF Dial
  <2>2. k = "pair" => clients[d].ticket \in Tickets /\ clients[d].ticket # None
    <3>1. k = "pair" => clients[d].phase = "ready"
      BY <1>4 DEF Dial
    <3>2. clients[d].phase = "ready" => clients[d].ticket \in Tickets
      BY <1>a DEF Dialled, Waiting, AtRest
    <3> QED BY <3>1, <3>2 DEF LoginConstants
  <2>3. x \in Dialled /\ x.nonce = dials' /\ (x.kind = "pair" <=> x.ticket # None)
    BY <1>a, <2>1, <2>2 DEF Dialled, LoginConstants
  <2>4. clients' = [clients EXCEPT ![d] = x] /\ nonces' = [nonces EXCEPT ![dials'] = Challenge(Addr[d])]
    BY <1>4 DEF Dial
  <2>5. Challenge(Addr[d]) \in LiveNonce
    BY <1>a DEF Challenge, LiveNonce, LoginConstants
  <2> HIDE DEF x
  <2>6. clients' \in [Desktops -> Dialled \cup Waiting \cup AtRest]
    BY <1>a, <2>3, <2>4
  <2>7. \A e \in Desktops : clients'[e] = IF e = d THEN x ELSE clients[e]
    BY <1>a, <2>4
  <2>8. \A e \in Desktops : clients'[e].phase = "dialled" =>
           /\ clients'[e].nonce <= dials'
           /\ clients'[e].kind = "pair" <=> clients'[e].ticket # None
    <3> SUFFICES ASSUME NEW e \in Desktops, clients'[e].phase = "dialled"
                 PROVE  clients'[e].nonce <= dials' /\ (clients'[e].kind = "pair" <=> clients'[e].ticket # None)
      OBVIOUS
    <3>1. CASE e = d
      BY <2>1, <2>3, <2>7, <3>1
    <3>2. CASE e # d
      <4>1. clients'[e] = clients[e] /\ clients[e].nonce <= dials /\ (clients[e].kind = "pair" <=> clients[e].ticket # None)
        BY <1>a, <2>7, <3>2
      <4>2. clients[e] \in Dialled
        BY <1>a, <1>b, <2>7, <3>2
      <4>3. clients[e].nonce \in Int
        BY <4>2 DEF Dialled
      <4> QED BY <1>a, <2>1, <4>1, <4>3
    <3> QED BY <3>1, <3>2
  <2>9. /\ nonces' \in [1 .. MaxDials -> LiveNonce \cup {Free, Gone}]
        /\ \A n \in 1 .. MaxDials : NonceMove(n)
    BY <1>a, <2>1, <2>4, <2>5 DEF NonceMove
  <2> QED BY <1>a, <2>1, <2>6, <2>8, <2>9 DEF ClientTypes
<1>5. ASSUME NEW d \in Desktops, NEW n \in 1 .. MaxDials, Answer(d, n) PROVE Goal
  <2>1. PICK x \in AtRest : clients' = [clients EXCEPT ![d] = x]
    BY <1>5, <1>b DEF Answer
  <2>2. nonces' = [nonces EXCEPT ![n] = Gone] /\ now' = now /\ dials' = dials
    BY <1>5 DEF Answer, AfterConsume
  <2> QED BY <1>a, <1>c, <2>1, <2>2
<1>6. ASSUME NEW t \in Tickets, NEW a \in Addresses, Submit(t, a) \/ SubmitRejected(t, a) PROVE Goal
  BY <1>a, <1>d, <1>6 DEF Submit, SubmitRejected
<1>7. ASSUME NEW t \in Tickets, MarkVerified(t) PROVE Goal
  BY <1>a, <1>d, <1>7 DEF MarkVerified
<1>8. ASSUME NEW new \in SUBSET Roles, Reload(new) PROVE Goal
  BY <1>a, <1>d, <1>8 DEF Reload
<1>9. CASE Sweep
  <2>1. /\ nonces' \in [1 .. MaxDials -> LiveNonce \cup {Free, Gone}]
        /\ \A n \in 1 .. MaxDials : nonces'[n] = nonces[n] \/ nonces'[n] = Gone
    BY <1>a, <1>9 DEF Sweep
  <2>2. clients' = clients /\ now' = now /\ dials' = dials
    BY <1>9 DEF Sweep
  <2> QED BY <1>a, <2>1, <2>2 DEF ClientTypes, NonceMove
<1>10. CASE Tick \/ UNCHANGED lvars
  BY <1>a, <1>d, <1>10 DEF Tick, lvars
<1> QED BY <1>1, <1>2, <1>3, <1>4, <1>5, <1>6, <1>7, <1>8, <1>9, <1>10 DEF Next

LEMMA TypesStep == LoginConstants /\ LoginTypes /\ [Next]_lvars => LoginTypes'
  BY TicketMoves, ClientMoves DEF LoginTypes

-----------------------------------------------------------------------------
(* A ticket is verified only after an assertion.                           *)
Proved ==
  /\ proving \subseteq proofs
  /\ \A t \in Tickets : tickets[t] \in Live /\ tickets[t].verified = TRUE => t \in proofs

(* What a session has used up.                                             *)
Spent(s) ==
  /\ s.nonce \in 1 .. dials /\ nonces[s.nonce] = Gone
  /\ s.ticket # None =>
       /\ s.ticket \in Tickets /\ s.ticket \in proofs /\ tickets[s.ticket] # Free
       /\ tickets[s.ticket] \in Live => tickets[s.ticket].consumed = TRUE /\ tickets[s.ticket].ip = s.ip

Apart ==
  \A s, o \in sessions : o.nonce = s.nonce \/ (o.ticket = s.ticket /\ s.ticket # None) => o = s

LoginInv == LoginTypes /\ Proved /\ (\A s \in sessions : Spent(s)) /\ Apart

LEMMA ProofsGrow ==
  ASSUME [Next]_lvars
  PROVE  proofs \subseteq proofs' /\ proving' \subseteq proving \cup proofs'
<1>1. ASSUME NEW t \in Tickets, NEW a \in Addresses, Submit(t, a)
      PROVE  proofs \subseteq proofs' /\ proving' \subseteq proving \cup proofs'
  BY <1>1 DEF Submit
<1>2. ASSUME NEW t \in Tickets, MarkVerified(t)
      PROVE  proofs \subseteq proofs' /\ proving' \subseteq proving \cup proofs'
  BY <1>2 DEF MarkVerified
<1>3. CASE proofs' = proofs /\ proving' = proving
  BY <1>3
<1> QED BY <1>1, <1>2, <1>3
        DEF Next, AskForTicket, Poll, TimeOut, HangUp, Again, Dial, Answer, SubmitRejected,
            Reload, Sweep, Tick, lvars

LEMMA ProvedStep == LoginConstants /\ LoginTypes /\ Proved /\ [Next]_lvars => Proved'
<1> SUFFICES ASSUME LoginConstants, LoginTypes, Proved, [Next]_lvars PROVE Proved'
  OBVIOUS
<1>1. proving' \subseteq proofs'
  BY ProofsGrow DEF Proved
<1>2. ASSUME NEW t \in Tickets, tickets'[t] \in Live, tickets'[t].verified = TRUE PROVE t \in proofs'
  <2>1. TicketMove(t) /\ proofs \subseteq proofs'
    BY TicketMoves, ProofsGrow
  <2>2. CASE tickets'[t] = tickets[t]
    BY <1>2, <2>1, <2>2 DEF Proved
  <2>3. CASE t \in proving
    BY <2>1, <2>3 DEF Proved
  <2>4. CASE tickets[t] \in Live /\ tickets[t].verified = TRUE
    BY <2>1, <2>4 DEF Proved
  <2> QED BY <1>2, <2>1, <2>2, <2>3, <2>4, States DEF TicketMove
<1> QED BY <1>1, <1>2 DEF Proved

(* What a session spent stays spent: its ticket is consumed or gone.       *)
LEMMA TicketStaysSpent ==
  ASSUME NEW t, NEW i, TicketMove(t), tickets[t] # Free,
         tickets[t] \in Live => tickets[t].consumed = TRUE /\ tickets[t].ip = i
  PROVE  /\ tickets'[t] # Free
         /\ tickets'[t] \in Live => tickets'[t].consumed = TRUE /\ tickets'[t].ip = i
<1>1. CASE tickets'[t] = tickets[t]
  BY <1>1
<1>2. CASE tickets'[t] = Gone
  BY <1>2, States
<1>3. CASE tickets[t] \in Live /\ tickets'[t] = [tickets[t] EXCEPT !.verified = TRUE]
  <2>1. tickets'[t] \in Live /\ tickets'[t].consumed = tickets[t].consumed /\ tickets'[t].ip = tickets[t].ip
    BY <1>3 DEF Live
  <2> QED BY <1>3, <2>1, States
<1>4. CASE tickets[t] \in Live /\ tickets'[t] = [tickets[t] EXCEPT !.consumed = TRUE]
  <2>1. tickets'[t] \in Live /\ tickets'[t].consumed = TRUE /\ tickets'[t].ip = tickets[t].ip
    BY <1>4 DEF Live
  <2> QED BY <1>4, <2>1, States
<1> QED BY <1>1, <1>2, <1>3, <1>4 DEF TicketMove

(* Nothing that happens to tickets and nonces gives back what is spent.    *)
LEMMA SpentStays ==
  ASSUME LoginConstants, LoginTypes, [Next]_lvars, NEW s, Spent(s)
  PROVE  Spent(s)'
<1>1. s.nonce \in 1 .. dials' /\ nonces'[s.nonce] = Gone
  <2>1. s.nonce \in 1 .. MaxDials /\ dials \in Nat /\ dials' \in Nat /\ MaxDials \in Nat
    BY ClientMoves DEF Spent, LoginTypes, ClientTypes, LoginConstants
  <2>2. NonceMove(s.nonce) /\ dials <= dials'
    BY <2>1, ClientMoves
  <2> QED BY <2>1, <2>2 DEF NonceMove, Spent
<1>2. ASSUME s.ticket # None
      PROVE  /\ s.ticket \in Tickets /\ s.ticket \in proofs' /\ tickets'[s.ticket] # Free
             /\ tickets'[s.ticket] \in Live => tickets'[s.ticket].consumed = TRUE /\ tickets'[s.ticket].ip = s.ip
  <2>1. /\ s.ticket \in Tickets /\ s.ticket \in proofs' /\ tickets[s.ticket] # Free /\ TicketMove(s.ticket)
        /\ tickets[s.ticket] \in Live => tickets[s.ticket].consumed = TRUE /\ tickets[s.ticket].ip = s.ip
    BY <1>2, ProofsGrow, TicketMoves DEF Spent
  <2> QED BY <2>1, TicketStaysSpent
<1> QED BY <1>1, <1>2 DEF Spent

(* HandleAuth opens a session only on a nonce and a ticket nobody used.    *)
LEMMA OpensApart ==
  ASSUME LoginConstants, LoginInv, [Next]_lvars,
         NEW d \in Desktops, NEW n \in 1 .. MaxDials, Answer(d, n)
  PROVE  (\A s \in sessions' : Spent(s)') /\ Apart'
<1> DEFINE c == clients[d]
           x == Opened(c, n, Addr[d])
<1>1. \A s \in sessions : Spent(s) /\ Spent(s)'
  BY SpentStays DEF LoginInv
<1>2. CASE sessions' = sessions
  BY <1>1, <1>2 DEF Apart, LoginInv
<1>3. CASE NonceGood(n, Addr[d]) /\ Verdict(c, Addr[d]) = "ok" /\ sessions' = sessions \cup {x}
  <2>1. /\ c.phase = "dialled" /\ n <= c.nonce /\ nonces' = [nonces EXCEPT ![n] = Gone]
        /\ tickets' = AfterTake(c, Addr[d]) /\ dials' = dials /\ proofs' = proofs
    BY <1>3 DEF Answer, AfterConsume
  <2>2. /\ c \in Dialled /\ c.nonce <= dials /\ (c.kind = "pair" <=> c.ticket # None)
        /\ dials \in 0 .. MaxDials /\ MaxDials \in Nat
        /\ nonces \in [1 .. MaxDials -> LiveNonce \cup {Free, Gone}]
    BY <2>1 DEF LoginInv, LoginTypes, ClientTypes, LoginConstants, Waiting, AtRest
  <2>3. c.nonce \in Int
    BY <2>2 DEF Dialled
  <2>4. n \in 1 .. dials' /\ nonces'[n] = Gone /\ nonces[n] # Gone
    BY <1>3, <2>1, <2>2, <2>3, States DEF NonceGood
  <2>5. x.nonce = n /\ x.ticket = c.ticket /\ x.ip = Addr[d]
    BY DEF Opened
  <2>6. ASSUME c.ticket # None
        PROVE  /\ c.ticket \in Tickets /\ c.ticket \in proofs' /\ tickets'[c.ticket] # Free
               /\ tickets'[c.ticket] \in Live => tickets'[c.ticket].consumed = TRUE /\ tickets'[c.ticket].ip = Addr[d]
               /\ tickets[c.ticket] \in Live /\ tickets[c.ticket].consumed = FALSE
    <3>1. /\ c.ticket \in Tickets /\ tickets[c.ticket] \in Live /\ tickets[c.ticket].verified = TRUE
          /\ tickets[c.ticket].consumed = FALSE /\ tickets[c.ticket].ip = Addr[d]
          /\ tickets'[c.ticket] = [tickets[c.ticket] EXCEPT !.consumed = TRUE]
      BY <1>3, <2>1, <2>2, <2>6, Taken DEF LoginInv
    <3>2. c.ticket \in proofs'
      BY <2>1, <3>1 DEF LoginInv, Proved
    <3>3. tickets'[c.ticket] \in Live /\ tickets'[c.ticket].consumed = TRUE /\ tickets'[c.ticket].ip = Addr[d]
      BY <3>1 DEF Live
    <3> QED BY <3>1, <3>2, <3>3, States
  <2>7. PICK y : y = x
    OBVIOUS
  <2>8. y.nonce = n /\ y.ticket = c.ticket /\ y.ip = Addr[d] /\ sessions' = sessions \cup {y}
    BY <1>3, <2>7, <2>5
  <2> HIDE DEF x, c
  <2>9. Spent(y)'
    <3>1. y.nonce \in 1 .. dials' /\ nonces'[y.nonce] = Gone
      BY <2>4, <2>8
    <3>2. CASE c.ticket = None
      BY <2>8, <3>1, <3>2 DEF Spent
    <3>3. CASE c.ticket # None
      <4>1. /\ y.ticket \in Tickets /\ y.ticket \in proofs' /\ tickets'[y.ticket] # Free
            /\ tickets'[y.ticket] \in Live => tickets'[y.ticket].consumed = TRUE /\ tickets'[y.ticket].ip = y.ip
        BY <2>8, <2>6, <3>3
      <4> QED BY <3>1, <4>1 DEF Spent
    <3> QED BY <3>2, <3>3
  <2>10. \A s \in sessions : s.nonce # n /\ ~(s.ticket = c.ticket /\ c.ticket # None)
    BY <1>1, <2>4, <2>6 DEF Spent
  <2>11. Apart'
    <3> SUFFICES ASSUME NEW s \in sessions', NEW o \in sessions',
                        o.nonce = s.nonce \/ (o.ticket = s.ticket /\ s.ticket # None)
                 PROVE  o = s
      BY DEF Apart
    <3>1. CASE s \in sessions /\ o \in sessions
      BY <3>1 DEF Apart, LoginInv
    <3>2. CASE s = y /\ o \in sessions
      BY <2>8, <2>10, <3>2
    <3>3. CASE s \in sessions /\ o = y
      BY <2>8, <2>10, <3>3
    <3> QED BY <2>8, <3>1, <3>2, <3>3
  <2> QED BY <1>1, <2>8, <2>9, <2>11
<1> QED BY <1>2, <1>3 DEF Answer

LEMMA LoginStep == LoginConstants /\ LoginInv /\ [Next]_lvars => LoginInv'
<1> SUFFICES ASSUME LoginConstants, LoginInv, [Next]_lvars PROVE LoginInv'
  OBVIOUS
<1>1. LoginTypes' /\ Proved'
  BY TypesStep, ProvedStep DEF LoginInv
<1>2. ASSUME NEW d \in Desktops, NEW n \in 1 .. MaxDials, Answer(d, n)
      PROVE  (\A s \in sessions' : Spent(s)') /\ Apart'
  BY <1>2, OpensApart
<1>3. CASE sessions' = sessions
  <2>1. \A s \in sessions : Spent(s)'
    BY SpentStays DEF LoginInv
  <2> QED BY <1>1, <1>3, <2>1 DEF LoginInv, Apart
<1> QED BY <1>1, <1>2, <1>3
        DEF LoginInv, Next, AskForTicket, Poll, TimeOut, HangUp, Again, Dial, Submit,
            SubmitRejected, MarkVerified, Reload, Sweep, Tick, lvars

LEMMA LoginInit == LoginConstants /\ Init => LoginInv
<1> SUFFICES ASSUME LoginConstants, Init PROVE LoginInv
  OBVIOUS
<1>1. Start \in AtRest /\ Start.phase = "start"
  BY DEF AtRest, Start
<1>2. LoginTypes
  BY <1>1 DEF Init, LoginTypes, ClientTypes, LoginConstants
<1>3. Proved
  BY States DEF Init, Proved
<1> QED BY <1>2, <1>3 DEF Init, LoginInv, Apart

(* HandleAuth and takeVerifiedPairTicket: no nonce and no pair ticket      *)
(* opens two sessions, and a paired session's ticket was proved by an      *)
(* assertion and issued to its address, although nonces and tickets        *)
(* expire, are swept and are looked up while the ceremony runs.            *)
THEOREM EverySessionProved ==
  ASSUME LoginConstants
  PROVE  Spec => []SessionsProved
<1>1. Init => LoginInv
  BY LoginInit
<1>2. LoginInv /\ [Next]_lvars => LoginInv'
  BY LoginStep
<1>3. LoginInv => SessionsProved
  <2> SUFFICES ASSUME LoginInv, NEW s \in sessions
               PROVE  /\ \A o \in sessions : o.nonce = s.nonce \/ (o.ticket = s.ticket /\ s.ticket # None) => o = s
                      /\ s.ticket # None =>
                           /\ s.ticket \in proofs
                           /\ tickets[s.ticket].state = "live" => tickets[s.ticket].ip = s.ip
    BY DEF SessionsProved
  <2>1. Spent(s)
    BY DEF LoginInv
  <2>2. ASSUME s.ticket # None, tickets[s.ticket].state = "live" PROVE tickets[s.ticket].ip = s.ip
    <3>1. s.ticket \in Tickets /\ tickets[s.ticket] \in Live
      BY <2>1, <2>2, States DEF Spent, LoginInv, LoginTypes
    <3> QED BY <2>1, <2>2, <3>1 DEF Spent
  <2> QED BY <2>1, <2>2 DEF LoginInv, Apart, Spent
<1> QED BY <1>1, <1>2, <1>3, PTL DEF Spec

-----------------------------------------------------------------------------
(* Pairing.  A client that holds a ticket is the only one that does, so    *)
(* nobody else spends it, and until it is swept it is as the client last   *)
(* saw it.                                                                 *)
Holding(d) == clients[d] \in Waiting \/ (clients[d] \in Dialled /\ clients[d].kind = "pair")

Kept(d) ==
  LET t == clients[d].ticket IN
  /\ t \in Tickets
  /\ \/ tickets[t] = Gone /\ t \in swept
     \/ /\ tickets[t] \in Live /\ tickets[t].consumed = FALSE /\ tickets[t].ip = Addr[d]
        /\ clients[d].phase # "polling" => tickets[t].verified = TRUE

HolderInv ==
  /\ \A d \in Desktops : Holding(d) => Kept(d)
  /\ \A d, e \in Desktops : Holding(d) /\ Holding(e) /\ clients[d].ticket = clients[e].ticket => d = e

FairInv == LoginInv /\ HolderInv /\ PatienceIsNoProbe

(* What others may do to a ticket that is held.                            *)
HeldMove(t) ==
  \/ tickets'[t] = tickets[t]
  \/ tickets'[t] = Gone /\ t \in swept'
  \/ tickets[t] \in Live /\ tickets'[t] = [tickets[t] EXCEPT !.verified = TRUE]

LEMMA Phases ==
  /\ \A x \in AtRest : x \notin Waiting /\ x \notin Dialled
  /\ \A x \in Waiting : x \notin Dialled /\ x.phase \in {"polling", "ready"}
  /\ \A x \in Dialled : x \notin Waiting /\ x.phase = "dialled"
  /\ \A p \in {"start", "in", "out"} : [phase |-> p] \in AtRest
  BY DEF AtRest, Waiting, Dialled

LEMMA StaysKept ==
  ASSUME NEW d \in Desktops, Kept(d), clients'[d] = clients[d], HeldMove(clients[d].ticket),
         swept \subseteq swept'
  PROVE  Kept(d)'
<1> DEFINE t == clients[d].ticket
<1>1. CASE tickets'[t] = tickets[t]
  BY <1>1 DEF Kept
<1>2. CASE tickets'[t] = Gone /\ t \in swept'
  BY <1>2 DEF Kept
<1>3. CASE tickets[t] \in Live /\ tickets'[t] = [tickets[t] EXCEPT !.verified = TRUE]
  <2>1. /\ tickets'[t] \in Live /\ tickets'[t].consumed = tickets[t].consumed
        /\ tickets'[t].ip = tickets[t].ip /\ tickets'[t].verified = TRUE
    BY <1>3 DEF Live
  <2>2. tickets[t].consumed = FALSE /\ tickets[t].ip = Addr[d] /\ t \in Tickets
    BY <1>3, States DEF Kept
  <2> QED BY <2>1, <2>2 DEF Kept
<1> QED BY <1>1, <1>2, <1>3 DEF HeldMove

(* At most one client moves, and it keeps a ticket of its own or none.     *)
LEMMA OneMoves ==
  ASSUME HolderInv, swept \subseteq swept',
         NEW d \in Desktops,
         \A e \in Desktops : e # d => clients'[e] = clients[e],
         \A e \in Desktops : e # d /\ Holding(e) => HeldMove(clients[e].ticket),
         Holding(d)' => /\ Kept(d)'
                        /\ \A e \in Desktops : e # d /\ Holding(e) => clients[e].ticket # clients'[d].ticket
  PROVE  HolderInv'
<1>1. \A e \in Desktops : e # d => (Holding(e)' <=> Holding(e))
  BY DEF Holding
<1>2. ASSUME NEW e \in Desktops, Holding(e)' PROVE Kept(e)'
  <2>1. CASE e = d
    BY <1>2, <2>1
  <2>2. CASE e # d
    BY <1>1, <1>2, <2>2, StaysKept DEF HolderInv
  <2> QED BY <2>1, <2>2
<1>3. ASSUME NEW a \in Desktops, NEW b \in Desktops, Holding(a)', Holding(b)', clients'[a].ticket = clients'[b].ticket
      PROVE  a = b
  BY <1>1, <1>3 DEF HolderInv
<1> QED BY <1>2, <1>3 DEF HolderInv

LEMMA NoneMoves ==
  ASSUME HolderInv, swept \subseteq swept', clients' = clients,
         \A e \in Desktops : Holding(e) => HeldMove(clients[e].ticket)
  PROVE  HolderInv'
<1>1. \A e \in Desktops : Holding(e)' <=> Holding(e)
  BY DEF Holding
<1>2. ASSUME NEW e \in Desktops, Holding(e)' PROVE Kept(e)'
  BY <1>1, <1>2, StaysKept DEF HolderInv
<1> QED BY <1>1, <1>2 DEF HolderInv

(* A client that proved its ticket is never told that it is unknown,       *)
(* unless the sweep dropped it.                                            *)
LEMMA KnownUnlessSwept ==
  ASSUME LoginTypes, NEW d \in Desktops, clients[d] \in Dialled, Holding(d) => Kept(d),
         clients[d].kind # "guest", Verdict(clients[d], Addr[d]) = "unknown"
  PROVE  clients[d].ticket \in swept
<1> DEFINE c == clients[d]
           t == c.ticket
           a == Addr[d]
<1>1. c.kind \in {"key", "pair"} /\ c.phase = "dialled"
  BY DEF Dialled
<1>2. c.kind = "pair"
  <2>1. c.kind = "key" => Verdict(c, a) # "unknown"
    BY DEF Verdict
  <2> QED BY <1>1, <2>1
<1>3. Kept(d)
  BY <1>2 DEF Holding
<1>4. CASE tickets[t] \in Live
  <2>1. /\ tickets[t].consumed = FALSE /\ tickets[t].ip = a /\ tickets[t].verified = TRUE
        /\ tickets[t].state = "live"
    BY <1>1, <1>3, <1>4, States DEF Kept
  <2>2. Lookup(t, a) \in {"expired", "live"}
    BY <2>1 DEF Lookup
  <2>3. Verdict(c, a) # "unknown"
    BY <1>2, <2>1, <2>2 DEF Verdict
  <2> QED BY <2>3
<1> QED BY <1>3, <1>4 DEF Kept

LEMMA HolderStep ==
  ASSUME LoginConstants, LoginInv, HolderInv, [Next]_lvars
  PROVE  HolderInv'
<1>0. /\ clients \in [Desktops -> Dialled \cup Waiting \cup AtRest]
      /\ tickets \in [Tickets -> Live \cup {Free, Gone}] /\ LoginTypes
  BY DEF LoginInv, LoginTypes, ClientTypes
<1>h. \A e \in Desktops : Holding(e) => clients[e].ticket \in Tickets /\ tickets[clients[e].ticket] # Free
  BY States DEF HolderInv, Kept
(* Clients that hold nothing any more.                                     *)
<1>i. ASSUME NEW d \in Desktops, NEW x \in AtRest, clients' = [clients EXCEPT ![d] = x], swept' = swept,
             \A e \in Desktops : e # d /\ Holding(e) => HeldMove(clients[e].ticket)
      PROVE  HolderInv'
  <2>1. ~Holding(d)'
    BY <1>0, <1>i, Phases DEF Holding
  <2> QED BY <1>0, <1>i, <2>1, OneMoves
<1>1. ASSUME NEW d \in Desktops, NEW r \in Roles, NEW t \in Tickets, AskForTicket(d, r, t) PROVE HolderInv'
  <2> DEFINE x == [state |-> "live", role |-> r, ip |-> Addr[d], expires |-> now + TicketTTL,
                   verified |-> FALSE, consumed |-> FALSE]
             w == [phase |-> "polling", ticket |-> t, role |-> r, deadline |-> now + TicketTTL]
  <2>1. /\ tickets[t] = Free /\ swept' = swept \cup Overdue /\ clients[d] = Start
        /\ \/ tickets' = PruneTickets /\ clients' = [clients EXCEPT ![d] = [phase |-> "out"]]
           \/ tickets' = [PruneTickets EXCEPT ![t] = x] /\ clients' = [clients EXCEPT ![d] = w]
    BY <1>1 DEF AskForTicket, Issued
  <2>2. \A u \in Tickets : u # t => tickets'[u] = IF u \in Overdue THEN Gone ELSE tickets[u]
    BY <2>1 DEF PruneTickets
  <2>3. \A e \in Desktops : e # d /\ Holding(e) => HeldMove(clients[e].ticket) /\ clients[e].ticket # t
    BY <1>h, <2>1, <2>2 DEF HeldMove
  <2>4. CASE clients' = [clients EXCEPT ![d] = [phase |-> "out"]]
    <3>1. ~Holding(d)'
      BY <1>0, <2>4, Phases DEF Holding
    <3> QED BY <1>0, <2>1, <2>3, <2>4, <3>1, OneMoves
  <2>5. CASE tickets' = [PruneTickets EXCEPT ![t] = x] /\ clients' = [clients EXCEPT ![d] = w]
    <3>1. x \in Live /\ x.consumed = FALSE /\ x.ip = Addr[d]
      BY <1>0 DEF Live, LoginConstants, LoginTypes, ClientTypes
    <3>2. w.phase = "polling" /\ w.ticket = t
      OBVIOUS
    <3>3. clients'[d] = w /\ tickets'[t] = x
      BY <1>0, <2>5 DEF PruneTickets
    <3> HIDE DEF x, w
    <3>4. Kept(d)'
      BY <3>1, <3>2, <3>3 DEF Kept
    <3> QED BY <1>0, <2>1, <2>3, <2>5, <3>2, <3>3, <3>4, OneMoves
  <2> QED BY <2>1, <2>4, <2>5
<1>2. ASSUME NEW d \in Desktops, Poll(d) PROVE HolderInv'
  <2> DEFINE t == clients[d].ticket
             w == [phase |-> "ready", ticket |-> t, role |-> clients[d].role]
  <2>1. Holding(d) /\ Kept(d) /\ t \in Tickets
    <3>1. clients[d] \in Waiting
      BY <1>0, <1>2, Phases DEF Poll, AtRest, Dialled
    <3> QED BY <3>1 DEF Holding, HolderInv, Kept
  <2>2. \A u \in Tickets : u # t => tickets'[u] = tickets[u]
    BY <1>0, <1>2 DEF Poll, AfterLookup
  <2>3. \A e \in Desktops : e # d /\ Holding(e) => HeldMove(clients[e].ticket) /\ clients[e].ticket # t
    BY <1>h, <2>1, <2>2 DEF HeldMove, HolderInv
  <2>4. swept' = swept
    BY <1>2 DEF Poll
  <2>5. CASE clients' = [clients EXCEPT ![d] = [phase |-> "out"]]
    BY <1>i, <2>3, <2>4, <2>5, Phases
  <2>6. CASE now < clients[d].deadline /\ Status(t, Addr[d]) = "verified" /\ clients' = [clients EXCEPT ![d] = w]
    <3>1. Lookup(t, Addr[d]) = "live" /\ tickets[t].verified
      BY <2>6 DEF Status
    <3>2. tickets[t] \in Live /\ tickets[t].consumed = FALSE /\ tickets[t].ip = Addr[d]
      BY <1>0, <2>1, <3>1, LookupLive
    <3>3. tickets[t].verified = TRUE
      BY <3>1, <3>2 DEF Live
    <3>4. tickets'[t] = tickets[t]
      BY <1>2, <3>1 DEF Poll, AfterLookup
    <3>5. clients'[d] = w /\ w.ticket = t
      BY <1>0, <2>6
    <3>6. Kept(d)'
      BY <2>1, <3>2, <3>3, <3>4, <3>5 DEF Kept
    <3> QED BY <1>0, <2>3, <2>4, <2>6, <3>5, <3>6, OneMoves
  <2> QED BY <1>2, <2>5, <2>6 DEF Poll
<1>3. ASSUME NEW d \in Desktops, NEW n \in 1 .. MaxDials, Answer(d, n) PROVE HolderInv'
  <2> DEFINE t == clients[d].ticket
  <2>1. PICK x \in AtRest : clients' = [clients EXCEPT ![d] = x]
    BY <1>3, Phases DEF Answer
  <2>2. clients[d] \in Dialled /\ swept' = swept
    BY <1>0, <1>3, Phases DEF Answer, AtRest, Waiting
  <2>3. ASSUME NEW e \in Desktops, e # d, Holding(e) PROVE HeldMove(clients[e].ticket)
    <3>1. CASE clients[d].kind # "pair"
      BY <1>3, <3>1 DEF Answer, AfterTake, HeldMove
    <3>2. CASE clients[d].kind = "pair"
      <4>1. Holding(d)
        BY <2>2, <3>2 DEF Holding
      <4>2. clients[e].ticket # t
        BY <2>3, <4>1 DEF HolderInv
      <4>3. t \in Tickets /\ clients[e].ticket \in Tickets
        BY <1>h, <2>3, <4>1
      <4>4. tickets'[clients[e].ticket] = tickets[clients[e].ticket]
        BY <1>0, <1>3, <4>2, <4>3 DEF Answer, AfterTake, AfterLookup
      <4> QED BY <4>4 DEF HeldMove
    <3> QED BY <3>1, <3>2
  <2> QED BY <1>i, <2>1, <2>2, <2>3
<1>4. ASSUME NEW d \in Desktops, NEW k \in {"guest", "key", "pair"}, NEW r \in Roles, Dial(d, k, r) PROVE HolderInv'
  <2> DEFINE x == [phase |-> "dialled", kind |-> k, role |-> r, nonce |-> dials', by |-> now + AuthTimeout,
                   ticket |-> IF k = "pair" THEN clients[d].ticket ELSE None]
  <2>1. clients' = [clients EXCEPT ![d] = x] /\ tickets' = tickets /\ swept' = swept
    BY <1>4 DEF Dial
  <2>2. clients'[d] = x /\ x.kind = k /\ (k = "pair" => x.ticket = clients[d].ticket) /\ x.phase = "dialled"
    BY <1>0, <2>1
  <2> HIDE DEF x
  <2>3. \A e \in Desktops : e # d /\ Holding(e) => HeldMove(clients[e].ticket)
    BY <2>1 DEF HeldMove
  <2>4. CASE k # "pair"
    <3>1. ~Holding(d)'
      BY <2>2, <2>4, Phases DEF Holding
    <3> QED BY <1>0, <2>1, <2>3, <3>1, OneMoves
  <2>5. CASE k = "pair"
    <3>1. clients[d].phase = "ready"
      BY <1>4, <2>5 DEF Dial
    <3>2. Holding(d)
      BY <1>0, <3>1, Phases DEF Holding, AtRest
    <3>3. Kept(d)'
      BY <2>1, <2>2, <2>5, <3>1, <3>2 DEF Kept, HolderInv
    <3>4. \A e \in Desktops : e # d /\ Holding(e) => clients[e].ticket # clients'[d].ticket
      BY <2>2, <2>5, <3>2 DEF HolderInv
    <3> QED BY <1>0, <2>1, <2>3, <3>3, <3>4, OneMoves
  <2> QED BY <2>4, <2>5
<1>5. ASSUME NEW d \in Desktops, TimeOut(d) \/ HangUp(d) \/ Again(d) PROVE HolderInv'
  <2>1. PICK x \in AtRest : clients' = [clients EXCEPT ![d] = x]
    BY <1>5, Phases DEF TimeOut, HangUp, Again, Start
  <2>2. tickets' = tickets /\ swept' = swept
    BY <1>5 DEF TimeOut, HangUp, Again
  <2> QED BY <1>i, <2>1, <2>2 DEF HeldMove
<1>6. ASSUME NEW t \in Tickets, MarkVerified(t) PROVE HolderInv'
  <2>1. \A u \in Tickets : HeldMove(u)
    <3>1. tickets[t].state = "live" => tickets[t] \in Live
      BY <1>0, States
    <3>2. \/ tickets' = tickets
          \/ tickets[t] \in Live /\ tickets' = [tickets EXCEPT ![t] = [tickets[t] EXCEPT !.verified = TRUE]]
      BY <1>6, <3>1 DEF MarkVerified
    <3> QED BY <1>0, <3>2 DEF HeldMove
  <2>2. clients' = clients /\ swept' = swept
    BY <1>6 DEF MarkVerified
  <2> QED BY <1>h, <2>1, <2>2, NoneMoves
<1>7. CASE Sweep
  <2>1. \A u \in Tickets : HeldMove(u)
    BY <1>7 DEF Sweep, PruneTickets, HeldMove
  <2>2. clients' = clients /\ swept \subseteq swept'
    BY <1>7 DEF Sweep
  <2> QED BY <1>h, <2>1, <2>2, NoneMoves
<1>8. CASE clients' = clients /\ tickets' = tickets /\ swept' = swept
  BY <1>8, NoneMoves DEF HeldMove
<1> QED BY <1>1, <1>2, <1>3, <1>4, <1>5, <1>6, <1>7, <1>8
        DEF Next, Submit, SubmitRejected, AfterRejection, Reload, Tick, lvars

LEMMA PatienceStep ==
  ASSUME LoginConstants, LoginInv, HolderInv, PatienceIsNoProbe, [Next]_lvars
  PROVE  PatienceIsNoProbe'
<1>1. ASSUME NEW d \in Desktops, NEW n \in 1 .. MaxDials, Answer(d, n) PROVE PatienceIsNoProbe'
  <2> DEFINE c == clients[d]
             a == Addr[d]
             why == IF NonceGood(n, a) THEN Verdict(c, a) ELSE "nonce"
  <2>1. /\ swept' = swept /\ sessions \subseteq sessions'
        /\ probes' = IF IsProbe(c, why) THEN probes \cup {[ticket |-> c.ticket, why |-> why]} ELSE probes
    BY <1>1 DEF Answer
  <2>2. c \in Dialled /\ LoginTypes
    BY <1>1, Phases DEF Answer, LoginInv, LoginTypes, ClientTypes, AtRest, Waiting
  <2>3. IsProbe(c, why) /\ why = "unknown" => c.ticket \in swept
    <3> SUFFICES ASSUME c.kind # "guest", Verdict(c, a) = "unknown" PROVE c.ticket \in swept
      BY DEF IsProbe
    <3> QED BY <2>2, KnownUnlessSwept DEF HolderInv
  <2> HIDE DEF c, why
  <2>4. ASSUME NEW p \in probes', p.why = "unknown"
        PROVE  p.ticket \in swept' \/ \E s \in sessions' : s.ticket = p.ticket
    <3>1. CASE p \in probes
      BY <2>1, <2>4, <3>1 DEF PatienceIsNoProbe
    <3>2. CASE IsProbe(c, why) /\ p = [ticket |-> c.ticket, why |-> why]
      BY <2>1, <2>3, <2>4, <3>2
    <3> QED BY <2>1, <2>4, <3>1, <3>2
  <2> QED BY <2>4 DEF PatienceIsNoProbe
<1>2. CASE probes' = probes /\ sessions' = sessions /\ swept \subseteq swept'
  BY <1>2 DEF PatienceIsNoProbe
<1> QED BY <1>1, <1>2
        DEF Next, AskForTicket, Poll, TimeOut, HangUp, Again, Dial, Submit, SubmitRejected,
            MarkVerified, Reload, Sweep, Tick, lvars

(* acquirePairTicket, handlePairStatus, takeVerifiedPairTicket and the     *)
(* sweep: for any clients and times, a client that was told its ticket is  *)
(* proved finds it proved and unspent, or out of time; and a dial that is  *)
(* remembered as a probe for an unknown ticket had one that was swept.     *)
THEOREM PairingAlwaysFair ==
  ASSUME LoginConstants
  PROVE  Spec => []PairingIsFair
<1>1. Init => FairInv
  <2> SUFFICES ASSUME Init PROVE HolderInv /\ PatienceIsNoProbe
    BY LoginInit DEF FairInv
  <2>1. \A d \in Desktops : ~Holding(d)
    BY Phases DEF Init, Holding, Start
  <2> QED BY <2>1 DEF Init, HolderInv, PatienceIsNoProbe
<1>2. FairInv /\ [Next]_lvars => FairInv'
  BY LoginStep, HolderStep, PatienceStep DEF FairInv
<1>3. FairInv => PairingIsFair
  <2> SUFFICES ASSUME FairInv, NEW d \in Desktops, clients[d].phase = "ready"
               PROVE  LET t == clients[d].ticket IN
                      \/ tickets[t] = Gone
                      \/ tickets[t].state = "live" /\ (Expired(t) \/ (tickets[t].verified /\ ~tickets[t].consumed))
    BY DEF PairingIsFair, ReadyStays, FairInv
  <2>1. Holding(d)
    BY Phases DEF FairInv, LoginInv, LoginTypes, ClientTypes, AtRest, Holding
  <2>2. Kept(d)
    BY <2>1 DEF FairInv, HolderInv
  <2> QED BY <2>2, States DEF Kept
<1> QED BY <1>1, <1>2, <1>3, PTL DEF Spec

-----------------------------------------------------------------------------
(* The passkey store.  Until a write lands on a version it had not read,   *)
(* the change a mutation prepared is a change of the file as it is.        *)
StoreConstants == "none" \notin Requests /\ MaxCount \in Nat /\ TTL \in Int

Offer == [state : {"open", "used"}, role : KeyRoles, expires : Int, challenge : Requests \cup {"none"}]
Pending == Offer \cup {NoTicket}
Stores == [pending : [Invites -> Pending], creds : [KeyRoles -> [Creds -> Int]]]

Ceremony == [op : {"prune", "bind", "binding", "bound"}, ticket : Invites]
Finishing == [op : {"complete"}, ticket : Invites, cred : Creds, count : Nat]
Storing == [op : {"completing"}, ticket : Invites, cred : Creds, role : KeyRoles]
Counted == [op : {"count", "counting"}, role : KeyRoles, cred : Creds, count : Nat]
Served == Ceremony \cup Finishing \cup Storing \cup Counted \cup {NoWork}

Mutation == [op : {"save"}, for : Requests, new : Stores, stale : BOOLEAN]
Command == [op : {"save"}, stale : BOOLEAN, new : Stores]

StoreTypes ==
  /\ clock \in Int /\ file \in Stores
  /\ server \in Mutation \cup {NoWork} /\ operator \in Command \cup {NoWork}
  /\ requests \in [Requests -> Served]
  /\ enrolled \in [Invites -> SUBSET (KeyRoles \X Creds)]
  /\ lastCount \in [KeyRoles -> [Creds -> Nat]]

Saving == {"prune", "binding", "completing", "counting"}

(* What a handler whose mutation waits for its save has put in the copy.   *)
Grows(old, new) ==
  \A r \in KeyRoles, k \in Creds : new[r][k] = old[r][k] \/ old[r][k] = NotStored
Elsewhere(t, old, new) == \A u \in Invites : u # t => new[u] = old[u]

Prunes(new) == new.creds = file.creds /\ \A u \in Invites : new.pending[u] \in {file.pending[u], NoTicket}
Binds(q, t, new) ==
  /\ new.creds = file.creds /\ Elsewhere(t, file.pending, new.pending)
  /\ file.pending[t].state = "open" /\ file.pending[t].challenge = "none"
  /\ new.pending[t].state = "open" /\ new.pending[t].challenge = q
Stores1(t, r, k, new) ==
  /\ Elsewhere(t, file.pending, new.pending)
  /\ file.pending[t].state = "open" /\ new.pending[t].state = "used"
  /\ Grows(file.creds, new.creds) /\ new.creds[r][k] # NotStored
Counts(r, k, n, new) ==
  /\ new.pending = file.pending
  /\ \A s \in KeyRoles, j \in Creds : <<s, j>> # <<r, k>> => new.creds[s][j] = file.creds[s][j]
  /\ new.creds[r][k] = n /\ n > lastCount[r][k] /\ file.creds[r][k] # NotStored

Prepared(q, r, new) ==
  /\ r.op = "prune" => Prunes(new)
  /\ r.op = "binding" => Binds(q, r.ticket, new)
  /\ r.op = "completing" => Stores1(r.ticket, r.role, r.cred, new)
  /\ r.op = "counting" => Counts(r.role, r.cred, r.count, new)

ServerFresh ==
  /\ server # NoWork => requests[server.for].op \in Saving
  /\ server # NoWork /\ server.stale = FALSE => Prepared(server.for, requests[server.for], server.new)
  /\ \A q \in Requests : requests[q].op \in Saving => server # NoWork /\ server.for = q

NoneBound(t) == \A q \in Requests : requests[q].op = "bound" => requests[q].ticket # t

OperatorFresh ==
  operator # NoWork /\ operator.stale = FALSE =>
    /\ operator.new.creds = file.creds
    /\ \A t \in Invites : \/ operator.new.pending[t] = file.pending[t]
                          \/ enrolled[t] = {} /\ NoneBound(t)

Enrolled ==
  \A t \in Invites :
    /\ enrolled[t] # {} => file.pending[t].state # "open"
    /\ \A d, e \in enrolled[t] : d = e
    /\ \A e \in enrolled[t] : file.creds[e[1]][e[2]] # NotStored

Bound ==
  \A q \in Requests : requests[q].op = "bound" /\ file.pending[requests[q].ticket].state = "open" =>
    file.pending[requests[q].ticket].challenge = q

Last == \A r \in KeyRoles, k \in Creds : lastCount[r][k] = 0 \/ lastCount[r][k] = file.creds[r][k]

StoreGood == StoreTypes /\ ServerFresh /\ OperatorFresh /\ Enrolled /\ Bound /\ Last

LEMMA StoreShapes ==
  /\ NoWork.op = "idle" /\ NoWork \notin Mutation /\ NoWork \notin Command
  /\ \A x \in Ceremony : x.op \in {"prune", "bind", "binding", "bound"} /\ x.ticket \in Invites
  /\ \A x \in Finishing : /\ x.op = "complete" /\ x.ticket \in Invites
                          /\ x.cred \in Creds /\ x.count \in Nat
  /\ \A x \in Storing : /\ x.op = "completing" /\ x.ticket \in Invites
                        /\ x.cred \in Creds /\ x.role \in KeyRoles
  /\ \A x \in Counted : /\ x.op \in {"count", "counting"}
                        /\ x.cred \in Creds /\ x.role \in KeyRoles /\ x.count \in Nat
  /\ NoTicket.state = "none" /\ \A x \in Pending : x.state \in {"none", "open", "used"}
  /\ \A x \in Pending : x.state = "open" => x.role \in KeyRoles
  BY DEF NoWork, Mutation, Command, Ceremony, Finishing, Storing, Counted, NoTicket, Pending, Offer

(* A store with other tickets, or another counter.                         *)
LEMMA NewPending ==
  ASSUME NEW f \in Stores, NEW t \in Invites, NEW x \in Pending
  PROVE  LET g == [f EXCEPT !.pending[t] = x] IN
         /\ g \in Stores /\ g.creds = f.creds /\ g.pending[t] = x
         /\ Elsewhere(t, f.pending, g.pending)
  BY DEF Stores, Elsewhere

LEMMA NewCount ==
  ASSUME NEW f \in Stores, NEW r \in KeyRoles, NEW k \in Creds, NEW n \in Int
  PROVE  LET g == [f EXCEPT !.creds[r][k] = n] IN
         /\ g \in Stores /\ g.pending = f.pending /\ g.creds[r][k] = n
         /\ \A s \in KeyRoles, j \in Creds : <<s, j>> # <<r, k>> => g.creds[s][j] = f.creds[s][j]
  BY DEF Stores

LEMMA PruneIs ==
  ASSUME NEW f \in Stores
  PROVE  LET g == Pruned(f) IN
         /\ g \in Stores /\ g.creds = f.creds
         /\ \A u \in Invites : g.pending[u] \in {f.pending[u], NoTicket}
  BY DEF Pruned, Stores, Pending

LEMMA BindIs ==
  ASSUME NEW f \in Stores, NEW t \in Invites, NEW q \in Requests, f.pending[t].state = "open"
  PROVE  LET g == [f EXCEPT !.pending[t].challenge = q] IN
         /\ g \in Stores /\ g.creds = f.creds /\ Elsewhere(t, f.pending, g.pending)
         /\ g.pending[t].state = "open" /\ g.pending[t].challenge = q
<1>1. f.pending[t] \in Pending /\ f.pending[t] # NoTicket
  BY StoreShapes DEF Stores
<1> DEFINE x == [f.pending[t] EXCEPT !.challenge = q]
<1>2. x \in Pending /\ x.state = "open" /\ x.challenge = q
  BY <1>1 DEF Pending, Offer
<1>3. [f EXCEPT !.pending[t].challenge = q] = [f EXCEPT !.pending[t] = x]
  BY <1>2 DEF Stores
<1> HIDE DEF x
<1>4. LET g == [f EXCEPT !.pending[t] = x] IN
      /\ g \in Stores /\ g.creds = f.creds /\ g.pending[t] = x
      /\ Elsewhere(t, f.pending, g.pending)
  BY <1>2, NewPending
<1> QED BY <1>2, <1>3, <1>4

LEMMA CompleteIs ==
  ASSUME NEW f \in Stores, NEW t \in Invites, NEW k \in Creds, NEW n \in Nat,
         f.pending[t].state = "open", f.creds[f.pending[t].role][k] = NotStored
  PROVE  LET g == Completed(f, t, k, n) IN
         /\ g \in Stores /\ Elsewhere(t, f.pending, g.pending)
         /\ g.pending[t].state = "used" /\ Grows(f.creds, g.creds)
         /\ g.creds[f.pending[t].role][k] # NotStored
<1>1. f.pending[t] \in Pending /\ f.pending[t] # NoTicket /\ f.pending[t].role \in KeyRoles
  BY StoreShapes DEF Stores
<1> DEFINE x == [f.pending[t] EXCEPT !.state = "used"]
<1>2. x \in Pending /\ x.state = "used"
  BY <1>1 DEF Pending, Offer
<1>r. PICK r \in KeyRoles : r = f.pending[t].role
  BY <1>1
<1> DEFINE h == [f EXCEPT !.pending[t] = x]
           g == [h EXCEPT !.creds[r][k] = n]
<1>3. h \in Stores /\ h.creds = f.creds /\ h.pending[t] = x /\ Elsewhere(t, f.pending, h.pending)
  BY <1>2, NewPending
<1>4. Completed(f, t, k, n) = g
  BY <1>2, <1>r DEF Completed, Stores
<1> HIDE DEF h, x
<1>5. /\ g \in Stores /\ g.pending = h.pending /\ g.creds[r][k] = n
      /\ \A s \in KeyRoles, j \in Creds : <<s, j>> # <<r, k>> => g.creds[s][j] = h.creds[s][j]
  BY <1>3, NewCount
<1> HIDE DEF g
<1>6. Grows(f.creds, g.creds)
  BY <1>3, <1>5, <1>r DEF Grows
<1>7. g.creds[r][k] # NotStored
  BY <1>5 DEF NotStored
<1>8. Elsewhere(t, f.pending, g.pending) /\ g.pending[t].state = "used"
  BY <1>2, <1>3, <1>5
<1> QED BY <1>4, <1>5, <1>6, <1>7, <1>8, <1>r

(* One request goes on; the store, its history and the other process stay. *)
LEMMA RequestMoves ==
  ASSUME StoreGood, NEW q \in Requests, NEW x \in Served, x.op # "bound",
         requests' = [requests EXCEPT ![q] = x],
         UNCHANGED <<clock, file, operator, enrolled, lastCount>>,
         server' \in Mutation \cup {NoWork}, ServerFresh'
  PROVE  StoreGood'
<1>1. requests \in [Requests -> Served] /\ StoreTypes
  BY DEF StoreGood, StoreTypes
<1>2. requests' \in [Requests -> Served] /\ \A p \in Requests : requests'[p].op = "bound" => requests'[p] = requests[p]
  BY <1>1
<1>3. StoreTypes'
  BY <1>1, <1>2 DEF StoreTypes
<1>4. OperatorFresh'
  <2>1. \A t \in Invites : NoneBound(t) => NoneBound(t)'
    BY <1>2 DEF NoneBound
  <2> QED BY <2>1 DEF StoreGood, OperatorFresh
<1>5. Enrolled' /\ Last'
  BY DEF StoreGood, Enrolled, Last
<1>6. Bound'
  BY <1>2 DEF StoreGood, Bound
<1> QED BY <1>3, <1>4, <1>5, <1>6 DEF StoreGood

LEMMA MutationStarts ==
  ASSUME StoreGood, NEW q \in Requests, NEW x \in Served, NEW new \in Stores,
         x.op \in Saving, Prepared(q, x, new),
         requests' = [requests EXCEPT ![q] = x], Load(q, new)
  PROVE  StoreGood'
<1> DEFINE m == [op |-> "save", for |-> q, new |-> new, stale |-> FALSE]
<1>1. m \in Mutation /\ m.for = q /\ m.new = new /\ m # NoWork
  <2>1. m \in Mutation /\ m.for = q /\ m.new = new
    BY DEF Mutation
  <2> QED BY <2>1, StoreShapes
<1>2. server = NoWork /\ server' = m /\ UNCHANGED <<clock, file, operator, enrolled, lastCount>>
  BY DEF Load
<1>3. requests \in [Requests -> Served]
  BY DEF StoreGood, StoreTypes
<1>4. Prepared(q, x, new)'
  BY <1>2 DEF Prepared, Prunes, Binds, Stores1, Counts
<1> HIDE DEF m
<1>5. requests'[q] = x /\ \A p \in Requests : p # q => requests'[p] = requests[p]
  BY <1>3
<1>6. \A p \in Requests : p # q => requests'[p].op \notin Saving
  BY <1>2, <1>5 DEF StoreGood, ServerFresh
<1>7. ServerFresh'
  BY <1>1, <1>2, <1>4, <1>5, <1>6 DEF ServerFresh
<1>8. x.op # "bound"
  BY DEF Saving
<1> QED BY <1>1, <1>2, <1>7, <1>8, RequestMoves

LEMMA MutationRefused ==
  ASSUME StoreGood, NEW q \in Requests, NEW x \in Served, x.op \notin Saving, x.op # "bound",
         requests' = [requests EXCEPT ![q] = x],
         requests[q].op \notin Saving,
         UNCHANGED <<clock, file, server, operator, enrolled, lastCount>>
  PROVE  StoreGood'
<1>1. requests \in [Requests -> Served] /\ server \in Mutation \cup {NoWork}
  BY DEF StoreGood, StoreTypes
<1>2. \A p \in Requests : requests'[p] = requests[p] \/ (p = q /\ requests'[p].op \notin Saving)
  BY <1>1
<1>3. ServerFresh'
  <2>1. server # NoWork => server.for \in Requests /\ server.for # q
    BY <1>1 DEF StoreGood, ServerFresh, Mutation
  <2>2. server # NoWork => requests'[server.for] = requests[server.for]
    BY <1>1, <2>1
  <2>3. \A p \in Requests, y \in Served, n \in Stores : Prepared(p, y, n) => Prepared(p, y, n)'
    BY DEF Prepared, Prunes, Binds, Stores1, Counts
  <2>4. server # NoWork => server.new \in Stores /\ requests[server.for] \in Served
    BY <1>1, <2>1 DEF Mutation
  <2>5. server # NoWork /\ server.stale = FALSE => Prepared(server.for, requests[server.for], server.new)
    BY DEF StoreGood, ServerFresh
  <2>6. ASSUME server # NoWork, server.stale = FALSE
        PROVE  Prepared(server.for, requests[server.for], server.new)'
    <3> DEFINE p == server.for
               y == requests[server.for]
               n == server.new
    <3>1. p \in Requests /\ y \in Served /\ n \in Stores /\ Prepared(p, y, n)
      BY <2>1, <2>4, <2>5, <2>6
    <3>2. p' = p /\ y' = y /\ n' = n
      BY <2>2, <2>6
    <3> QED BY <3>1, <3>2 DEF Prepared, Prunes, Binds, Stores1, Counts
  <2>7. server' # NoWork => requests'[server'.for].op \in Saving
    BY <2>2 DEF StoreGood, ServerFresh
  <2>8. \A p \in Requests : requests'[p].op \in Saving => server' # NoWork /\ server'.for = p
    BY <1>2 DEF StoreGood, ServerFresh
  <2> QED BY <2>6, <2>7, <2>8 DEF ServerFresh
<1> QED BY <1>1, <1>3, RequestMoves

LEMMA RequestsStep ==
  ASSUME StoreConstants, StoreGood, NEW q \in Requests,
         \/ \E t \in Invites : BeginEnroll(q, t)
         \/ \E b \in Requests, k \in Creds, n \in 0 .. MaxCount : FinishEnroll(q, b, k, n)
         \/ \E r \in KeyRoles, k \in Creds, n \in 0 .. MaxCount : LogIn(q, r, k, n)
         \/ Bind(q) \/ Complete(q) \/ Count(q) \/ Close(q)
  PROVE  StoreGood'
<1>0. /\ file \in Stores /\ requests[q] \in Served /\ requests \in [Requests -> Served]
      /\ NoWork \in Served /\ NoWork.op \notin Saving /\ NoWork.op # "bound"
  BY StoreShapes DEF StoreGood, StoreTypes, Served, Saving
<1>s. file.pending \in [Invites -> Pending] /\ file.creds \in [KeyRoles -> [Creds -> Int]]
  BY <1>0 DEF Stores
<1>1. ASSUME NEW t \in Invites, BeginEnroll(q, t) PROVE StoreGood'
  <2> DEFINE x == [op |-> "prune", ticket |-> t]
  <2>1. x \in Served /\ x.op = "prune"
    BY DEF Served, Ceremony
  <2>2. requests' = [requests EXCEPT ![q] = x] /\ Load(q, Pruned(file))
    BY <1>1 DEF BeginEnroll
  <2> HIDE DEF x
  <2>3. Pruned(file) \in Stores /\ Prunes(Pruned(file))
    BY <1>0, PruneIs DEF Prunes
  <2>4. x.op \in Saving /\ Prepared(q, x, Pruned(file))
    BY <2>1, <2>3 DEF Saving, Prepared
  <2> QED BY <2>1, <2>2, <2>3, <2>4, MutationStarts
<1>2. CASE Bind(q)
  <2> DEFINE t == requests[q].ticket
             x == [op |-> "binding", ticket |-> t]
             new == [file EXCEPT !.pending[t].challenge = q]
  <2>1. requests[q] \in Ceremony /\ t \in Invites /\ requests[q].op = "bind"
    BY <1>0, <1>2, StoreShapes DEF Bind, Served
  <2>2. CASE Bindable(file, t)
    <3>1. file.pending[t].state = "open" /\ file.pending[t].challenge = "none"
      BY <2>2 DEF Bindable, FindPending
    <3>2. x \in Served /\ x.op = "binding" /\ x.ticket = t
      BY <2>1 DEF Served, Ceremony
    <3>3. requests' = [requests EXCEPT ![q] = x] /\ Load(q, new)
      <4>1. requests' = [requests EXCEPT ![q].op = "binding"] /\ Load(q, new)
        BY <1>2, <2>2 DEF Bind
      <4>2. [requests[q] EXCEPT !.op = "binding"] = x
        BY <2>1 DEF Ceremony
      <4> QED BY <4>1, <4>2
    <3>4. new \in Stores /\ Binds(q, t, new)
      BY <1>0, <2>1, <3>1, BindIs DEF Binds
    <3> HIDE DEF x, new
    <3>5. x.op \in Saving /\ Prepared(q, x, new)
      BY <3>2, <3>4 DEF Saving, Prepared
    <3> QED BY <3>2, <3>3, <3>4, <3>5, MutationStarts
  <2>3. CASE ~Bindable(file, t)
    <3>1. requests' = [requests EXCEPT ![q] = NoWork] /\ UNCHANGED <<clock, file, server, operator, enrolled, lastCount>>
      BY <1>2, <2>3 DEF Bind
    <3>2. requests[q].op \notin Saving
      BY <2>1 DEF Saving
    <3> QED BY <1>0, <3>1, <3>2, MutationRefused
  <2> QED BY <2>2, <2>3
<1>3. ASSUME NEW b \in Requests, NEW k \in Creds, NEW n \in 0 .. MaxCount, FinishEnroll(q, b, k, n) PROVE StoreGood'
  <2> DEFINE t == requests[b].ticket
             x == [op |-> "complete", ticket |-> t, cred |-> k, count |-> n]
  <2>1. requests[b].op = "bound" /\ requests[b] \in Served /\ requests[q] = NoWork
    BY <1>0, <1>3 DEF FinishEnroll
  <2>2. t \in Invites
    BY <2>1, StoreShapes DEF Served
  <2>3. x \in Served /\ x.op \notin Saving /\ x.op # "bound"
    BY <2>2 DEF Served, Finishing, Saving, StoreConstants
  <2>4. requests' = [requests EXCEPT ![q] = x] /\ UNCHANGED <<clock, file, server, operator, enrolled, lastCount>>
    BY <1>3 DEF FinishEnroll
  <2> HIDE DEF x
  <2> QED BY <1>0, <2>1, <2>3, <2>4, MutationRefused
<1>4. CASE Complete(q)
  <2> DEFINE t == requests[q].ticket
             k == requests[q].cred
             n == requests[q].count
             r == file.pending[t].role
             x == [op |-> "completing", ticket |-> t, cred |-> k, role |-> r]
             new == Completed(file, t, k, n)
  <2>1. requests[q] \in Finishing /\ t \in Invites /\ k \in Creds /\ n \in Nat /\ requests[q].op = "complete"
    BY <1>0, <1>4, StoreShapes DEF Complete, Served
  <2>2. CASE Completable(file, t, k)
    <3>1. file.pending[t].state = "open" /\ file.creds[r][k] = NotStored
      BY <2>2 DEF Completable, FindPending
    <3>2. r \in KeyRoles
      BY <1>s, <2>1, <3>1, StoreShapes
    <3>3. x \in Served /\ x.op = "completing" /\ x.ticket = t /\ x.cred = k /\ x.role = r
      BY <2>1, <3>2 DEF Served, Storing
    <3>4. requests' = [requests EXCEPT ![q] = x] /\ Load(q, new)
      BY <1>4, <2>2 DEF Complete
    <3>5. new \in Stores /\ Stores1(t, r, k, new)
      BY <1>0, <2>1, <3>1, CompleteIs DEF Stores1
    <3> HIDE DEF x, new, t, r, k
    <3>6. x.op \in Saving /\ Prepared(q, x, new)
      BY <3>3, <3>5 DEF Saving, Prepared
    <3> QED BY <3>3, <3>4, <3>5, <3>6, MutationStarts
  <2>3. CASE ~Completable(file, t, k)
    <3>1. requests' = [requests EXCEPT ![q] = NoWork] /\ UNCHANGED <<clock, file, server, operator, enrolled, lastCount>>
      BY <1>4, <2>3 DEF Complete
    <3>2. requests[q].op \notin Saving
      BY <2>1 DEF Saving
    <3> QED BY <1>0, <3>1, <3>2, MutationRefused
  <2> QED BY <2>2, <2>3
<1>5. ASSUME NEW r \in KeyRoles, NEW k \in Creds, NEW n \in 0 .. MaxCount, LogIn(q, r, k, n) PROVE StoreGood'
  <2> DEFINE x == [op |-> "count", role |-> r, cred |-> k, count |-> n]
  <2>1. x \in Served /\ x.op \notin Saving /\ x.op # "bound"
    BY DEF Served, Counted, Saving, StoreConstants
  <2>2. /\ requests[q] = NoWork /\ requests' = [requests EXCEPT ![q] = x]
        /\ UNCHANGED <<clock, file, server, operator, enrolled, lastCount>>
    BY <1>5 DEF LogIn
  <2> HIDE DEF x
  <2> QED BY <1>0, <2>1, <2>2, MutationRefused
<1>6. CASE Count(q)
  <2> DEFINE r == requests[q].role
             k == requests[q].cred
             n == requests[q].count
             x == [op |-> "counting", role |-> r, cred |-> k, count |-> n]
             new == [file EXCEPT !.creds[r][k] = n]
  <2>1. requests[q] \in Counted /\ r \in KeyRoles /\ k \in Creds /\ n \in Nat /\ requests[q].op = "count"
    BY <1>0, <1>6, StoreShapes DEF Count, Served
  <2>2. CASE /\ n # 0 /\ file.creds[r][k] # NotStored /\ Increases(file.creds[r][k], n)
             /\ requests' = [requests EXCEPT ![q].op = "counting"] /\ Load(q, new)
    <3>1. [requests[q] EXCEPT !.op = "counting"] = x
      BY <2>1 DEF Counted
    <3>2. x \in Served /\ x.op = "counting" /\ x.role = r /\ x.cred = k /\ x.count = n
      BY <2>1 DEF Served, Counted
    <3>3. requests' = [requests EXCEPT ![q] = x]
      BY <2>2, <3>1
    <3>4. n > lastCount[r][k]
      <4>1. lastCount[r][k] = 0 \/ lastCount[r][k] = file.creds[r][k]
        BY <2>1 DEF StoreGood, Last
      <4>2. n \in Nat /\ file.creds[r][k] \in Int
        BY <1>s, <2>1
      <4>3. n # 0 /\ (n = 0 \/ file.creds[r][k] = 0 \/ n > file.creds[r][k])
        BY <2>2 DEF Increases
      <4> QED BY <4>1, <4>2, <4>3
    <3>5. /\ new \in Stores /\ new.pending = file.pending /\ new.creds[r][k] = n
          /\ \A s \in KeyRoles, j \in Creds : <<s, j>> # <<r, k>> => new.creds[s][j] = file.creds[s][j]
      BY <1>0, <2>1, NewCount
    <3>6. Load(q, new) /\ file.creds[r][k] # NotStored
      BY <2>2
    <3> HIDE DEF x, new, r, k, n
    <3>7. Counts(r, k, n, new)
      BY <3>4, <3>5, <3>6 DEF Counts
    <3>8. x.op \in Saving /\ Prepared(q, x, new)
      BY <3>2, <3>7 DEF Saving, Prepared
    <3> QED BY <3>2, <3>3, <3>5, <3>6, <3>8, MutationStarts
  <2>3. CASE requests' = [requests EXCEPT ![q] = NoWork] /\ UNCHANGED <<clock, file, server, operator, enrolled, lastCount>>
    <3>2. requests[q].op \notin Saving
      BY <2>1 DEF Saving
    <3> QED BY <1>0, <2>3, <3>2, MutationRefused
  <2> QED BY <1>6, <2>2, <2>3 DEF Count
<1>7. CASE Close(q)
  <2>1. /\ requests[q].op = "bound" /\ requests' = [requests EXCEPT ![q] = NoWork]
        /\ UNCHANGED <<clock, file, server, operator, enrolled, lastCount>>
    BY <1>7 DEF Close
  <2>2. requests[q].op \notin Saving
    BY <2>1 DEF Saving
  <2> QED BY <1>0, <2>1, <2>2, MutationRefused
<1> QED BY <1>1, <1>2, <1>3, <1>4, <1>5, <1>6, <1>7

(* saveFile: what was prepared is there, and only that.                    *)
LEMMA SaveStep ==
  ASSUME StoreConstants, StoreGood, Save, server.stale = FALSE
  PROVE  StoreGood' /\ (repeated' => repeated)
<1> DEFINE q == server.for
           r == requests[q]
           new == server.new
<1>0. /\ server \in Mutation /\ server # NoWork /\ q \in Requests /\ new \in Stores
      /\ r \in Served /\ requests \in [Requests -> Served] /\ file \in Stores
      /\ enrolled \in [Invites -> SUBSET (KeyRoles \X Creds)] /\ lastCount \in [KeyRoles -> [Creds -> Nat]]
      /\ operator \in Command \cup {NoWork} /\ clock \in Int
  <2>1. server \in Mutation /\ server # NoWork
    BY DEF StoreGood, StoreTypes, Save
  <2>2. q \in Requests /\ new \in Stores
    BY <2>1 DEF Mutation
  <2> QED BY <2>1, <2>2 DEF StoreGood, StoreTypes
<1>1. r.op \in Saving /\ Prepared(q, r, new)
  BY <1>0 DEF StoreGood, ServerFresh
<1>2. /\ file' = new /\ server' = NoWork /\ clock' = clock
      /\ operator' = Outdated(operator) /\ requests' = [requests EXCEPT ![q] = Answered(r)]
      /\ enrolled' = IF r.op = "completing"
                     THEN [enrolled EXCEPT ![r.ticket] = @ \cup {<<r.role, r.cred>>}] ELSE enrolled
      /\ lastCount' = IF r.op = "counting" THEN [lastCount EXCEPT ![r.role][r.cred] = r.count]
                      ELSE lastCount
  BY DEF Save
<1>3. repeated' => repeated \/ (r.op = "counting" /\ r.count <= lastCount[r.role][r.cred])
  BY Zenon DEF Save
<1>4. /\ Answered(r) \in Served /\ Answered(r).op \notin Saving
      /\ Answered(r).op = "bound" => r.op = "binding" /\ Answered(r).ticket = r.ticket
  <2>1. r.op \in {"prune", "binding"} => r.ticket \in Invites
    BY <1>0, StoreShapes DEF Served
  <2>2. CASE r.op = "prune"
    <3>1. Answered(r) = [op |-> "bind", ticket |-> r.ticket]
      BY <2>2 DEF Answered
    <3> QED BY <2>1, <2>2, <3>1 DEF Served, Ceremony, Saving
  <2>3. CASE r.op = "binding"
    <3>1. Answered(r) = [op |-> "bound", ticket |-> r.ticket]
      BY <2>3 DEF Answered
    <3> QED BY <2>1, <2>3, <3>1 DEF Served, Ceremony, Saving
  <2>4. CASE r.op \notin {"prune", "binding"}
    <3>1. Answered(r) = NoWork
      BY <2>4 DEF Answered
    <3> QED BY <3>1, StoreShapes DEF Served, Saving
  <2> QED BY <2>2, <2>3, <2>4
<1>5. operator' \in Command \cup {NoWork} /\ (operator' # NoWork => operator'.stale = TRUE)
  <2>1. CASE operator = NoWork
    BY <1>2, <2>1 DEF Outdated
  <2>2. CASE operator \in Command
    <3>1. operator' = [operator EXCEPT !.stale = TRUE]
      BY <1>2, <2>2, StoreShapes DEF Outdated
    <3> QED BY <2>2, <3>1 DEF Command
  <2> QED BY <1>0, <2>1, <2>2
<1>6. requests' \in [Requests -> Served] /\ \A p \in Requests : requests'[p] = IF p = q THEN Answered(r) ELSE requests[p]
  BY <1>0, <1>2, <1>4
<1>7. ServerFresh'
  BY <1>2, <1>4, <1>6 DEF StoreGood, ServerFresh
<1>8. OperatorFresh'
  BY <1>5 DEF OperatorFresh
(* Where the requests and the history leave the store, by what is saved.   *)
<1>9. ASSUME Enrolled', Bound', Last', repeated' => repeated,
             enrolled' \in [Invites -> SUBSET (KeyRoles \X Creds)], lastCount' \in [KeyRoles -> [Creds -> Nat]]
      PROVE  StoreGood' /\ (repeated' => repeated)
  <2>1. StoreTypes'
    BY <1>0, <1>2, <1>5, <1>6, <1>9 DEF StoreTypes
  <2> QED BY <1>7, <1>8, <1>9, <2>1, Zenon DEF StoreGood
<1>e. Enrolled /\ Bound /\ Last
  BY DEF StoreGood
<1> HIDE DEF new, r, q
<1>10. CASE r.op = "prune"
  <2>1. Prunes(new)
    BY <1>1, <1>10 DEF Prepared
  <2>2. enrolled' = enrolled /\ lastCount' = lastCount /\ (repeated' => repeated)
    BY <1>2, <1>3, <1>10
  <2>3. \A u \in Invites : file'.pending[u] = file.pending[u] \/ file'.pending[u].state = "none"
    BY <1>2, <2>1, StoreShapes DEF Prunes
  <2>4. file'.creds = file.creds
    BY <1>2, <2>1 DEF Prunes
  <2>5. Enrolled' /\ Last'
    BY <1>e, <2>2, <2>3, <2>4 DEF Enrolled, Last
  <2>6. Bound'
    <3>1. \A p \in Requests : requests'[p].op = "bound" => requests'[p] = requests[p] /\ requests[p].ticket \in Invites
      BY <1>0, <1>4, <1>6, <1>10, StoreShapes DEF Served
    <3> QED BY <1>e, <2>3, <3>1 DEF Bound
  <2> QED BY <1>0, <1>9, <2>2, <2>5, <2>6
<1>11. CASE r.op = "binding"
  <2>1. Binds(q, r.ticket, new) /\ r.ticket \in Invites
    BY <1>0, <1>1, <1>11, StoreShapes DEF Prepared, Served
  <2>2. enrolled' = enrolled /\ lastCount' = lastCount /\ (repeated' => repeated)
    BY <1>2, <1>3, <1>11
  <2>3. /\ file'.creds = file.creds /\ \A u \in Invites : u # r.ticket => file'.pending[u] = file.pending[u]
        /\ file.pending[r.ticket].state = "open" /\ file.pending[r.ticket].challenge = "none"
        /\ file'.pending[r.ticket].challenge = q
    BY <1>2, <2>1 DEF Binds, Elsewhere
  <2>4. Enrolled' /\ Last'
    BY <1>e, <2>2, <2>3 DEF Enrolled, Last
  <2>5. Bound'
    <3> SUFFICES ASSUME NEW p \in Requests, requests'[p].op = "bound",
                        file'.pending[requests'[p].ticket].state = "open"
                 PROVE  file'.pending[requests'[p].ticket].challenge = p
      BY DEF Bound
    <3>1. CASE p = q
      BY <1>4, <1>6, <2>3, <3>1
    <3>2. CASE p # q
      <4>1. requests'[p] = requests[p] /\ requests[p].ticket \in Invites
        BY <1>0, <1>6, <3>2, StoreShapes DEF Served
      <4>2. requests[p].ticket # r.ticket
        BY <1>e, <2>3, <4>1 DEF Bound, StoreConstants
      <4> QED BY <1>e, <2>3, <4>1, <4>2 DEF Bound
    <3> QED BY <3>1, <3>2
  <2> QED BY <1>0, <1>9, <2>2, <2>4, <2>5
<1>12. CASE r.op = "completing"
  <2>1. Stores1(r.ticket, r.role, r.cred, new) /\ r.ticket \in Invites /\ r.role \in KeyRoles /\ r.cred \in Creds
    BY <1>0, <1>1, <1>12, StoreShapes DEF Prepared, Served
  <2>2. /\ enrolled' = [enrolled EXCEPT ![r.ticket] = @ \cup {<<r.role, r.cred>>}]
        /\ lastCount' = lastCount /\ (repeated' => repeated)
    BY <1>2, <1>3, <1>12
  <2>3. /\ \A u \in Invites : u # r.ticket => file'.pending[u] = file.pending[u]
        /\ file.pending[r.ticket].state = "open" /\ file'.pending[r.ticket].state = "used"
        /\ \A s \in KeyRoles, j \in Creds : file'.creds[s][j] = file.creds[s][j] \/ file.creds[s][j] = NotStored
        /\ file'.creds[r.role][r.cred] # NotStored
    BY <1>2, <2>1 DEF Stores1, Elsewhere, Grows
  <2>4. enrolled[r.ticket] = {}
    BY <1>e, <2>1, <2>3 DEF Enrolled
  <2>5. /\ enrolled'[r.ticket] = {<<r.role, r.cred>>} /\ \A u \in Invites : u # r.ticket => enrolled'[u] = enrolled[u]
        /\ enrolled' \in [Invites -> SUBSET (KeyRoles \X Creds)]
    BY <1>0, <2>1, <2>2, <2>4
  <2>6. Enrolled'
    <3> SUFFICES ASSUME NEW u \in Invites
                 PROVE  /\ enrolled'[u] # {} => file'.pending[u].state # "open"
                        /\ \A d, e \in enrolled'[u] : d = e
                        /\ \A e \in enrolled'[u] : file'.creds[e[1]][e[2]] # NotStored
      BY DEF Enrolled
    <3>1. CASE u = r.ticket
      BY <2>3, <2>5, <3>1
    <3>2. CASE u # r.ticket
      <4>1. \A e \in enrolled[u] : e[1] \in KeyRoles /\ e[2] \in Creds
        BY <1>0
      <4> QED BY <1>e, <2>3, <2>5, <3>2, <4>1 DEF Enrolled
    <3> QED BY <3>1, <3>2
  <2>7. Last'
    <3> SUFFICES ASSUME NEW s \in KeyRoles, NEW j \in Creds
                 PROVE  lastCount'[s][j] = 0 \/ lastCount'[s][j] = file'.creds[s][j]
      BY DEF Last
    <3>1. (lastCount[s][j] = 0 \/ lastCount[s][j] = file.creds[s][j]) /\ lastCount[s][j] \in Nat
      BY <1>0, <1>e DEF Last
    <3> QED BY <2>2, <2>3, <3>1 DEF NotStored
  <2>8. Bound'
    <3> SUFFICES ASSUME NEW p \in Requests, requests'[p].op = "bound",
                        file'.pending[requests'[p].ticket].state = "open"
                 PROVE  file'.pending[requests'[p].ticket].challenge = p
      BY DEF Bound
    <3>1. requests'[p] = requests[p] /\ requests[p].ticket \in Invites
      BY <1>0, <1>4, <1>6, <1>12, StoreShapes DEF Served
    <3> QED BY <1>e, <2>3, <3>1 DEF Bound
  <2> QED BY <1>0, <1>9, <2>2, <2>5, <2>6, <2>7, <2>8
<1>13. CASE r.op = "counting"
  <2>1. Counts(r.role, r.cred, r.count, new) /\ r.role \in KeyRoles /\ r.cred \in Creds /\ r.count \in Nat
    BY <1>0, <1>1, <1>13, StoreShapes DEF Prepared, Served
  <2>2. enrolled' = enrolled /\ lastCount' = [lastCount EXCEPT ![r.role][r.cred] = r.count]
    BY <1>2, <1>13
  <2>3. /\ file'.pending = file.pending /\ r.count > lastCount[r.role][r.cred]
        /\ \A s \in KeyRoles, j \in Creds : <<s, j>> # <<r.role, r.cred>> => file'.creds[s][j] = file.creds[s][j]
        /\ file'.creds[r.role][r.cred] = r.count
    BY <1>2, <2>1 DEF Counts
  <2>4. repeated' => repeated
    <3>1. lastCount[r.role][r.cred] \in Nat
      BY <1>0, <2>1
    <3>2. ~(r.count <= lastCount[r.role][r.cred])
      BY <2>1, <2>3, <3>1
    <3> QED BY <1>3, <3>2, Zenon
  <2>5. /\ lastCount' \in [KeyRoles -> [Creds -> Nat]] /\ lastCount'[r.role][r.cred] = r.count
        /\ \A s \in KeyRoles, j \in Creds : <<s, j>> # <<r.role, r.cred>> => lastCount'[s][j] = lastCount[s][j]
    BY <1>0, <2>1, <2>2
  <2>6. Last'
    BY <1>e, <2>3, <2>5 DEF Last
  <2>7. \A s \in KeyRoles, j \in Creds : file.creds[s][j] # NotStored => file'.creds[s][j] # NotStored
    <3>1. r.count # NotStored
      BY <2>1 DEF NotStored
    <3> QED BY <2>3, <3>1
  <2>8. Enrolled'
    <3>1. \A u \in Invites : \A e \in enrolled[u] : e[1] \in KeyRoles /\ e[2] \in Creds
      BY <1>0
    <3> QED BY <1>e, <2>2, <2>3, <2>7, <3>1 DEF Enrolled
  <2>9. Bound'
    <3>1. \A p \in Requests : requests'[p].op = "bound" => requests'[p] = requests[p]
      BY <1>4, <1>6, <1>13
    <3> QED BY <1>e, <2>3, <3>1 DEF Bound
  <2> QED BY <1>0, <1>9, <2>2, <2>4, <2>5, <2>6, <2>8, <2>9
<1> QED BY <1>1, <1>10, <1>11, <1>12, <1>13 DEF Saving

LEMMA OperatorStep ==
  ASSUME StoreConstants, StoreGood
  PROVE  /\ \A t \in Invites, r \in KeyRoles : OperatorLoad(t, r) => StoreGood'
         /\ OperatorSave /\ operator.stale = FALSE => StoreGood'
<1>0. /\ file \in Stores /\ requests \in [Requests -> Served] /\ clock \in Int
      /\ operator \in Command \cup {NoWork} /\ server \in Mutation \cup {NoWork}
      /\ enrolled \in [Invites -> SUBSET (KeyRoles \X Creds)] /\ StoreTypes
  BY DEF StoreGood, StoreTypes
<1>1. ASSUME NEW t \in Invites, NEW r \in KeyRoles, OperatorLoad(t, r) PROVE StoreGood'
  <2> DEFINE x == [state |-> "open", role |-> r, expires |-> clock + TTL, challenge |-> "none"]
             new == [file EXCEPT !.pending[t] = x]
             c == [op |-> "save", stale |-> FALSE, new |-> new]
  <2>1. x \in Pending
    BY <1>0 DEF Pending, Offer, StoreConstants
  <2>2. operator' = c /\ UNCHANGED <<clock, file, server, requests, enrolled, lastCount>> /\ enrolled[t] = {}
    BY <1>1 DEF OperatorLoad
  <2> HIDE DEF x
  <2>3. new \in Stores /\ new.creds = file.creds /\ Elsewhere(t, file.pending, new.pending)
    BY <1>0, <2>1, NewPending
  <2> HIDE DEF new
  <2>4. c \in Command /\ c.new = new
    BY <2>3 DEF Command
  <2> HIDE DEF c
  <2>5. NoneBound(t)
    <3> SUFFICES ASSUME NEW q \in Requests, requests[q].op = "bound" PROVE requests[q].ticket # t
      BY DEF NoneBound
    <3>1. requests[q] \in Ceremony
      BY <1>0, StoreShapes DEF Served
    <3>2. "ticket" \in DOMAIN requests[q]
      BY <3>1 DEF Ceremony
    <3> QED BY <1>1, <3>2 DEF OperatorLoad
  <2>6. OperatorFresh'
    BY <2>2, <2>3, <2>4, <2>5 DEF OperatorFresh, NoneBound, Elsewhere
  <2>7. ServerFresh' /\ Enrolled' /\ Bound' /\ Last'
    BY <2>2 DEF StoreGood, ServerFresh, Prepared, Prunes, Binds, Stores1, Counts, Enrolled, Bound, Last
  <2>8. StoreTypes'
    BY <1>0, <2>2, <2>4 DEF StoreTypes
  <2> QED BY <2>6, <2>7, <2>8 DEF StoreGood
<1>2. ASSUME OperatorSave, operator.stale = FALSE PROVE StoreGood'
  <2>1. /\ operator # NoWork /\ file' = operator.new /\ operator' = NoWork /\ server' = Outdated(server)
        /\ UNCHANGED <<clock, requests, enrolled, lastCount>>
    BY <1>2 DEF OperatorSave
  <2>2. operator \in Command /\ file' \in Stores
    BY <1>0, <2>1 DEF Command
  <2>3. /\ file'.creds = file.creds
        /\ \A t \in Invites : file'.pending[t] = file.pending[t] \/ (enrolled[t] = {} /\ NoneBound(t))
    BY <1>2, <2>1 DEF StoreGood, OperatorFresh
  <2>4. /\ server' \in Mutation \cup {NoWork} /\ (server = NoWork <=> server' = NoWork)
        /\ server # NoWork => server'.stale = TRUE /\ server'.for = server.for
    <3>1. CASE server = NoWork
      BY <2>1, <3>1 DEF Outdated
    <3>2. CASE server \in Mutation
      <4>1. server' = [server EXCEPT !.stale = TRUE]
        BY <2>1, <3>2, StoreShapes DEF Outdated
      <4>2. server' \in Mutation /\ server'.stale = TRUE /\ server'.for = server.for
        BY <3>2, <4>1 DEF Mutation
      <4> QED BY <3>2, <4>2, StoreShapes
    <3> QED BY <1>0, <3>1, <3>2
  <2>5. ServerFresh'
    BY <2>1, <2>4 DEF StoreGood, ServerFresh
  <2>6. OperatorFresh'
    BY <2>1 DEF OperatorFresh
  <2>7. Enrolled' /\ Last'
    BY <2>1, <2>3 DEF StoreGood, Enrolled, Last
  <2>8. Bound'
    <3> SUFFICES ASSUME NEW q \in Requests, requests[q].op = "bound",
                        file'.pending[requests[q].ticket].state = "open"
                 PROVE  file'.pending[requests[q].ticket].challenge = q
      BY <2>1 DEF Bound
    <3>1. requests[q].ticket \in Invites
      BY <1>0, StoreShapes DEF Served
    <3>2. file'.pending[requests[q].ticket] = file.pending[requests[q].ticket]
      BY <2>3, <3>1 DEF NoneBound
    <3> QED BY <3>2 DEF StoreGood, Bound
  <2>9. StoreTypes'
    BY <1>0, <2>1, <2>2, <2>4 DEF StoreTypes
  <2> QED BY <2>5, <2>6, <2>7, <2>8, <2>9 DEF StoreGood
<1> QED BY <1>1, <1>2

(* Once a write clobbered a version its writer had not read, the store     *)
(* promises nothing more.                                                  *)
StoreInv == clobbered \/ (StoreGood /\ ~repeated)

LEMMA StoreInit == StoreConstants /\ KeysInit => StoreGood
<1> SUFFICES ASSUME StoreConstants, KeysInit PROVE StoreGood
  OBVIOUS
<1>1. /\ clock = 0 /\ server = NoWork /\ operator = NoWork /\ requests = [q \in Requests |-> NoWork]
      /\ enrolled = [t \in Invites |-> {}] /\ lastCount = [r \in KeyRoles |-> [k \in Creds |-> 0]]
      /\ file = [pending |-> [t \in Invites |-> NoTicket], creds |-> [r \in KeyRoles |-> [k \in Creds |-> NotStored]]]
  BY DEF KeysInit
<1>2. file \in Stores
  BY <1>1 DEF Stores, Pending, NotStored
<1>3. StoreTypes
  BY <1>1, <1>2 DEF StoreTypes, Served
<1>4. \A q \in Requests : requests[q].op = "idle"
  BY <1>1, StoreShapes
<1>5. ServerFresh /\ OperatorFresh /\ Bound
  BY <1>1, <1>4 DEF ServerFresh, OperatorFresh, Bound, Saving
<1>6. Enrolled /\ Last
  BY <1>1 DEF Enrolled, Last
<1> QED BY <1>3, <1>5, <1>6 DEF StoreGood

LEMMA StoreStep ==
  ASSUME StoreConstants, StoreInv, [KeysNext]_(pvars)
  PROVE  StoreInv'
<1>c. clobbered => clobbered'
  <2>1. clobbered' = clobbered \/ Save \/ OperatorSave
    BY DEF KeysNext, pvars, BeginEnroll, FinishEnroll, LogIn, Bind, Complete, Count,
           Close, OperatorLoad, KeysTick, Load
  <2>2. Save \/ OperatorSave => (clobbered => clobbered')
    BY Zenon DEF Save, OperatorSave
  <2> QED BY <2>1, <2>2, Zenon
<1>s. ASSUME NEW s, clobbered' = (clobbered \/ s.stale), ~clobbered', s.stale \in BOOLEAN
      PROVE  s.stale = FALSE
  BY <1>s, Zenon
<1> SUFFICES ASSUME ~clobbered' PROVE StoreGood' /\ ~repeated'
  BY Zenon DEF StoreInv
<1>0. StoreGood /\ ~repeated
  BY <1>c, Zenon DEF StoreInv
<1>t. server \in Mutation \cup {NoWork} /\ operator \in Command \cup {NoWork}
  BY <1>0 DEF StoreGood, StoreTypes
<1>1. ASSUME NEW q \in Requests,
             \/ \E t \in Invites : BeginEnroll(q, t)
             \/ \E b \in Requests, k \in Creds, n \in 0 .. MaxCount : FinishEnroll(q, b, k, n)
             \/ \E r \in KeyRoles, k \in Creds, n \in 0 .. MaxCount : LogIn(q, r, k, n)
             \/ Bind(q) \/ Complete(q) \/ Count(q) \/ Close(q)
      PROVE  StoreGood' /\ ~repeated'
  <2>1. repeated' = repeated
    BY <1>1 DEF BeginEnroll, FinishEnroll, LogIn, Bind, Complete, Count, Close, Load
  <2>2. StoreGood'
    BY <1>0, <1>1, RequestsStep
  <2> QED BY <1>0, <2>1, <2>2, Zenon
<1>2. CASE Save
  <2>1. server \in Mutation /\ clobbered' = (clobbered \/ server.stale)
    BY <1>2, <1>t, Zenon DEF Save
  <2>2. server.stale = FALSE
    BY <1>s, <2>1 DEF Mutation
  <2> QED BY <1>0, <1>2, <2>2, SaveStep, Zenon
<1>3. CASE OperatorSave
  <2>1. operator \in Command /\ clobbered' = (clobbered \/ operator.stale) /\ repeated' = repeated
    BY <1>3, <1>t, Zenon DEF OperatorSave
  <2>2. operator.stale = FALSE
    BY <1>s, <2>1 DEF Command
  <2> QED BY <1>0, <1>3, <2>1, <2>2, OperatorStep, Zenon
<1>4. ASSUME NEW t \in Invites, NEW r \in KeyRoles, OperatorLoad(t, r) PROVE StoreGood' /\ ~repeated'
  <2>1. repeated' = repeated
    BY <1>4, Zenon DEF OperatorLoad
  <2> QED BY <1>0, <1>4, <2>1, OperatorStep, Zenon
<1>5. CASE KeysTick \/ UNCHANGED pvars
  <2>1. /\ UNCHANGED <<file, server, operator, requests, enrolled, lastCount, repeated>>
        /\ clock' = clock + 1 \/ clock' = clock
    BY <1>5 DEF KeysTick, pvars
  <2>2. StoreTypes'
    <3>1. clock \in Int
      BY <1>0 DEF StoreGood, StoreTypes
    <3>2. clock' \in Int
      BY <2>1, <3>1
    <3> QED BY <1>0, <2>1, <3>2 DEF StoreGood, StoreTypes
  <2>3. ServerFresh' /\ OperatorFresh' /\ Enrolled' /\ Bound' /\ Last'
    BY <1>0, <2>1 DEF StoreGood, ServerFresh, Prepared, Prunes, Binds, Stores1, Counts, OperatorFresh,
           NoneBound, Enrolled, Bound, Last
  <2> QED BY <1>0, <2>1, <2>2, <2>3, Zenon DEF StoreGood
<1> QED BY <1>1, <1>2, <1>3, <1>4, <1>5 DEF KeysNext

(* mutate, BindChallenge, CompleteEnrollment, UpdateSignCount and `v2vctl  *)
(* enroll`: for any requests, tickets and credentials, until the operator  *)
(* and the server overwrite each other, what was enrolled stays, a ticket  *)
(* enrols once, a bound challenge stays bound and no counter is used twice.*)
THEOREM PasskeysAlwaysHold ==
  ASSUME StoreConstants
  PROVE  KeysSpec => []PasskeysHold
<1>1. KeysInit => StoreInv
  <2>1. KeysInit => ~repeated
    BY DEF KeysInit
  <2> QED BY <2>1, StoreInit, Zenon DEF StoreInv
<1>2. StoreInv /\ [KeysNext]_(pvars) => StoreInv'
  BY StoreStep
<1>3. StoreInv => PasskeysHold
  <2>1. ASSUME StoreGood, NEW t \in Invites PROVE Cardinality(enrolled[t]) <= 1
    <3>1. \A d, e \in enrolled[t] : d = e
      BY <2>1 DEF StoreGood, Enrolled
    <3>2. enrolled[t] = {} \/ \E e : enrolled[t] = {e}
      BY <3>1
    <3>3. Cardinality(enrolled[t]) = 0 \/ Cardinality(enrolled[t]) = 1
      BY <3>2, FS_EmptySet, FS_Singleton, Zenon
    <3> QED BY <3>3
  <2>2. ASSUME StoreGood, NEW t \in Invites, NEW e \in enrolled[t] PROVE file.creds[e[1]][e[2]] # NotStored
    BY <2>2 DEF StoreGood, Enrolled
  <2>3. ASSUME StoreGood, NEW q \in Requests, requests[q].op = "bound"
        PROVE  LET p == file.pending[requests[q].ticket] IN p.state = "open" => p.challenge = q
    BY <2>3 DEF StoreGood, Bound
  <2>4. StoreInv => EnrolledSticks
    BY <2>2, Zenon DEF StoreInv, EnrolledSticks
  <2>5. StoreInv => OnePerTicket
    <3>1. StoreInv => clobbered \/ StoreGood
      BY Zenon DEF StoreInv
    <3>2. StoreGood => \A t \in Invites : Cardinality(enrolled[t]) <= 1
      BY <2>1
    <3>3. \A S : Cardinality(S) = Cardinality(S)
      BY Zenon DEF Cardinality, Cardinality
    <3> QED BY <3>1, <3>2, <3>3, Zenon DEF OnePerTicket
  <2>6. StoreInv => ChallengeStays
    BY <2>3, Zenon DEF StoreInv, ChallengeStays
  <2>7. StoreInv => CounterGrows
    BY Zenon DEF StoreInv, CounterGrows
  <2> QED BY <2>4, <2>5, <2>6, <2>7, Zenon DEF PasskeysHold
<1> QED BY <1>1, <1>2, <1>3, PTL DEF KeysSpec

-----------------------------------------------------------------------------
(* roles.json.  What a command holds is a content of the file; unless it   *)
(* is marked stale, it is the present one.                                 *)
Entries == [there : BOOLEAN, prefix : Prefixes \cup {""}, ids : SUBSET (Ids \cup {""})]
Files == {f \in [RoleNames -> Entries] : \A r \in RoleNames : ~f[r].there => f[r].ids = {}}
Looked == [op : {"looked"}, cmd : Commands, seen : Files, stale : BOOLEAN]
ReadAgain == [op : {"read"}, cmd : Commands, seen : Files, cur : Files, stale : BOOLEAN]

RolesTypes ==
  /\ period \in Int /\ mtime \in Int /\ lastMod \in Int /\ looks \in {0, 1}
  /\ roles \in Files /\ granted \subseteq RoleNames \X (Ids \cup {""})
  /\ operators \in [Operators -> Looked \cup ReadAgain \cup {Idle}]

Fresh ==
  \A o \in Operators :
    /\ operators[o] \in Looked /\ ~operators[o].stale => operators[o].seen = roles
    /\ operators[o] \in ReadAgain => ~Whole(operators[o].cmd)
    /\ operators[o] \in ReadAgain /\ ~operators[o].stale => operators[o].cur = roles

(* The watcher will tell the last change by its time; it has taken it.     *)
Tellable == lastMod >= 0 /\ mtime > lastMod
UpToDate == ~readable \/ roleRegistry = roles
WillTell == looks = 0 /\ ~unseen => Tellable
HasTaken == looks = 1 /\ ~unseen => UpToDate

RolesInv ==
  /\ RolesTypes /\ Fresh /\ IdentityStays
  /\ roles \in versions /\ roleRegistry \in versions
  /\ WillTell /\ HasTaken

LEMMA RoleShapes ==
  /\ \A x \in Looked : x.op = "looked" /\ x \notin ReadAgain /\ x # Idle
  /\ \A x \in ReadAgain : x.op = "read" /\ x \notin Looked /\ x # Idle
  /\ Idle.op = "idle"
  BY DEF Looked, ReadAgain, Idle

LEMMA EntryShapes ==
  ASSUME NEW p \in Prefixes \cup {""}, NEW i \in SUBSET (Ids \cup {""})
  PROVE  /\ Entry(p, i) \in Entries /\ Entry(p, i).there /\ Entry(p, i).ids = i
         /\ Absent \in Entries /\ Absent.ids = {} /\ ~Absent.there
  BY DEF Entry, Absent, Entries

LEMMA CommandTypes ==
  \A c \in Commands : /\ c.role \in RoleNames /\ c.prefix \in Prefixes \cup {""} /\ c.id \in Ids \cup {""}
                        /\ c.op \in {"create", "update", "add", "import", "delete"}
                        /\ c.force \in BOOLEAN
  BY DEF Commands

(* MergeRolesFile adds to the identities of one entry and takes none away. *)
LEMMA MergeKeeps ==
  ASSUME NEW c \in Commands, ~Whole(c), NEW seen \in Files, NEW cur \in Files
  PROVE  LET new == MergedFile(cur, c, seen) IN
         /\ new \in Files
         /\ \A r \in RoleNames : cur[r].ids \subseteq new[r].ids
         /\ c.op = "add" => c.id \in new[c.role].ids
<1> DEFINE new == MergedFile(cur, c, seen)
           e == Merged(c, seen, cur[c.role])
<1>0. /\ c.role \in RoleNames /\ c.prefix \in Prefixes \cup {""} /\ c.id \in Ids \cup {""}
      /\ c.op \in {"create", "update", "add"}
  BY CommandTypes DEF Whole
<1>1. cur[c.role] \in Entries /\ seen[c.role] \in Entries
  BY <1>0 DEF Files
<1>2. /\ cur[c.role].prefix \in Prefixes \cup {""} /\ seen[c.role].prefix \in Prefixes \cup {""}
      /\ cur[c.role].ids \in SUBSET (Ids \cup {""})
  BY <1>1 DEF Entries
<1>3. PICK p \in Prefixes \cup {""}, i \in SUBSET (Ids \cup {""}) :
        e = Entry(p, i) /\ cur[c.role].ids \subseteq i /\ (c.op = "add" => c.id \in i)
  <2>1. CASE c.op = "create"
    BY <1>0, <1>2, <2>1 DEF Merged, Created
  <2>2. CASE c.op = "update"
    <3>1. e = Entry(IF c.prefix = "" THEN seen[c.role].prefix ELSE c.prefix, cur[c.role].ids)
      BY <2>2 DEF Merged, Updated
    <3> QED BY <1>0, <1>2, <2>2, <3>1
  <2>3. CASE c.op = "add"
    <3>1. e = Entry(cur[c.role].prefix, cur[c.role].ids \cup {c.id})
      BY <2>3 DEF Merged, Added
    <3>2. cur[c.role].ids \cup {c.id} \in SUBSET (Ids \cup {""})
      BY <1>0, <1>2
    <3> QED BY <1>2, <3>1, <3>2
  <2> QED BY <1>0, <2>1, <2>2, <2>3
<1>4. e \in Entries /\ e.there /\ e.ids = i
  BY <1>3, EntryShapes
<1>5. new = [cur EXCEPT ![c.role] = e]
  BY DEF MergedFile
<1> HIDE DEF new, e
<1> QED BY <1>0, <1>3, <1>4, <1>5 DEF Files, new

(* delete and import, on a copy that is still the file: an identity that   *)
(* is gone belonged to the role that was deleted or imported over.         *)
LEMMA WholeKeeps ==
  ASSUME NEW c \in Commands, Whole(c), NEW seen \in Files
  PROVE  LET new == WholeFile(c, seen) IN
         /\ new \in Files
         /\ \A r \in RoleNames : r # c.role => new[r] = seen[r]
         /\ ~(c.op = "delete" \/ c.force) => seen[c.role].ids \subseteq new[c.role].ids
<1> DEFINE new == WholeFile(c, seen)
<1>0. /\ c.role \in RoleNames /\ c.id \in Ids \cup {""} /\ c.prefix \in Prefixes \cup {""}
      /\ c.op \in {"delete", "import"} /\ "" \in Prefixes \cup {""}
  BY CommandTypes DEF Whole
<1>1. CASE c.op = "delete"
  <2>1. new = [seen EXCEPT ![c.role] = Absent]
    BY <1>1 DEF WholeFile, Deleted
  <2>2. Absent \in Entries /\ Absent.ids = {} /\ ~Absent.there
    BY <1>0, EntryShapes
  <2> QED BY <1>0, <1>1, <2>1, <2>2 DEF Files
<1>2. CASE c.op = "import" /\ (c.force \/ ~seen[c.role].there)
  <2>1. new = [seen EXCEPT ![c.role] = Entry(c.prefix, {c.id})]
    BY <1>2 DEF WholeFile, Imported
  <2>2. Entry(c.prefix, {c.id}) \in Entries /\ Entry(c.prefix, {c.id}).there
    BY <1>0, EntryShapes
  <2>3. ~c.force => seen[c.role].ids = {}
    BY <1>0, <1>2 DEF Files
  <2> QED BY <1>0, <1>2, <2>1, <2>2, <2>3 DEF Files
<1>3. CASE c.op = "import" /\ ~(c.force \/ ~seen[c.role].there)
  <2>1. new = seen
    BY <1>3 DEF WholeFile, Imported
  <2> QED BY <1>0, <2>1
<1> QED BY <1>0, <1>1, <1>2, <1>3

LEMMA RolesInvInit ==
  ASSUME Present \subseteq RoleNames
  PROVE  RolesInit => RolesInv
<1> SUFFICES ASSUME RolesInit PROVE RolesInv
  OBVIOUS
<1>1. Entry("", {}) \in Entries /\ Entry("", {}).there /\ Absent \in Entries /\ Absent.ids = {}
  <2>1. "" \in Prefixes \cup {""} /\ {} \in SUBSET (Ids \cup {""})
    OBVIOUS
  <2> QED BY <2>1, EntryShapes
<1>2. roles \in Files
  BY <1>1 DEF RolesInit, Files
<1>4. operators = [o \in Operators |-> Idle] /\ \A o \in Operators : operators[o] = Idle
  BY DEF RolesInit
<1>3. RolesTypes
  <2>1. period = 1 /\ mtime = 0 /\ lastMod = -1 /\ looks = 1 /\ granted = {}
    BY DEF RolesInit
  <2> QED BY <1>2, <1>4, <2>1 DEF RolesTypes
<1>5. Fresh
  BY <1>4, RoleShapes DEF Fresh
<1>6. looks = 1 /\ granted = {} /\ roleRegistry = roles /\ versions = {roles}
  BY DEF RolesInit
<1>7. WillTell /\ HasTaken
  <2>1. UpToDate /\ looks # 0
    BY <1>6 DEF UpToDate
  <2> QED BY <2>1, Zenon DEF WillTell, HasTaken
<1> QED BY <1>3, <1>5, <1>6, <1>7 DEF RolesInv, IdentityStays

LEMMA RolesInvStep == RolesInv /\ [RolesNext]_rolesVars => RolesInv'
<1> SUFFICES ASSUME RolesInv, [RolesNext]_rolesVars PROVE RolesInv'
  OBVIOUS
<1>0. /\ period \in Int /\ mtime \in Int /\ lastMod \in Int /\ looks \in {0, 1}
      /\ roles \in Files /\ granted \subseteq RoleNames \X (Ids \cup {""})
      /\ operators \in [Operators -> Looked \cup ReadAgain \cup {Idle}]
      /\ Fresh /\ IdentityStays /\ roles \in versions /\ roleRegistry \in versions
      /\ WillTell /\ HasTaken
  BY DEF RolesInv, RolesTypes
<1>t. period \in Int /\ mtime \in Int /\ lastMod \in Int
  BY <1>0
(* A command moves and the files stay.                                     *)
<1>c. ASSUME NEW o \in Operators, NEW x \in Looked \cup ReadAgain \cup {Idle},
             operators' = [operators EXCEPT ![o] = x],
             x \in Looked /\ ~x.stale => x.seen = roles,
             x \in ReadAgain => ~Whole(x.cmd), x \in ReadAgain /\ ~x.stale => x.cur = roles,
             UNCHANGED <<period, roles, readable, mtime, roleRegistry, lastMod, writes, lost,
                         versions, granted, looks, unseen>>
      PROVE  RolesInv'
  <2>1. RolesTypes'
    BY <1>0, <1>c DEF RolesTypes
  <2>2. Fresh'
    BY <1>0, <1>c DEF Fresh
  <2>3. WillTell' /\ HasTaken'
    BY <1>0, <1>c, Zenon DEF WillTell, HasTaken, Tellable, UpToDate
  <2> QED BY <1>0, <1>c, <2>1, <2>2, <2>3 DEF RolesInv, IdentityStays
(* Only the watcher's side moves, or only the file's time and state.       *)
<1>d. ASSUME UNCHANGED <<roles, operators, versions, granted, lost>>, roleRegistry' \in versions,
             period' \in Int, mtime' \in Int, lastMod' \in Int, looks' \in {0, 1},
             WillTell', HasTaken'
      PROVE  RolesInv'
  <2>1. RolesTypes' /\ Fresh'
    BY <1>0, <1>d DEF RolesTypes, Fresh
  <2> QED BY <1>0, <1>d, <2>1 DEF RolesInv, IdentityStays
<1>1. ASSUME NEW o \in Operators, NEW c \in Commands, Look(o, c) PROVE RolesInv'
  <2> DEFINE x == [op |-> "looked", cmd |-> c, seen |-> roles, stale |-> FALSE]
  <2>1. x \in Looked /\ x.seen = roles
    BY <1>0 DEF Looked
  <2>2. operators' = [operators EXCEPT ![o] = x]
    BY <1>1 DEF Look
  <2>3. x \notin ReadAgain
    BY <2>1, RoleShapes
  <2> HIDE DEF x
  <2> QED BY <1>1, <1>c, <2>1, <2>2, <2>3 DEF Look
<1>2. ASSUME NEW o \in Operators, Reread(o) PROVE RolesInv'
  <2> DEFINE x == [op |-> "read", cmd |-> operators[o].cmd, seen |-> operators[o].seen,
                   cur |-> roles, stale |-> FALSE]
  <2>0. operators[o] \in Looked
    BY <1>0, <1>2, RoleShapes DEF Reread
  <2>1. x \in ReadAgain /\ x.cur = roles /\ x.cmd = operators[o].cmd
    BY <1>0, <2>0 DEF ReadAgain, Looked
  <2>2. operators' = [operators EXCEPT ![o] = x]
    BY <1>2 DEF Reread
  <2>3. x \notin Looked
    BY <2>1, RoleShapes
  <2>4. ~Whole(x.cmd)
    BY <1>2, <2>1 DEF Reread
  <2> HIDE DEF x
  <2> QED BY <1>2, <1>c, <2>1, <2>2, <2>3, <2>4 DEF Reread
<1>3. ASSUME NEW o \in Operators, GiveUp(o) PROVE RolesInv'
  <2>1. Idle \notin Looked /\ Idle \notin ReadAgain
    BY RoleShapes
  <2> QED BY <1>3, <1>c, <2>1 DEF GiveUp
<1>4. ASSUME NEW o \in Operators, Write(o) PROVE RolesInv'
  <2> DEFINE c == operators[o].cmd
             seen == operators[o].seen
             new == IF Whole(c) THEN WholeFile(c, seen) ELSE MergedFile(operators[o].cur, c, seen)
  <2>0. operators[o] \in Looked \cup ReadAgain /\ (Whole(c) \/ operators[o].op = "read")
    BY <1>0, <1>4 DEF Write
  <2>1. /\ roles' = new /\ readable' = TRUE /\ mtime' = period /\ versions' = versions \cup {new}
        /\ looks' = 0 /\ period' = period /\ roleRegistry' = roleRegistry /\ lastMod' = lastMod
        /\ operators' = [p \in Operators |->
             IF p \in Operators \ {o} /\ operators[p] # Idle
             THEN [operators[p] EXCEPT !.stale = TRUE] ELSE Idle]
    BY <1>4 DEF Write, Replace
  <2>2. WillTell' /\ HasTaken'
    <3>1. ASSUME ~unseen' PROVE Tellable'
      <4>1. ~(lastMod < 0) /\ ~(period <= lastMod)
        BY <1>4, <3>1, Zenon DEF Write, Replace
      <4> QED BY <1>t, <2>1, <4>1 DEF Tellable
    <3>2. looks' # 1
      BY <2>1
    <3> QED BY <3>1, <3>2, Zenon DEF WillTell, HasTaken
  <2>3. c \in Commands /\ seen \in Files
    BY <2>0 DEF Looked, ReadAgain
  <2>4. Whole(c) => operators[o] \in Looked
    BY <1>0, <2>0 DEF Fresh
  <2>5. ~Whole(c) => operators[o] \in ReadAgain /\ operators[o].cur \in Files
    BY <2>0, RoleShapes DEF ReadAgain
  <2>6. new \in Files
    BY <2>3, <2>5, MergeKeeps, WholeKeeps
  <2>7. granted' = IF c.op = "add" THEN granted \cup {<<c.role, c.id>>}
                   ELSE IF Whole(c) /\ (c.op = "delete" \/ c.force)
                   THEN {g \in granted : g[1] # c.role} ELSE granted
    BY <1>4 DEF Write
  <2>8. c.role \in RoleNames /\ c.id \in Ids \cup {""}
    BY <2>3, CommandTypes
  <2>9. granted' \subseteq RoleNames \X (Ids \cup {""})
    <3>1. <<c.role, c.id>> \in RoleNames \X (Ids \cup {""})
      BY <2>8
    <3> HIDE DEF c
    <3> QED BY <1>0, <2>7, <3>1
  <2>10. ASSUME NEW p \in Operators
         PROVE  /\ operators'[p] \in Looked \cup ReadAgain \cup {Idle}
                /\ operators'[p] \in Looked => operators'[p].stale = TRUE
                /\ operators'[p] \in ReadAgain => operators'[p].stale = TRUE /\ ~Whole(operators'[p].cmd)
    <3>1. CASE p \in Operators \ {o} /\ operators[p] # Idle
      <4>1. operators'[p] = [operators[p] EXCEPT !.stale = TRUE] /\ operators[p] \in Looked \cup ReadAgain
        BY <1>0, <2>1, <3>1
      <4>2. CASE operators[p] \in Looked
        <5>1. operators'[p] \in Looked /\ operators'[p].stale = TRUE
          BY <4>1, <4>2 DEF Looked
        <5> QED BY <5>1, RoleShapes
      <4>3. CASE operators[p] \in ReadAgain
        <5>1. operators'[p] \in ReadAgain /\ operators'[p].stale = TRUE /\ operators'[p].cmd = operators[p].cmd
          BY <4>1, <4>3 DEF ReadAgain
        <5> QED BY <1>0, <4>3, <5>1, RoleShapes DEF Fresh
      <4> QED BY <4>1, <4>2, <4>3
    <3>2. CASE ~(p \in Operators \ {o} /\ operators[p] # Idle)
      BY <2>1, <3>2, RoleShapes
    <3> QED BY <3>1, <3>2
  <2>11. operators' \in [Operators -> Looked \cup ReadAgain \cup {Idle}]
    BY <2>1, <2>10
  <2>12. Fresh'
    BY <2>10 DEF Fresh
  <2>13. IdentityStays'
    <3>1. lost' \/ (~lost /\ ~operators[o].stale)
      BY <1>4, Zenon DEF Write
    <3> SUFFICES ASSUME ~lost', NEW g \in granted' PROVE g[2] \in roles'[g[1]].ids
      BY DEF IdentityStays
    <3>2. ~lost /\ ~operators[o].stale
      BY <3>1
    <3>3. \A h \in granted : h[1] \in RoleNames /\ h[2] \in roles[h[1]].ids
      BY <1>0, <3>2 DEF IdentityStays
    <3>4. CASE Whole(c)
      <4>1. seen = roles
        BY <1>0, <2>4, <3>2, <3>4 DEF Fresh
      <4>2. c.op # "add"
        BY <3>4 DEF Whole
      <4>3. /\ \A r \in RoleNames : r # c.role => new[r] = roles[r]
            /\ ~(c.op = "delete" \/ c.force) => roles[c.role].ids \subseteq new[c.role].ids
        BY <2>3, <3>4, <4>1, WholeKeeps
      <4>4. g \in granted /\ (c.op = "delete" \/ c.force => g[1] # c.role)
        BY <2>7, <3>4, <4>2
      <4> HIDE DEF c, seen, new
      <4> QED BY <2>1, <3>3, <4>3, <4>4
    <3>5. CASE ~Whole(c)
      <4>1. operators[o].cur = roles
        BY <1>0, <2>5, <3>2, <3>5 DEF Fresh
      <4>2. /\ \A r \in RoleNames : roles[r].ids \subseteq new[r].ids
            /\ c.op = "add" => c.id \in new[c.role].ids
        BY <1>0, <2>3, <3>5, <4>1, MergeKeeps
      <4>3. g \in granted \/ (c.op = "add" /\ g = <<c.role, c.id>>)
        BY <2>7, <3>5
      <4> HIDE DEF c, seen, new
      <4> QED BY <2>1, <3>3, <4>2, <4>3
    <3> QED BY <3>4, <3>5
  <2> HIDE DEF c, seen, new
  <2>14. RolesTypes'
    BY <1>0, <2>1, <2>6, <2>9, <2>11 DEF RolesTypes
  <2> QED BY <1>0, <2>1, <2>2, <2>12, <2>13, <2>14 DEF RolesInv
<1>5. CASE Spoil \/ Repair
  <2>1. /\ UNCHANGED <<roles, operators, versions, granted, lost, roleRegistry, lastMod, period>>
        /\ mtime' = period /\ looks' = 0
    BY <1>5 DEF Spoil, Repair
  <2>2. WillTell' /\ HasTaken'
    <3>1. ASSUME ~unseen' PROVE Tellable'
      <4>1. ~(lastMod < 0) /\ ~(period <= lastMod)
        BY <1>5, <3>1, Zenon DEF Spoil, Repair
      <4> QED BY <1>t, <2>1, <4>1 DEF Tellable
    <3>2. looks' # 1
      BY <2>1
    <3> QED BY <3>1, <3>2, Zenon DEF WillTell, HasTaken
  <2>3. /\ roleRegistry' \in versions /\ period' \in Int /\ mtime' \in Int
        /\ lastMod' \in Int /\ looks' \in {0, 1}
    BY <1>0, <2>1
  <2> QED BY <1>d, <2>1, <2>2, <2>3, Zenon
<1>6. CASE Watch
  <2>1. /\ UNCHANGED <<roles, operators, versions, granted, lost, mtime>>
        /\ period' = period + 1 /\ looks' = 1
        /\ lastMod' = IF lastMod < 0 \/ mtime > lastMod THEN mtime ELSE lastMod
        /\ roleRegistry' = IF lastMod >= 0 /\ mtime > lastMod THEN LoadRoles ELSE roleRegistry
    BY <1>6 DEF Watch, After
  <2>2. unseen' = unseen /\ readable' = readable /\ (looks = 0 \/ looks = 1)
    BY <1>0, <1>6 DEF Watch
  <2>3. LoadRoles \in versions
    BY <1>0 DEF LoadRoles, AfterFailure
  <2>4. Tellable => UpToDate'
    BY <2>1, <2>2 DEF Tellable, UpToDate, LoadRoles
  <2>5. UpToDate => UpToDate'
    BY <2>1, <2>2 DEF UpToDate, LoadRoles, AfterFailure
  <2>6. WillTell' /\ HasTaken'
    <3>1. looks' # 0
      BY <2>1
    <3> QED BY <1>0, <2>2, <2>4, <2>5, <3>1, Zenon DEF WillTell, HasTaken
  <2>7. /\ roleRegistry' \in versions /\ period' \in Int /\ mtime' \in Int
        /\ lastMod' \in Int /\ looks' \in {0, 1}
    <3>1. roleRegistry \in versions
      BY <1>0
    <3> QED BY <1>t, <2>1, <2>3, <3>1
  <2> QED BY <1>d, <2>1, <2>6, <2>7, Zenon
<1>7. CASE UNCHANGED rolesVars
  <2>1. UNCHANGED <<period, roles, readable, mtime, roleRegistry, lastMod, operators, lost, versions, granted, looks, unseen>>
    BY <1>7 DEF rolesVars
  <2>2. WillTell' /\ HasTaken'
    BY <1>0, <2>1, Zenon DEF WillTell, HasTaken, Tellable, UpToDate
  <2>3. /\ roleRegistry' \in versions /\ period' \in Int /\ mtime' \in Int
        /\ lastMod' \in Int /\ looks' \in {0, 1}
    BY <1>0, <2>1
  <2> QED BY <1>d, <2>1, <2>2, <2>3, Zenon
<1> QED BY <1>1, <1>2, <1>3, <1>4, <1>5, <1>6, <1>7 DEF RolesNext

(* `v2vctl role` and WatchRolesFile: for any operators, roles, identities  *)
(* and any interleaving of their prompts and writes, no command drops what *)
(* another granted without a write over a version it had not read, and     *)
(* the registry is always a whole content of the file, the present one as  *)
(* soon as the watcher could tell.                                         *)
THEOREM RolesAlwaysSettle ==
  ASSUME Present \subseteq RoleNames
  PROVE  RolesSpec => []RolesSettle
<1>1. RolesInit => RolesInv
  BY RolesInvInit
<1>2. RolesInv /\ [RolesNext]_rolesVars => RolesInv'
  BY RolesInvStep
<1>3. RolesInv => RolesSettle
  <2>1. RolesInv => RegistryFollows
    <3>0. RolesInv => looks \in {0, 1}
      BY Zenon DEF RolesInv, RolesTypes
    <3>1. RolesInv => (looks >= 1 => looks = 1)
      BY <3>0
    <3> QED BY <3>1, Zenon DEF RolesInv, HasTaken, UpToDate, RegistryFollows
  <2> QED BY <2>1 DEF RolesInv, RolesSettle, RegistryWasFile
<1> QED BY <1>1, <1>2, <1>3, PTL DEF RolesSpec
=============================================================================
