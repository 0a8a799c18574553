----------------------------- MODULE PowScreen -----------------------------
(***************************************************************************)
(* In-chat proof-of-work screening: PowScreener and behaviorTick           *)
(* (server/powscreen.go), the frames ReadPump hands it and its cleanup     *)
(* when a connection ends (server/clientHandler.go).                       *)
(*                                                                         *)
(* The scheduler is one goroutine fed by a time.Ticker, whose channel      *)
(* keeps one tick, with the time at which it fired.  Time is counted in    *)
(* tick intervals and every timer holds what is left of it, so a deadline  *)
(* is met at 0 and past below 0; lag is the age of the time the running    *)
(* tick works with.  The score of an address is any score.  A challenge    *)
(* id is 128 random bits: an id is new when nobody holds it.               *)
(***************************************************************************)
EXTENDS Integers

CONSTANTS
  Conns,          \* websocket connections, each made once
  IPOf,           \* the client address of a connection
  Ids,            \* challenge ids
  None,           \* no challenge, connection or timer
  ScreenDeadline, \* SCREEN_DEADLINE
  RecheckMin,     \* POW_RECHECK_MIN
  RecheckMax,     \* POW_RECHECK_MAX
  MaxLag          \* bound: how far the scheduler falls behind the clock

IPs == {IPOf[c] : c \in Conns}
Floor == -(2 * MaxLag + 1)

ASSUME PowScreenAssumption ==
  /\ DOMAIN IPOf = Conns
  /\ None \notin Conns /\ None \notin Int
  /\ None \notin [id : Ids, left : Int]
  /\ ScreenDeadline \in Nat \ {0}
  /\ RecheckMin \in Nat \ {0} /\ RecheckMax \in Nat /\ RecheckMin <= RecheckMax
  /\ MaxLag \in Nat

VARIABLES
  at,        \* each ReadPump: "out", "in", "ending" (unregistered), "gone"
  clients,   \* the connections in Hub.Clients
  screens,   \* PowScreener.screens
  byID,      \* PowScreener.byID
  muted,     \* PowScreener.muted
  nextCheck, \* PowScreener.nextCheck, per address
  offers,    \* the offers each client holds
  attack,    \* AttackState.IsUnderAttack
  ticker,    \* the age of the tick waiting in the ticker's channel
  sched,     \* where behaviorTick is: "idle", "scan", "kick"
  todo,      \* the connections behaviorTick has yet to look at
  snap,      \* its copy of Clients
  kick,      \* the connections it has yet to kick
  under,     \* whether it saw an attack
  lag        \* the age of its time

timers == <<ticker, lag>>
books == <<screens, byID, muted>>
tick == <<sched, todo, snap, kick, under>>
vars == <<at, clients, books, nextCheck, offers, attack, timers, tick>>

Has(c) == screens[c] # None

-----------------------------------------------------------------------------
(* PowScreener.  Every operation is one critical section of its mutex.     *)

Mut_EraseKeepsId(S) ==
  /\ screens' = [c \in Conns |-> IF c \in S THEN None ELSE screens[c]]
  /\ UNCHANGED byID

(* The challenges of the connections S leave the books. *)
Erase(S) ==
  /\ screens' = [c \in Conns |-> IF c \in S THEN None ELSE screens[c]]
  /\ byID' = [i \in Ids |-> IF byID[i] \in S THEN None ELSE byID[i]]

FreshIds == {i \in Ids : byID[i] = None /\ \A c \in Conns : i \notin offers[c]}

(* Issue: replaces a challenge of c, and lifts its mute. *)
Issue(c, i) ==
  /\ screens' = [screens EXCEPT ![c] = [id |-> i, left |-> ScreenDeadline - lag]]
  /\ byID' = [j \in Ids |-> IF j = i THEN c ELSE IF byID[j] = c THEN None ELSE byID[j]]
  /\ muted' = muted \ {c}

(* Resolve: the first answer uses the challenge up, right, wrong or late. *)
Resolve(i, good) ==
  IF byID[i] = None THEN UNCHANGED books
  ELSE LET c == byID[i]
           passed == good /\ Has(c) /\ screens[c].left >= 0
       IN /\ Erase({c})
          /\ muted' = IF passed THEN muted \ {c} ELSE muted

(* Decline *)
Decline(i) ==
  IF byID[i] = None THEN UNCHANGED books
  ELSE /\ Erase({byID[i]})
       /\ muted' = muted \cup {byID[i]}

Mut_OverdueLate == {c \in Conns : Has(c) /\ screens[c].left + lag < 0}
(* The challenges overdue at the tick's time. *)
Overdue == {c \in Conns : Has(c) /\ screens[c].left + lag <= 0}

(* Under attack they are kicked, those still known to the tick. *)
Kicked == IF under THEN Overdue \cap snap ELSE {}

Due(ip) == nextCheck[ip] # None => nextCheck[ip] + lag <= 0

Defer(ip, left) == nextCheck' = [nextCheck EXCEPT ![ip] = left]

-----------------------------------------------------------------------------
(* behaviorTick.                                                           *)

(* It copies Clients and reads the attack flag. *)
BeginTick ==
  /\ sched = "idle" /\ ticker # None
  /\ ticker' = None /\ lag' = ticker
  /\ sched' = "scan" /\ todo' = clients /\ snap' = clients
  /\ under' = attack
  /\ UNCHANGED <<at, clients, books, nextCheck, offers, attack, kick>>

(* One due connection is scored and, flagged and unchallenged, challenged. *)
(* Other goroutines only ever take challenges off the books in between, so *)
(* the five critical sections are one step.  The offer is delivered unless *)
(* the connection is gone or its queue full.                               *)
Scan(c) ==
  /\ sched = "scan" /\ c \in todo
  /\ todo' = todo \ {c}
  /\ \/ /\ ~Due(IPOf[c])
        /\ UNCHANGED <<books, nextCheck, offers>>
     \/ /\ Due(IPOf[c])
        /\ \E r \in RecheckMin .. RecheckMax : Defer(IPOf[c], r - lag)
        /\ \/ UNCHANGED <<books, offers>>
           \/ /\ ~Has(c)
              /\ \E i \in FreshIds :
                   /\ Issue(c, i)
                   /\ \/ UNCHANGED offers
                      \/ c \in clients /\ offers' = [offers EXCEPT ![c] = @ \cup {i}]
  /\ UNCHANGED <<at, clients, attack, timers, sched, snap, kick, under>>

(* CheckDeadline: overdue challenges are decided, by mute or by kick. *)
CheckDeadline ==
  /\ sched = "scan" /\ todo = {}
  /\ Erase(Overdue)
  /\ muted' = IF under THEN muted ELSE muted \cup Overdue
  /\ kick' = Kicked
  /\ sched' = "kick"
  /\ UNCHANGED <<at, clients, nextCheck, offers, attack, timers, todo, snap, under>>

(* unregisterClient, from the scheduler; ReadPump has yet to notice. *)
Kick(c) ==
  /\ sched = "kick" /\ c \in kick
  /\ clients' = clients \ {c} /\ kick' = kick \ {c}
  /\ UNCHANGED <<at, books, nextCheck, offers, attack, timers, sched, todo, snap, under>>

EndTick ==
  /\ sched = "kick" /\ kick = {}
  /\ sched' = "idle" /\ snap' = {} /\ lag' = 0 /\ under' = FALSE
  /\ UNCHANGED <<at, clients, books, nextCheck, offers, attack, ticker, todo, kick>>

-----------------------------------------------------------------------------
(* ReadPump.                                                               *)

Connect(c) ==
  /\ at[c] = "out"
  /\ at' = [at EXCEPT ![c] = "in"] /\ clients' = clients \cup {c}
  /\ UNCHANGED <<books, nextCheck, offers, attack, timers, tick>>

(* handlePowFrame: a result for an offer the client holds, perhaps again,  *)
(* perhaps for a challenge already decided.                                *)
PowResult(c, i) ==
  /\ at[c] = "in" /\ i \in offers[c]
  /\ \E good \in BOOLEAN : Resolve(i, good)
  /\ UNCHANGED <<at, clients, nextCheck, offers, attack, timers, tick>>

PowDecline(c, i) ==
  /\ at[c] = "in" /\ i \in offers[c]
  /\ Decline(i)
  /\ UNCHANGED <<at, clients, nextCheck, offers, attack, timers, tick>>

(* A chat message that uses up the address's score: observeMessage makes   *)
(* the address due at once.                                                *)
Chat(c) ==
  /\ at[c] = "in" /\ c \notin muted
  /\ Defer(IPOf[c], 0)
  /\ UNCHANGED <<at, clients, books, offers, attack, timers, tick>>

(* ReadPump's deferred calls: unregisterClient ... *)
Disconnect(c) ==
  /\ at[c] = "in"
  /\ at' = [at EXCEPT ![c] = "ending"] /\ clients' = clients \ {c}
  /\ UNCHANGED <<books, nextCheck, offers, attack, timers, tick>>

(* ... then DropConn and ForgetCheck. *)
DropConn(c) ==
  /\ at[c] = "ending"
  /\ at' = [at EXCEPT ![c] = "gone"]
  /\ Erase({c})
  /\ muted' = muted \ {c}
  /\ nextCheck' = [nextCheck EXCEPT ![IPOf[c]] = None]
  /\ offers' = [offers EXCEPT ![c] = {}]
  /\ UNCHANGED <<clients, attack, timers, tick>>

-----------------------------------------------------------------------------
(* The world around it.                                                    *)

(* A client drops an offer it has answered, refused or let go. *)
LetGo(c, i) ==
  /\ i \in offers[c]
  /\ offers' = [offers EXCEPT ![c] = @ \ {i}]
  /\ UNCHANGED <<at, clients, books, nextCheck, attack, timers, tick>>

Sooner(n) == IF n > Floor THEN n - 1 ELSE Floor

(* One interval goes by: the ticker fires, unless a tick is waiting. *)
Elapse ==
  /\ sched # "idle" => lag < MaxLag
  /\ ticker # None => ticker < MaxLag
  /\ ticker' = IF ticker = None THEN 0 ELSE ticker + 1
  /\ lag' = IF sched = "idle" THEN lag ELSE lag + 1
  /\ screens' = [c \in Conns |-> IF Has(c) THEN [screens[c] EXCEPT !.left = Sooner(@)] ELSE None]
  /\ nextCheck' = [a \in IPs |-> IF nextCheck[a] = None THEN None ELSE Sooner(nextCheck[a])]
  /\ UNCHANGED <<at, clients, byID, muted, offers, attack, tick>>

Attack ==
  /\ attack' = ~attack
  /\ UNCHANGED <<at, clients, books, nextCheck, offers, timers, tick>>

Init ==
  /\ at = [c \in Conns |-> "out"] /\ clients = {}
  /\ screens = [c \in Conns |-> None] /\ byID = [i \in Ids |-> None] /\ muted = {}
  /\ nextCheck = [a \in IPs |-> None]
  /\ offers = [c \in Conns |-> {}]
  /\ attack = FALSE /\ ticker = None /\ lag = 0
  /\ sched = "idle" /\ todo = {} /\ snap = {} /\ kick = {} /\ under = FALSE

Next ==
  \/ BeginTick \/ CheckDeadline \/ EndTick \/ Elapse \/ Attack
  \/ \E c \in Conns :
       \/ Scan(c) \/ Kick(c) \/ Connect(c) \/ Chat(c) \/ Disconnect(c) \/ DropConn(c)
       \/ \E i \in Ids : PowResult(c, i) \/ PowDecline(c, i) \/ LetGo(c, i)

Spec == Init /\ [][Next]_vars

-----------------------------------------------------------------------------
(* Properties.                                                             *)

(* Every variable stays in its type. *)
TypeOK ==
  /\ at \in [Conns -> {"out", "in", "ending", "gone"}]
  /\ clients \subseteq Conns /\ muted \subseteq Conns
  /\ screens \in [Conns -> [id : Ids, left : Floor .. ScreenDeadline] \cup {None}]
  /\ byID \in [Ids -> Conns \cup {None}]
  /\ nextCheck \in [IPs -> (Floor .. RecheckMax) \cup {None}]
  /\ offers \in [Conns -> SUBSET Ids]
  /\ attack \in BOOLEAN /\ under \in BOOLEAN
  /\ ticker \in (0 .. MaxLag) \cup {None} /\ lag \in 0 .. MaxLag
  /\ sched \in {"idle", "scan", "kick"}
  /\ todo \subseteq Conns /\ snap \subseteq Conns /\ kick \subseteq snap
  /\ sched # "kick" => kick = {}

(* The two indexes of PowScreener name each other: no answer finds another *)
(* connection's challenge, none finds a challenge without its connection,  *)
(* and no decided challenge keeps an id alive.                             *)
BooksAgree ==
  \A c \in Conns, i \in Ids : byID[i] = c <=> (Has(c) /\ screens[c].id = i)

(* A connection is never silenced while it has a challenge to answer: the  *)
(* mute is for those who let one go.                                       *)
MuteFollowsChallenge == \A c \in muted : ~Has(c)

(* The deadline binds although the scheduler may be late, ticks are        *)
(* dropped behind a slow one, and nobody else watches the clock: a         *)
(* challenge stays open past its deadline for at most twice the            *)
(* scheduler's delay, one for the tick that just missed it and one for the *)
(* next.                                                                   *)
SilenceHasLimit == \A c \in Conns : Has(c) => screens[c].left >= -(2 * MaxLag)

(* The strengthening that makes SilenceHasLimit inductive: how much of its *)
(* deadline a challenge has left, by where the scheduler is and how old    *)
(* the waiting tick is.                                                    *)
DeadlineBound(c) ==
  /\ sched = "idle" /\ ticker = None => screens[c].left >= 1 - MaxLag
  /\ sched = "idle" /\ ticker # None => screens[c].left >= -MaxLag - ticker
  /\ sched = "scan" => screens[c].left >= -MaxLag - lag
  /\ sched = "kick" => screens[c].left + lag >= 1

ScreenInv ==
  /\ TypeOK /\ BooksAgree /\ MuteFollowsChallenge
  /\ \A c \in Conns : Has(c) => DeadlineBound(c)
=============================================================================
