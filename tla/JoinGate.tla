------------------------------ MODULE JoinGate ------------------------------
(* The join gate: GateStore and handleJoinGate (server/gate.go), the order   *)
(* of ServeWS's first checks (server/main.go, server/auth.go), and the       *)
(* client's way through it: DialManaged and RunGateFlow (lib/clientcore).    *)
(*                                                                           *)
(* Time is counted in half seconds, because the client is told the earliest  *)
(* time of a challenge in whole seconds.  A challenge or a pass is named by  *)
(* an id that nobody remembers (randHex).  A ticket is the address,          *)
(* the id and the earliest time it binds: the HMAC cannot be forged.         *)
EXTENDS Integers, FiniteSets

CONSTANTS
    Clients,            \* client programs
    Wasm,               \* those that run in a browser
    IPs,                \* addresses
    Skew,               \* client -> how far its clock is ahead of the server's
    WaitMin, WaitMax,   \* JOIN_WAIT_MIN, JOIN_WAIT_MAX
    PowTTL, PassTTL,    \* POW_TTL, PASS_TTL
    ChallengeCooldown,  \* gateChallengeCooldown
    StatusCooldown,     \* the one second of AllowStatus
    ConnCooldown,       \* CONNECTION_COOLDOWN
    MaxAttempts,        \* maxGateAttempts
    None,               \* no time, no pass, no bundle
    Ids,                \* challenge ids and pass tokens
    MaxTime, MaxStarts, \* bounds of the model: time, sessions,
    MaxMishaps          \* faults

ASSUME GateAssumption ==
    /\ Wasm \subseteq Clients
    /\ Skew \in [Clients -> Int]
    /\ WaitMin \in Nat /\ WaitMax \in Nat /\ WaitMin <= WaitMax
    /\ {PowTTL, PassTTL, ChallengeCooldown, StatusCooldown, ConnCooldown,
        MaxAttempts} \subseteq Nat \ {0}
    /\ {MaxTime, MaxStarts, MaxMishaps} \subseteq Nat
    /\ None \notin Int \cup Ids
    /\ IsFiniteSet(Clients) /\ IsFiniteSet(IPs) /\ IsFiniteSet(Ids)

VARIABLES
    clock,
    required,     \* gateRequired()
    single,       \* PASS_SINGLE_USE
    challenges,   \* GateStore.challenges
    passes,       \* GateStore.passes
    cooldown,     \* GateStore.cooldown: address -> last challenge
    statusCooldown,
    lastConnect,  \* LastConnectTime
    cl,           \* the client programs
    starts, mishaps,  \* how many sessions and faults there have been
    excused,      \* client -> something this dial cannot be blamed for happened
    earned,       \* the leases that a proof of work was really done for
    unearned      \* a pass let someone through without such a lease

server == <<required, single, challenges, passes, cooldown, statusCooldown,
            lastConnect>>
vars   == <<clock, server, cl, starts, mishaps, excused,
            earned, unearned>>

(* time.Time.Unix() *)
Unix(t) == t \div 2

(* CooldownMap.Allow: is the last call for the address old enough? *)
Allow(last, ip, d) == last[ip] # None => clock - last[ip] >= d

Used == {x.id : x \in challenges} \cup {p.token : p \in passes}
        \cup {cl[c].pass : c \in Clients}
        \cup {cl[c].bundle.id : c \in {d \in Clients : cl[d].pc = "submit"}}

(* randHex *)
Fresh == CHOOSE id \in Ids : id \notin Used
CanDraw == ~(Ids \subseteq Used)

Delete(id) == {x \in challenges : x.id # id}

(* now.After(t) *)
After(now, t) == now > t

Start == [pc |-> "idle", ip |-> None, attempt |-> 0, try |-> 0,
          bundle |-> None, good |-> FALSE, pass |-> None, lease |-> 0,
          wake |-> 0]

Init ==
    /\ clock = 0
    /\ required \in BOOLEAN /\ single \in BOOLEAN
    /\ challenges = {} /\ passes = {}
    /\ cooldown = [a \in IPs |-> None]
    /\ statusCooldown = [a \in IPs |-> None]
    /\ lastConnect = [a \in IPs |-> None]
    /\ \E a \in IPs : cl = [c \in Clients |-> [Start EXCEPT !.ip = a]]
    /\ starts = 0 /\ mishaps = 0
    /\ excused = [c \in Clients |-> FALSE]
    /\ earned = {} /\ unearned = FALSE

-----------------------------------------------------------------------------
(* The client's control flow *)

Goto(c, pc) == cl' = [cl EXCEPT ![c].pc = pc]

(* DialManaged returns, and its variables are gone. *)
End(c, pc) == cl' = [cl EXCEPT ![c] = [Start EXCEPT !.ip = cl[c].ip, !.pc = pc]]

(* A fault: a lost reply, a solver out of its budget. *)
Fault == mishaps < MaxMishaps /\ mishaps' = mishaps + 1
Mishap(c) == Fault /\ excused' = [excused EXCEPT ![c] = TRUE]

NoMishap == UNCHANGED <<mishaps, excused>>

(* RunGateFlow returned no pass.  A browser was only probing before its      *)
(* dial and now dials without one; DialManaged gives up.                     *)
FlowFails(c) ==
    IF c \in Wasm THEN Goto(c, "dial") ELSE End(c, "failed")

(* RunGateFlow returned a pass; a browser has not dialled yet. *)
FlowOver(c, token) ==
    LET a == IF c \in Wasm THEN 0 ELSE cl[c].attempt + 1
    IN  IF a = MaxAttempts THEN End(c, "failed")
        ELSE cl' = [cl EXCEPT ![c] = [Start EXCEPT
                      !.ip = cl[c].ip, !.pc = "dial", !.attempt = a,
                      !.pass = token, !.lease = clock + PassTTL]]

Busy(c) == cl[c].pc \notin {"idle", "in", "failed"}

(* The address is in use, or was until a moment ago. *)
Crowded(c) ==
    LET ip == cl[c].ip
    IN  \/ \E d \in Clients \ {c} : Busy(d) /\ cl[d].ip = ip
        \/ ~Allow(cooldown, ip, ChallengeCooldown)
        \/ ~Allow(statusCooldown, ip, StatusCooldown)
        \/ ~Allow(lastConnect, ip, ConnCooldown)

(* A user starts the client.  DialManaged asks for a pass only in a browser. *)
Begin(c) ==
    /\ ~Busy(c) /\ starts < MaxStarts /\ starts' = starts + 1
    /\ Goto(c, IF c \in Wasm THEN "probe" ELSE "dial")
    /\ excused' = [d \in Clients |->
                     IF d = c THEN Crowded(c)
                     ELSE excused[d] \/ (Busy(d) /\ cl[d].ip = cl[c].ip)]
    /\ UNCHANGED <<clock, server, mishaps, earned, unearned>>

(* GateRequiredNow: anything but a clear yes means no. *)
Probe(c) ==
    /\ cl[c].pc = "probe"
    /\ LET ip == cl[c].ip
           ok == Allow(statusCooldown, ip, StatusCooldown)
       IN  /\ statusCooldown' = IF ok THEN [statusCooldown EXCEPT ![ip] = clock]
                                ELSE statusCooldown
           /\ \/ NoMishap /\ Goto(c, IF ok /\ required THEN "challenge" ELSE "dial")
              \/ Mishap(c) /\ Goto(c, "dial")
    /\ UNCHANGED <<clock, required, single, challenges, passes,
                   cooldown, lastConnect, starts, earned, unearned>>

(* step=challenge: GateStore.Request *)
Bundle(ip, wait) == [id |-> Fresh, ip |-> ip, earliest |-> clock + wait,
                     expires |-> clock + wait + PowTTL]

(* The client verifies and accepts the offer and solves it, rightly or not.  *)
(* How long it takes is how long it waits before it submits.                 *)
Solve(c, b, good) ==
    cl' = [cl EXCEPT ![c] = [cl[c] EXCEPT
             !.bundle = b, !.good = good, !.try = 0, !.wake = 0, !.pc = "submit"]]

(* The reply may be lost, the offer refused, the solver out of its budget.   *)
(* A random wait just short of WaitMax is rounded up to it.                  *)
Request(c) ==
    /\ cl[c].pc = "challenge"
    /\ LET ip == cl[c].ip
       IN  \/ /\ ~Allow(cooldown, ip, ChallengeCooldown)
              /\ FlowFails(c) /\ NoMishap
              /\ UNCHANGED <<challenges, cooldown>>
           \/ /\ Allow(cooldown, ip, ChallengeCooldown) /\ CanDraw
              /\ cooldown' = [cooldown EXCEPT ![ip] = clock]
              /\ \E wait \in WaitMin..WaitMax :
                   /\ challenges' = challenges \cup {Bundle(ip, wait)}
                   /\ \/ Solve(c, Bundle(ip, wait), TRUE) /\ NoMishap
                      \/ Solve(c, Bundle(ip, wait), FALSE) /\ Mishap(c)
                      \/ FlowFails(c) /\ Mishap(c)
    /\ UNCHANGED <<clock, required, single, passes, statusCooldown,
                   lastConnect, starts, earned, unearned>>

(* What GateStore.Submit finds, in the order of its tests. *)
Verdict(c) ==
    LET b == cl[c].bundle
        held == {x \in challenges : x.id = b.id}
    IN  IF \A x \in held : After(clock, x.expires)        THEN "gone"
        ELSE IF \A x \in held : <<cl[c].ip, b.id, x.earliest>>
                                # <<b.ip, b.id, b.earliest>> THEN "bad"
        ELSE IF \A x \in held : clock < x.earliest        THEN "early"
        ELSE IF ~cl[c].good                                THEN "bad"
        ELSE "ok"

(* Mutant: the remaining time is rounded down. *)
Mut_RetryAfterFloor(b) ==
    LET retry == Unix(b.earliest - clock)
    IN  2 * IF retry < 1 THEN 1 ELSE retry

(* retry_after, in half seconds: whole seconds, rounded down, and one more,  *)
(* but at least one.                                                         *)
RetryAfter(b) ==
    LET retry == Unix(b.earliest - clock) + 1
    IN  2 * IF retry < 1 THEN 1 ELSE retry

(* The client thinks that the earliest time has come, and has slept. *)
Awake(c) ==
    /\ clock + Skew[c] >= 2 * Unix(cl[c].bundle.earliest)
    /\ clock >= cl[c].wake

(* The bundle really was solved, in time, for the address that submits it. *)
Deserved(c) ==
    LET b == cl[c].bundle
    IN  cl[c].good /\ cl[c].ip = b.ip /\ clock \in b.earliest..b.expires

(* The client comes with its answer when its challenge has expired. *)
Late(c) == After(clock, cl[c].bundle.expires)

(* step=submit: GateStore.Submit, and what RunGateFlow makes of the answer *)
Submit(c) ==
    /\ cl[c].pc = "submit" /\ Awake(c)
    /\ LET b == cl[c].bundle
           v == Verdict(c)
           token == Fresh
       IN  /\ challenges' = IF v = "early" THEN challenges ELSE Delete(b.id)
           /\ v = "ok" => CanDraw
           /\ passes' = IF v # "ok" THEN passes
                        ELSE passes \cup {[token |-> token, ip |-> cl[c].ip,
                                           expires |-> clock + PassTTL]}
           /\ earned' = IF v = "ok" /\ Deserved(c)
                        THEN earned \cup {[token |-> token, ip |-> cl[c].ip,
                                           until |-> clock + PassTTL]}
                        ELSE earned
           /\ \/ /\ UNCHANGED mishaps
                 /\ excused' = [excused EXCEPT ![c] = @ \/ Late(c)]
                 /\ \/ v = "ok" /\ FlowOver(c, token)
                    \/ /\ v = "early" /\ cl[c].try = 0
                       /\ cl' = [cl EXCEPT ![c] = [cl[c] EXCEPT
                                   !.try = 1, !.wake = clock + RetryAfter(b)]]
                    \/ v = "early" /\ cl[c].try = 1 /\ FlowFails(c)
                    \/ v \in {"gone", "bad"} /\ FlowFails(c)
              \/ Mishap(c) /\ FlowFails(c)
    /\ UNCHANGED <<clock, required, single, cooldown, statusCooldown,
                   lastConnect, starts, unearned>>

-----------------------------------------------------------------------------
(* ServeWS *)

(* GateStore.UsePass: the passes that open for the address *)
Opens(ip, token) ==
    {p \in passes : p.token = token /\ p.ip = ip /\ ~After(clock, p.expires)}

(* The client dials with a pass that has expired on the way. *)
Slow(c) == cl[c].pass # None /\ After(clock, cl[c].lease)

(* The abstract lease behind the pass is valid, and with PASS_SINGLE_USE is  *)
(* now spent.                                                                *)
Spend(ip, token) ==
    LET lease == {e \in earned : e.token = token /\ e.ip = ip /\ clock <= e.until}
    IN  /\ unearned' = (unearned \/ lease = {})
        /\ earned' = IF single THEN earned \ lease ELSE earned

(* Mutant: a single-use pass is not consumed. *)
Mut_UsePassKeeps(ip, token) ==
    /\ Opens(ip, token) # {}
    /\ UNCHANGED passes
    /\ Spend(ip, token)

(* UsePass succeeds *)
UsePass(ip, token) ==
    /\ Opens(ip, token) # {}
    /\ passes' = IF single THEN passes \ Opens(ip, token) ELSE passes
    /\ Spend(ip, token)

(* gateRequired and checkGatePass.  A browser cannot read the refusal. *)
GateCheck(c) ==
    /\ cl[c].pc = "dial"
    /\ \/ /\ ~required
          /\ Goto(c, "rate")
          /\ UNCHANGED <<passes, excused, earned, unearned>>
       \/ /\ required /\ UsePass(cl[c].ip, cl[c].pass)
          /\ Goto(c, "rate")
          /\ UNCHANGED excused
       \/ /\ required /\ Opens(cl[c].ip, cl[c].pass) = {}
          /\ IF c \in Wasm THEN End(c, "failed") ELSE Goto(c, "challenge")
          /\ excused' = [excused EXCEPT ![c] = @ \/ Slow(c)]
          /\ UNCHANGED <<passes, earned, unearned>>
    /\ UNCHANGED <<clock, required, single, challenges, cooldown,
                   statusCooldown, lastConnect, starts, mishaps>>

(* CheckConnectionRate, and the limits after it, which may refuse anyone.    *)
(* A refusal here is not a gate challenge: DialManaged gives up.             *)
RateCheck(c) ==
    /\ cl[c].pc = "rate"
    /\ LET ip == cl[c].ip
       IN  \/ /\ ~Allow(lastConnect, ip, ConnCooldown)
              /\ End(c, "failed")
              /\ NoMishap /\ UNCHANGED lastConnect
           \/ /\ Allow(lastConnect, ip, ConnCooldown)
              /\ lastConnect' = [lastConnect EXCEPT ![ip] = clock]
              /\ \/ End(c, "in") /\ NoMishap
                 \/ End(c, "failed") /\ Mishap(c)
    /\ UNCHANGED <<clock, required, single, challenges, passes,
                   cooldown, statusCooldown, starts, earned, unearned>>

(* The handshake of a dial is made once more, from anywhere: the pass is a   *)
(* part of its URL.                                                          *)
Redial(c, ip) ==
    /\ cl[c].pass # None /\ required /\ Fault
    /\ UsePass(ip, cl[c].pass)
    /\ lastConnect' = IF Allow(lastConnect, ip, ConnCooldown)
                      THEN [lastConnect EXCEPT ![ip] = clock] ELSE lastConnect
    /\ excused' = [d \in Clients |->
                     excused[d] \/ d = c \/ (Busy(d) /\ cl[d].ip = ip)]
    /\ UNCHANGED <<clock, required, single, challenges, cooldown,
                   statusCooldown, cl, starts>>

-----------------------------------------------------------------------------
(* The environment *)

(* What a client does at once, or the server between two of its locks, takes *)
(* no time; a dial and an answer may come as late as they like.              *)
AtOnce == {"probe", "challenge", "rate"}

(* Mutant: only the passes are swept. *)
Mut_SweepPasses(now) ==
    /\ passes' = {p \in passes : ~After(now, p.expires)}
    /\ UNCHANGED challenges

(* GateStore.Sweep *)
Sweep(now) ==
    /\ passes' = {p \in passes : ~After(now, p.expires)}
    /\ challenges' = {x \in challenges : ~After(now, x.expires)}

(* Half a second passes; every second attackSampler sweeps the store.  A     *)
(* lease nobody can use any more need not be remembered.                     *)
Tick ==
    /\ clock < MaxTime /\ \A c \in Clients : cl[c].pc \notin AtOnce
    /\ clock' = clock + 1
    /\ IF clock' % 2 = 0 THEN Sweep(clock') ELSE UNCHANGED <<passes, challenges>>
    /\ earned' = {e \in earned : e.until >= clock'}
    /\ UNCHANGED <<required, single, cooldown, statusCooldown, lastConnect, cl,
                   starts, mishaps, excused, unearned>>

(* The server becomes degraded, or no longer is.  A browser that has already *)
(* been told that it needs no pass is turned away.                           *)
Degrade ==
    /\ required' = ~required
    /\ excused' = [c \in Clients |->
                     \/ excused[c]
                     \/ ~required /\ c \in Wasm /\ cl[c].pc = "dial"
                                  /\ cl[c].pass = None]
    /\ UNCHANGED <<clock, single, challenges, passes, cooldown,
                   statusCooldown, lastConnect, cl, starts, mishaps, earned,
                   unearned>>

(* The user gives up. *)
Quit(c) ==
    /\ Busy(c)
    /\ End(c, "idle")
    /\ UNCHANGED <<clock, server, starts, mishaps, excused, earned, unearned>>

(* The client's address changes on the way. *)
Roam(c) ==
    /\ Busy(c) /\ Fault
    /\ \E ip \in IPs \ {cl[c].ip} :
         /\ cl' = [cl EXCEPT ![c].ip = ip]
         /\ excused' = [d \in Clients |->
                          excused[d] \/ d = c \/ (Busy(d) /\ cl[d].ip = ip)]
    /\ UNCHANGED <<clock, server, starts, earned, unearned>>

(* NewGateStore: a fresh key and empty maps *)
Restart ==
    /\ Fault
    /\ challenges' = {} /\ passes' = {} /\ earned' = {}
    /\ cooldown' = [a \in IPs |-> None]
    /\ statusCooldown' = [a \in IPs |-> None]
    /\ lastConnect' = [a \in IPs |-> None]
    /\ excused' = [c \in Clients |-> excused[c] \/ Busy(c)]
    /\ UNCHANGED <<clock, required, single, cl, starts, unearned>>

Next ==
    \/ \E c \in Clients :
         \/ Begin(c) \/ Probe(c) \/ Request(c) \/ Submit(c)
         \/ GateCheck(c) \/ RateCheck(c) \/ Quit(c) \/ Roam(c)
         \/ \E ip \in IPs : Redial(c, ip)
    \/ Tick \/ Degrade \/ Restart

Spec == Init /\ [][Next]_vars

-----------------------------------------------------------------------------
(* Properties *)

Times == 0..(MaxTime + WaitMax + PowTTL + PassTTL)

Bundles == [id : Ids, ip : IPs, earliest : Times, expires : Times]

Programs ==
    [pc : {"idle", "probe", "challenge", "submit", "dial", "rate", "in", "failed"},
     ip : IPs, attempt : 0..(MaxAttempts - 1), try : {0, 1},
     bundle : Bundles \cup {None}, good : BOOLEAN,
     pass : Ids \cup {None}, lease : Times, wake : Nat]

(* Type invariant: the store, the throttles and the clients' programs keep   *)
(* their shapes, no client dials more often than DialManaged's attempts, and *)
(* who submits has a bundle to submit.                                       *)
TypeOK ==
    /\ clock \in 0..MaxTime
    /\ required \in BOOLEAN /\ single \in BOOLEAN
    /\ challenges \subseteq Bundles
    /\ passes \subseteq [token : Ids, ip : IPs, expires : Times]
    /\ cooldown \in [IPs -> 0..MaxTime \cup {None}]
    /\ statusCooldown \in [IPs -> 0..MaxTime \cup {None}]
    /\ lastConnect \in [IPs -> 0..MaxTime \cup {None}]
    /\ cl \in [Clients -> Programs]
    /\ \A c \in Clients : cl[c].pc = "submit" => cl[c].bundle \in Bundles
    /\ excused \in [Clients -> BOOLEAN]
    /\ starts \in 0..MaxStarts /\ mishaps \in 0..MaxMishaps
    /\ unearned \in BOOLEAN
    /\ earned \subseteq [token : Ids, ip : IPs, until : Times]

(* The gate's promise to an honest client: alone on its address, with its    *)
(* answers delivered, a solution within the challenge's time and a dial      *)
(* within the lease, it is never turned away.  Its clock may be ahead, the   *)
(* earliest time it knows is rounded down, and it retries only once; the     *)
(* dial that met the gate must not have used up the connection cooldown.     *)
NeverTurnedAway == \A c \in Clients : cl[c].pc = "failed" => excused[c]

(* While the gate is up, a dial is let through only for a proof of work      *)
(* really done for its address: between the challenge's earliest time and    *)
(* its expiry, at most PASS_TTL ago, and with PASS_SINGLE_USE never twice.   *)
EntriesEarned == ~unearned

(* An address cannot fill the store: the throttle on challenges and the      *)
(* sampler's sweeps together bound what it holds there, however often it     *)
(* asks and gives up.                                                        *)
StoreBounded ==
    \A a \in IPs :
      Cardinality({x \in challenges : x.ip = a})
        <= (WaitMax + PowTTL + 2) \div ChallengeCooldown + 1
=============================================================================
