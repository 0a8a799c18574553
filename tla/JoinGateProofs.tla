--------------------------- MODULE JoinGateProofs ---------------------------
(* JoinGate, for any number of clients, addresses and ids and any times:     *)
(* type correctness; that a pass opens the gate only for a proof of work     *)
(* really done; that an honest client is never turned away; and that an      *)
(* address cannot fill the store of challenges.                              *)
EXTENDS JoinGate, FiniteSetTheorems, TLAPS

Labels == {"idle", "probe", "challenge", "submit", "dial", "rate", "in", "failed"}

(* The part of the type invariant about the clients' programs, which most    *)
(* actions change in one of four ways.                                       *)
ProgramsOK ==
    /\ cl \in [Clients -> Programs]
    /\ \A c \in Clients : cl[c].pc = "submit" => cl[c].bundle \in Bundles

(* The assumption on the constants, one by one. *)
LEMMA Constants ==
    /\ WaitMin \in Nat /\ WaitMax \in Nat /\ MaxTime \in Nat
    /\ PowTTL \in Nat /\ PassTTL \in Nat /\ MaxStarts \in Nat
    /\ MaxMishaps \in Nat /\ MaxAttempts \in Nat /\ MaxAttempts > 0
    /\ None \notin Ids /\ Wasm \subseteq Clients
  BY GateAssumption DEF GateAssumption

(* A fresh session is well formed, wherever it stands. *)
LEMMA StartIsProgram ==
    ASSUME NEW ip \in IPs, NEW pc \in Labels
    PROVE  [Start EXCEPT !.ip = ip, !.pc = pc] \in Programs
  <1>1. 0 \in Times /\ 0 \in 0..(MaxAttempts - 1)
    BY Constants DEF Times
  <1> QED BY <1>1 DEF Programs, Start, Labels

(* A jump keeps the programs well formed, unless it is to "submit". *)
LEMMA GotoKeeps ==
    ASSUME ProgramsOK, NEW c \in Clients, NEW pc \in Labels \ {"submit"},
           Goto(c, pc)
    PROVE  ProgramsOK'
  <1>1. cl' \in [Clients -> Programs]
    BY DEF ProgramsOK, Goto, Programs, Labels
  <1>2. ASSUME NEW d \in Clients, cl'[d].pc = "submit" PROVE cl'[d].bundle \in Bundles
    BY <1>2 DEF ProgramsOK, Goto, Programs, Labels
  <1> QED BY <1>1, <1>2 DEF ProgramsOK

(* So does the end of a session. *)
LEMMA EndKeeps ==
    ASSUME ProgramsOK, NEW c \in Clients, NEW pc \in Labels \ {"submit"},
           End(c, pc)
    PROVE  ProgramsOK'
  <1>1. cl[c].ip \in IPs
    BY DEF ProgramsOK, Programs
  <1>2. [Start EXCEPT !.ip = cl[c].ip, !.pc = pc] \in Programs
    BY <1>1, StartIsProgram
  <1>3. cl' \in [Clients -> Programs]
    BY <1>2 DEF ProgramsOK, End
  <1>4. ASSUME NEW d \in Clients, cl'[d].pc = "submit" PROVE cl'[d].bundle \in Bundles
    <2>1. CASE d = c BY <1>4, <2>1 DEF ProgramsOK, End, Start
    <2>2. CASE d # c BY <1>4, <2>2 DEF ProgramsOK, End
    <2> QED BY <2>1, <2>2
  <1> QED BY <1>3, <1>4 DEF ProgramsOK

(* And so does a flow that ends without a pass. *)
LEMMA FlowFailsKeeps ==
    ASSUME ProgramsOK, NEW c \in Clients, FlowFails(c)
    PROVE  ProgramsOK'
  <1>1. "dial" \in Labels \ {"submit"} /\ "failed" \in Labels \ {"submit"}
    BY DEF Labels
  <1>2. CASE Goto(c, "dial") BY <1>1, <1>2, GotoKeeps
  <1>3. CASE End(c, "failed") BY <1>1, <1>3, EndKeeps
  <1> QED BY <1>2, <1>3 DEF FlowFails

(* And one that ends with one. *)
LEMMA FlowOverKeeps ==
    ASSUME ProgramsOK, NEW c \in Clients, NEW token \in Ids, clock \in 0..MaxTime,
           FlowOver(c, token)
    PROVE  ProgramsOK'
  <1> DEFINE a == IF c \in Wasm THEN 0 ELSE cl[c].attempt + 1
             new == [Start EXCEPT !.ip = cl[c].ip, !.pc = "dial", !.attempt = a,
                                  !.pass = token, !.lease = clock + PassTTL]
  <1>1. cl[c].ip \in IPs /\ cl[c].attempt \in 0..(MaxAttempts - 1)
    BY DEF ProgramsOK, Programs
  <1>2. CASE a = MaxAttempts
    <2>1. End(c, "failed") BY <1>2 DEF FlowOver
    <2> QED BY <2>1, EndKeeps DEF Labels
  <1>3. CASE a # MaxAttempts
    <2>1. a \in 0..(MaxAttempts - 1) BY <1>1, <1>3, Constants
    <2>2. clock + PassTTL \in Times BY Constants DEF Times
    <2> HIDE DEF a
    <2>3. new \in Programs BY <1>1, <2>1, <2>2 DEF Programs, Start
    <2>4. cl' = [cl EXCEPT ![c] = new] BY <1>3 DEF FlowOver, a
    <2>5. new.pc = "dial" BY DEF Start
    <2> HIDE DEF new
    <2>6. cl' \in [Clients -> Programs] BY <2>3, <2>4 DEF ProgramsOK
    <2>7. ASSUME NEW d \in Clients, cl'[d].pc = "submit" PROVE cl'[d].bundle \in Bundles
      BY <2>4, <2>5, <2>7 DEF ProgramsOK
    <2> QED BY <2>6, <2>7 DEF ProgramsOK
  <1> QED BY <1>2, <1>3

(* The id that randHex draws is one that nobody holds. *)
LEMMA FreshIsNew == ASSUME CanDraw PROVE Fresh \in Ids /\ Fresh \notin Used
  BY DEF CanDraw, Fresh

(* A new challenge is well formed. *)
LEMMA BundleTyped ==
    ASSUME CanDraw, clock \in 0..MaxTime, NEW ip \in IPs,
           NEW wait \in WaitMin..WaitMax
    PROVE  Bundle(ip, wait) \in Bundles
  <1>1. clock + wait \in Times /\ clock + wait + PowTTL \in Times
    BY Constants DEF Times
  <1> QED BY <1>1, FreshIsNew DEF Bundle, Bundles

(* The client holds the new challenge. *)
LEMMA SolveKeeps ==
    ASSUME ProgramsOK, NEW c \in Clients, NEW b \in Bundles, NEW good \in BOOLEAN,
           Solve(c, b, good)
    PROVE  ProgramsOK'
  <1> DEFINE new == [cl[c] EXCEPT !.bundle = b, !.good = good, !.try = 0,
                                  !.wake = 0, !.pc = "submit"]
  <1>1. new \in Programs /\ new.bundle = b
    BY DEF ProgramsOK, Programs
  <1>2. cl' = [cl EXCEPT ![c] = new]
    BY DEF Solve
  <1> HIDE DEF new
  <1>3. cl' \in [Clients -> Programs]
    BY <1>1, <1>2 DEF ProgramsOK
  <1>4. ASSUME NEW d \in Clients, cl'[d].pc = "submit" PROVE cl'[d].bundle \in Bundles
    BY <1>1, <1>2, <1>4 DEF ProgramsOK
  <1> QED BY <1>3, <1>4 DEF ProgramsOK

(* The client sleeps and will try once more. *)
LEMMA RetryKeeps ==
    ASSUME ProgramsOK, NEW c \in Clients, clock \in 0..MaxTime,
           cl[c].pc = "submit",
           cl' = [cl EXCEPT ![c] = [cl[c] EXCEPT
                    !.try = 1, !.wake = clock + RetryAfter(cl[c].bundle)]]
    PROVE  ProgramsOK'
  <1> DEFINE new == [cl[c] EXCEPT !.try = 1,
                                  !.wake = clock + RetryAfter(cl[c].bundle)]
  <1>1. cl[c].bundle \in Bundles
    BY DEF ProgramsOK
  <1>2. cl[c].bundle.earliest \in Int
    BY <1>1 DEF Bundles, Times
  <1>3. clock + RetryAfter(cl[c].bundle) \in Nat
    BY <1>2, Constants DEF RetryAfter, Unix
  <1>4. new \in Programs /\ new.bundle = cl[c].bundle
    BY <1>3 DEF ProgramsOK, Programs
  <1> HIDE DEF new
  <1>5. cl' \in [Clients -> Programs]
    BY <1>4 DEF ProgramsOK, new
  <1>6. ASSUME NEW d \in Clients, cl'[d].pc = "submit" PROVE cl'[d].bundle \in Bundles
    <2>1. CASE d = c BY <1>1, <1>4, <2>1 DEF ProgramsOK, new
    <2>2. CASE d # c BY <1>6, <2>2 DEF ProgramsOK
    <2> QED BY <2>1, <2>2
  <1> QED BY <1>5, <1>6 DEF ProgramsOK

(* Everything but the programs. *)
StoreOK ==
    /\ clock \in 0..MaxTime
    /\ required \in BOOLEAN /\ single \in BOOLEAN
    /\ challenges \subseteq Bundles
    /\ passes \subseteq [token : Ids, ip : IPs, expires : Times]
    /\ cooldown \in [IPs -> 0..MaxTime \cup {None}]
    /\ statusCooldown \in [IPs -> 0..MaxTime \cup {None}]
    /\ lastConnect \in [IPs -> 0..MaxTime \cup {None}]
    /\ excused \in [Clients -> BOOLEAN]
    /\ starts \in 0..MaxStarts /\ mishaps \in 0..MaxMishaps
    /\ unearned \in BOOLEAN
    /\ earned \subseteq [token : Ids, ip : IPs, until : Times]

LEMMA Split == TypeOK <=> StoreOK /\ ProgramsOK
  BY DEF TypeOK, StoreOK, ProgramsOK

(* An address of a program is an address. *)
LEMMA ClientTyped ==
    ASSUME ProgramsOK, NEW c \in Clients
    PROVE  /\ cl[c].ip \in IPs
           /\ cl[c].pass \in Ids \cup {None}
           /\ cl[c].good \in BOOLEAN
  BY DEF ProgramsOK, Programs

LEMMA MishapTyped ==
    ASSUME StoreOK, NEW c \in Clients, Mishap(c) \/ NoMishap
    PROVE  excused' \in [Clients -> BOOLEAN] /\ mishaps' \in 0..MaxMishaps
  <1>1. excused' \in [Clients -> BOOLEAN]
    BY DEF StoreOK, Mishap, NoMishap
  <1>2. mishaps' \in 0..MaxMishaps
    BY Constants DEF StoreOK, Mishap, Fault, NoMishap
  <1> QED BY <1>1, <1>2

LEMMA UsePassTyped ==
    ASSUME StoreOK, NEW ip, NEW token, UsePass(ip, token)
    PROVE  /\ passes' \subseteq [token : Ids, ip : IPs, expires : Times]
           /\ earned' \subseteq [token : Ids, ip : IPs, until : Times]
           /\ unearned' \in BOOLEAN
  BY DEF StoreOK, UsePass, Spend, Opens

LEMMA InitTyped == Init => TypeOK
  <1> SUFFICES ASSUME Init PROVE TypeOK
    OBVIOUS
  <1>1. StoreOK
    <2>1. /\ required \in BOOLEAN /\ single \in BOOLEAN /\ unearned \in BOOLEAN
          /\ excused \in [Clients -> BOOLEAN]
      BY DEF Init
    <2>2. clock \in 0..MaxTime /\ starts \in 0..MaxStarts /\ mishaps \in 0..MaxMishaps
      BY Constants DEF Init
    <2>3. /\ cooldown \in [IPs -> 0..MaxTime \cup {None}]
          /\ statusCooldown \in [IPs -> 0..MaxTime \cup {None}]
          /\ lastConnect \in [IPs -> 0..MaxTime \cup {None}]
      BY DEF Init
    <2>4. challenges = {} /\ passes = {} /\ earned = {}
      BY DEF Init
    <2> QED BY <2>1, <2>2, <2>3, <2>4 DEF StoreOK
  <1>2. PICK a \in IPs : cl = [c \in Clients |-> [Start EXCEPT !.ip = a]]
    BY DEF Init
  <1>3. [Start EXCEPT !.ip = a] \in Programs
    <2>1. 0 \in Times /\ 0 \in 0..(MaxAttempts - 1)
      BY Constants DEF Times
    <2> QED BY <2>1 DEF Programs, Start
  <1>4. [Start EXCEPT !.ip = a].pc = "idle"
    BY DEF Start
  <1>5. ProgramsOK
    BY <1>2, <1>3, <1>4 DEF ProgramsOK
  <1> QED BY <1>1, <1>5, Split

(* Every step preserves the types. *)
LEMMA StepTyped ==
    ASSUME TypeOK, [Next]_vars
    PROVE  TypeOK'
  <1> USE Constants
  <1>0. StoreOK /\ ProgramsOK
    BY Split
  <1>s. SUFFICES StoreOK' /\ ProgramsOK'
    BY DEF TypeOK, StoreOK, ProgramsOK
  <1>1. ASSUME NEW c \in Clients, Begin(c) PROVE StoreOK' /\ ProgramsOK'
    <2>0. excused' \in [Clients -> BOOLEAN]
      BY <1>0, <1>1, Zenon DEF Begin, StoreOK, Crowded
    <2>1. starts' \in 0..MaxStarts
      BY <1>0, <1>1 DEF Begin, StoreOK
    <2>2. StoreOK'
      BY <1>0, <1>1, <2>0, <2>1 DEF Begin, StoreOK, server
    <2>3. ProgramsOK'
      <3>1. CASE Goto(c, "probe") BY <1>0, <3>1, GotoKeeps DEF Labels
      <3>2. CASE Goto(c, "dial") BY <1>0, <3>2, GotoKeeps DEF Labels
      <3> QED BY <1>1, <3>1, <3>2 DEF Begin
    <2> QED BY <2>2, <2>3
  <1>2. ASSUME NEW c \in Clients, Probe(c) PROVE StoreOK' /\ ProgramsOK'
    <2>1. Mishap(c) \/ NoMishap
      BY <1>2 DEF Probe
    <2>2. statusCooldown' \in [IPs -> 0..MaxTime \cup {None}]
      BY <1>0, <1>2 DEF Probe, StoreOK
    <2>3. StoreOK'
      BY <1>0, <1>2, <2>1, <2>2, MishapTyped DEF Probe, StoreOK
    <2>4. Goto(c, "challenge") \/ Goto(c, "dial")
      BY <1>2 DEF Probe
    <2>5. ProgramsOK'
      <3>1. CASE Goto(c, "challenge") BY <1>0, <3>1, GotoKeeps DEF Labels
      <3>2. CASE Goto(c, "dial") BY <1>0, <3>2, GotoKeeps DEF Labels
      <3> QED BY <2>4, <3>1, <3>2
    <2> QED BY <2>3, <2>5
  <1>3. ASSUME NEW c \in Clients, Request(c) PROVE StoreOK' /\ ProgramsOK'
    <2>0. cl[c].ip \in IPs /\ clock \in 0..MaxTime
      BY <1>0, ClientTyped DEF StoreOK
    <2>1. Mishap(c) \/ NoMishap
      BY <1>3 DEF Request
    <2>2. CASE FlowFails(c) /\ UNCHANGED <<challenges, cooldown>>
      <3>1. StoreOK'
        BY <1>0, <1>3, <2>1, <2>2, MishapTyped DEF Request, StoreOK
      <3> QED BY <1>0, <2>2, <3>1, FlowFailsKeeps
    <2>3. ASSUME CanDraw, NEW wait \in WaitMin..WaitMax,
                 cooldown' = [cooldown EXCEPT ![cl[c].ip] = clock],
                 challenges' = challenges \cup {Bundle(cl[c].ip, wait)},
                 \/ \E good \in BOOLEAN : Solve(c, Bundle(cl[c].ip, wait), good)
                 \/ FlowFails(c)
          PROVE  StoreOK' /\ ProgramsOK'
      <3>1. Bundle(cl[c].ip, wait) \in Bundles
        BY <2>0, <2>3, BundleTyped
      <3>2. cooldown' \in [IPs -> 0..MaxTime \cup {None}]
        BY <1>0, <2>0, <2>3 DEF StoreOK
      <3>3. StoreOK'
        BY <1>0, <1>3, <2>1, <2>3, <3>1, <3>2, MishapTyped DEF Request, StoreOK
      <3>4. ProgramsOK'
        BY <1>0, <2>3, <3>1, SolveKeeps, FlowFailsKeeps
      <3> QED BY <3>3, <3>4
    <2> QED BY <1>3, <2>2, <2>3 DEF Request
  <1>4. ASSUME NEW c \in Clients, Submit(c) PROVE StoreOK' /\ ProgramsOK'
    <2> DEFINE v == Verdict(c)
    <2>0. cl[c].ip \in IPs /\ clock \in 0..MaxTime /\ cl[c].pc = "submit"
      BY <1>0, <1>4, ClientTyped DEF StoreOK, Submit
    <2>1. v = "ok" => Fresh \in Ids
      BY <1>4, FreshIsNew DEF Submit
    <2>2. clock + PassTTL \in Times
      BY <2>0 DEF Times
    <2>3. /\ challenges' \subseteq challenges
          /\ passes' \subseteq [token : Ids, ip : IPs, expires : Times]
          /\ earned' \subseteq [token : Ids, ip : IPs, until : Times]
      <3> HIDE DEF v
      <3>1. challenges' \subseteq challenges
        BY <1>4 DEF Submit, Delete, v
      <3>2. passes' \subseteq passes \cup (IF v = "ok" THEN
              {[token |-> Fresh, ip |-> cl[c].ip, expires |-> clock + PassTTL]} ELSE {})
        BY <1>4 DEF Submit, v
      <3>3. earned' \subseteq earned \cup (IF v = "ok" THEN
              {[token |-> Fresh, ip |-> cl[c].ip, until |-> clock + PassTTL]} ELSE {})
        BY <1>4 DEF Submit, v
      <3> QED BY <1>0, <2>0, <2>1, <2>2, <3>1, <3>2, <3>3 DEF StoreOK
    <2>4. excused' \in [Clients -> BOOLEAN] /\ mishaps' \in 0..MaxMishaps
      <3>1. CASE Mishap(c) BY <1>0, <3>1, MishapTyped
      <3>2. CASE UNCHANGED mishaps /\ excused' = [excused EXCEPT ![c] = @ \/ Late(c)]
        BY <1>0, <3>2 DEF StoreOK, Late, After
      <3> QED BY <1>4, <3>1, <3>2 DEF Submit
    <2>5. StoreOK'
      BY <1>0, <1>4, <2>3, <2>4 DEF Submit, StoreOK
    <2>6. ProgramsOK'
      <3>1. CASE v = "ok" /\ FlowOver(c, Fresh)
        BY <1>0, <2>0, <2>1, <3>1, FlowOverKeeps
      <3>2. CASE cl' = [cl EXCEPT ![c] = [cl[c] EXCEPT
                    !.try = 1, !.wake = clock + RetryAfter(cl[c].bundle)]]
        BY <1>0, <2>0, <3>2, RetryKeeps
      <3>3. CASE FlowFails(c)
        BY <1>0, <3>3, FlowFailsKeeps
      <3> HIDE DEF v
      <3> QED BY <1>4, <3>1, <3>2, <3>3 DEF Submit, v
    <2> QED BY <2>5, <2>6
  <1>5. ASSUME NEW c \in Clients, GateCheck(c) PROVE StoreOK' /\ ProgramsOK'
    <2>1. /\ passes' \subseteq [token : Ids, ip : IPs, expires : Times]
          /\ earned' \subseteq [token : Ids, ip : IPs, until : Times]
          /\ unearned' \in BOOLEAN
      <3>1. CASE UsePass(cl[c].ip, cl[c].pass) BY <1>0, <3>1, UsePassTyped
      <3>2. CASE UNCHANGED <<passes, earned, unearned>> BY <1>0, <3>2 DEF StoreOK
      <3> QED BY <1>5, <3>1, <3>2 DEF GateCheck
    <2>2. excused' \in [Clients -> BOOLEAN]
      BY <1>0, <1>5 DEF GateCheck, StoreOK, Slow, After
    <2>3. StoreOK'
      BY <1>0, <1>5, <2>1, <2>2 DEF GateCheck, StoreOK
    <2>4. Goto(c, "rate") \/ End(c, "failed") \/ Goto(c, "challenge")
      BY <1>5 DEF GateCheck
    <2>5. ProgramsOK'
      <3>1. CASE Goto(c, "rate") BY <1>0, <3>1, GotoKeeps DEF Labels
      <3>2. CASE End(c, "failed") BY <1>0, <3>2, EndKeeps DEF Labels
      <3>3. CASE Goto(c, "challenge") BY <1>0, <3>3, GotoKeeps DEF Labels
      <3> QED BY <2>4, <3>1, <3>2, <3>3
    <2> QED BY <2>3, <2>5
  <1>6. ASSUME NEW c \in Clients, RateCheck(c) PROVE StoreOK' /\ ProgramsOK'
    <2>1. Mishap(c) \/ NoMishap
      BY <1>6 DEF RateCheck
    <2>2. lastConnect' \in [IPs -> 0..MaxTime \cup {None}]
      BY <1>0, <1>6 DEF RateCheck, StoreOK
    <2>3. StoreOK'
      BY <1>0, <1>6, <2>1, <2>2, MishapTyped DEF RateCheck, StoreOK
    <2>4. End(c, "in") \/ End(c, "failed")
      BY <1>6 DEF RateCheck
    <2>5. ProgramsOK'
      <3>1. CASE End(c, "in") BY <1>0, <3>1, EndKeeps DEF Labels
      <3>2. CASE End(c, "failed") BY <1>0, <3>2, EndKeeps DEF Labels
      <3> QED BY <2>4, <3>1, <3>2
    <2> QED BY <2>3, <2>5
  <1>7. ASSUME NEW c \in Clients, Quit(c) PROVE StoreOK' /\ ProgramsOK'
    <2>1. StoreOK'
      BY <1>0, <1>7 DEF Quit, StoreOK, server
    <2>2. ProgramsOK'
      BY <1>0, <1>7, EndKeeps DEF Quit, Labels
    <2> QED BY <2>1, <2>2
  <1>8. ASSUME NEW c \in Clients, Roam(c) PROVE StoreOK' /\ ProgramsOK'
    <2>1. PICK ip \in IPs :
            /\ cl' = [cl EXCEPT ![c].ip = ip]
            /\ excused' = [d \in Clients |->
                             excused[d] \/ d = c \/ (Busy(d) /\ cl[d].ip = ip)]
      BY <1>8 DEF Roam
    <2>2. excused' \in [Clients -> BOOLEAN] /\ mishaps' \in 0..MaxMishaps
      BY <1>0, <1>8, <2>1 DEF Roam, Fault, StoreOK, Busy
    <2>3. StoreOK'
      BY <1>0, <1>8, <2>2 DEF Roam, StoreOK, server
    <2>4. cl' \in [Clients -> Programs]
      BY <1>0, <2>1 DEF ProgramsOK, Programs
    <2>5. ASSUME NEW d \in Clients, cl'[d].pc = "submit" PROVE cl'[d].bundle \in Bundles
      BY <1>0, <2>1, <2>5 DEF ProgramsOK, Programs
    <2> QED BY <2>3, <2>4, <2>5 DEF ProgramsOK
  <1>9. ASSUME NEW c \in Clients, NEW ip \in IPs, Redial(c, ip)
        PROVE  StoreOK' /\ ProgramsOK'
    <2>1. UsePass(ip, cl[c].pass)
      BY <1>9 DEF Redial
    <2>2. excused' \in [Clients -> BOOLEAN] /\ mishaps' \in 0..MaxMishaps
      BY <1>0, <1>9 DEF Redial, Fault, StoreOK, Busy
    <2>3. lastConnect' \in [IPs -> 0..MaxTime \cup {None}]
      BY <1>0, <1>9 DEF Redial, StoreOK
    <2>4. StoreOK'
      BY <1>0, <1>9, <2>1, <2>2, <2>3, UsePassTyped DEF Redial, StoreOK
    <2>5. ProgramsOK'
      BY <1>0, <1>9 DEF Redial, ProgramsOK
    <2> QED BY <2>4, <2>5
  <1>10. ASSUME Tick PROVE StoreOK' /\ ProgramsOK'
    <2>1. passes' \subseteq passes /\ challenges' \subseteq challenges
          /\ earned' \subseteq earned /\ clock' \in 0..MaxTime
      BY <1>0, <1>10 DEF Tick, Sweep, StoreOK
    <2>2. StoreOK'
      BY <1>0, <1>10, <2>1 DEF Tick, StoreOK
    <2>3. ProgramsOK'
      BY <1>0, <1>10 DEF Tick, ProgramsOK
    <2> QED BY <2>2, <2>3
  <1>11. ASSUME Degrade PROVE StoreOK' /\ ProgramsOK'
    <2>1. excused' \in [Clients -> BOOLEAN] /\ required' \in BOOLEAN
      BY <1>0, <1>11 DEF Degrade, StoreOK
    <2>2. StoreOK'
      BY <1>0, <1>11, <2>1 DEF Degrade, StoreOK
    <2>3. ProgramsOK'
      BY <1>0, <1>11 DEF Degrade, ProgramsOK
    <2> QED BY <2>2, <2>3
  <1>12. ASSUME Restart PROVE StoreOK' /\ ProgramsOK'
    <2>1. excused' \in [Clients -> BOOLEAN] /\ mishaps' \in 0..MaxMishaps
      BY <1>0, <1>12 DEF Restart, Fault, StoreOK, Busy
    <2>2. StoreOK'
      BY <1>0, <1>12, <2>1 DEF Restart, StoreOK
    <2>3. ProgramsOK'
      BY <1>0, <1>12 DEF Restart, ProgramsOK
    <2> QED BY <2>2, <2>3
  <1>13. ASSUME UNCHANGED vars PROVE StoreOK' /\ ProgramsOK'
    BY <1>0, <1>13 DEF vars, server, StoreOK, ProgramsOK
  <1> QED
    BY <1>1, <1>2, <1>3, <1>4, <1>5, <1>6, <1>7, <1>8, <1>9, <1>10, <1>11,
       <1>12, <1>13 DEF Next

(* The store, the throttles and the clients' programs keep their shapes:     *)
(* type correctness of GateStore and of the client's dial.                   *)
THEOREM GateTypes == Spec => []TypeOK
  <1>1. Init => TypeOK BY InitTyped
  <1>2. TypeOK /\ [Next]_vars => TypeOK' BY StepTyped
  <1> QED BY <1>1, <1>2, PTL DEF Spec

-----------------------------------------------------------------------------
(* Why EntriesEarned holds: a bundle that is still in the store is the one   *)
(* its client holds, ...                                                     *)
BundlesHeld ==
    \A c \in Clients : cl[c].pc = "submit" =>
      \A x \in challenges : x.id = cl[c].bundle.id => x = cl[c].bundle

(* ... and every pass that would open has a lease behind it.                 *)
Lease(p) == [token |-> p.token, ip |-> p.ip, until |-> p.expires]
PassesBacked == \A p \in passes : clock <= p.expires => Lease(p) \in earned

GateInv == TypeOK /\ BundlesHeld /\ PassesBacked /\ EntriesEarned

(* Nobody starts to submit, or submits something else. *)
SameSubmits ==
    \A d \in Clients : cl'[d].pc = "submit" =>
      cl[d].pc = "submit" /\ cl'[d].bundle = cl[d].bundle

LEMMA HeldStays ==
    ASSUME BundlesHeld, SameSubmits, challenges' \subseteq challenges
    PROVE  BundlesHeld'
  BY DEF BundlesHeld, SameSubmits

LEMMA GotoSame ==
    ASSUME ProgramsOK, NEW c \in Clients, NEW pc \in Labels \ {"submit"},
           Goto(c, pc) \/ End(c, pc)
    PROVE  SameSubmits
  <1> SUFFICES ASSUME NEW d \in Clients, cl'[d].pc = "submit"
               PROVE  cl[d].pc = "submit" /\ cl'[d].bundle = cl[d].bundle
    BY DEF SameSubmits
  <1>1. CASE d = c
    BY <1>1 DEF ProgramsOK, Programs, Goto, End, Start, Labels
  <1>2. CASE d # c
    BY <1>2 DEF ProgramsOK, Goto, End
  <1> QED BY <1>1, <1>2

LEMMA FlowFailsSame ==
    ASSUME ProgramsOK, NEW c \in Clients, FlowFails(c)
    PROVE  SameSubmits
  <1>1. CASE Goto(c, "dial") BY <1>1, GotoSame DEF Labels
  <1>2. CASE End(c, "failed") BY <1>2, GotoSame DEF Labels
  <1> QED BY <1>1, <1>2 DEF FlowFails

LEMMA FlowOverSame ==
    ASSUME ProgramsOK, NEW c \in Clients, NEW token, FlowOver(c, token)
    PROVE  SameSubmits
  <1>1. CASE End(c, "failed") BY <1>1, GotoSame DEF Labels
  <1>2. ASSUME NEW a, cl' = [cl EXCEPT ![c] = [Start EXCEPT
                      !.ip = cl[c].ip, !.pc = "dial", !.attempt = a,
                      !.pass = token, !.lease = clock + PassTTL]]
        PROVE  SameSubmits
    BY <1>2 DEF SameSubmits, ProgramsOK, Start
  <1> QED BY <1>1, <1>2 DEF FlowOver

(* A challenge that the verdict calls solved is the client's own, in time.   *)
LEMMA OkIsDeserved ==
    ASSUME TypeOK, BundlesHeld, NEW c \in Clients, cl[c].pc = "submit",
           Verdict(c) = "ok"
    PROVE  Deserved(c)
  <1> DEFINE b == cl[c].bundle
             held == {x \in challenges : x.id = b.id}
  <1>1. b \in Bundles /\ clock \in Int /\ b.earliest \in Int /\ b.expires \in Int
    BY Constants DEF TypeOK, Bundles, Times
  <1>2. \A x \in held : x = b
    BY DEF BundlesHeld
  <1>3. /\ ~ \A x \in held : After(clock, x.expires)
        /\ ~ \A x \in held : <<cl[c].ip, b.id, x.earliest>> # <<b.ip, b.id, b.earliest>>
        /\ ~ \A x \in held : clock < x.earliest
        /\ cl[c].good
    BY Zenon DEF Verdict
  <1> HIDE DEF b, held
  <1>4. ~After(clock, b.expires) /\ cl[c].ip = b.ip /\ ~(clock < b.earliest)
    BY <1>2, <1>3
  <1>5. clock \in b.earliest..b.expires
    BY <1>1, <1>4 DEF After
  <1> QED BY <1>3, <1>4, <1>5 DEF Deserved, b

(* Using a pass spends the lease behind it and leaves the others alone. *)
LEMMA UseIsEarned ==
    ASSUME TypeOK, PassesBacked, EntriesEarned, NEW ip, NEW token,
           UsePass(ip, token), UNCHANGED <<clock, single>>
    PROVE  PassesBacked' /\ EntriesEarned'
  <1>0. clock \in Int /\ \A p \in passes : p.expires \in Int
    BY Constants DEF TypeOK, Times
  <1>1. PICK p \in passes : p.token = token /\ p.ip = ip /\ ~After(clock, p.expires)
    BY DEF UsePass, Opens
  <1>2. clock <= p.expires
    BY <1>0, <1>1 DEF After
  <1>3. Lease(p) \in earned /\ Lease(p).token = token /\ Lease(p).ip = ip
        /\ clock <= Lease(p).until
    BY <1>1, <1>2 DEF PassesBacked, Lease
  <1>4. ~unearned'
    BY <1>3 DEF UsePass, Spend, EntriesEarned
  <1>5. ASSUME NEW q \in passes', clock' <= q.expires PROVE Lease(q) \in earned'
    <2>1. q \in passes /\ clock <= q.expires /\ Lease(q) \in earned
      BY <1>5 DEF UsePass, Opens, PassesBacked
    <2>2. CASE ~single
      BY <2>1, <2>2 DEF UsePass, Spend
    <2>3. CASE single
      <3>1. q \notin Opens(ip, token)
        BY <1>5, <2>3 DEF UsePass
      <3>2. ~(q.token = token /\ q.ip = ip)
        BY <1>0, <2>1, <3>1 DEF Opens, After
      <3>3. ~(Lease(q).token = token /\ Lease(q).ip = ip)
        BY <3>2 DEF Lease
      <3> QED BY <2>1, <2>3, <3>3 DEF UsePass, Spend
    <2> QED BY <2>2, <2>3
  <1> QED BY <1>4, <1>5 DEF PassesBacked, EntriesEarned

(* Where neither passes, leases nor time change, backing stays. *)
LEMMA BackedStays ==
    ASSUME PassesBacked, EntriesEarned, UNCHANGED <<clock, passes, earned, unearned>>
    PROVE  PassesBacked' /\ EntriesEarned'
  BY DEF PassesBacked, EntriesEarned, Lease

LEMMA StepEarned ==
    ASSUME GateInv, [Next]_vars
    PROVE  BundlesHeld' /\ PassesBacked' /\ EntriesEarned'
  <1> USE Constants
  <1>0. /\ TypeOK /\ ProgramsOK /\ BundlesHeld /\ PassesBacked /\ EntriesEarned
        /\ clock \in 0..MaxTime
    BY Split DEF GateInv, StoreOK
  <1>1. ASSUME NEW c \in Clients, Begin(c)
        PROVE  BundlesHeld' /\ PassesBacked' /\ EntriesEarned'
    <2>1. SameSubmits
      <3>1. CASE Goto(c, "probe") BY <1>0, <3>1, GotoSame DEF Labels
      <3>2. CASE Goto(c, "dial") BY <1>0, <3>2, GotoSame DEF Labels
      <3> QED BY <1>1, <3>1, <3>2 DEF Begin
    <2> QED BY <1>0, <1>1, <2>1, HeldStays, BackedStays DEF Begin, server
  <1>2. ASSUME NEW c \in Clients, Probe(c)
        PROVE  BundlesHeld' /\ PassesBacked' /\ EntriesEarned'
    <2>1. SameSubmits
      <3>1. CASE Goto(c, "challenge") BY <1>0, <3>1, GotoSame DEF Labels
      <3>2. CASE Goto(c, "dial") BY <1>0, <3>2, GotoSame DEF Labels
      <3> QED BY <1>2, <3>1, <3>2 DEF Probe
    <2> QED BY <1>0, <1>2, <2>1, HeldStays, BackedStays DEF Probe
  <1>3. ASSUME NEW c \in Clients, Request(c)
        PROVE  BundlesHeld' /\ PassesBacked' /\ EntriesEarned'
    <2>1. PassesBacked' /\ EntriesEarned'
      BY <1>0, <1>3, BackedStays DEF Request
    <2>2. CASE FlowFails(c) /\ UNCHANGED <<challenges, cooldown>>
      BY <1>0, <2>1, <2>2, FlowFailsSame, HeldStays
    <2>3. ASSUME CanDraw, NEW wait \in WaitMin..WaitMax,
                 challenges' = challenges \cup {Bundle(cl[c].ip, wait)},
                 \/ \E good \in BOOLEAN : Solve(c, Bundle(cl[c].ip, wait), good)
                 \/ FlowFails(c)
          PROVE  BundlesHeld'
      <3> DEFINE b == Bundle(cl[c].ip, wait)
      <3>1. b.id = Fresh /\ Fresh \notin Used
        BY <2>3, FreshIsNew DEF Bundle
      <3>2. \A x \in challenges : x.id # b.id
        BY <3>1 DEF Used
      <3>3. \A d \in Clients : cl[d].pc = "submit" => cl[d].bundle.id # b.id
        BY <3>1 DEF Used
      <3> HIDE DEF b
      <3>4. CASE FlowFails(c)
        <4>1. SameSubmits
          BY <1>0, <3>4, FlowFailsSame
        <4> QED BY <1>0, <2>3, <3>3, <4>1 DEF BundlesHeld, SameSubmits, b
      <3>5. ASSUME NEW good \in BOOLEAN, Solve(c, b, good) PROVE BundlesHeld'
        <4>1. cl'[c].bundle = b
          BY <1>0, <3>5 DEF Solve, ProgramsOK, Programs
        <4>2. \A d \in Clients \ {c} : cl'[d] = cl[d]
          BY <1>0, <3>5 DEF Solve, ProgramsOK
        <4>3. ASSUME NEW d \in Clients, cl'[d].pc = "submit",
                     NEW x \in challenges', x.id = cl'[d].bundle.id
              PROVE  x = cl'[d].bundle
          <5>1. x \in challenges \/ x = b
            BY <2>3 DEF b
          <5>2. CASE d = c
            BY <3>2, <4>1, <4>3, <5>1, <5>2
          <5>3. CASE d # c
            BY <1>0, <3>3, <4>2, <4>3, <5>1, <5>3 DEF BundlesHeld
          <5> QED BY <5>2, <5>3
        <4> QED BY <4>3 DEF BundlesHeld
      <3> QED BY <2>3, <3>4, <3>5 DEF b
    <2> QED BY <1>3, <2>1, <2>2, <2>3 DEF Request
  <1>4. ASSUME NEW c \in Clients, Submit(c)
        PROVE  BundlesHeld' /\ PassesBacked' /\ EntriesEarned'
    <2> DEFINE v == Verdict(c)
    <2>1. SameSubmits
      <3>1. CASE FlowOver(c, Fresh)
        BY <1>0, <3>1, FlowOverSame
      <3>2. CASE cl' = [cl EXCEPT ![c] = [cl[c] EXCEPT
                    !.try = 1, !.wake = clock + RetryAfter(cl[c].bundle)]]
        <4>1. cl[c].pc = "submit"
          BY <1>4 DEF Submit
        <4>2. cl'[c].bundle = cl[c].bundle
          BY <1>0, <3>2 DEF ProgramsOK, Programs
        <4>3. \A d \in Clients \ {c} : cl'[d] = cl[d]
          BY <1>0, <3>2 DEF ProgramsOK
        <4> QED BY <4>1, <4>2, <4>3 DEF SameSubmits
      <3>3. CASE FlowFails(c)
        BY <1>0, <3>3, FlowFailsSame
      <3> QED BY <1>4, <3>1, <3>2, <3>3 DEF Submit
    <2>2. BundlesHeld'
      BY <1>0, <1>4, <2>1, HeldStays DEF Submit, Delete
    <2>3. CASE v # "ok"
      BY <1>0, <1>4, <2>2, <2>3, BackedStays DEF Submit
    <2>4. CASE v = "ok"
      <3> DEFINE p == [token |-> Fresh, ip |-> cl[c].ip, expires |-> clock + PassTTL]
      <3>1. Deserved(c)
        BY <1>0, <1>4, <2>4, OkIsDeserved DEF Submit
      <3>2. passes' = passes \cup {p} /\ UNCHANGED <<clock, unearned>>
        BY <1>4, <2>4 DEF Submit
      <3>3. earned' = earned \cup {Lease(p)}
        BY <1>4, <2>4, <3>1 DEF Submit, Lease
      <3> HIDE DEF p
      <3> QED BY <1>0, <2>2, <3>2, <3>3 DEF PassesBacked, EntriesEarned
    <2> QED BY <2>3, <2>4
  <1>5. ASSUME NEW c \in Clients, GateCheck(c)
        PROVE  BundlesHeld' /\ PassesBacked' /\ EntriesEarned'
    <2>1. SameSubmits
      <3>1. CASE Goto(c, "rate") BY <1>0, <3>1, GotoSame DEF Labels
      <3>2. CASE End(c, "failed") BY <1>0, <3>2, GotoSame DEF Labels
      <3>3. CASE Goto(c, "challenge") BY <1>0, <3>3, GotoSame DEF Labels
      <3> QED BY <1>5, <3>1, <3>2, <3>3 DEF GateCheck
    <2>2. BundlesHeld'
      BY <1>0, <1>5, <2>1, HeldStays DEF GateCheck
    <2>3. CASE UsePass(cl[c].ip, cl[c].pass)
      BY <1>0, <1>5, <2>2, <2>3, UseIsEarned DEF GateCheck
    <2>4. CASE UNCHANGED <<passes, earned, unearned>>
      BY <1>0, <1>5, <2>2, <2>4, BackedStays DEF GateCheck
    <2> QED BY <1>5, <2>3, <2>4 DEF GateCheck
  <1>6. ASSUME NEW c \in Clients, RateCheck(c)
        PROVE  BundlesHeld' /\ PassesBacked' /\ EntriesEarned'
    <2>1. SameSubmits
      <3>1. CASE End(c, "in") BY <1>0, <3>1, GotoSame DEF Labels
      <3>2. CASE End(c, "failed") BY <1>0, <3>2, GotoSame DEF Labels
      <3> QED BY <1>6, <3>1, <3>2 DEF RateCheck
    <2> QED BY <1>0, <1>6, <2>1, HeldStays, BackedStays DEF RateCheck
  <1>7. ASSUME NEW c \in Clients, Quit(c)
        PROVE  BundlesHeld' /\ PassesBacked' /\ EntriesEarned'
    <2>1. SameSubmits
      BY <1>0, <1>7, GotoSame DEF Quit, Labels
    <2> QED BY <1>0, <1>7, <2>1, HeldStays, BackedStays DEF Quit, server
  <1>8. ASSUME NEW c \in Clients, Roam(c)
        PROVE  BundlesHeld' /\ PassesBacked' /\ EntriesEarned'
    <2>1. SameSubmits
      BY <1>0, <1>8 DEF Roam, SameSubmits, ProgramsOK, Programs
    <2> QED BY <1>0, <1>8, <2>1, HeldStays, BackedStays DEF Roam, server
  <1>9. ASSUME NEW c \in Clients, NEW ip \in IPs, Redial(c, ip)
        PROVE  BundlesHeld' /\ PassesBacked' /\ EntriesEarned'
    <2>1. SameSubmits
      BY <1>9 DEF Redial, SameSubmits
    <2>2. PassesBacked' /\ EntriesEarned'
      BY <1>0, <1>9, UseIsEarned DEF Redial
    <2> QED BY <1>0, <1>9, <2>1, <2>2, HeldStays DEF Redial
  <1>10. ASSUME Tick
         PROVE  BundlesHeld' /\ PassesBacked' /\ EntriesEarned'
    <2>1. SameSubmits /\ challenges' \subseteq challenges /\ passes' \subseteq passes
      BY <1>10 DEF Tick, SameSubmits, Sweep
    <2>2. ASSUME NEW p \in passes', clock' <= p.expires PROVE Lease(p) \in earned'
      <3>1. p \in passes /\ p.expires \in Int /\ clock <= p.expires
        BY <1>0, <1>10, <2>1, <2>2 DEF Tick, TypeOK, Times
      <3>2. Lease(p) \in earned /\ Lease(p).until >= clock'
        BY <1>0, <1>10, <2>2, <3>1 DEF PassesBacked, Lease, Tick
      <3> QED BY <1>10, <3>2 DEF Tick
    <2> QED BY <1>0, <1>10, <2>1, <2>2, HeldStays DEF Tick, PassesBacked, EntriesEarned
  <1>11. ASSUME Degrade
         PROVE  BundlesHeld' /\ PassesBacked' /\ EntriesEarned'
    <2>1. SameSubmits BY <1>11 DEF Degrade, SameSubmits
    <2> QED BY <1>0, <1>11, <2>1, HeldStays, BackedStays DEF Degrade
  <1>12. ASSUME Restart
         PROVE  BundlesHeld' /\ PassesBacked' /\ EntriesEarned'
    BY <1>0, <1>12 DEF Restart, BundlesHeld, PassesBacked, EntriesEarned
  <1>13. ASSUME UNCHANGED vars
         PROVE  BundlesHeld' /\ PassesBacked' /\ EntriesEarned'
    <2>1. SameSubmits BY <1>13 DEF vars, SameSubmits
    <2> QED BY <1>0, <1>13, <2>1, HeldStays, BackedStays DEF vars, server
  <1> QED
    BY <1>1, <1>2, <1>3, <1>4, <1>5, <1>6, <1>7, <1>8, <1>9, <1>10, <1>11,
       <1>12, <1>13 DEF Next

LEMMA GateInvariant == Spec => []GateInv
  <1>1. Init => GateInv
    <2>1. Init => BundlesHeld /\ PassesBacked /\ EntriesEarned
      BY DEF Init, BundlesHeld, PassesBacked, EntriesEarned
    <2> QED BY <2>1, InitTyped DEF GateInv
  <1>2. GateInv /\ [Next]_vars => GateInv'
    BY StepTyped, StepEarned DEF GateInv
  <1> QED BY <1>1, <1>2, PTL DEF Spec

(* While the gate is up, GateStore.UsePass opens only for a proof of work    *)
(* done for the same address, between the challenge's earliest time and its  *)
(* expiry and within PASS_TTL, and a single-use pass opens once: for any     *)
(* clients, addresses and times, across restarts, moves and repeated dials.  *)
THEOREM PassesAreEarned == Spec => []EntriesEarned
  <1>1. GateInv => EntriesEarned
    BY DEF GateInv
  <1> QED BY <1>1, GateInvariant, PTL

-----------------------------------------------------------------------------
(* Why NeverTurnedAway holds: what a client can count on, step by step, as   *)
(* long as nothing excuses a refusal.  Nobody else acts on its address, ...  *)
Alone(c) == \A d \in Clients \ {c} : Busy(d) => cl[d].ip # cl[c].ip

(* ... none of the throttles it has still to pass counts against it, ...     *)
Unasked(c) ==
    cl[c].pc \in {"probe", "challenge"} \/ (cl[c].pc = "dial" /\ cl[c].pass = None)

Unthrottled(c) ==
    /\ Allow(lastConnect, cl[c].ip, ConnCooldown)
    /\ cl[c].pc = "probe" => Allow(statusCooldown, cl[c].ip, StatusCooldown)
    /\ Unasked(c) => Allow(cooldown, cl[c].ip, ChallengeCooldown)

(* ... it meets the gate for the first time, a browser not unprepared, ...   *)
FirstRound(c) ==
    /\ Unasked(c) => cl[c].attempt = 0 /\ cl[c].pass = None
    /\ c \in Wasm /\ cl[c].pc = "dial" /\ cl[c].pass = None => ~required

(* ... its answer is right and known, and a retry comes late enough, ...     *)
AnswerGood(c) ==
    cl[c].pc = "submit" =>
      /\ cl[c].good = TRUE /\ cl[c].attempt = 0 /\ cl[c].bundle.ip = cl[c].ip
      /\ clock <= cl[c].bundle.expires => cl[c].bundle \in challenges
      /\ cl[c].try = 1 => cl[c].bundle.earliest <= cl[c].wake

(* ... and its pass is in the store until its lease is over.                 *)
PassOf(c) == [token |-> cl[c].pass, ip |-> cl[c].ip, expires |-> cl[c].lease]

PassGood(c) ==
    cl[c].pc = "dial" /\ cl[c].pass # None /\ clock <= cl[c].lease =>
      PassOf(c) \in passes

Honest(c) ==
    /\ cl[c].pc # "failed"
    /\ Busy(c) => /\ Alone(c) /\ Unthrottled(c) /\ FirstRound(c)
                  /\ AnswerGood(c) /\ PassGood(c)

(* A program that is over has forgotten its attempts and its pass; two that  *)
(* submit hold different challenges.                                         *)
StartsOver == \A c \in Clients : ~Busy(c) => cl[c].attempt = 0 /\ cl[c].pass = None

BundlesApart ==
    \A c, d \in Clients :
      c # d /\ cl[c].pc = "submit" /\ cl[d].pc = "submit"
        => cl[c].bundle.id # cl[d].bundle.id

AllHonest == \A c \in Clients : ~excused[c] => Honest(c)

HonestInv == StartsOver /\ BundlesApart /\ AllHonest

-----------------------------------------------------------------------------
LEMMA GotoIs ==
    ASSUME ProgramsOK, NEW c \in Clients, NEW pc, Goto(c, pc)
    PROVE  /\ cl'[c].pc = pc /\ cl'[c].ip = cl[c].ip /\ cl'[c].attempt = cl[c].attempt
           /\ cl'[c].pass = cl[c].pass /\ cl'[c].bundle = cl[c].bundle
           /\ \A e \in Clients \ {c} : cl'[e] = cl[e]
  <1>1. cl[c] \in Programs /\ cl' = [cl EXCEPT ![c] = [cl[c] EXCEPT !.pc = pc]]
    BY DEF ProgramsOK, Goto
  <1>2. cl'[c] = [cl[c] EXCEPT !.pc = pc] /\ \A e \in Clients \ {c} : cl'[e] = cl[e]
    BY <1>1 DEF ProgramsOK
  <1> QED BY <1>1, <1>2 DEF Programs

LEMMA EndIs ==
    ASSUME ProgramsOK, NEW c \in Clients, NEW pc, End(c, pc)
    PROVE  /\ cl'[c].pc = pc /\ cl'[c].ip = cl[c].ip /\ cl'[c].attempt = 0
           /\ cl'[c].pass = None
           /\ \A e \in Clients \ {c} : cl'[e] = cl[e]
  BY DEF ProgramsOK, End, Start

(* What a client counts on stays, where nobody comes to its address and      *)
(* nothing of what it has to do with changes.                                *)
LEMMA HonestFrame ==
    ASSUME TypeOK, NEW d \in Clients, Honest(d), cl'[d] = cl[d],
           Busy(d) =>
             /\ \A e \in Clients \ {d} : Busy(e)' => cl'[e].ip # cl[d].ip
             /\ clock' = clock
             /\ lastConnect'[cl[d].ip] = lastConnect[cl[d].ip]
             /\ statusCooldown'[cl[d].ip] = statusCooldown[cl[d].ip]
             /\ cooldown'[cl[d].ip] = cooldown[cl[d].ip]
             /\ d \in Wasm /\ cl[d].pc = "dial" /\ cl[d].pass = None /\ ~required => ~required'
             /\ cl[d].pc = "submit" /\ cl[d].bundle \in challenges => cl[d].bundle \in challenges'
             /\ \A p \in passes : p.ip = cl[d].ip => p \in passes'
    PROVE  Honest(d)'
  <1>1. CASE ~Busy(d)
    BY <1>1 DEF Honest, Busy
  <1>2. CASE Busy(d)
    <2>0. Alone(d) /\ Unthrottled(d) /\ FirstRound(d) /\ AnswerGood(d) /\ PassGood(d)
      BY <1>2 DEF Honest
    <2>1. Alone(d)'
      BY <1>2 DEF Alone
    <2>2. Unthrottled(d)'
      BY <1>2, <2>0 DEF Unthrottled, Unasked, Allow
    <2>3. FirstRound(d)'
      BY <1>2, <2>0 DEF FirstRound, Unasked
    <2>4. AnswerGood(d)'
      BY <1>2, <2>0 DEF AnswerGood
    <2>5. PassGood(d)'
      BY <1>2, <2>0 DEF PassGood, PassOf
    <2> QED BY <2>1, <2>2, <2>3, <2>4, <2>5 DEF Honest
  <1> QED BY <1>1, <1>2

(* A step of one client on its own address is nothing to the others. *)
LEMMA OthersStayHonest ==
    ASSUME TypeOK, HonestInv, NEW c \in Clients, Busy(c), cl'[c].ip = cl[c].ip,
           \A e \in Clients \ {c} : cl'[e] = cl[e],
           \A e \in Clients \ {c} : excused'[e] = excused[e],
           UNCHANGED <<clock, required>>,
           \A a \in IPs \ {cl[c].ip} :
             /\ lastConnect'[a] = lastConnect[a]
             /\ statusCooldown'[a] = statusCooldown[a]
             /\ cooldown'[a] = cooldown[a],
           \A x \in challenges \ challenges' : cl[c].pc = "submit" /\ x.id = cl[c].bundle.id,
           \A p \in passes \ passes' : p.ip = cl[c].ip
    PROVE  \A d \in Clients \ {c} : ~excused'[d] => Honest(d)'
  <1> SUFFICES ASSUME NEW d \in Clients \ {c}, ~excused[d] PROVE Honest(d)'
    OBVIOUS
  <1>1. Honest(d) /\ cl'[d] = cl[d] /\ d \in Clients
    BY DEF HonestInv, AllHonest
  <1>2. ASSUME Busy(d)
        PROVE  /\ \A e \in Clients \ {d} : Busy(e)' => cl'[e].ip # cl[d].ip
               /\ lastConnect'[cl[d].ip] = lastConnect[cl[d].ip]
               /\ statusCooldown'[cl[d].ip] = statusCooldown[cl[d].ip]
               /\ cooldown'[cl[d].ip] = cooldown[cl[d].ip]
               /\ cl[d].pc = "submit" /\ cl[d].bundle \in challenges => cl[d].bundle \in challenges'
               /\ \A p \in passes : p.ip = cl[d].ip => p \in passes'
    <2>1. Alone(d)
      BY <1>1, <1>2 DEF Honest
    <2>2. cl[c].ip # cl[d].ip
      BY <2>1 DEF Alone
    <2>3. cl[d].ip \in IPs
      BY DEF TypeOK, Programs
    <2>4. \A e \in Clients \ {d} : Busy(e)' => cl'[e].ip # cl[d].ip
      <3> TAKE e \in Clients \ {d}
      <3>1. CASE e = c BY <2>2, <3>1
      <3>2. CASE e # c BY <2>1, <3>2 DEF Alone, Busy
      <3> QED BY <3>1, <3>2
    <2>5. cl[d].pc = "submit" /\ cl[d].bundle \in challenges => cl[d].bundle \in challenges'
      BY DEF HonestInv, BundlesApart
    <2> QED BY <2>2, <2>3, <2>4, <2>5
  <1> QED BY <1>1, <1>2, HonestFrame

(* The actor: who stays where it is stays alone there. *)
LEMMA ActorStaysAlone ==
    ASSUME NEW c \in Clients, Alone(c), cl'[c].ip = cl[c].ip,
           \A e \in Clients \ {c} : cl'[e] = cl[e]
    PROVE  Alone(c)'
  BY DEF Alone, Busy

LEMMA ApartStays == ASSUME BundlesApart, SameSubmits PROVE BundlesApart'
  BY DEF BundlesApart, SameSubmits

LEMMA OverStays ==
    ASSUME StartsOver, NEW c \in Clients, \A e \in Clients \ {c} : cl'[e] = cl[e],
           Busy(c)' \/ (cl'[c].attempt = 0 /\ cl'[c].pass = None)
    PROVE  StartsOver'
  BY DEF StartsOver, Busy

(* excused after a step in which only c can get an excuse. *)
LEMMA MishapIs ==
    ASSUME TypeOK, NEW c \in Clients, Mishap(c) \/ NoMishap
    PROVE  /\ \A e \in Clients \ {c} : excused'[e] = excused[e]
           /\ ~excused'[c] => ~excused[c] /\ ~Mishap(c)
  <1>1. CASE NoMishap /\ ~Mishap(c)
    BY <1>1 DEF NoMishap
  <1>2. CASE Mishap(c)
    <2>1. excused' = [excused EXCEPT ![c] = TRUE] /\ excused \in [Clients -> BOOLEAN]
      BY <1>2 DEF Mishap, TypeOK
    <2>2. excused'[c] = TRUE
      BY <2>1
    <2>3. \A e \in Clients \ {c} : excused'[e] = excused[e]
      BY <2>1
    <2> QED BY <2>2, <2>3
  <1> QED BY <1>1, <1>2

LEMMA ProbeHonest ==
    ASSUME GateInv, HonestInv, NEW c \in Clients, Probe(c)
    PROVE  HonestInv'
  <1>0. TypeOK /\ ProgramsOK /\ cl[c].pc = "probe" /\ Busy(c) /\ cl[c].ip \in IPs
    BY Split DEF GateInv, Probe, Busy, ProgramsOK, Programs
  <1>1. Goto(c, "challenge") \/ Goto(c, "dial")
    BY DEF Probe
  <1>2. /\ cl'[c].pc \in {"challenge", "dial"} /\ cl'[c].ip = cl[c].ip
        /\ cl'[c].attempt = cl[c].attempt /\ cl'[c].pass = cl[c].pass
        /\ \A e \in Clients \ {c} : cl'[e] = cl[e]
    BY <1>0, <1>1, GotoIs
  <1>3. SameSubmits
    BY <1>0, <1>1, GotoSame DEF Labels
  <1>4. \A e \in Clients \ {c} : excused'[e] = excused[e]
    BY <1>0, MishapIs DEF Probe
  <1>5. \A d \in Clients \ {c} : ~excused'[d] => Honest(d)'
    <2>1. \A a \in IPs \ {cl[c].ip} : statusCooldown'[a] = statusCooldown[a]
      BY <1>0 DEF Probe, TypeOK
    <2> QED BY <1>0, <1>2, <1>4, <2>1, OthersStayHonest DEF Probe
  <1>6. ASSUME ~excused'[c] PROVE Honest(c)'
    <2>1. ~excused[c] /\ ~Mishap(c)
      BY <1>0, <1>6, MishapIs DEF Probe
    <2>2. Alone(c) /\ Unthrottled(c) /\ FirstRound(c)
      BY <1>0, <2>1 DEF HonestInv, AllHonest, Honest
    <2>3. Allow(statusCooldown, cl[c].ip, StatusCooldown)
      BY <1>0, <2>2 DEF Unthrottled
    <2>4. Goto(c, IF required THEN "challenge" ELSE "dial")
      BY <2>1, <2>3 DEF Probe
    <2>5. cl'[c].pc = IF required THEN "challenge" ELSE "dial"
      BY <1>0, <2>4, GotoIs
    <2>6. Alone(c)'
      BY <1>2, <2>2, ActorStaysAlone
    <2>7. Unthrottled(c)'
      BY <1>0, <1>2, <2>2 DEF Unthrottled, Unasked, Allow, Probe
    <2>8. FirstRound(c)'
      <3>1. UNCHANGED required
        BY DEF Probe
      <3> QED BY <1>0, <1>2, <2>2, <2>5, <3>1 DEF FirstRound, Unasked
    <2>9. AnswerGood(c)' /\ PassGood(c)'
      BY <1>0, <1>2, <2>2 DEF AnswerGood, PassGood, FirstRound, Unasked
    <2> QED BY <1>2, <2>6, <2>7, <2>8, <2>9 DEF Honest
  <1>7. StartsOver' /\ BundlesApart'
    BY <1>2, <1>3, OverStays, ApartStays DEF HonestInv, Busy
  <1> QED BY <1>5, <1>6, <1>7 DEF HonestInv, AllHonest

LEMMA FlowFailsIs ==
    ASSUME ProgramsOK, NEW c \in Clients, FlowFails(c)
    PROVE  /\ cl'[c].ip = cl[c].ip
           /\ Busy(c)' \/ (cl'[c].attempt = 0 /\ cl'[c].pass = None)
           /\ \A e \in Clients \ {c} : cl'[e] = cl[e]
  <1>1. CASE Goto(c, "dial") BY <1>1, GotoIs DEF Busy
  <1>2. CASE End(c, "failed") BY <1>2, EndIs
  <1> QED BY <1>1, <1>2 DEF FlowFails

LEMMA SolveIs ==
    ASSUME ProgramsOK, NEW c \in Clients, NEW b, NEW good, Solve(c, b, good)
    PROVE  /\ cl'[c].pc = "submit" /\ cl'[c].ip = cl[c].ip /\ cl'[c].attempt = cl[c].attempt
           /\ cl'[c].bundle = b /\ cl'[c].good = good /\ cl'[c].try = 0
           /\ \A e \in Clients \ {c} : cl'[e] = cl[e]
  <1>1. cl[c] \in Programs
    BY DEF ProgramsOK
  <1>2. /\ cl'[c] = [cl[c] EXCEPT !.bundle = b, !.good = good, !.try = 0, !.wake = 0, !.pc = "submit"]
        /\ \A e \in Clients \ {c} : cl'[e] = cl[e]
    BY DEF ProgramsOK, Solve
  <1> QED BY <1>1, <1>2 DEF Programs

LEMMA RequestHonest ==
    ASSUME GateInv, HonestInv, NEW c \in Clients, Request(c)
    PROVE  HonestInv'
  <1>0. /\ TypeOK /\ ProgramsOK /\ cl[c].pc = "challenge" /\ Busy(c) /\ cl[c].ip \in IPs
        /\ Unasked(c)
    BY Split DEF GateInv, Request, Busy, ProgramsOK, Programs, Unasked
  <1>1. /\ Mishap(c) \/ NoMishap
        /\ UNCHANGED <<clock, required, passes, statusCooldown, lastConnect>>
        /\ cooldown' = cooldown \/ cooldown' = [cooldown EXCEPT ![cl[c].ip] = clock]
        /\ challenges \subseteq challenges'
    BY DEF Request
  <1>2. \/ FlowFails(c)
        \/ \E wait \in WaitMin..WaitMax, good \in BOOLEAN :
             CanDraw /\ Solve(c, Bundle(cl[c].ip, wait), good)
    BY DEF Request
  <1>3. /\ cl'[c].ip = cl[c].ip
        /\ Busy(c)' \/ (cl'[c].attempt = 0 /\ cl'[c].pass = None)
        /\ \A e \in Clients \ {c} : cl'[e] = cl[e]
    BY <1>0, <1>2, FlowFailsIs, SolveIs DEF Busy
  <1>4. BundlesApart'
    <2>1. CASE FlowFails(c)
      BY <1>0, <2>1, FlowFailsSame, ApartStays DEF HonestInv
    <2>2. ASSUME NEW wait \in WaitMin..WaitMax, NEW good \in BOOLEAN,
                 CanDraw, Solve(c, Bundle(cl[c].ip, wait), good)
          PROVE  BundlesApart'
      <3>1. cl'[c].bundle.id = Fresh
        BY <1>0, <2>2, SolveIs DEF Bundle
      <3>2. \A d \in Clients \ {c} : cl[d].pc = "submit" => cl[d].bundle.id # Fresh
        BY <2>2, FreshIsNew DEF Used
      <3> QED BY <1>3, <3>1, <3>2 DEF HonestInv, BundlesApart
    <2> QED BY <1>2, <2>1, <2>2
  <1>5. \A e \in Clients \ {c} : excused'[e] = excused[e]
    BY <1>0, <1>1, MishapIs
  <1>6. \A d \in Clients \ {c} : ~excused'[d] => Honest(d)'
    <2>1. \A a \in IPs \ {cl[c].ip} : cooldown'[a] = cooldown[a]
      BY <1>0, <1>1 DEF TypeOK
    <2> QED BY <1>0, <1>1, <1>3, <1>5, <2>1, OthersStayHonest
  <1>7. ASSUME ~excused'[c] PROVE Honest(c)'
    <2>1. ~excused[c] /\ ~Mishap(c)
      BY <1>0, <1>1, <1>7, MishapIs
    <2>2. Alone(c) /\ Unthrottled(c) /\ FirstRound(c)
      BY <1>0, <2>1 DEF HonestInv, AllHonest, Honest
    <2>3. Allow(cooldown, cl[c].ip, ChallengeCooldown)
      BY <1>0, <2>2 DEF Unthrottled
    <2>4. PICK wait \in WaitMin..WaitMax :
            /\ challenges' = challenges \cup {Bundle(cl[c].ip, wait)}
            /\ Solve(c, Bundle(cl[c].ip, wait), TRUE)
      BY <2>1, <2>3 DEF Request
    <2> DEFINE b == Bundle(cl[c].ip, wait)
    <2>5. b.ip = cl[c].ip /\ b \in challenges'
      BY <2>4 DEF Bundle
    <2> HIDE DEF b
    <2>6. /\ cl'[c].pc = "submit" /\ cl'[c].attempt = cl[c].attempt
          /\ cl'[c].bundle = b /\ cl'[c].good = TRUE /\ cl'[c].try = 0
      BY <1>0, <2>4, SolveIs DEF b
    <2>7. Alone(c)'
      BY <1>3, <2>2, ActorStaysAlone
    <2>8. Unthrottled(c)' /\ FirstRound(c)' /\ PassGood(c)'
      BY <1>1, <1>3, <2>2, <2>6 DEF Unthrottled, Unasked, Allow, FirstRound, PassGood
    <2>9. AnswerGood(c)'
      BY <1>0, <1>3, <2>2, <2>5, <2>6 DEF AnswerGood, FirstRound
    <2> QED BY <2>6, <2>7, <2>8, <2>9 DEF Honest
  <1>8. StartsOver'
    BY <1>3, OverStays DEF HonestInv
  <1> QED BY <1>4, <1>6, <1>7, <1>8 DEF HonestInv, AllHonest

(* With at least two attempts, the first pass is used for a dial. *)
LEMMA FlowOverIs ==
    ASSUME MaxAttempts >= 2, ProgramsOK, NEW c \in Clients, NEW token, FlowOver(c, token)
    PROVE  /\ cl'[c].ip = cl[c].ip
           /\ Busy(c)' \/ (cl'[c].attempt = 0 /\ cl'[c].pass = None)
           /\ \A e \in Clients \ {c} : cl'[e] = cl[e]
           /\ cl[c].attempt = 0 =>
                cl'[c].pc = "dial" /\ cl'[c].pass = token /\ cl'[c].lease = clock + PassTTL
  <1> DEFINE a == IF c \in Wasm THEN 0 ELSE cl[c].attempt + 1
  <1>0. cl \in [Clients -> Programs]
    BY DEF ProgramsOK
  <1>1. CASE a = MaxAttempts
    <2>1. End(c, "failed")
      BY <1>1 DEF FlowOver
    <2>2. cl[c].attempt # 0
      BY <1>1, Constants
    <2> QED BY <2>1, <2>2, EndIs
  <1>2. CASE a # MaxAttempts
    <2>1. cl' = [cl EXCEPT ![c] = [Start EXCEPT !.ip = cl[c].ip, !.pc = "dial", !.attempt = a,
                                     !.pass = token, !.lease = clock + PassTTL]]
      BY <1>2 DEF FlowOver
    <2> HIDE DEF a
    <2> QED BY <1>0, <2>1 DEF Start, Busy
  <1> QED BY <1>1, <1>2

LEMMA RetryIs ==
    ASSUME ProgramsOK, NEW c \in Clients, NEW w,
           cl' = [cl EXCEPT ![c] = [cl[c] EXCEPT !.try = 1, !.wake = w]]
    PROVE  /\ cl'[c].pc = cl[c].pc /\ cl'[c].ip = cl[c].ip /\ cl'[c].attempt = cl[c].attempt
           /\ cl'[c].bundle = cl[c].bundle /\ cl'[c].good = cl[c].good /\ cl'[c].wake = w
           /\ \A e \in Clients \ {c} : cl'[e] = cl[e]
  <1>1. cl[c] \in Programs
    BY DEF ProgramsOK
  <1>2. /\ cl'[c] = [cl[c] EXCEPT !.try = 1, !.wake = w]
        /\ \A e \in Clients \ {c} : cl'[e] = cl[e]
    BY DEF ProgramsOK
  <1>3. cl'[c].good = cl[c].good
    BY <1>1, <1>2 DEF Programs
  <1>4. /\ cl'[c].pc = cl[c].pc /\ cl'[c].ip = cl[c].ip /\ cl'[c].attempt = cl[c].attempt
        /\ cl'[c].bundle = cl[c].bundle
    BY <1>1, <1>2 DEF Programs
  <1>5. cl'[c].wake = w
    BY <1>1, <1>2 DEF Programs
  <1> QED BY <1>2, <1>3, <1>4, <1>5, Zenon

(* RetryAfter rounds up: who sleeps that long is not early again. *)
LEMMA RetryIsEnough ==
    ASSUME NEW b, b.earliest \in Int, clock \in Int, clock < b.earliest
    PROVE  b.earliest <= clock + RetryAfter(b)
  <1> DEFINE n == b.earliest - clock
             k == n \div 2
  <1>1. n \in Nat /\ n > 0
    OBVIOUS
  <1> HIDE DEF n
  <1>2. k \in Nat /\ 2 * (k + 1) >= n
    BY <1>1
  <1>3. RetryAfter(b) = 2 * IF k + 1 < 1 THEN 1 ELSE k + 1
    BY DEF RetryAfter, Unix, n
  <1> HIDE DEF k
  <1>4. RetryAfter(b) = 2 * (k + 1)
    BY <1>2, <1>3
  <1> QED BY <1>2, <1>4 DEF n

(* An answer that is right and known, and not late, is at worst early. *)
LEMMA VerdictIsFair ==
    ASSUME GateInv, NEW c \in Clients, cl[c].pc = "submit", AnswerGood(c), ~Late(c)
    PROVE  \/ Verdict(c) = "ok"
           \/ Verdict(c) = "early" /\ clock < cl[c].bundle.earliest
  <1> DEFINE b == cl[c].bundle
             held == {x \in challenges : x.id = b.id}
  <1>0. b \in Bundles /\ clock \in Int /\ b.earliest \in Int /\ b.expires \in Int
    BY Constants DEF GateInv, TypeOK, Bundles, Times
  <1>1. clock <= b.expires
    BY <1>0 DEF Late, After
  <1>2. b \in held /\ cl[c].good = TRUE /\ b.ip = cl[c].ip
    BY <1>1 DEF AnswerGood
  <1>3. \A x \in held : x = b
    BY DEF GateInv, BundlesHeld
  <1>4. Verdict(c) =
          IF \A x \in held : After(clock, x.expires) THEN "gone"
          ELSE IF \A x \in held : <<cl[c].ip, b.id, x.earliest>> # <<b.ip, b.id, b.earliest>> THEN "bad"
          ELSE IF \A x \in held : clock < x.earliest THEN "early"
          ELSE IF ~cl[c].good THEN "bad" ELSE "ok"
    BY Zenon DEF Verdict
  <1> HIDE DEF b, held
  <1>5. ~ \A x \in held : After(clock, x.expires)
    BY <1>0, <1>1, <1>2 DEF After
  <1>6. ~ \A x \in held : <<cl[c].ip, b.id, x.earliest>> # <<b.ip, b.id, b.earliest>>
    BY <1>2
  <1>7. (\A x \in held : clock < x.earliest) => clock < b.earliest
    BY <1>2
  <1>8. Verdict(c) = "ok" \/ (Verdict(c) = "early" /\ clock < b.earliest)
    BY <1>2, <1>4, <1>5, <1>6, <1>7
  <1> QED BY <1>8 DEF b

LEMMA SubmitHonest ==
    ASSUME MaxAttempts >= 2, GateInv, HonestInv, NEW c \in Clients, Submit(c)
    PROVE  HonestInv'
  <1>0. /\ TypeOK /\ ProgramsOK /\ cl[c].pc = "submit" /\ Busy(c) /\ cl[c].ip \in IPs
        /\ excused \in [Clients -> BOOLEAN]
    BY Split DEF GateInv, Submit, Busy, ProgramsOK, Programs, TypeOK
  <1> DEFINE Retry == cl' = [cl EXCEPT ![c] = [cl[c] EXCEPT
                               !.try = 1, !.wake = clock + RetryAfter(cl[c].bundle)]]
  <1>1. /\ UNCHANGED <<clock, required, cooldown, statusCooldown, lastConnect>>
        /\ passes \subseteq passes'
        /\ \A x \in challenges \ challenges' : x.id = cl[c].bundle.id
    BY DEF Submit, Delete
  <1>2. FlowOver(c, Fresh) \/ Retry \/ FlowFails(c)
    BY DEF Submit
  <1>3. /\ cl'[c].ip = cl[c].ip
        /\ Busy(c)' \/ (cl'[c].attempt = 0 /\ cl'[c].pass = None)
        /\ \A e \in Clients \ {c} : cl'[e] = cl[e]
    <2>1. CASE FlowOver(c, Fresh) BY <1>0, <2>1, FlowOverIs
    <2>2. CASE Retry BY <1>0, <2>2, RetryIs DEF Busy
    <2>3. CASE FlowFails(c) BY <1>0, <2>3, FlowFailsIs
    <2> QED BY <1>2, <2>1, <2>2, <2>3
  <1>4. SameSubmits
    <2>1. CASE FlowOver(c, Fresh) BY <1>0, <2>1, FlowOverSame
    <2>2. CASE Retry BY <1>0, <2>2, RetryIs DEF SameSubmits
    <2>3. CASE FlowFails(c) BY <1>0, <2>3, FlowFailsSame
    <2> QED BY <1>2, <2>1, <2>2, <2>3
  <1>5. /\ \A e \in Clients \ {c} : excused'[e] = excused[e]
        /\ ~excused'[c] => ~excused[c] /\ ~Late(c) /\ ~Mishap(c)
    <2>1. CASE Mishap(c)
      BY <1>0, <2>1, MishapIs
    <2>2. CASE ~Mishap(c)
      <3>1. excused' = [excused EXCEPT ![c] = excused[c] \/ Late(c)]
        BY <2>2 DEF Submit
      <3>2. excused'[c] = (excused[c] \/ Late(c))
        BY <1>0, <3>1, Zenon
      <3>3. \A e \in Clients \ {c} : excused'[e] = excused[e]
        BY <1>0, <3>1
      <3> QED BY <2>2, <3>2, <3>3
    <2> QED BY <2>1, <2>2
  <1>6. \A d \in Clients \ {c} : ~excused'[d] => Honest(d)'
    BY <1>0, <1>1, <1>3, <1>5, OthersStayHonest
  <1>7. ASSUME ~excused'[c] PROVE Honest(c)'
    <2>1. Alone(c) /\ Unthrottled(c) /\ AnswerGood(c) /\ ~Late(c) /\ ~Mishap(c)
      BY <1>0, <1>5, <1>7 DEF HonestInv, AllHonest, Honest
    <2>2. \/ Verdict(c) = "ok"
          \/ Verdict(c) = "early" /\ clock < cl[c].bundle.earliest
      BY <1>0, <2>1, VerdictIsFair
    <2>3. Alone(c)'
      BY <1>3, <2>1, ActorStaysAlone
    <2>4. Allow(lastConnect, cl[c].ip, ConnCooldown)'
      BY <1>1, <1>3, <2>1 DEF Unthrottled, Allow
    <2>5. CASE Verdict(c) = "ok"
      <3>1. /\ FlowOver(c, Fresh) /\ CanDraw
            /\ [token |-> Fresh, ip |-> cl[c].ip, expires |-> clock + PassTTL] \in passes'
        BY <2>1, <2>5 DEF Submit
      <3>2. Fresh # None
        BY <3>1, FreshIsNew, Constants
      <3>3. cl'[c].pc = "dial" /\ cl'[c].pass = Fresh /\ cl'[c].lease = clock + PassTTL
        BY <1>0, <2>1, <3>1, FlowOverIs DEF AnswerGood
      <3>4. Unthrottled(c)' /\ FirstRound(c)' /\ AnswerGood(c)'
        BY <1>3, <2>4, <3>2, <3>3 DEF Unthrottled, Unasked, FirstRound, AnswerGood
      <3>5. PassGood(c)'
        BY <1>3, <3>1, <3>3 DEF PassGood, PassOf
      <3> QED BY <2>3, <3>3, <3>4, <3>5 DEF Honest
    <2>6. CASE Verdict(c) = "early" /\ clock < cl[c].bundle.earliest
      <3>0. clock \in Int /\ cl[c].bundle.earliest \in Int /\ cl[c].try \in {0, 1} /\ cl[c].wake \in Nat
        BY <1>0, Constants DEF TypeOK, Programs, Bundles, Times
      <3>1. cl[c].try # 1
        BY <1>0, <2>1, <2>6, <3>0 DEF AnswerGood, Submit, Awake
      <3>2. Retry /\ challenges' = challenges
        BY <2>1, <2>6, <3>1 DEF Submit
      <3>3. /\ cl'[c].pc = "submit" /\ cl'[c].attempt = cl[c].attempt
            /\ cl'[c].bundle = cl[c].bundle /\ cl'[c].good = cl[c].good
            /\ cl'[c].wake = clock + RetryAfter(cl[c].bundle)
        BY <1>0, <3>2, RetryIs
      <3>4. cl[c].bundle.earliest <= clock + RetryAfter(cl[c].bundle)
        BY <2>6, <3>0, RetryIsEnough
      <3>5. AnswerGood(c)'
        BY <1>0, <1>1, <1>3, <2>1, <3>2, <3>3, <3>4 DEF AnswerGood
      <3>6. Unthrottled(c)' /\ FirstRound(c)' /\ PassGood(c)'
        BY <1>3, <2>4, <3>3 DEF Unthrottled, Unasked, FirstRound, PassGood
      <3> QED BY <2>3, <3>3, <3>5, <3>6 DEF Honest
    <2> QED BY <2>2, <2>5, <2>6
  <1>8. StartsOver' /\ BundlesApart'
    BY <1>3, <1>4, OverStays, ApartStays DEF HonestInv
  <1> QED BY <1>6, <1>7, <1>8 DEF HonestInv, AllHonest

LEMMA GateCheckHonest ==
    ASSUME GateInv, HonestInv, NEW c \in Clients, GateCheck(c)
    PROVE  HonestInv'
  <1>0. /\ TypeOK /\ ProgramsOK /\ cl[c].pc = "dial" /\ Busy(c) /\ cl[c].ip \in IPs
        /\ excused \in [Clients -> BOOLEAN]
    BY Split DEF GateInv, GateCheck, Busy, ProgramsOK, Programs, TypeOK
  <1>1. /\ UNCHANGED <<clock, required, challenges, cooldown, statusCooldown, lastConnect>>
        /\ \A p \in passes \ passes' : p.ip = cl[c].ip
    BY DEF GateCheck, UsePass, Opens
  <1>2. Goto(c, "rate") \/ End(c, "failed") \/ Goto(c, "challenge")
    BY DEF GateCheck
  <1>3. /\ cl'[c].ip = cl[c].ip
        /\ Busy(c)' \/ (cl'[c].attempt = 0 /\ cl'[c].pass = None)
        /\ \A e \in Clients \ {c} : cl'[e] = cl[e]
    BY <1>0, <1>2, GotoIs, EndIs DEF Busy
  <1>4. SameSubmits
    BY <1>0, <1>2, GotoSame DEF Labels
  <1> DEFINE Refused == required /\ Opens(cl[c].ip, cl[c].pass) = {}
  <1>5. /\ \A e \in Clients \ {c} : excused'[e] = excused[e]
        /\ ~excused'[c] => ~excused[c] /\ (Refused => ~Slow(c))
    <2>1. CASE Refused
      <3>1. excused' = [excused EXCEPT ![c] = excused[c] \/ Slow(c)]
        BY <2>1 DEF GateCheck, UsePass
      <3>2. excused'[c] = (excused[c] \/ Slow(c))
        BY <1>0, <3>1, Zenon
      <3>3. \A e \in Clients \ {c} : excused'[e] = excused[e]
        BY <1>0, <3>1
      <3> QED BY <3>2, <3>3
    <2>2. CASE ~Refused
      BY <2>2 DEF GateCheck
    <2> QED BY <2>1, <2>2
  <1>6. \A d \in Clients \ {c} : ~excused'[d] => Honest(d)'
    BY <1>0, <1>1, <1>3, <1>5, OthersStayHonest
  <1>7. ASSUME ~excused'[c] PROVE Honest(c)'
    <2>1. Alone(c) /\ Unthrottled(c) /\ FirstRound(c) /\ PassGood(c)
      BY <1>0, <1>5, <1>7 DEF HonestInv, AllHonest, Honest
    <2>2. Alone(c)'
      BY <1>3, <2>1, ActorStaysAlone
    <2>3. Allow(lastConnect, cl[c].ip, ConnCooldown)'
      BY <1>1, <1>3, <2>1 DEF Unthrottled, Allow
    <2>4. CASE Goto(c, "rate")
      <3>1. cl'[c].pc = "rate"
        BY <1>0, <2>4, GotoIs
      <3> QED BY <1>3, <2>2, <2>3, <3>1
              DEF Honest, Unthrottled, Unasked, FirstRound, AnswerGood, PassGood
    <2>5. CASE ~Goto(c, "rate")
      <3>1. Refused /\ IF c \in Wasm THEN End(c, "failed") ELSE Goto(c, "challenge")
        BY <2>5 DEF GateCheck
      <3>2. cl[c].pass = None
        <4> SUFFICES ASSUME cl[c].pass # None PROVE FALSE
          OBVIOUS
        <4>0. clock \in Int /\ cl[c].lease \in Int
          BY <1>0, Constants DEF TypeOK, Programs, Times
        <4>1. clock <= cl[c].lease
          BY <1>5, <1>7, <3>1, <4>0 DEF Slow, After
        <4>2. PassOf(c) \in passes
          BY <1>0, <2>1, <4>1 DEF PassGood
        <4>3. PassOf(c) \in Opens(cl[c].ip, cl[c].pass)
          BY <4>0, <4>1, <4>2 DEF Opens, PassOf, After
        <4> QED BY <3>1, <4>3
      <3>3. c \notin Wasm
        BY <1>0, <2>1, <3>1, <3>2 DEF FirstRound
      <3>4. cl'[c].pc = "challenge" /\ cl'[c].attempt = cl[c].attempt /\ cl'[c].pass = None
        BY <1>0, <3>1, <3>2, <3>3, GotoIs
      <3>5. Unasked(c)
        BY <1>0, <3>2 DEF Unasked
      <3>6. Unthrottled(c)'
        BY <1>1, <1>3, <2>1, <2>3, <3>4, <3>5 DEF Unthrottled, Allow
      <3>7. FirstRound(c)' /\ AnswerGood(c)' /\ PassGood(c)'
        BY <2>1, <3>4, <3>5 DEF FirstRound, AnswerGood, PassGood
      <3> QED BY <2>2, <3>4, <3>6, <3>7 DEF Honest
    <2> QED BY <2>4, <2>5
  <1>8. StartsOver' /\ BundlesApart'
    BY <1>3, <1>4, OverStays, ApartStays DEF HonestInv
  <1> QED BY <1>6, <1>7, <1>8 DEF HonestInv, AllHonest

LEMMA RateCheckHonest ==
    ASSUME GateInv, HonestInv, NEW c \in Clients, RateCheck(c)
    PROVE  HonestInv'
  <1>0. /\ TypeOK /\ ProgramsOK /\ cl[c].pc = "rate" /\ Busy(c) /\ cl[c].ip \in IPs
    BY Split DEF GateInv, RateCheck, Busy, ProgramsOK, Programs
  <1>1. /\ UNCHANGED <<clock, required, challenges, passes, cooldown, statusCooldown>>
        /\ lastConnect' = lastConnect \/ lastConnect' = [lastConnect EXCEPT ![cl[c].ip] = clock]
        /\ Mishap(c) \/ NoMishap
    BY DEF RateCheck
  <1>2. End(c, "in") \/ End(c, "failed")
    BY DEF RateCheck
  <1>3. /\ cl'[c].ip = cl[c].ip /\ cl'[c].attempt = 0 /\ cl'[c].pass = None
        /\ \A e \in Clients \ {c} : cl'[e] = cl[e]
    BY <1>0, <1>2, EndIs
  <1>4. SameSubmits
    BY <1>0, <1>2, GotoSame DEF Labels
  <1>5. \A e \in Clients \ {c} : excused'[e] = excused[e]
    BY <1>0, <1>1, MishapIs
  <1>6. \A d \in Clients \ {c} : ~excused'[d] => Honest(d)'
    <2>1. \A a \in IPs \ {cl[c].ip} : lastConnect'[a] = lastConnect[a]
      BY <1>0, <1>1 DEF TypeOK
    <2> QED BY <1>0, <1>1, <1>3, <1>5, <2>1, OthersStayHonest
  <1>7. ASSUME ~excused'[c] PROVE Honest(c)'
    <2>1. ~excused[c] /\ ~Mishap(c)
      BY <1>0, <1>1, <1>7, MishapIs
    <2>2. Allow(lastConnect, cl[c].ip, ConnCooldown)
      BY <1>0, <2>1 DEF HonestInv, AllHonest, Honest, Unthrottled
    <2>3. End(c, "in")
      BY <2>1, <2>2 DEF RateCheck
    <2>4. cl'[c].pc = "in"
      BY <1>0, <2>3, EndIs
    <2> QED BY <2>4 DEF Honest, Busy
  <1>8. StartsOver' /\ BundlesApart'
    BY <1>3, <1>4, OverStays, ApartStays DEF HonestInv
  <1> QED BY <1>6, <1>7, <1>8 DEF HonestInv, AllHonest

LEMMA QuitHonest ==
    ASSUME GateInv, HonestInv, NEW c \in Clients, Quit(c)
    PROVE  HonestInv'
  <1>0. TypeOK /\ ProgramsOK /\ Busy(c) /\ End(c, "idle")
    BY Split DEF GateInv, Quit
  <1>1. UNCHANGED <<clock, required, challenges, passes, cooldown, statusCooldown, lastConnect, excused>>
    BY DEF Quit, server
  <1>2. /\ cl'[c].pc = "idle" /\ cl'[c].ip = cl[c].ip /\ cl'[c].attempt = 0 /\ cl'[c].pass = None
        /\ \A e \in Clients \ {c} : cl'[e] = cl[e]
    BY <1>0, EndIs
  <1>3. \A d \in Clients \ {c} : ~excused'[d] => Honest(d)'
    BY <1>0, <1>1, <1>2, OthersStayHonest
  <1>4. Honest(c)'
    BY <1>2 DEF Honest, Busy
  <1>5. SameSubmits
    BY <1>0, GotoSame DEF Labels
  <1>6. StartsOver' /\ BundlesApart'
    BY <1>2, <1>5, OverStays, ApartStays DEF HonestInv
  <1> QED BY <1>3, <1>4, <1>6 DEF HonestInv, AllHonest

LEMMA BeginHonest ==
    ASSUME GateInv, HonestInv, NEW c \in Clients, Begin(c)
    PROVE  HonestInv'
  <1>0. TypeOK /\ ProgramsOK /\ ~Busy(c) /\ cl[c].attempt = 0 /\ cl[c].pass = None
    BY Split DEF GateInv, Begin, HonestInv, StartsOver
  <1> DEFINE pc == IF c \in Wasm THEN "probe" ELSE "dial"
  <1>1. /\ Goto(c, pc)
        /\ UNCHANGED <<clock, required, challenges, passes, cooldown, statusCooldown, lastConnect>>
        /\ excused' = [d \in Clients |->
                         IF d = c THEN Crowded(c)
                         ELSE excused[d] \/ (Busy(d) /\ cl[d].ip = cl[c].ip)]
    BY DEF Begin, server
  <1>2. /\ cl'[c].pc = pc /\ cl'[c].ip = cl[c].ip /\ cl'[c].attempt = 0 /\ cl'[c].pass = None
        /\ \A e \in Clients \ {c} : cl'[e] = cl[e]
    BY <1>0, <1>1, GotoIs
  <1>3. excused'[c] = Crowded(c)
    BY <1>1, Zenon
  <1>4. \A d \in Clients \ {c} : excused'[d] = (excused[d] \/ (Busy(d) /\ cl[d].ip = cl[c].ip))
    BY <1>1, Zenon
  <1>5. ASSUME NEW d \in Clients \ {c}, ~excused'[d] PROVE Honest(d)'
    <2>1. ~excused[d] /\ ~(Busy(d) /\ cl[d].ip = cl[c].ip)
      BY <1>4, <1>5
    <2>2. Honest(d)
      BY <2>1 DEF HonestInv, AllHonest
    <2>3. ASSUME Busy(d) PROVE \A e \in Clients \ {d} : Busy(e)' => cl'[e].ip # cl[d].ip
      <3>1. Alone(d)
        BY <2>2, <2>3 DEF Honest
      <3> TAKE e \in Clients \ {d}
      <3>2. CASE e = c BY <1>2, <2>1, <2>3, <3>2
      <3>3. CASE e # c BY <1>2, <3>1, <3>3 DEF Alone, Busy
      <3> QED BY <3>2, <3>3
    <2> QED BY <1>0, <1>1, <1>2, <2>2, <2>3, HonestFrame
  <1>6. ASSUME ~excused'[c] PROVE Honest(c)'
    <2>1. ~Crowded(c)
      BY <1>3, <1>6
    <2>2. /\ Alone(c) /\ Allow(cooldown, cl[c].ip, ChallengeCooldown)
          /\ Allow(statusCooldown, cl[c].ip, StatusCooldown)
          /\ Allow(lastConnect, cl[c].ip, ConnCooldown)
      BY <2>1 DEF Crowded, Alone
    <2>3. Alone(c)'
      BY <1>2, <2>2, ActorStaysAlone
    <2>4. Unthrottled(c)'
      BY <1>1, <1>2, <2>2 DEF Unthrottled, Allow
    <2>5. FirstRound(c)' /\ AnswerGood(c)' /\ PassGood(c)'
      BY <1>2 DEF FirstRound, AnswerGood, PassGood
    <2> QED BY <1>2, <2>3, <2>4, <2>5 DEF Honest
  <1>7. SameSubmits
    BY <1>0, <1>1, GotoSame DEF Labels
  <1>8. StartsOver' /\ BundlesApart'
    BY <1>2, <1>7, OverStays, ApartStays DEF HonestInv
  <1> QED BY <1>5, <1>6, <1>8 DEF HonestInv, AllHonest

LEMMA RoamHonest ==
    ASSUME GateInv, HonestInv, NEW c \in Clients, Roam(c)
    PROVE  HonestInv'
  <1>0. TypeOK /\ ProgramsOK /\ Busy(c)
    BY Split DEF GateInv, Roam
  <1>1. PICK ip \in IPs \ {cl[c].ip} :
          /\ cl' = [cl EXCEPT ![c].ip = ip]
          /\ excused' = [d \in Clients |->
                           excused[d] \/ d = c \/ (Busy(d) /\ cl[d].ip = ip)]
    BY DEF Roam
  <1>2. UNCHANGED <<clock, required, challenges, passes, cooldown, statusCooldown, lastConnect>>
    BY DEF Roam, server
  <1>3. /\ cl'[c].pc = cl[c].pc /\ cl'[c].ip = ip /\ cl'[c].bundle = cl[c].bundle
        /\ \A e \in Clients \ {c} : cl'[e] = cl[e]
    <2>1. cl[c] \in Programs
      BY <1>0 DEF ProgramsOK
    <2>2. cl'[c] = [cl[c] EXCEPT !.ip = ip] /\ \A e \in Clients \ {c} : cl'[e] = cl[e]
      BY <1>0, <1>1 DEF ProgramsOK
    <2> QED BY <2>1, <2>2 DEF Programs
  <1>4. \A d \in Clients : excused'[d] = (excused[d] \/ d = c \/ (Busy(d) /\ cl[d].ip = ip))
    BY <1>1, Zenon
  <1>5. ASSUME NEW d \in Clients, ~excused'[d] PROVE Honest(d)'
    <2>1. ~excused[d] /\ d # c /\ ~(Busy(d) /\ cl[d].ip = ip)
      BY <1>4, <1>5
    <2>2. Honest(d)
      BY <2>1 DEF HonestInv, AllHonest
    <2>3. ASSUME Busy(d) PROVE \A e \in Clients \ {d} : Busy(e)' => cl'[e].ip # cl[d].ip
      <3>1. Alone(d)
        BY <2>2, <2>3 DEF Honest
      <3> TAKE e \in Clients \ {d}
      <3>2. CASE e = c BY <1>3, <2>1, <2>3, <3>2
      <3>3. CASE e # c BY <1>3, <3>1, <3>3 DEF Alone, Busy
      <3> QED BY <3>2, <3>3
    <2> QED BY <1>0, <1>2, <1>3, <2>1, <2>2, <2>3, HonestFrame
  <1>6. SameSubmits
    BY <1>3 DEF SameSubmits
  <1>7. StartsOver' /\ BundlesApart'
    BY <1>0, <1>3, <1>6, OverStays, ApartStays DEF HonestInv, Busy
  <1> QED BY <1>5, <1>7 DEF HonestInv, AllHonest

LEMMA RedialHonest ==
    ASSUME GateInv, HonestInv, NEW c \in Clients, NEW ip \in IPs, Redial(c, ip)
    PROVE  HonestInv'
  <1>0. TypeOK
    BY DEF GateInv
  <1>1. /\ UNCHANGED <<clock, required, challenges, cooldown, statusCooldown, cl>>
        /\ lastConnect' = lastConnect \/ lastConnect' = [lastConnect EXCEPT ![ip] = clock]
        /\ \A p \in passes \ passes' : p.ip = ip
        /\ excused' = [d \in Clients |->
                         excused[d] \/ d = c \/ (Busy(d) /\ cl[d].ip = ip)]
    BY DEF Redial, UsePass, Opens
  <1>2. \A d \in Clients : excused'[d] = (excused[d] \/ d = c \/ (Busy(d) /\ cl[d].ip = ip))
    BY <1>1, Zenon
  <1>3. ASSUME NEW d \in Clients, ~excused'[d] PROVE Honest(d)'
    <2>1. ~excused[d] /\ ~(Busy(d) /\ cl[d].ip = ip)
      BY <1>2, <1>3
    <2>2. Honest(d) /\ cl'[d] = cl[d]
      BY <1>1, <2>1 DEF HonestInv, AllHonest
    <2>3. ASSUME Busy(d)
          PROVE  /\ \A e \in Clients \ {d} : Busy(e)' => cl'[e].ip # cl[d].ip
                 /\ lastConnect'[cl[d].ip] = lastConnect[cl[d].ip]
                 /\ \A p \in passes : p.ip = cl[d].ip => p \in passes'
      <3>1. Alone(d) /\ cl[d].ip # ip
        BY <2>1, <2>2, <2>3 DEF Honest
      <3>2. \A e \in Clients \ {d} : Busy(e)' => cl'[e].ip # cl[d].ip
        BY <1>1, <3>1 DEF Alone, Busy
      <3>3. lastConnect'[cl[d].ip] = lastConnect[cl[d].ip]
        BY <1>0, <1>1, <3>1 DEF TypeOK, Programs
      <3> QED BY <1>1, <3>1, <3>2, <3>3
    <2> QED BY <1>0, <1>1, <2>2, <2>3, HonestFrame
  <1>4. StartsOver' /\ BundlesApart'
    BY <1>1 DEF HonestInv, StartsOver, BundlesApart, Busy
  <1> QED BY <1>3, <1>4 DEF HonestInv, AllHonest

LEMMA TickHonest ==
    ASSUME GateInv, HonestInv, Tick PROVE HonestInv'
  <1>0. TypeOK /\ clock \in Int
    BY Constants DEF GateInv, TypeOK
  <1>1. /\ UNCHANGED <<required, cooldown, statusCooldown, lastConnect, cl, excused>>
        /\ clock' = clock + 1
        /\ \A x \in challenges : ~After(clock', x.expires) => x \in challenges'
        /\ \A p \in passes : ~After(clock', p.expires) => p \in passes'
    BY DEF Tick, Sweep
  <1>2. ASSUME NEW last \in [IPs -> 0..MaxTime \cup {None}], NEW a \in IPs, NEW n \in Nat,
               Allow(last, a, n)
        PROVE  last[a] # None => clock' - last[a] >= n
    BY <1>0, <1>1, <1>2, Constants DEF Allow
  <1>3. ASSUME NEW d \in Clients, ~excused'[d] PROVE Honest(d)'
    <2>1. Honest(d) /\ cl' = cl
      BY <1>1, <1>3 DEF HonestInv, AllHonest
    <2>2. CASE ~Busy(d)
      BY <2>1, <2>2 DEF Honest, Busy
    <2>3. CASE Busy(d)
      <3>0. Alone(d) /\ Unthrottled(d) /\ FirstRound(d) /\ AnswerGood(d) /\ PassGood(d)
        BY <2>1, <2>3 DEF Honest
      <3>1. Alone(d)' /\ FirstRound(d)'
        BY <1>1, <3>0 DEF Alone, FirstRound, Unasked, Busy
      <3>2. Unthrottled(d)'
        <4>0. /\ cl[d].ip \in IPs /\ {ConnCooldown, StatusCooldown, ChallengeCooldown} \subseteq Nat
              /\ lastConnect \in [IPs -> 0..MaxTime \cup {None}]
              /\ statusCooldown \in [IPs -> 0..MaxTime \cup {None}]
              /\ cooldown \in [IPs -> 0..MaxTime \cup {None}]
          BY <1>0, GateAssumption DEF TypeOK, Programs
        <4>1. Allow(lastConnect, cl[d].ip, ConnCooldown)'
          BY <1>1, <1>2, <3>0, <4>0 DEF Unthrottled, Allow
        <4>2. cl[d].pc = "probe" => Allow(statusCooldown, cl[d].ip, StatusCooldown)'
          BY <1>1, <1>2, <3>0, <4>0 DEF Unthrottled, Allow
        <4>3. Unasked(d) => Allow(cooldown, cl[d].ip, ChallengeCooldown)'
          BY <1>1, <1>2, <3>0, <4>0 DEF Unthrottled, Allow
        <4> QED BY <1>1, <4>1, <4>2, <4>3 DEF Unthrottled, Unasked
      <3>3. AnswerGood(d)'
        <4> SUFFICES ASSUME cl[d].pc = "submit", clock' <= cl[d].bundle.expires
                     PROVE  cl[d].bundle \in challenges'
          BY <1>1, <3>0 DEF AnswerGood
        <4>1. cl[d].bundle.expires \in Int
          BY <1>0, Constants DEF TypeOK, Bundles, Times
        <4>2. clock <= cl[d].bundle.expires /\ ~After(clock', cl[d].bundle.expires)
          BY <1>0, <1>1, <4>1 DEF After
        <4> QED BY <1>1, <3>0, <4>2 DEF AnswerGood
      <3>4. PassGood(d)'
        <4> SUFFICES ASSUME cl[d].pc = "dial", cl[d].pass # None, clock' <= cl[d].lease
                     PROVE  PassOf(d) \in passes'
          BY <1>1 DEF PassGood, PassOf
        <4>1. cl[d].lease \in Int /\ PassOf(d).expires = cl[d].lease
          BY <1>0, Constants DEF TypeOK, Programs, Times, PassOf
        <4>2. clock <= cl[d].lease /\ ~After(clock', PassOf(d).expires)
          BY <1>0, <1>1, <4>1 DEF After
        <4> QED BY <1>1, <3>0, <4>2 DEF PassGood
      <3> QED BY <2>1, <3>1, <3>2, <3>3, <3>4 DEF Honest
    <2> QED BY <2>2, <2>3
  <1>4. StartsOver' /\ BundlesApart'
    BY <1>1 DEF HonestInv, StartsOver, BundlesApart, Busy
  <1> QED BY <1>3, <1>4 DEF HonestInv, AllHonest

LEMMA DegradeHonest ==
    ASSUME GateInv, HonestInv, Degrade \/ Restart PROVE HonestInv'
  <1>0. TypeOK /\ UNCHANGED <<clock, cl>>
    BY DEF GateInv, Degrade, Restart
  <1>1. CASE Degrade
    <2>1. /\ UNCHANGED <<challenges, passes, cooldown, statusCooldown, lastConnect>>
          /\ required' = ~required
          /\ excused' = [c \in Clients |->
                           \/ excused[c]
                           \/ ~required /\ c \in Wasm /\ cl[c].pc = "dial" /\ cl[c].pass = None]
      BY <1>1 DEF Degrade
    <2>2. \A d \in Clients : excused'[d] =
            (\/ excused[d]
             \/ ~required /\ d \in Wasm /\ cl[d].pc = "dial" /\ cl[d].pass = None)
      BY <2>1, Zenon
    <2>3. ASSUME NEW d \in Clients, ~excused'[d] PROVE Honest(d)'
      <3>1. Honest(d) /\ ~(~required /\ d \in Wasm /\ cl[d].pc = "dial" /\ cl[d].pass = None)
        BY <2>2, <2>3 DEF HonestInv, AllHonest
      <3>2. Busy(d) => \A e \in Clients \ {d} : Busy(e)' => cl'[e].ip # cl[d].ip
        BY <1>0, <3>1 DEF Honest, Alone, Busy
      <3> QED BY <1>0, <2>1, <3>1, <3>2, HonestFrame
    <2> QED BY <1>0, <2>3 DEF HonestInv, AllHonest, StartsOver, BundlesApart, Busy
  <1>2. CASE Restart
    <2>1. excused' = [c \in Clients |-> excused[c] \/ Busy(c)]
      BY <1>2 DEF Restart
    <2>2. \A d \in Clients : excused'[d] = (excused[d] \/ Busy(d))
      BY <2>1, Zenon
    <2>3. ASSUME NEW d \in Clients, ~excused'[d] PROVE Honest(d)'
      BY <1>0, <2>2, <2>3 DEF HonestInv, AllHonest, Honest, Busy
    <2> QED BY <1>0, <2>3 DEF HonestInv, AllHonest, StartsOver, BundlesApart, Busy
  <1> QED BY <1>1, <1>2

LEMMA HonestStays ==
    ASSUME GateInv, HonestInv, UNCHANGED vars PROVE HonestInv'
  <1>0. /\ TypeOK
        /\ UNCHANGED <<clock, required, challenges, passes, cooldown, statusCooldown, lastConnect,
                       cl, excused>>
    BY DEF GateInv, vars, server
  <1>1. ASSUME NEW d \in Clients, ~excused'[d] PROVE Honest(d)'
    <2>1. Honest(d)
      BY <1>0, <1>1 DEF HonestInv, AllHonest
    <2>2. Busy(d) => \A e \in Clients \ {d} : Busy(e)' => cl'[e].ip # cl[d].ip
      BY <1>0, <2>1 DEF Honest, Alone, Busy
    <2> QED BY <1>0, <2>1, <2>2, HonestFrame
  <1> QED BY <1>0, <1>1 DEF HonestInv, AllHonest, StartsOver, BundlesApart, Busy

(* With two attempts or more (maxGateAttempts is 3), the gate turns no       *)
(* honest client away, whatever its clock, the waits drawn for it, the other *)
(* clients and the attacks: who is alone on its address, solves its          *)
(* challenge in time and dials within the lease is let in.                   *)
THEOREM HonestAlwaysEnter ==
    ASSUME MaxAttempts >= 2 PROVE Spec => []NeverTurnedAway
  <1>1. Init => HonestInv
    <2> SUFFICES ASSUME Init PROVE HonestInv
      OBVIOUS
    <2>1. \A c \in Clients : cl[c].pc = "idle" /\ cl[c].attempt = 0 /\ cl[c].pass = None
      BY DEF Init, Start
    <2> QED BY <2>1 DEF HonestInv, AllHonest, Honest, StartsOver, BundlesApart, Busy
  <1>2. GateInv /\ HonestInv /\ [Next]_vars => HonestInv'
    <2> SUFFICES ASSUME GateInv, HonestInv, [Next]_vars PROVE HonestInv'
      OBVIOUS
    <2> QED BY BeginHonest, ProbeHonest, RequestHonest, SubmitHonest, GateCheckHonest,
               RateCheckHonest, QuitHonest, RoamHonest, RedialHonest, TickHonest,
               DegradeHonest, HonestStays DEF Next
  <1>3. HonestInv => NeverTurnedAway
    BY DEF HonestInv, AllHonest, Honest, NeverTurnedAway
  <1> QED BY <1>1, <1>2, <1>3, GateInvariant, PTL DEF Spec

-----------------------------------------------------------------------------
(* Why StoreBounded holds: every challenge was drawn at a time of its own,   *)
(* two of one address a cooldown apart, the throttle remembers the last, and *)
(* the sweeps have left none that expired before the last full second.       *)
DrawnAt(f, held, last) ==
    /\ \A x \in held :
         /\ last[x.ip] # None /\ f[x] <= last[x.ip]
         /\ x.expires <= f[x] + WaitMax + PowTTL
    /\ \A x, y \in held :
         x # y /\ x.ip = y.ip =>
           f[x] + ChallengeCooldown <= f[y] \/ f[y] + ChallengeCooldown <= f[x]

Drawn == \E f \in [challenges -> 0..MaxTime] : DrawnAt(f, challenges, cooldown)

Throttled == \A a \in IPs : cooldown[a] # None => cooldown[a] <= clock

Swept == \A x \in challenges : 2 * Unix(clock) <= x.expires

StoreInv == TypeOK /\ Drawn /\ Throttled /\ Swept

LEMMA CooldownType == ChallengeCooldown \in Nat /\ ChallengeCooldown > 0
  BY GateAssumption DEF GateAssumption

(* Fewer challenges are still drawn at times of their own. *)
LEMMA FewerDrawn ==
    ASSUME Drawn, challenges' \subseteq challenges, UNCHANGED cooldown
    PROVE  Drawn'
  <1>1. PICK f \in [challenges -> 0..MaxTime] : DrawnAt(f, challenges, cooldown)
    BY DEF Drawn
  <1> DEFINE g == [x \in challenges' |-> f[x]]
  <1>2. g \in [challenges' -> 0..MaxTime]
    OBVIOUS
  <1>3. \A x \in challenges' : x \in challenges /\ g[x] = f[x]
    OBVIOUS
  <1> HIDE DEF g
  <1>4. DrawnAt(g, challenges', cooldown')
    BY <1>1, <1>3 DEF DrawnAt
  <1> QED BY <1>2, <1>4 DEF Drawn

(* A step that draws no challenge and leaves the throttle and the time alone *)
(* keeps the store as it should be.                                          *)
LEMMA FewerKeeps ==
    ASSUME StoreInv, TypeOK', challenges' \subseteq challenges,
           UNCHANGED <<cooldown, clock>>
    PROVE  StoreInv'
  <1>1. Drawn'
    BY FewerDrawn DEF StoreInv
  <1>2. Throttled'
    BY DEF StoreInv, Throttled
  <1>3. Swept'
    BY DEF StoreInv, Swept, Unix
  <1> QED BY <1>1, <1>2, <1>3 DEF StoreInv

(* A challenge is drawn: the throttle let it through, so the last one of its *)
(* address is a cooldown old.                                                *)
LEMMA DrawKeeps ==
    ASSUME StoreInv, TypeOK', NEW ip \in IPs, NEW wait \in WaitMin..WaitMax,
           Allow(cooldown, ip, ChallengeCooldown), CanDraw,
           cooldown' = [cooldown EXCEPT ![ip] = clock],
           challenges' = challenges \cup {Bundle(ip, wait)},
           UNCHANGED clock
    PROVE  StoreInv'
  <1> DEFINE b == Bundle(ip, wait)
  <1>t. /\ clock \in 0..MaxTime /\ MaxTime \in Nat /\ WaitMax \in Nat /\ PowTTL \in Nat
        /\ WaitMin \in Nat
        /\ ChallengeCooldown \in Nat /\ ChallengeCooldown > 0
        /\ cooldown \in [IPs -> 0..MaxTime \cup {None}]
        /\ challenges \subseteq Bundles
    BY Constants, CooldownType DEF StoreInv, TypeOK
  <1>n. None \notin Int
    BY GateAssumption DEF GateAssumption
  <1>1. PICK f \in [challenges -> 0..MaxTime] : DrawnAt(f, challenges, cooldown)
    BY DEF StoreInv, Drawn
  <1>2. Fresh \notin Used
    BY DEF CanDraw, Fresh
  <1>3. b \notin challenges
    BY <1>2 DEF Used, Bundle
  <1>4. b.ip = ip /\ b.expires = clock + wait + PowTTL
    BY DEF Bundle
  <1> HIDE DEF b
  <1>5. challenges' = challenges \cup {b}
    BY DEF b
  <1> DEFINE g == [x \in challenges' |-> IF x = b THEN clock ELSE f[x]]
  <1>6. g \in [challenges' -> 0..MaxTime]
    BY <1>5, <1>t
  <1>7. /\ g[b] = clock
        /\ \A x \in challenges : g[x] = f[x] /\ f[x] \in 0..MaxTime /\ x.ip \in IPs
    BY <1>3, <1>5, <1>t DEF Bundles
  <1> HIDE DEF g
  <1>8. /\ cooldown'[ip] = clock
        /\ \A a \in IPs \ {ip} : cooldown'[a] = cooldown[a]
    BY <1>t
  <1>9. \A x \in challenges : x.ip = ip => f[x] + ChallengeCooldown <= clock
    <2> SUFFICES ASSUME NEW x \in challenges, x.ip = ip
                 PROVE  f[x] + ChallengeCooldown <= clock
      OBVIOUS
    <2>1. cooldown[ip] # None /\ f[x] <= cooldown[ip]
      BY <1>1 DEF DrawnAt
    <2>2. clock - cooldown[ip] >= ChallengeCooldown
      BY <2>1 DEF Allow
    <2>3. cooldown[ip] \in 0..MaxTime
      BY <2>1, <1>t
    <2> QED BY <2>1, <2>2, <2>3, <1>t, <1>7
  <1>10. ASSUME NEW x \in challenges'
         PROVE  /\ cooldown'[x.ip] # None /\ g[x] <= cooldown'[x.ip]
                /\ x.expires <= g[x] + WaitMax + PowTTL
    <2>1. CASE x = b
      <3>1. wait \in Nat /\ wait <= WaitMax
        BY <1>t
      <3> QED BY <2>1, <3>1, <1>4, <1>7, <1>8, <1>t, <1>n
    <2>2. CASE x \in challenges /\ x.ip = ip
      <3>1. x.expires <= f[x] + WaitMax + PowTTL
        BY <2>2, <1>1 DEF DrawnAt
      <3>2. f[x] <= clock
        BY <2>2, <1>7, <1>9, <1>t
      <3> QED BY <2>2, <3>1, <3>2, <1>7, <1>8, <1>t, <1>n
    <2>3. CASE x \in challenges /\ x.ip # ip
      BY <2>3, <1>1, <1>7, <1>8 DEF DrawnAt
    <2> QED BY <2>1, <2>2, <2>3, <1>5
  <1>11. ASSUME NEW x \in challenges', NEW y \in challenges', x # y, x.ip = y.ip
         PROVE  g[x] + ChallengeCooldown <= g[y] \/ g[y] + ChallengeCooldown <= g[x]
    <2>1. CASE x = b
      BY <2>1, <1>11, <1>4, <1>5, <1>7, <1>9
    <2>2. CASE y = b
      BY <2>2, <1>11, <1>4, <1>5, <1>7, <1>9
    <2>3. CASE x # b /\ y # b
      BY <2>3, <1>11, <1>1, <1>5, <1>7 DEF DrawnAt
    <2> QED BY <2>1, <2>2, <2>3
  <1>12. Drawn'
    BY <1>6, <1>10, <1>11 DEF Drawn, DrawnAt
  <1>13. Throttled'
    BY <1>8, <1>t DEF StoreInv, Throttled
  <1>14. Swept'
    <2>1. 2 * Unix(clock) <= b.expires
      <3>1. wait \in Nat
        BY <1>t
      <3>2. 2 * Unix(clock) <= clock
        BY <1>t DEF Unix
      <3>3. Unix(clock) \in Nat
        BY <1>t DEF Unix
      <3> QED BY <3>1, <3>2, <3>3, <1>4, <1>t
    <2> QED BY <2>1, <1>5 DEF StoreInv, Swept, Unix
  <1> QED BY <1>12, <1>13, <1>14 DEF StoreInv

LEMMA StoreStep == StoreInv /\ TypeOK' /\ [Next]_vars => StoreInv'
  <1> SUFFICES ASSUME StoreInv, TypeOK', [Next]_vars PROVE StoreInv'
    OBVIOUS
  <1>t. /\ clock \in 0..MaxTime /\ MaxTime \in Nat
        /\ cooldown \in [IPs -> 0..MaxTime \cup {None}]
        /\ challenges \subseteq Bundles /\ cl \in [Clients -> Programs]
    BY Constants DEF StoreInv, TypeOK
  <1>1. ASSUME NEW c \in Clients, Request(c) PROVE StoreInv'
    <2>1. CASE UNCHANGED <<challenges, cooldown>>
      BY <2>1, <1>1, FewerKeeps DEF Request
    <2>2. CASE ~UNCHANGED <<challenges, cooldown>>
      <3>1. cl[c].ip \in IPs
        BY <1>t DEF Programs
      <3>2. PICK wait \in WaitMin..WaitMax :
              challenges' = challenges \cup {Bundle(cl[c].ip, wait)}
        BY <2>2, <1>1 DEF Request
      <3>3. /\ Allow(cooldown, cl[c].ip, ChallengeCooldown) /\ CanDraw
            /\ cooldown' = [cooldown EXCEPT ![cl[c].ip] = clock]
            /\ UNCHANGED clock
        BY <2>2, <1>1 DEF Request
      <3> QED BY <3>1, <3>2, <3>3, DrawKeeps
    <2> QED BY <2>1, <2>2
  <1>2. ASSUME NEW c \in Clients, Submit(c) PROVE StoreInv'
    <2>1. challenges' \subseteq challenges /\ UNCHANGED <<cooldown, clock>>
      BY <1>2 DEF Submit, Delete
    <2> QED BY <2>1, FewerKeeps
  <1>3. ASSUME NEW c \in Clients,
               Begin(c) \/ Probe(c) \/ GateCheck(c) \/ RateCheck(c) \/ Quit(c)
                 \/ Roam(c) \/ \E ip \in IPs : Redial(c, ip)
        PROVE  StoreInv'
    <2>1. UNCHANGED <<challenges, cooldown, clock>>
      BY <1>3 DEF Begin, Probe, GateCheck, RateCheck, Quit, Roam, Redial, server
    <2> QED BY <2>1, FewerKeeps
  <1>4. ASSUME Tick PROVE StoreInv'
    <2>1. clock' = clock + 1 /\ UNCHANGED cooldown /\ challenges' \subseteq challenges
      BY <1>4 DEF Tick, Sweep
    <2>2. Drawn'
      BY <2>1, FewerDrawn DEF StoreInv
    <2>3. Throttled'
      <3> SUFFICES ASSUME NEW a \in IPs, cooldown[a] # None PROVE cooldown[a] <= clock + 1
        BY <2>1 DEF Throttled
      <3>1. cooldown[a] \in 0..MaxTime /\ cooldown[a] <= clock
        BY <1>t DEF StoreInv, Throttled
      <3> QED BY <3>1, <1>t
    <2>4. Swept'
      <3> SUFFICES ASSUME NEW x \in challenges' PROVE 2 * ((clock + 1) \div 2) <= x.expires
        BY <2>1 DEF Swept, Unix
      <3>0. x.expires \in Int /\ 2 * (clock \div 2) <= x.expires
        BY <2>1, <1>t, Constants DEF StoreInv, Swept, Unix, Bundles, Times
      <3>1. CASE (clock + 1) % 2 = 0
        <4>1. ~(clock + 1 > x.expires)
          BY <3>1, <1>4, <2>1 DEF Tick, Sweep, After
        <4> QED BY <4>1, <3>0, <1>t
      <3>2. CASE (clock + 1) % 2 # 0
        BY <3>2, <3>0, <1>t
      <3> QED BY <3>1, <3>2
    <2> QED BY <2>2, <2>3, <2>4 DEF StoreInv
  <1>5. CASE Degrade
    BY <1>5, FewerKeeps DEF Degrade
  <1>6. ASSUME Restart PROVE StoreInv'
    <2>1. challenges' = {} /\ cooldown' = [a \in IPs |-> None]
      BY <1>6 DEF Restart
    <2> DEFINE g == [x \in challenges' |-> 0]
    <2>2. g \in [challenges' -> 0..MaxTime]
      BY <2>1
    <2> HIDE DEF g
    <2>3. Drawn'
      BY <2>1, <2>2 DEF Drawn, DrawnAt
    <2> QED BY <2>1, <2>3 DEF StoreInv, Throttled, Swept
  <1>7. CASE UNCHANGED vars
    BY <1>7, FewerKeeps DEF vars, server
  <1> QED BY <1>1, <1>2, <1>3, <1>4, <1>5, <1>6, <1>7 DEF Next

LEMMA StoreInit == Init => StoreInv
  <1> SUFFICES ASSUME Init PROVE StoreInv
    OBVIOUS
  <1>1. TypeOK
    BY InitTyped
  <1>2. challenges = {} /\ cooldown = [a \in IPs |-> None]
    BY DEF Init
  <1> DEFINE g == [x \in challenges |-> 0]
  <1>3. g \in [challenges -> 0..MaxTime]
    BY <1>2
  <1> HIDE DEF g
  <1>4. Drawn
    BY <1>2, <1>3 DEF Drawn, DrawnAt
  <1> QED BY <1>1, <1>2, <1>4 DEF StoreInv, Throttled, Swept

(* What \div gives, and that it tells numbers apart that are d apart. *)
LEMMA DivIs ==
    ASSUME NEW m \in Nat, NEW d \in Nat \ {0}
    PROVE  m \div d \in Nat /\ d * (m \div d) <= m /\ m < d * (m \div d) + d
  OBVIOUS

LEMMA TimesGrows ==
    ASSUME NEW d \in Nat \ {0}, NEW p \in Nat, NEW q \in Nat, p <= q
    PROVE  d * p <= d * q
  OBVIOUS

LEMMA DivApart ==
    ASSUME NEW d \in Nat \ {0}, NEW m \in Nat, NEW n \in Nat, m + d <= n
    PROVE  m \div d < n \div d
  <1> DEFINE p == m \div d
             q == n \div d
  <1>1. p \in Nat /\ q \in Nat /\ d * p <= m /\ n < d * q + d
    BY DivIs
  <1> HIDE DEF p, q
  <1>2. d * p \in Nat /\ d * q \in Nat
    BY <1>1
  <1>3. d * p < d * q
    BY <1>1, <1>2
  <1>4. q <= p => d * q <= d * p
    BY <1>1, TimesGrows
  <1>5. p < q
    BY <1>1, <1>2, <1>3, <1>4
  <1> QED BY <1>5 DEF p, q

LEMMA DivMono ==
    ASSUME NEW d \in Nat \ {0}, NEW m \in Nat, NEW n \in Nat, m <= n
    PROVE  m \div d <= n \div d
  <1> DEFINE p == m \div d
             q == n \div d
  <1>1. p \in Nat /\ q \in Nat /\ d * p <= m /\ n < d * q + d
    BY DivIs
  <1> HIDE DEF p, q
  <1>2. d * p \in Nat /\ d * q \in Nat
    BY <1>1
  <1>3. d * p < d * q + d
    BY <1>1, <1>2
  <1>4. q + 1 <= p => d * (q + 1) <= d * p
    BY <1>1, TimesGrows
  <1>5. d * (q + 1) = d * q + d
    BY <1>1
  <1>6. p <= q
    BY <1>1, <1>2, <1>3, <1>4, <1>5
  <1> QED BY <1>6 DEF p, q

(* The draws of an address lie in the cooldown-long slots of the time a      *)
(* challenge can live, at most one in each.                                  *)
LEMMA StoreCounts == StoreInv => StoreBounded
  <1> SUFFICES ASSUME StoreInv, NEW a \in IPs
               PROVE  Cardinality({x \in challenges : x.ip = a})
                        <= (WaitMax + PowTTL + 2) \div ChallengeCooldown + 1
    BY DEF StoreBounded
  <1> DEFINE S == {x \in challenges : x.ip = a}
             d == ChallengeCooldown
             n == WaitMax + PowTTL + 2
  <1>t. /\ clock \in Nat /\ WaitMax \in Nat /\ PowTTL \in Nat /\ MaxTime \in Nat
        /\ d \in Nat \ {0} /\ n \in Nat
        /\ cooldown \in [IPs -> 0..MaxTime \cup {None}]
        /\ challenges \subseteq Bundles
    BY Constants, CooldownType DEF StoreInv, TypeOK
  <1>1. PICK f \in [challenges -> 0..MaxTime] : DrawnAt(f, challenges, cooldown)
    BY DEF StoreInv, Drawn
  <1> DEFINE off(x) == f[x] - clock + n
  <1>2. \A x \in S : off(x) \in Nat /\ off(x) <= n
    <2> SUFFICES ASSUME NEW x \in challenges, x.ip = a
                 PROVE  off(x) \in Nat /\ off(x) <= n
      OBVIOUS
    <2>1. /\ cooldown[a] # None /\ f[x] <= cooldown[a]
          /\ x.expires <= f[x] + WaitMax + PowTTL
      BY <1>1 DEF DrawnAt
    <2>2. cooldown[a] \in 0..MaxTime /\ cooldown[a] <= clock
      BY <2>1, <1>t DEF StoreInv, Throttled
    <2>3. x.expires \in Int
      BY <1>t, Constants DEF Bundles, Times
    <2>4. 2 * (clock \div 2) <= x.expires
      BY DEF StoreInv, Swept, Unix
    <2>5. clock - 1 <= 2 * (clock \div 2)
      BY <1>t
    <2>6. clock - 1 <= x.expires
      BY <2>3, <2>4, <2>5, <1>t
    <2>7. f[x] \in Nat
      BY <1>1
    <2> QED BY <2>1, <2>2, <2>3, <2>6, <2>7, <1>t
  <1>3. \A x, y \in S : x # y => off(x) + d <= off(y) \/ off(y) + d <= off(x)
    <2> SUFFICES ASSUME NEW x \in challenges, NEW y \in challenges,
                        x.ip = a, y.ip = a, x # y
                 PROVE  off(x) + d <= off(y) \/ off(y) + d <= off(x)
      OBVIOUS
    <2>1. f[x] + d <= f[y] \/ f[y] + d <= f[x]
      BY <1>1 DEF DrawnAt
    <2>2. f[x] \in Nat /\ f[y] \in Nat
      BY <1>1
    <2> QED BY <2>1, <2>2, <1>t
  <1> HIDE DEF off, d, n, S
  <1> DEFINE N == n \div d
             slot == [x \in S |-> off(x) \div d]
  <1>4. N \in Nat
    BY <1>t, DivIs
  <1>5. \A x \in S : off(x) \div d \in 0..N
    <2> TAKE x \in S
    <2>1. off(x) \in Nat /\ off(x) <= n
      BY <1>2
    <2>2. off(x) \div d \in Nat
      BY <2>1, <1>t, DivIs
    <2>3. off(x) \div d <= n \div d
      BY <2>1, <1>t, DivMono
    <2> QED BY <2>2, <2>3, <1>4
  <1>6. \A x, y \in S : off(x) \div d = off(y) \div d => x = y
    <2> SUFFICES ASSUME NEW x \in S, NEW y \in S, x # y
                 PROVE  off(x) \div d # off(y) \div d
      OBVIOUS
    <2>1. off(x) \in Nat /\ off(y) \in Nat
      BY <1>2
    <2>2. off(x) \div d \in Nat /\ off(y) \div d \in Nat
      BY <2>1, <1>t, DivIs
    <2>3. off(x) \div d < off(y) \div d \/ off(y) \div d < off(x) \div d
      BY <2>1, <1>3, <1>t, DivApart
    <2> QED BY <2>2, <2>3
  <1>7. slot \in Injection(S, 0..N)
    BY <1>5, <1>6 DEF Injection, IsInjective
  <1>8. IsFiniteSet(0..N) /\ Cardinality(0..N) = N + 1
    BY <1>4, FS_Interval
  <1> HIDE DEF slot, N
  <1>9. Cardinality(S) <= N + 1
    BY <1>7, <1>8, FS_Injection
  <1> QED BY <1>9 DEF N, n, d, S

(* An address cannot fill the store: StoreBounded, for any times, however    *)
(* many clients, addresses and ids there are.                                *)
THEOREM StoreAlwaysBounded == Spec => []StoreBounded
  <1>1. Init => StoreInv
    BY StoreInit
  <1>2. StoreInv /\ TypeOK' /\ [Next]_vars => StoreInv'
    BY StoreStep
  <1>3. Spec => []TypeOK
    BY GateTypes
  <1>4. StoreInv => StoreBounded
    BY StoreCounts
  <1> QED BY <1>1, <1>2, <1>3, <1>4, PTL DEF Spec
=============================================================================
