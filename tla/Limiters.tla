------------------------------ MODULE Limiters ------------------------------
(***************************************************************************)
(* The three limiters every handler shares (lib/guard): a cooldown and a   *)
(* token bucket per key, whose tables are swept when they grow, and the    *)
(* failure counter that bans an address, swept every ten minutes           *)
(* (server/main.go).  One key is followed; the table being over its size   *)
(* limit is a choice of each call, other keys having filled it.            *)
(***************************************************************************)
EXTENDS Integers, Sequences

CONSTANTS
  Cooldown,  \* the window of one CooldownMap.Allow
  Keep,      \* ten minutes: what a sweep of either map leaves alone
  Burst,     \* the bucket's size
  PerTick,   \* tokens refilled per clock unit
  Costs,     \* what a request may cost
  FailLimit, \* five failures
  BanTime,   \* five minutes
  FailTTL,   \* AuthFailTTL
  SweepEvery,\* the period of the cleanup loop
  MaxNow     \* bound: the clock

(* What a sweep forgets no longer matters: no cooldown is longer than what *)
(* the sweep leaves alone, a bucket is full again by then, and a counter   *)
(* outlives the ban it ends in.                                            *)
ASSUME LimitersAssumption ==
  /\ {Cooldown, Keep, Burst, PerTick, BanTime, FailTTL, MaxNow} \subseteq Nat
  /\ {FailLimit, SweepEvery} \subseteq Nat \ {0} /\ Costs \subseteq Nat
  /\ Cooldown <= Keep /\ Burst <= PerTick * Keep /\ BanTime <= FailTTL

VARIABLES
  now,     \* the clock
  last,    \* CooldownMap.last of the key, -1 when it is not there
  passed,  \* history: when Allow last said yes, -1 before
  bucket,  \* budgetState of the key
  spends,  \* history: what was charged to the key, when, and the sum so far
  record,  \* RateLimitRecord of the address; unlock -1 for a zero time
  banned,  \* history: when the last ban ends, -1 without one
  calls    \* bound: one call of each limiter per clock unit

lvars == <<now, last, passed, bucket, spends, record, banned, calls>>

NoRecord == [fails |-> 0, unlock |-> -1, seen |-> -1]
NoBucket == [known |-> FALSE, tokens |-> 0, updated |-> 0]

Once(what) == what \notin calls /\ calls' = calls \cup {what}

(* CooldownMap.Allow: a refusal leaves the recorded time alone. *)
Allow ==
  LET ok == last < 0 \/ now - last >= Cooldown IN
  /\ Once("allow")
  /\ last' = IF ok THEN now ELSE last
  /\ passed' = IF ok THEN now ELSE passed
  /\ UNCHANGED <<now, bucket, spends, record, banned>>

(* The sweep at the end of an Allow, of any key, when the map is over its limit. *)
Mut_AnyAge(at) == now > at

Old(at) == now - at > Keep

SweepCooldown ==
  /\ last >= 0 /\ Old(last)
  /\ last' = -1
  /\ UNCHANGED <<now, passed, bucket, spends, record, banned, calls>>

Least(a, b) == IF a <= b THEN a ELSE b

Mut_RefillUncapped(b) ==
  IF ~b.known THEN [known |-> TRUE, tokens |-> Burst, updated |-> now]
  ELSE [b EXCEPT !.tokens = @ + (now - b.updated) * PerTick, !.updated = now]

(* BudgetMap.Allow: refill for the time since the last call, then charge. *)
Refilled(b) ==
  IF ~b.known THEN [known |-> TRUE, tokens |-> Burst, updated |-> now]
  ELSE [b EXCEPT !.tokens = Least(Burst, @ + (now - b.updated) * PerTick), !.updated = now]

(* What was charged so far. *)
Charged == IF spends = <<>> THEN 0 ELSE spends[Len(spends)].sum

Spend(cost) ==
  LET b == Refilled(bucket)
      ok == b.tokens >= cost
  IN
  /\ Once("spend")
  /\ bucket' = IF ok THEN [b EXCEPT !.tokens = @ - cost] ELSE b
  /\ spends' = IF ok THEN Append(spends, [at |-> now, cost |-> cost, sum |-> Charged + cost]) ELSE spends
  /\ UNCHANGED <<now, last, passed, record, banned>>

(* evictLocked, run by a call that adds a key to a full table. *)
EvictBucket ==
  /\ bucket.known /\ Old(bucket.updated)
  /\ bucket' = NoBucket
  /\ UNCHANGED <<now, last, passed, spends, record, banned, calls>>

(* IsBanned *)
Banned == record.unlock >= 0 /\ now < record.unlock

(* handleAuthPenalty, NextPenalty: handshakes that passed the check before *)
(* the ban still end and still count.                                      *)
Mut_BanForgotten(r) ==
  IF r.fails + 1 >= FailLimit
  THEN [fails |-> 0, unlock |-> now + BanTime, seen |-> now]
  ELSE [r EXCEPT !.fails = @ + 1, !.seen = now, !.unlock = -1]

NextPenalty(r) ==
  IF r.fails + 1 >= FailLimit
  THEN [fails |-> 0, unlock |-> now + BanTime, seen |-> now]
  ELSE [r EXCEPT !.fails = @ + 1, !.seen = now]

AuthPenalty(inFlight) ==
  /\ Once("fail")
  /\ ~Banned \/ inFlight
  /\ record' = NextPenalty(record)
  /\ banned' = IF record.fails + 1 >= FailLimit THEN now + BanTime ELSE banned
  /\ UNCHANGED <<now, last, passed, bucket, spends>>

(* Authenticate: a login with a role clears the record, ban included. *)
RoleLogin ==
  /\ Once("fail")
  /\ record # NoRecord
  /\ record' = NoRecord
  /\ banned' = -1
  /\ UNCHANGED <<now, last, passed, bucket, spends>>

(* ShouldPrune: the ban is over, or the counter is idle. *)
ShouldPrune(r) ==
  \/ r.unlock >= 0 /\ now > r.unlock
  \/ r.seen >= 0 /\ now - r.seen > FailTTL

(* StartCleanupTasks *)
Cleanup ==
  /\ now % SweepEvery = 0 /\ Once("cleanup")
  /\ record' = IF ShouldPrune(record) THEN NoRecord ELSE record
  /\ UNCHANGED <<now, last, passed, bucket, spends, banned>>

Tick ==
  /\ now < MaxNow /\ now' = now + 1 /\ calls' = {}
  /\ UNCHANGED <<last, passed, bucket, spends, record, banned>>

LimitsInit ==
  /\ now = 0 /\ last = -1 /\ passed = -1 /\ bucket = NoBucket /\ spends = <<>>
  /\ record = NoRecord /\ banned = -1 /\ calls = {}

CooldownNext == Allow \/ SweepCooldown
BudgetNext   == (\E c \in Costs : Spend(c)) \/ EvictBucket
PenaltyNext  == (\E i \in BOOLEAN : AuthPenalty(i)) \/ RoleLogin \/ Cleanup

LimitsSpec == LimitsInit /\ [][CooldownNext \/ BudgetNext \/ PenaltyNext \/ Tick]_lvars

-----------------------------------------------------------------------------
(* Two calls a CooldownMap lets pass are at least a cooldown apart, also   *)
(* when the map is swept in between.                                       *)
Apart == passed' # passed => passed < 0 \/ passed' - passed >= Cooldown
CooldownHolds == [][Apart]_lvars

(* In any stretch of time a key spends at most the burst and what the      *)
(* bucket refilled meanwhile: refused calls, and an eviction after which   *)
(* the key starts with a full bucket, give nothing extra.                  *)
Spent(i, j) == spends[j].sum - spends[i].sum + spends[i].cost

SpendBounded ==
  \A i, j \in DOMAIN spends : i <= j =>
    Spent(i, j) <= Burst + PerTick * (spends[j].at - spends[i].at)

(* A ban is served in full unless a role logs in from the address: neither *)
(* a failure that was already under way nor the cleanup loop shortens it.  *)
BanServed == now < banned => Banned

(* The three limiters hold while their tables are swept under them.        *)
LimitsHold == [](SpendBounded /\ BanServed) /\ CooldownHolds
=============================================================================
