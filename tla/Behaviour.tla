---- MODULE Behaviour ----
(* The behaviour engine: server/behavior_engine.go over internal/behavior.  *)
(* Profiles live in a capped store; the engine keeps indexes beside it      *)
(* (scores, groups, names, the message count of the last score).  The       *)
(* screener's tick scores the addresses that are due, and a configuration   *)
(* with other thresholds or another number of tiers may be loaded between   *)
(* two scores.  What the features of a profile add up to is any value their *)
(* evidence allows; a score is a number up to Top.                          *)
EXTENDS Integers, Sequences, FiniteSets, FiniteSetsExt
CONSTANTS
  IPs, Subnet(_),   \* addresses, and the group key of each
  Top,
  Configs,          \* the configurations, in the order they are loaded: [enter, exit: tier -> score, keep: tier -> retention, members, every]
  Beta,             \* the group's weight, <<numerator, denominator>>
  Cap,              \* behaviorStoreCap
  Values,           \* the values the features of an address may add up to
  MaxTime, MaxEvents

(* What LoadAbuseConfig checks: a tier is left below the score it is        *)
(* entered at (ENTER > EXIT > previous ENTER), and a budget of messages is  *)
(* at least one.                                                            *)
ASSUME EngineAssumption ==
  /\ IsFiniteSet(IPs) /\ Top \in Nat /\ Values \subseteq 0..Top
  /\ Beta[1] \in Nat /\ Beta[2] \in Nat \ {0} /\ Cap \in Nat \ {0} /\ MaxTime \in Nat /\ MaxEvents \in Nat
  /\ Len(Configs) > 0 /\ Configs \in Seq([enter : Seq(Int), exit : Seq(Int), keep : Seq(Nat), members : Nat, every : Nat])
  /\ \A i \in DOMAIN Configs :
       LET c == Configs[i]
       IN  /\ Len(c.exit) = Len(c.enter) /\ c.every > 0
           /\ \A t \in DOMAIN c.enter : c.exit[t] <= c.enter[t]

VARIABLES
  time, config,
  store,            \* ip -> profile, for the stored ones
  ipScores, ipGroups, names, scoredAt,   \* the engine's indexes, for some ips
  members,          \* group key -> the addresses scored in it
  due,              \* Screener: the addresses the next tick scores
  saved,            \* the saved profiles
  events,           \* how much has been observed
  orphans,          \* the addresses whose profile the cap dropped, and
  since, drops,     \* messages and drops since an address was scored
  judged            \* and the configuration it was scored under
engineVars == <<time, config, store, ipScores, ipGroups, names, scoredAt, members, due, saved, events,
          orphans, since, drops, judged>>

MaxTier(c) == Len(c.enter)
Fresh == [seen |-> 0, evidence |-> FALSE, listed |-> FALSE, msgs |-> 0, tier |-> 0]
With(f, k, v) == [x \in DOMAIN f \cup {k} |-> IF x = k THEN v ELSE f[x]]
Without(f, ks) == [x \in DOMAIN f \ ks |-> f[x]]
NoOne == [x \in {} |-> Fresh]

(* Store.Get: over the cap one of the stalest profiles makes room.  The     *)
(* engine's indexes are not told.                                           *)
Gotten(ip) ==
  IF ip \in DOMAIN store THEN {store}
  ELSE IF Cardinality(DOMAIN store) < Cap THEN {With(store, ip, Fresh)}
  ELSE {With(Without(store, {v}), ip, Fresh) :
          v \in {x \in DOMAIN store : \A y \in DOMAIN store : store[x].seen <= store[y].seen}}
Dropped(s) == DOMAIN store \ DOMAIN s
Orphaned(s) == (orphans \cup Dropped(s)) \ (DOMAIN s \ DOMAIN store)

(* Profile.touch and the Add functions. *)
Touched(p) == [p EXCEPT !.seen = time, !.evidence = TRUE]

(* ObserveMessageAndDue: a counter that the cap has reset counts as due.    *)
Baseline(ip) == IF ip \in DOMAIN scoredAt THEN scoredAt[ip] ELSE 0
Mut_NoReset(ip, n) == n - Baseline(ip) >= config.every
DueForRescore(ip, n) == n < Baseline(ip) \/ n - Baseline(ip) >= config.every

ObserveMessage(ip) ==
  /\ events < MaxEvents /\ events' = events + 1
  /\ \E s \in Gotten(ip) :
       LET p == [Touched(s[ip]) EXCEPT !.msgs = @ + 1]
       IN  /\ store' = [s EXCEPT ![ip] = p]
           /\ due' = IF DueForRescore(ip, p.msgs) THEN due \cup {ip} ELSE due
           /\ orphans' = Orphaned(s)
           /\ drops' = [x \in IPs |-> IF x \in Dropped(s) THEN drops[x] + 1 ELSE drops[x]]
  /\ since' = [since EXCEPT ![ip] = @ + 1]
  /\ UNCHANGED <<time, config, ipScores, ipGroups, names, scoredAt, members, saved, judged>>

(* ObserveConnect, with the name it notes, and the events of other kinds    *)
(* (ObserveHTTP, ObserveErr, ObserveHistory, ObserveChallenge,              *)
(* ObserveDisconnect, SetBlocklisted).                                      *)
Observe(ip, kind) ==
  /\ events < MaxEvents /\ events' = events + 1
  /\ \E s \in Gotten(ip) :
       /\ store' = [s EXCEPT ![ip] =
                      IF kind = "blocklist" THEN [@ EXCEPT !.listed = TRUE] ELSE Touched(@)]
       /\ orphans' = Orphaned(s)
       /\ drops' = [x \in IPs |-> IF x \in Dropped(s) THEN drops[x] + 1 ELSE drops[x]]
  /\ names' = IF kind = "connect" THEN names \cup {ip} ELSE names
  /\ due' = IF kind = "connect" THEN due \cup {ip} ELSE due
  /\ UNCHANGED <<time, config, ipScores, ipGroups, scoredAt, members, saved, since, judged>>

(* FeatureValue and Aggregate: without evidence only a blocklist hit counts *)
Own(p) == IF p.evidence THEN Values ELSE IF p.listed THEN {Top} ELSE {0}

(* GroupAggregate: the mix of the worst and the mean.                       *)
GroupAggregate(in) ==
  LET n == Cardinality(in)
      sum == MapThenSumSet(LAMBDA x : ipScores[x], in)
      worst == Max({ipScores[x] : x \in in})
      mixed == (Beta[1] * (6 * worst * n + 4 * sum)) \div (Beta[2] * 10 * n)
  IN  IF mixed > Top THEN Top ELSE mixed

Combined(own, in) ==
  LET scored == in \cap DOMAIN ipScores
      g == IF Cardinality(in) < config.members \/ scored = {} THEN 0 ELSE GroupAggregate(scored)
  IN  IF g > own THEN g ELSE own

(* NextTier: up over every threshold entered, then down over every one left *)
Mut_OneLevel(s, cur, c) ==
  IF cur < MaxTier(c) /\ s >= c.enter[cur + 1] THEN cur + 1
  ELSE IF cur > 0 /\ s < c.exit[cur] THEN cur - 1 ELSE cur
NextTier(s, cur, c) ==
  LET from == IF cur > MaxTier(c) THEN MaxTier(c) ELSE cur
      up == Max({from} \cup {t \in (from + 1)..MaxTier(c) : \A u \in (from + 1)..t : s >= c.enter[u]})
  IN  Min({up} \cup {t \in 0..(up - 1) : \A u \in (t + 1)..up : s < c.exit[u]})

(* Score, for one address the tick finds due.                               *)
Score(ip) ==
  /\ ip \in due
  /\ due' = due \ {ip}
  /\ \E s \in Gotten(ip) : \E own \in Own(s[ip]) :
       LET g == Subnet(ip)
           in == (IF g \in DOMAIN members THEN members[g] ELSE {}) \cup {ip}
           sc == Combined(own, in)
           tier == NextTier(sc, s[ip].tier, config)
       IN  /\ store' = [s EXCEPT ![ip].tier = tier]
           /\ members' = With(members, g, in)
           /\ ipGroups' = ipGroups \cup {ip}
           /\ ipScores' = With(ipScores, ip, sc)
           /\ scoredAt' = With(scoredAt, ip, s[ip].msgs)
           /\ judged' = [judged EXCEPT ![ip] = config]
           /\ orphans' = Orphaned(s)
           /\ drops' = [x \in IPs |-> IF x = ip THEN 0 ELSE
                                      IF x \in Dropped(s) THEN drops[x] + 1 ELSE drops[x]]
  /\ since' = [since EXCEPT ![ip] = 0]
  /\ UNCHANGED <<time, config, names, saved, events>>

(* The periodic leg of the tick: Prune, which also clears the indexes ...   *)
Retention(p) == IF p.tier <= MaxTier(config) THEN config.keep[p.tier + 1] ELSE config.keep[1]
Mut_MembersStay(gone) == members
MembersWithout(gone) ==
  LET left == [g \in DOMAIN members |-> members[g] \ gone]
  IN  [g \in {x \in DOMAIN left : left[x] # {}} |-> left[g]]
Prune ==
  LET gone == {ip \in DOMAIN store : time - store[ip].seen > Retention(store[ip])}
  IN  /\ gone # {}
      /\ store' = Without(store, gone)
      /\ ipScores' = Without(ipScores, gone) /\ scoredAt' = Without(scoredAt, gone)
      /\ names' = names \ gone /\ ipGroups' = ipGroups \ gone
      /\ members' = MembersWithout(gone)
      /\ since' = [ip \in IPs |-> IF ip \in gone THEN 0 ELSE since[ip]]
      /\ drops' = [ip \in IPs |-> IF ip \in gone THEN 0 ELSE drops[ip]]
      /\ UNCHANGED <<time, config, due, saved, events, orphans, judged>>

(* ... and Save, under the engine's lock; the rename makes it one step.     *)
Save ==
  /\ saved = NoOne /\ store # NoOne /\ time = MaxTime     \* one save, behaviorSaveInterval after the start
  /\ saved' = store
  /\ UNCHANGED <<time, config, store, ipScores, ipGroups, names, scoredAt, members, due,
                 events, orphans, since, drops, judged>>

(* A crash, and the boot that loads the file: the indexes start empty.      *)
EngineRestart ==
  /\ store' = saved
  /\ ipScores' = [x \in {} |-> 0] /\ scoredAt' = [x \in {} |-> 0] /\ members' = [x \in {} |-> {}]
  /\ ipGroups' = {} /\ names' = {} /\ due' = {} /\ orphans' = {}
  /\ since' = [ip \in IPs |-> 0] /\ drops' = [ip \in IPs |-> 0]
  /\ judged' = [ip \in IPs |-> config]
  /\ UNCHANGED <<time, config, saved, events>>

ReloadTiers ==
  /\ config # Configs[Len(Configs)]
  /\ \E i \in DOMAIN Configs : config = Configs[i] /\ config' = Configs[i + 1]
  /\ UNCHANGED <<time, store, ipScores, ipGroups, names, scoredAt, members, due, saved, events,
                 orphans, since, drops, judged>>

Pass ==
  /\ time < MaxTime /\ time' = time + 1
  /\ UNCHANGED <<config, store, ipScores, ipGroups, names, scoredAt, members, due, saved, events,
                 orphans, since, drops, judged>>

EngineInit ==
  /\ time = 0 /\ config = Configs[1]
  /\ store = NoOne /\ saved = NoOne  /\ events = 0
  /\ ipScores = [x \in {} |-> 0] /\ scoredAt = [x \in {} |-> 0] /\ members = [x \in {} |-> {}]
  /\ ipGroups = {} /\ names = {} /\ due = {} /\ orphans = {}
  /\ since = [ip \in IPs |-> 0] /\ drops = [ip \in IPs |-> 0]
  /\ judged = [ip \in IPs |-> config]

EngineNext ==
  \/ \E ip \in IPs : ObserveMessage(ip) \/ Score(ip)
  \/ \E ip \in IPs, kind \in {"connect", "blocklist"} : Observe(ip, kind)
  \/ Prune \/ Save \/ EngineRestart \/ ReloadTiers \/ Pass

EngineSpec == EngineInit /\ [][EngineNext]_engineVars

-----------------------------------------------------------------------------
(* Between two configurations and however many tiers a score crosses, the   *)
(* tier an address was last given agrees with its score: it has not left    *)
(* its own threshold and has not entered the next one.                      *)
TierFitsScore ==
  \A ip \in DOMAIN store \cap DOMAIN ipScores :
    LET c == judged[ip]
        t == store[ip].tier
    IN  drops[ip] = 0 =>
          /\ t <= MaxTier(c)
          /\ t > 0 => ipScores[ip] >= c.exit[t]
          /\ t < MaxTier(c) => ipScores[ip] < c.enter[t + 1]

(* The indexes hold nothing of a profile that was pruned: every address in  *)
(* them is stored, or was dropped by the cap (those stay until a restart).  *)
IndexesOwned ==
  /\ DOMAIN ipScores \cup DOMAIN scoredAt \cup names \cup ipGroups \subseteq DOMAIN store \cup orphans
  /\ UNION {members[g] : g \in DOMAIN members} \subseteq DOMAIN store \cup orphans

(* An address that keeps talking is scored again: even when the cap drops   *)
(* its profile once in between, it is due within twice the budget, the      *)
(* largest one where a reload may have changed it since its last message.   *)
TalkersAreDue ==
  \A ip \in IPs :
    ((\A i \in DOMAIN Configs : since[ip] >= 2 * Configs[i].every) /\ drops[ip] <= 1) => ip \in due

(* The engine keeps up with its store: tiers with scores, indexes with      *)
(* profiles, and rescoring with talk, through eviction, crash and reload.   *)
EngineKeepsUp == TierFitsScore /\ IndexesOwned /\ TalkersAreDue
====
