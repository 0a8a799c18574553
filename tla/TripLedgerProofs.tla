-------------------------- MODULE TripLedgerProofs --------------------------
(***************************************************************************)
(* Theorems about the trip chains and the registry of published seeds, for *)
(* any sessions, keys, TTL, caps and bounds.  The invariant has five       *)
(* parts: the types, with the messages signed so far as the bound of every *)
(* number (LedgerTypes); the registry is as new as every announcement that *)
(* counts (ExposedInv); everything stored, held or kept as a tip was       *)
(* accepted, and what was accepted hangs together (ChainInv); the tip      *)
(* covers every number stored or in hand, and these differ (SeqInv); and a *)
(* session without an excuse is alone on its chain, with the frames on     *)
(* their way the next ones (StepInv).  A restart throws all of this away   *)
(* and rebuilds it from the log, so what the boot makes of any log is      *)
(* proved first, by induction over its records (BootIs).                   *)
(***************************************************************************)
EXTENDS TripLedger, FiniteSetTheorems, WellFoundedInduction, TLAPS

(* Induction over the numbers of records: a set of numbers has a least one.*)
Less == {ss \in Nat \X Nat : ss[1] < ss[2]}

LEMMA LessIsWellFounded == IsWellFoundedOn(Less, Nat)
<1>1. OpToRel(<, Nat) = Less
  BY Zenon DEF OpToRel, Less
<1> QED BY <1>1, NatLessThanWellFounded, Zenon

LEMMA LeastNumber == \A T \in SUBSET Nat : T # {} => \E m \in T : \A k \in T : m <= k
<1> SUFFICES ASSUME NEW T \in SUBSET Nat, T # {} PROVE \E m \in T : \A k \in T : m <= k
  OBVIOUS
<1>1. \E x \in T : \A y \in T : ~(<<y, x>> \in Less)
  BY LessIsWellFounded, WFMin, Zenon
<1>2. PICK m \in T : \A y \in T : ~(<<y, m>> \in Less)
  BY <1>1
<1>3. \A a, b \in Nat : a < b => <<a, b>> \in Less
  BY DEF Less
<1> HIDE DEF Less
<1>4. \A k \in T : ~(k < m)
  BY <1>2, <1>3
<1>5. \A k \in T : m <= k
  BY <1>4
<1> QED BY <1>5

(* The boot, record by record.                                             *)
Stages(log) == CHOOSE f : f = [i \in 0 .. Len(log) |-> IF i = 0 THEN BootState ELSE Rebuilt(f[i - 1], log[i])]

LEMMA BootIsLast == \A log : BootFold(log) = Stages(log)[Len(log)]
  BY DEF BootFold, Stages

IsStages(f, log, n) == f = [i \in 0 .. n |-> IF i = 0 THEN BootState ELSE Rebuilt(f[i - 1], log[i])]

LEMMA StagesUpTo == \A log : \A n \in Nat : \E f : IsStages(f, log, n)
<1> SUFFICES ASSUME NEW log PROVE \A n \in Nat : \E f : IsStages(f, log, n)
  OBVIOUS
<1> DEFINE T == {n \in Nat : ~\E f : IsStages(f, log, n)}
<1> SUFFICES ASSUME T # {} PROVE FALSE
  OBVIOUS
<1>1. PICK m \in T : \A k \in T : m <= k
  BY LeastNumber
<1>2. m \in Nat /\ ~\E f : IsStages(f, log, m)
  BY <1>1
<1>3. CASE m = 0
  <2>1. IsStages([i \in 0 .. 0 |-> BootState], log, 0)
    BY DEF IsStages
  <2> QED BY <1>2, <1>3, <2>1
<1>4. CASE m # 0
  <2>1. m - 1 \in Nat /\ m - 1 \notin T
    BY <1>1, <1>2, <1>4
  <2>2. PICK f : IsStages(f, log, m - 1)
    BY <2>1
  <2> DEFINE g == [i \in 0 .. m |-> IF i = m THEN Rebuilt(f[m - 1], log[m]) ELSE f[i]]
  <2>3. \A i \in 0 .. m : g[i] = IF i = 0 THEN BootState ELSE Rebuilt(g[i - 1], log[i])
    <3> SUFFICES ASSUME NEW i \in 0 .. m PROVE g[i] = IF i = 0 THEN BootState ELSE Rebuilt(g[i - 1], log[i])
      OBVIOUS
    <3>1. CASE i = m
      BY <1>2, <1>4, <3>1
    <3>2. CASE i # m
      <4>1. i \in 0 .. (m - 1) /\ (i # 0 => i - 1 \in 0 .. m /\ i - 1 # m)
        BY <1>2, <3>2
      <4>2. f[i] = IF i = 0 THEN BootState ELSE Rebuilt(f[i - 1], log[i])
        BY <2>2, <4>1 DEF IsStages
      <4> QED BY <3>2, <4>1, <4>2
    <3> QED BY <3>1, <3>2
  <2>4. g = [i \in 0 .. m |-> IF i = 0 THEN BootState ELSE Rebuilt(g[i - 1], log[i])]
    BY <2>3
  <2>5. IsStages(g, log, m)
    BY <2>4 DEF IsStages
  <2> QED BY <1>2, <2>5
<1> QED BY <1>3, <1>4

LEMMA StagesAre ==
  ASSUME NEW log, Len(log) \in Nat
  PROVE  \A i \in 0 .. Len(log) : Stages(log)[i] = IF i = 0 THEN BootState ELSE Rebuilt(Stages(log)[i - 1], log[i])
<1>1. \E f : IsStages(f, log, Len(log))
  BY StagesUpTo
<1>2. IsStages(Stages(log), log, Len(log))
  BY <1>1, Zenon DEF Stages, IsStages
<1> QED BY <1>2 DEF IsStages
-----------------------------------------------------------------------------
(* Types, with the messages signed so far and the clock as bounds.         *)
LedgerConstants ==
  /\ MaxNow \in Nat /\ MaxSent \in Nat /\ MaxBoots \in Nat /\ MaxFaults \in Nat /\ TTL \in Nat

Tips(n, m) == [seq : 0 .. n, prev : 0 .. n, seen : 0 .. m, known : BOOLEAN]
Chats(n, m) == [kind : {"chat"}, key : Keys, seq : 1 .. n, prev : 0 .. n, id : 1 .. n,
                flag : BOOLEAN, at : 0 .. m]
Notices(m) == [kind : {"notice"}, key : Keys, at : 0 .. m]
Lines(n, m) == Chats(n, m) \cup Notices(m)

(* What the boot has made of the first i records.                          *)
BootTypes(s, n, m, i) ==
  /\ s = [chains |-> s.chains, exposed |-> s.exposed, told |-> s.told, window |-> s.window]
  /\ s.chains \in [Keys -> Tips(n, m)] /\ s.exposed \in [Keys -> -1 .. m]
  /\ s.window \in Seq(Lines(n, m)) /\ Len(s.window) = i

BootTips(s, log, i) ==
  \A k \in Keys :
    /\ ~s.chains[k].known => s.chains[k].seq = 0 /\ s.chains[k].prev = 0
    /\ s.chains[k].known => \E p \in 1 .. i : /\ log[p].kind = "chat" /\ log[p].key = k
                                              /\ log[p].seq = s.chains[k].seq /\ log[p].id = s.chains[k].prev
    /\ \A p \in 1 .. i : log[p].kind = "chat" /\ log[p].key = k =>
         s.chains[k].known /\ log[p].seq <= s.chains[k].seq

BootExposed(s, log, i) ==
  \A k \in Keys :
    /\ s.exposed[k] = -1 \/ (i >= 1 /\ s.exposed[k] <= log[i].at)
    /\ \A p \in 1 .. i : log[p].kind = "notice" /\ log[p].key = k /\ now - log[p].at <= TTL =>
         s.exposed[k] >= log[p].at

BootFlags(s, log, i) ==
  /\ \A p \in 1 .. i : s.window[p].kind = log[p].kind /\ s.window[p].key = log[p].key
  /\ \A p \in 1 .. i : log[p].kind = "notice" => log[p].key \in s.told
  /\ \A p, q \in 1 .. i : p < q /\ log[p].kind = "notice" /\ log[q].kind = "chat"
                          /\ log[p].key = log[q].key => s.window[q].flag = TRUE

Booted(s, log, n, m, i) ==
  BootTypes(s, n, m, i) /\ BootTips(s, log, i) /\ BootExposed(s, log, i) /\ BootFlags(s, log, i)

(* Records in the order in which they were stored.                         *)
InTime(log) == \A p, q \in DOMAIN log : p < q => log[p].at <= log[q].at

LEMMA LineShapes ==
  ASSUME NEW n \in Nat, NEW m \in Nat, NEW r \in Lines(n, m)
  PROVE  /\ r.key \in Keys /\ r.at \in 0 .. m /\ r.kind \in {"chat", "notice"}
         /\ r.kind = "notice" <=> r \in Notices(m)
         /\ r.kind = "chat" <=> r \in Chats(n, m)
         /\ r.kind = "chat" => r.seq \in 1 .. n /\ r.prev \in 0 .. n /\ r.id \in 1 .. n
  BY DEF Lines, Chats, Notices

LEMMA RebuiltNotice ==
  ASSUME NEW s, s = [chains |-> s.chains, exposed |-> s.exposed, told |-> s.told, window |-> s.window],
         NEW r, r.kind = "notice"
  PROVE  LET t == Rebuilt(s, r) IN
         /\ t = [chains |-> t.chains, exposed |-> t.exposed, told |-> t.told, window |-> t.window]
         /\ t.chains = s.chains /\ t.told = s.told \cup {r.key} /\ t.window = Append(s.window, r)
         /\ t.exposed = [s.exposed EXCEPT ![r.key] = IF now - r.at > TTL THEN @ ELSE r.at]
  BY DEF Rebuilt

LEMMA RebuiltChat ==
  ASSUME NEW s, s = [chains |-> s.chains, exposed |-> s.exposed, told |-> s.told, window |-> s.window],
         NEW r, r.kind = "chat"
  PROVE  LET t == Rebuilt(s, r)
             live == Live(s.exposed[r.key])
         IN
         /\ t = [chains |-> t.chains, exposed |-> t.exposed, told |-> t.told, window |-> t.window]
         /\ t.chains = [s.chains EXCEPT ![r.key] = ApplyTripChain(@, r)] /\ t.told = s.told
         /\ t.window = Append(s.window, [r EXCEPT !.flag = r.flag \/ (r.key \in s.told \/ live)])
         /\ t.exposed = [s.exposed EXCEPT ![r.key] = IF r.key \notin s.told /\ live /\ r.at > @ THEN r.at ELSE @]
<1>1. r.kind # "notice"
  OBVIOUS
<1> HIDE DEF Live
<1> QED BY <1>1 DEF Rebuilt

LEMMA RebuildNotice ==
  ASSUME LedgerConstants, now \in 0 .. MaxNow, NEW n \in Nat,
         NEW log \in Seq(Lines(n, now)), InTime(log), NEW i \in 1 .. Len(log),
         NEW s, Booted(s, log, n, now, i - 1), log[i].kind = "notice"
  PROVE  Booted(Rebuilt(s, log[i]), log, n, now, i)
<1> DEFINE r == log[i]
           t == Rebuilt(s, r)
<1>0. /\ r \in Lines(n, now) /\ r.key \in Keys /\ r.at \in 0 .. now /\ now \in Nat /\ TTL \in Nat
      /\ i \in Nat /\ i - 1 \in Nat /\ Len(log) \in Nat
  BY LineShapes DEF LedgerConstants
<1>s. /\ s = [chains |-> s.chains, exposed |-> s.exposed, told |-> s.told, window |-> s.window]
      /\ s.chains \in [Keys -> Tips(n, now)] /\ s.exposed \in [Keys -> -1 .. now]
      /\ s.window \in Seq(Lines(n, now)) /\ Len(s.window) = i - 1
  BY DEF Booted, BootTypes
<1>t. /\ t = [chains |-> t.chains, exposed |-> t.exposed, told |-> t.told, window |-> t.window]
      /\ t.chains = s.chains /\ t.told = s.told \cup {r.key} /\ t.window = Append(s.window, r)
      /\ t.exposed = [s.exposed EXCEPT ![r.key] = IF now - r.at > TTL THEN @ ELSE r.at]
  <2>1. r.kind = "notice"
    OBVIOUS
  <2> HIDE DEF r
  <2> QED BY <1>s, <2>1, RebuiltNotice, Zenon
<1>p. \A p \in 1 .. i : p = i \/ (p \in 1 .. (i - 1) /\ p \in DOMAIN log /\ log[p].at <= r.at /\ log[p] \in Lines(n, now))
  <2>1. ASSUME NEW p \in 1 .. i, p # i
        PROVE  p \in 1 .. (i - 1) /\ p \in DOMAIN log /\ i \in DOMAIN log /\ p < i /\ log[p] \in Lines(n, now)
    BY <1>0, <2>1
  <2> QED BY <2>1 DEF InTime
<1> HIDE DEF t, r
<1>w. /\ t.window \in Seq(Lines(n, now)) /\ Len(t.window) = i /\ t.window[i] = r
      /\ \A p \in 1 .. (i - 1) : t.window[p] = s.window[p]
  BY <1>0, <1>s, <1>t
<1>1. BootTypes(t, n, now, i)
  <2>1. t.exposed \in [Keys -> -1 .. now]
    BY <1>0, <1>s, <1>t
  <2> QED BY <1>s, <1>t, <1>w, <2>1 DEF BootTypes
<1>2. BootTips(t, log, i)
  <2> SUFFICES ASSUME NEW k \in Keys
               PROVE  /\ ~t.chains[k].known => t.chains[k].seq = 0 /\ t.chains[k].prev = 0
                      /\ t.chains[k].known => \E p \in 1 .. i : /\ log[p].kind = "chat" /\ log[p].key = k
                                                                /\ log[p].seq = t.chains[k].seq /\ log[p].id = t.chains[k].prev
                      /\ \A p \in 1 .. i : log[p].kind = "chat" /\ log[p].key = k =>
                           t.chains[k].known /\ log[p].seq <= t.chains[k].seq
    BY DEF BootTips
  <2>1. /\ ~s.chains[k].known => s.chains[k].seq = 0 /\ s.chains[k].prev = 0
        /\ s.chains[k].known => \E p \in 1 .. (i - 1) : /\ log[p].kind = "chat" /\ log[p].key = k
                                                  /\ log[p].seq = s.chains[k].seq /\ log[p].id = s.chains[k].prev
        /\ \A p \in 1 .. (i - 1) : log[p].kind = "chat" /\ log[p].key = k =>
             s.chains[k].known /\ log[p].seq <= s.chains[k].seq
    BY DEF Booted, BootTips
  <2>2. 1 .. (i - 1) \subseteq 1 .. i /\ \A p \in 1 .. i : log[p].kind = "chat" => p \in 1 .. (i - 1)
    BY <1>0, <1>p
  <2> QED BY <1>t, <2>1, <2>2
<1>3. BootExposed(t, log, i)
  <2> SUFFICES ASSUME NEW k \in Keys
               PROVE  /\ t.exposed[k] = -1 \/ (i >= 1 /\ t.exposed[k] <= log[i].at)
                      /\ \A p \in 1 .. i : log[p].kind = "notice" /\ log[p].key = k /\ now - log[p].at <= TTL =>
                           t.exposed[k] >= log[p].at
    BY DEF BootExposed
  <2>1. /\ s.exposed[k] = -1 \/ (i - 1 >= 1 /\ s.exposed[k] <= log[i - 1].at)
        /\ \A p \in 1 .. (i - 1) : log[p].kind = "notice" /\ log[p].key = k /\ now - log[p].at <= TTL =>
             s.exposed[k] >= log[p].at
    BY DEF Booted, BootExposed
  <2>2. s.exposed[k] \in -1 .. now /\ (s.exposed[k] = -1 \/ s.exposed[k] <= r.at)
    <3>1. i - 1 >= 1 => log[i - 1].at \in Nat /\ log[i - 1].at <= r.at
      BY <1>0, <1>p, LineShapes
    <3> QED BY <1>0, <1>s, <2>1, <3>1
  <2>3. t.exposed[k] = IF k = r.key /\ ~(now - r.at > TTL) THEN r.at ELSE s.exposed[k]
    BY <1>0, <1>s, <1>t
  <2>4. t.exposed[k] = -1 \/ t.exposed[k] <= r.at
    BY <1>0, <2>2, <2>3
  <2>5. ASSUME NEW p \in 1 .. i, log[p].kind = "notice", log[p].key = k, now - log[p].at <= TTL
        PROVE  t.exposed[k] >= log[p].at
    <3>1. log[p].at \in Nat /\ log[p].at <= r.at
      <4>1. CASE p = i
        BY <1>0, <4>1 DEF r
      <4>2. CASE p # i
        <5>1. log[p] \in Lines(n, now) /\ log[p].at <= r.at
          BY <1>p, <4>2
        <5>2. log[p].at \in 0 .. now
          BY <1>0, <5>1, LineShapes
        <5> QED BY <1>0, <5>1, <5>2
      <4> QED BY <4>1, <4>2
    <3>2. CASE p = i
      BY <1>0, <2>3, <2>5, <3>1, <3>2 DEF r
    <3>3. CASE p # i
      BY <1>0, <1>p, <2>1, <2>2, <2>3, <2>5, <3>1, <3>3
    <3> QED BY <3>2, <3>3
  <2> QED BY <1>0, <2>4, <2>5 DEF r
<1>4. BootFlags(t, log, i)
  <2>1. /\ \A p \in 1 .. (i - 1) : s.window[p].kind = log[p].kind /\ s.window[p].key = log[p].key
        /\ \A p \in 1 .. (i - 1) : log[p].kind = "notice" => log[p].key \in s.told
        /\ \A p, q \in 1 .. (i - 1) : p < q /\ log[p].kind = "notice" /\ log[q].kind = "chat"
                                /\ log[p].key = log[q].key => s.window[q].flag = TRUE
    BY DEF Booted, BootFlags
  <2>2. \A p \in 1 .. i : t.window[p].kind = log[p].kind /\ t.window[p].key = log[p].key
    BY <1>p, <1>w, <2>1 DEF r
  <2>3. \A p \in 1 .. i : log[p].kind = "notice" => log[p].key \in t.told
    BY <1>p, <1>t, <2>1 DEF r
  <2>4. ASSUME NEW p \in 1 .. i, NEW q \in 1 .. i, p < q, log[p].kind = "notice", log[q].kind = "chat",
               log[p].key = log[q].key
        PROVE  t.window[q].flag = TRUE
    <3>1. q \in 1 .. (i - 1) /\ p \in 1 .. (i - 1)
      BY <1>0, <1>p, <2>4
    <3> QED BY <1>w, <2>1, <2>4, <3>1
  <2> QED BY <2>2, <2>3, <2>4 DEF BootFlags
<1> QED BY <1>1, <1>2, <1>3, <1>4 DEF Booted, t, r
LEMMA RebuildChat ==
  ASSUME LedgerConstants, now \in 0 .. MaxNow, NEW n \in Nat,
         NEW log \in Seq(Lines(n, now)), InTime(log), NEW i \in 1 .. Len(log),
         NEW s, Booted(s, log, n, now, i - 1), log[i].kind = "chat"
  PROVE  Booted(Rebuilt(s, log[i]), log, n, now, i)
<1> DEFINE r == log[i]
           t == Rebuilt(s, r)
           live == Live(s.exposed[r.key])
           line == [r EXCEPT !.flag = r.flag \/ (r.key \in s.told \/ live)]
<1>0. /\ r \in Lines(n, now) /\ r.key \in Keys /\ r.at \in 0 .. now /\ now \in Nat /\ TTL \in Nat
      /\ i \in Nat /\ i - 1 \in Nat /\ Len(log) \in Nat
      /\ r \in Chats(n, now) /\ r.seq \in 1 .. n /\ r.prev \in 0 .. n /\ r.id \in 1 .. n
  BY LineShapes DEF LedgerConstants
<1>s. /\ s = [chains |-> s.chains, exposed |-> s.exposed, told |-> s.told, window |-> s.window]
      /\ s.chains \in [Keys -> Tips(n, now)] /\ s.exposed \in [Keys -> -1 .. now]
      /\ s.window \in Seq(Lines(n, now)) /\ Len(s.window) = i - 1
  BY DEF Booted, BootTypes
<1>t. /\ t = [chains |-> t.chains, exposed |-> t.exposed, told |-> t.told, window |-> t.window]
      /\ t.chains = [s.chains EXCEPT ![r.key] = ApplyTripChain(@, r)] /\ t.told = s.told
      /\ t.window = Append(s.window, line)
      /\ t.exposed = [s.exposed EXCEPT ![r.key] = IF r.key \notin s.told /\ live /\ r.at > @ THEN r.at ELSE @]
  BY <1>s, RebuiltChat
<1>p. \A p \in 1 .. i : p = i \/ (p \in 1 .. (i - 1) /\ p \in DOMAIN log /\ log[p].at <= r.at /\ log[p] \in Lines(n, now))
  <2>1. ASSUME NEW p \in 1 .. i, p # i
        PROVE  p \in 1 .. (i - 1) /\ p \in DOMAIN log /\ i \in DOMAIN log /\ p < i /\ log[p] \in Lines(n, now)
    BY <1>0, <2>1
  <2> QED BY <2>1 DEF InTime
<1>l. /\ line \in Lines(n, now) /\ line.kind = "chat" /\ line.key = r.key
      /\ r.key \in s.told => line.flag = TRUE
  <2>1. PICK b : b = (r.flag \/ (r.key \in s.told \/ live))
    OBVIOUS
  <2>2. b \in BOOLEAN /\ (r.key \in s.told => b = TRUE)
    BY <2>1, Zenon
  <2>3. line = [r EXCEPT !.flag = b]
    BY <2>1, Zenon
  <2> HIDE DEF line, live
  <2> QED BY <1>0, <2>2, <2>3 DEF Lines, Chats
<1> HIDE DEF t, r, line, live
<1>w. /\ t.window \in Seq(Lines(n, now)) /\ Len(t.window) = i /\ t.window[i] = line
      /\ \A p \in 1 .. (i - 1) : t.window[p] = s.window[p]
  BY <1>0, <1>s, <1>t, <1>l
<1> DEFINE tip == s.chains[r.key]
           new == ApplyTripChain(tip, r)
<1>a. /\ new \in Tips(n, now) /\ new.known /\ r.seq <= new.seq
      /\ \/ new = tip /\ tip.known
         \/ new.seq = r.seq /\ new.prev = r.id /\ (tip.known => tip.seq <= r.seq)
  <2>1. tip \in Tips(n, now) /\ tip.seq \in 0 .. n
    BY <1>0, <1>s DEF Tips
  <2>2. CASE tip.known /\ r.seq <= tip.seq
    BY <2>1, <2>2 DEF ApplyTripChain
  <2>3. CASE ~(tip.known /\ r.seq <= tip.seq)
    <3>1. new = [seq |-> r.seq, prev |-> r.id, seen |-> now, known |-> TRUE]
      BY <2>3 DEF ApplyTripChain
    <3>2. new \in Tips(n, now)
      BY <1>0, <3>1 DEF Tips
    <3> QED BY <1>0, <2>1, <2>3, <3>1, <3>2
  <2> QED BY <2>2, <2>3
<1>c. t.chains[r.key] = new /\ \A k \in Keys : k # r.key => t.chains[k] = s.chains[k]
  BY <1>0, <1>s, <1>t
<1>1. BootTypes(t, n, now, i)
  <2>1. t.exposed \in [Keys -> -1 .. now]
    BY <1>0, <1>s, <1>t
  <2>2. t.chains \in [Keys -> Tips(n, now)]
    BY <1>0, <1>s, <1>t, <1>a
  <2> QED BY <1>t, <1>w, <2>1, <2>2 DEF BootTypes
<1> HIDE DEF new
<1>2. BootTips(t, log, i)
  <2> SUFFICES ASSUME NEW k \in Keys
               PROVE  /\ ~t.chains[k].known => t.chains[k].seq = 0 /\ t.chains[k].prev = 0
                      /\ t.chains[k].known => \E p \in 1 .. i : /\ log[p].kind = "chat" /\ log[p].key = k
                                                                /\ log[p].seq = t.chains[k].seq /\ log[p].id = t.chains[k].prev
                      /\ \A p \in 1 .. i : log[p].kind = "chat" /\ log[p].key = k =>
                           t.chains[k].known /\ log[p].seq <= t.chains[k].seq
    BY DEF BootTips
  <2>1. /\ ~s.chains[k].known => s.chains[k].seq = 0 /\ s.chains[k].prev = 0
        /\ s.chains[k].known => \E p \in 1 .. (i - 1) : /\ log[p].kind = "chat" /\ log[p].key = k
                                                  /\ log[p].seq = s.chains[k].seq /\ log[p].id = s.chains[k].prev
        /\ \A p \in 1 .. (i - 1) : log[p].kind = "chat" /\ log[p].key = k =>
             s.chains[k].known /\ log[p].seq <= s.chains[k].seq
    BY DEF Booted, BootTips
  <2>2. 1 .. (i - 1) \subseteq 1 .. i /\ i \in 1 .. i
    BY <1>0
  <2>3. CASE k # r.key
    <3>1. \A p \in 1 .. i : log[p].key = k => p \in 1 .. (i - 1)
      BY <1>p, <2>3 DEF r
    <3> QED BY <1>c, <2>1, <2>2, <2>3, <3>1
  <2>4. CASE k = r.key
    <3>1. t.chains[k].known
      BY <1>a, <1>c, <2>4
    <3>2. \E p \in 1 .. i : /\ log[p].kind = "chat" /\ log[p].key = k
                            /\ log[p].seq = t.chains[k].seq /\ log[p].id = t.chains[k].prev
      <4>1. CASE new = tip /\ tip.known
        BY <1>c, <2>1, <2>2, <2>4, <4>1
      <4>2. CASE new.seq = r.seq /\ new.prev = r.id
        BY <1>c, <2>2, <2>4, <4>2 DEF r
      <4> QED BY <1>a, <4>1, <4>2
    <3>3. ASSUME NEW p \in 1 .. i, log[p].kind = "chat", log[p].key = k PROVE log[p].seq <= t.chains[k].seq
      <4>1. CASE p = i
        BY <1>a, <1>c, <2>4, <4>1 DEF r
      <4>2. CASE p # i
        <5>1. p \in 1 .. (i - 1) /\ log[p].seq \in 1 .. n
          BY <1>p, <3>3, <4>2, LineShapes
        <5>2. tip.known /\ log[p].seq <= tip.seq
          BY <2>1, <2>4, <3>3, <5>1
        <5>3. tip.seq \in 0 .. n
          BY <1>0, <1>s DEF Tips
        <5>4. tip.seq <= new.seq /\ new.seq \in 0 .. n
          BY <1>0, <1>a, <5>2, <5>3 DEF Tips
        <5> QED BY <1>c, <2>4, <5>1, <5>2, <5>3, <5>4
      <4> QED BY <4>1, <4>2
    <3> QED BY <3>1, <3>2, <3>3
  <2> QED BY <2>3, <2>4
<1>3. BootExposed(t, log, i)
  <2> SUFFICES ASSUME NEW k \in Keys
               PROVE  /\ t.exposed[k] = -1 \/ (i >= 1 /\ t.exposed[k] <= log[i].at)
                      /\ \A p \in 1 .. i : log[p].kind = "notice" /\ log[p].key = k /\ now - log[p].at <= TTL =>
                           t.exposed[k] >= log[p].at
    BY DEF BootExposed
  <2>1. /\ s.exposed[k] = -1 \/ (i - 1 >= 1 /\ s.exposed[k] <= log[i - 1].at)
        /\ \A p \in 1 .. (i - 1) : log[p].kind = "notice" /\ log[p].key = k /\ now - log[p].at <= TTL =>
             s.exposed[k] >= log[p].at
    BY DEF Booted, BootExposed
  <2>2. s.exposed[k] \in -1 .. now /\ (s.exposed[k] = -1 \/ s.exposed[k] <= r.at)
    <3>1. i - 1 >= 1 => log[i - 1].at \in Nat /\ log[i - 1].at <= r.at
      BY <1>0, <1>p, LineShapes
    <3> QED BY <1>0, <1>s, <2>1, <3>1
  <2>3. t.exposed[k] = s.exposed[k] \/ (t.exposed[k] = r.at /\ r.at > s.exposed[k])
    BY <1>0, <1>s, <1>t
  <2>4. t.exposed[k] = -1 \/ t.exposed[k] <= r.at
    BY <1>0, <2>2, <2>3
  <2>5. ASSUME NEW p \in 1 .. i, log[p].kind = "notice", log[p].key = k, now - log[p].at <= TTL
        PROVE  t.exposed[k] >= log[p].at
    <3>1. p \in 1 .. (i - 1) /\ log[p].at \in Nat
      BY <1>p, <2>5, LineShapes
    <3>2. s.exposed[k] >= log[p].at
      BY <2>1, <2>5, <3>1
    <3> QED BY <1>0, <2>2, <2>3, <3>1, <3>2
  <2> QED BY <1>0, <2>4, <2>5 DEF r
<1>4. BootFlags(t, log, i)
  <2>1. /\ \A p \in 1 .. (i - 1) : s.window[p].kind = log[p].kind /\ s.window[p].key = log[p].key
        /\ \A p \in 1 .. (i - 1) : log[p].kind = "notice" => log[p].key \in s.told
        /\ \A p, q \in 1 .. (i - 1) : p < q /\ log[p].kind = "notice" /\ log[q].kind = "chat"
                                /\ log[p].key = log[q].key => s.window[q].flag = TRUE
    BY DEF Booted, BootFlags
  <2>2. \A p \in 1 .. i : t.window[p].kind = log[p].kind /\ t.window[p].key = log[p].key
    BY <1>p, <1>w, <1>l, <2>1 DEF r
  <2>3. \A p \in 1 .. i : log[p].kind = "notice" => log[p].key \in t.told
    BY <1>p, <1>t, <2>1
  <2>4. ASSUME NEW p \in 1 .. i, NEW q \in 1 .. i, p < q, log[p].kind = "notice", log[q].kind = "chat",
               log[p].key = log[q].key
        PROVE  t.window[q].flag = TRUE
    <3>1. p \in 1 .. (i - 1)
      BY <1>0, <1>p, <2>4
    <3>2. CASE q = i
      BY <1>w, <1>l, <2>1, <2>4, <3>1, <3>2 DEF r
    <3>3. CASE q # i
      <4>1. q \in 1 .. (i - 1)
        BY <1>p, <3>3
      <4> QED BY <1>w, <2>1, <2>4, <3>1, <4>1
    <3> QED BY <3>2, <3>3
  <2> QED BY <2>2, <2>3, <2>4 DEF BootFlags
<1> QED BY <1>1, <1>2, <1>3, <1>4 DEF Booted, t, r

(* InitHistoryStore, for a log of any length.                              *)
LEMMA BootIs ==
  ASSUME LedgerConstants, now \in 0 .. MaxNow, NEW n \in Nat, NEW log \in Seq(Lines(n, now)), InTime(log)
  PROVE  Booted(BootFold(log), log, n, now, Len(log))
<1> DEFINE f == Stages(log)
           T == {i \in 0 .. Len(log) : ~Booted(f[i], log, n, now, i)}
<1>0. Len(log) \in Nat /\ \A i \in 0 .. Len(log) : f[i] = IF i = 0 THEN BootState ELSE Rebuilt(f[i - 1], log[i])
  BY StagesAre
<1> HIDE DEF f
<1>1. Booted(f[0], log, n, now, 0)
  <2>1. f[0] = BootState
    BY <1>0
  <2>2. /\ BootState.chains = [k \in Keys |-> NoTip] /\ BootState.exposed = [k \in Keys |-> -1]
        /\ BootState.window = <<>>
        /\ BootState = [chains |-> BootState.chains, exposed |-> BootState.exposed,
                        told |-> BootState.told, window |-> BootState.window]
    BY DEF BootState
  <2>3. NoTip \in Tips(n, now) /\ ~NoTip.known /\ NoTip.seq = 0 /\ NoTip.prev = 0
    BY DEF NoTip, Tips, LedgerConstants
  <2>4. BootTypes(BootState, n, now, 0)
    BY <2>2, <2>3 DEF BootTypes, LedgerConstants
  <2>5. BootTips(BootState, log, 0) /\ BootExposed(BootState, log, 0) /\ BootFlags(BootState, log, 0)
    BY <2>2, <2>3 DEF BootTips, BootExposed, BootFlags
  <2> QED BY <2>1, <2>4, <2>5 DEF Booted
<1>2. T = {}
  <2> SUFFICES ASSUME T # {} PROVE FALSE
    OBVIOUS
  <2>1. T \in SUBSET Nat
    BY <1>0
  <2>2. PICK i \in T : \A k \in T : i <= k
    BY <2>1, LeastNumber
  <2>3. i \in 0 .. Len(log) /\ ~Booted(f[i], log, n, now, i)
    BY <2>2
  <2>4. i # 0
    BY <1>1, <2>3
  <2>5. i \in 1 .. Len(log) /\ i - 1 \in 0 .. Len(log)
    BY <1>0, <2>3, <2>4
  <2>6. i - 1 \notin T
    BY <2>2, <2>3
  <2>7. Booted(f[i - 1], log, n, now, i - 1)
    BY <2>5, <2>6
  <2>8. log[i].kind \in {"chat", "notice"}
    BY <2>5, LineShapes DEF LedgerConstants
  <2>9. f[i] = Rebuilt(f[i - 1], log[i])
    BY <1>0, <2>3, <2>4
  <2>10. Booted(Rebuilt(f[i - 1], log[i]), log, n, now, i)
    BY <2>5, <2>7, <2>8, RebuildNotice, RebuildChat
  <2> QED BY <2>3, <2>9, <2>10
<1>3. Booted(f[Len(log)], log, n, now, Len(log))
  BY <1>0, <1>2
<1> QED BY <1>3, BootIsLast DEF f
-----------------------------------------------------------------------------
(* The state.                                                              *)
ChatFrames(n) == [kind : {"chat"}, key : Keys, id : 1 .. n, seq : 1 .. n, prev : 0 .. n]
Reveals == [kind : {"reveal"}, key : Keys]
Frames(n) == ChatFrames(n) \cup Reveals
Handling(n, m) == [at : {"linked", "loaded"}, frame : ChatFrames(n), loaded : -1 .. m]
Revealing(m) == [at : {"reveal", "announce"}, frame : Reveals, loaded : -1 .. m]
Pumps(n, m) == Handling(n, m) \cup Revealing(m) \cup {Idle}
Clients(n) == [on : BOOLEAN, key : Keys \cup {NoKey}, seq : 0 .. n, prev : 0 .. n]
Histories(n) == [accepted : SUBSET ChatFrames(n), refused : SUBSET Sessions, excused : SUBSET Sessions,
                 pruned : SUBSET Keys, lost : SUBSET Keys, booted : Nat]

Counted ==
  /\ now \in 0 .. MaxNow /\ sent \in 0 .. MaxSent /\ boots \in 0 .. MaxBoots
  /\ reveals \in 0 .. MaxSent /\ faults \in 0 .. MaxFaults

ServerTyped(n, m) ==
  /\ chains \in [Keys -> Tips(n, m)] /\ exposed \in [Keys -> -1 .. m]
  /\ disk \in Seq(Lines(n, m)) /\ window \in Seq(Lines(n, m))
  /\ hist \in Histories(n)

ClientTyped(n, m) ==
  /\ client \in [Sessions -> Clients(n)]
  /\ up \in [Sessions -> Seq(Frames(n))]
  /\ pump \in [Sessions -> Pumps(n, m)]

Owned ==
  \A c \in Sessions : /\ client[c].on => client[c].key \in Keys
                      /\ \A i \in DOMAIN up[c] : up[c][i].key = client[c].key

Measured ==
  /\ Len(window) = Len(disk) /\ hist.booted <= Len(disk)
  /\ \A k \in Keys : ~chains[k].known => chains[k].seq = 0 /\ chains[k].prev = 0

LedgerTypes == Counted /\ ServerTyped(sent, now) /\ ClientTyped(sent, now) /\ Owned /\ Measured

LEMMA SetsGrow ==
  ASSUME NEW n \in Nat, NEW n2 \in Nat, n <= n2, NEW m \in Nat, NEW m2 \in Nat, m <= m2
  PROVE  /\ Tips(n, m) \subseteq Tips(n2, m2) /\ Lines(n, m) \subseteq Lines(n2, m2)
         /\ Frames(n) \subseteq Frames(n2) /\ ChatFrames(n) \subseteq ChatFrames(n2)
         /\ Pumps(n, m) \subseteq Pumps(n2, m2) /\ Clients(n) \subseteq Clients(n2)
         /\ Histories(n) \subseteq Histories(n2)
<1>r. 0 .. n \subseteq 0 .. n2 /\ 1 .. n \subseteq 1 .. n2 /\ 0 .. m \subseteq 0 .. m2 /\ -1 .. m \subseteq -1 .. m2
  OBVIOUS
<1>1. Tips(n, m) \subseteq Tips(n2, m2)
  BY <1>r, Zenon DEF Tips
<1>2. Lines(n, m) \subseteq Lines(n2, m2)
  <2>1. Chats(n, m) \subseteq Chats(n2, m2)
    BY <1>r, Zenon DEF Chats
  <2>2. Notices(m) \subseteq Notices(m2)
    BY <1>r, Zenon DEF Notices
  <2> QED BY <2>1, <2>2 DEF Lines
<1>3. ChatFrames(n) \subseteq ChatFrames(n2)
  BY <1>r, Zenon DEF ChatFrames
<1>4. Frames(n) \subseteq Frames(n2)
  BY <1>3 DEF Frames
<1>5. Pumps(n, m) \subseteq Pumps(n2, m2)
  <2>1. Handling(n, m) \subseteq Handling(n2, m2)
    BY <1>r, <1>3, Zenon DEF Handling
  <2>2. Revealing(m) \subseteq Revealing(m2)
    BY <1>r, Zenon DEF Revealing
  <2> QED BY <2>1, <2>2 DEF Pumps
<1>6. Clients(n) \subseteq Clients(n2)
  BY <1>r, Zenon DEF Clients
<1>7. Histories(n) \subseteq Histories(n2)
  <2>1. SUBSET ChatFrames(n) \subseteq SUBSET ChatFrames(n2)
    BY <1>3
  <2> QED BY <2>1, Zenon DEF Histories
<1> QED BY <1>1, <1>2, <1>3, <1>4, <1>5, <1>6, <1>7

LEMMA SeqsGrow == \A S, T : S \subseteq T => Seq(S) \subseteq Seq(T)
  OBVIOUS

LEMMA TypesGrow ==
  ASSUME NEW n \in Nat, NEW n2 \in Nat, n <= n2, NEW m \in Nat, NEW m2 \in Nat, m <= m2,
         ServerTyped(n, m), ClientTyped(n, m)
  PROVE  ServerTyped(n2, m2) /\ ClientTyped(n2, m2)
<1>r. -1 .. m \subseteq -1 .. m2
  OBVIOUS
<1>1. \A A, S, T : S \subseteq T => [A -> S] \subseteq [A -> T]
  OBVIOUS
<1>2. Seq(Lines(n, m)) \subseteq Seq(Lines(n2, m2)) /\ Seq(Frames(n)) \subseteq Seq(Frames(n2))
  BY SetsGrow, SeqsGrow
<1>3. ServerTyped(n2, m2)
  BY <1>r, <1>1, <1>2, SetsGrow, Zenon DEF ServerTyped
<1>4. ClientTyped(n2, m2)
  BY <1>1, <1>2, SetsGrow, Zenon DEF ClientTyped
<1> QED BY <1>3, <1>4

(* A session and the server in step: the chat frames on their way are the  *)
(* next ones of the chain, and the client will continue the last of them.  *)
FirstChat(s, i) == i \in DOMAIN s /\ s[i].kind = "chat" /\ \A j \in DOMAIN s : j < i => s[j].kind # "chat"
LastChat(s, i)  == i \in DOMAIN s /\ s[i].kind = "chat" /\ \A j \in DOMAIN s : i < j => s[j].kind # "chat"
NextChat(s, i, j) ==
  /\ i \in DOMAIN s /\ j \in DOMAIN s /\ i < j /\ s[i].kind = "chat" /\ s[j].kind = "chat"
  /\ \A l \in DOMAIN s : i < l /\ l < j => s[l].kind # "chat"

Linked(s) == \A i, j \in DOMAIN s : NextChat(s, i, j) => s[j].seq = s[i].seq + 1 /\ s[j].prev = s[i].id
Starts(s, tip) == \A i \in DOMAIN s : FirstChat(s, i) => s[i].seq = tip.seq + 1 /\ s[i].prev = tip.prev
Ends(s, tip, e) ==
  /\ \A i \in DOMAIN s : LastChat(s, i) => e.seq = s[i].seq /\ e.prev = s[i].id
  /\ (\A i \in DOMAIN s : s[i].kind # "chat") => e.seq = tip.seq /\ e.prev = tip.prev

Follows(s, tip, e) == Linked(s) /\ Starts(s, tip) /\ (e.on => Ends(s, tip, e))

InStep == \A c \in Sessions \ hist.excused : Follows(up[c], chains[client[c].key], client[c])

(* ... and nobody else moves its chain.                                    *)
Active(c) == client[c].on \/ up[c] # <<>> \/ pump[c].at # "read"
Alone ==
  \A c \in Sessions \ hist.excused, d \in Sessions :
    d # c /\ client[d].key = client[c].key /\ Active(c) => ~Active(d)

StepInv == InStep /\ Alone /\ RefusedIsExcused

(* What is accepted hangs together, and every tip and stored line is       *)
(* something that was accepted.                                            *)
Extends(key, seq, prev) ==
  \/ seq = 1 /\ prev = 0
  \/ \E g \in hist.accepted : g.key = key /\ g.id = prev /\ g.seq = seq - 1
Accepted(key, seq, id) == \E g \in hist.accepted : g.key = key /\ g.seq = seq /\ g.id = id

ChainInv ==
  /\ \A f \in hist.accepted : Extends(f.key, f.seq, f.prev)
  /\ \A k \in Keys : chains[k].known => Accepted(k, chains[k].seq, chains[k].prev)
  /\ \A i \in DOMAIN disk : disk[i].kind = "chat" =>
       Accepted(disk[i].key, disk[i].seq, disk[i].id) /\ Extends(disk[i].key, disk[i].seq, disk[i].prev)
  /\ \A c \in Sessions : pump[c].at \in {"linked", "loaded"} => pump[c].frame \in hist.accepted

(* Until a key's tip is pruned, every number the server stored or is about *)
(* to store is at most the tip's, and no two are the same.                 *)
InHand(c) == pump[c].at \in {"linked", "loaded"}

Covered(k) ==
  /\ \A i \in DOMAIN disk : disk[i].kind = "chat" /\ disk[i].key = k =>
       chains[k].known = TRUE /\ disk[i].seq <= chains[k].seq
  /\ \A c \in Sessions : InHand(c) /\ pump[c].frame.key = k =>
       chains[k].known = TRUE /\ pump[c].frame.seq <= chains[k].seq

Distinct(k) ==
  /\ \A i, j \in DOMAIN disk : i # j /\ disk[i].kind = "chat" /\ disk[j].kind = "chat"
       /\ disk[i].key = k /\ disk[j].key = k => disk[i].seq # disk[j].seq
  /\ \A c \in Sessions, i \in DOMAIN disk : InHand(c) /\ pump[c].frame.key = k
       /\ disk[i].kind = "chat" /\ disk[i].key = k => disk[i].seq # pump[c].frame.seq
  /\ \A c, d \in Sessions : c # d /\ InHand(c) /\ InHand(d) /\ pump[c].frame.key = k
       /\ pump[d].frame.key = k => pump[c].frame.seq # pump[d].frame.seq

SeqInv == \A k \in Keys \ hist.pruned : Covered(k) /\ Distinct(k)

(* The registry is at least as new as every announcement that counts.      *)
Noticed ==
  \A i \in DOMAIN disk : disk[i].kind = "notice" /\ now - disk[i].at <= TTL /\ disk[i].key \notin hist.lost
    => exposed[disk[i].key] >= disk[i].at

(* ... a handler about to announce a key has just registered it ...        *)
Announcing ==
  \A c \in Sessions : pump[c].at = "announce" /\ pump[c].frame.key \notin hist.lost
    => exposed[pump[c].frame.key] = now

(* ... and the boot flagged every line behind an announcement.             *)
Flagged ==
  \A i \in 1 .. hist.booted, j \in 1 .. hist.booted :
    i < j /\ window[i].kind = "notice" /\ window[j].kind = "chat" /\ window[i].key = window[j].key
    => window[j].flag = TRUE

ExposedInv == InTime(disk) /\ Noticed /\ Announcing /\ Flagged
-----------------------------------------------------------------------------
(* Every step keeps the types.                                             *)
LEMMA FrameShapes ==
  ASSUME NEW n \in Nat, NEW f \in Frames(n)
  PROVE  /\ f.key \in Keys /\ f.kind \in {"chat", "reveal"}
         /\ f.kind = "chat" <=> f \in ChatFrames(n)
         /\ f.kind = "reveal" <=> f \in Reveals
         /\ f.kind = "chat" => f.seq \in 1 .. n /\ f.prev \in 0 .. n /\ f.id \in 1 .. n
  BY DEF Frames, ChatFrames, Reveals

LEMMA PumpShapes ==
  ASSUME NEW n \in Nat, NEW m \in Nat, NEW p \in Pumps(n, m)
  PROVE  /\ p.at \in {"read", "linked", "loaded", "reveal", "announce"}
         /\ p = [at |-> p.at, frame |-> p.frame, loaded |-> p.loaded] /\ p.loaded \in -1 .. m
         /\ p.at = "read" => p = Idle
         /\ p.at \in {"linked", "loaded"} => p \in Handling(n, m) /\ p.frame \in ChatFrames(n)
         /\ p.at \in {"reveal", "announce"} => p \in Revealing(m) /\ p.frame \in Reveals
  BY DEF Pumps, Handling, Revealing, Idle

LEMMA HistoryShapes ==
  ASSUME NEW n \in Nat, NEW h \in Histories(n)
  PROVE  /\ h = [accepted |-> h.accepted, refused |-> h.refused, excused |-> h.excused,
                 pruned |-> h.pruned, lost |-> h.lost, booted |-> h.booted]
         /\ h.accepted \subseteq ChatFrames(n) /\ h.refused \subseteq Sessions /\ h.excused \subseteq Sessions
         /\ h.pruned \subseteq Keys /\ h.lost \subseteq Keys /\ h.booted \in Nat
  BY DEF Histories

(* The frame a pump takes, and what is left.                               *)
LEMMA Popped ==
  ASSUME NEW n \in Nat, NEW m \in Nat, ClientTyped(n, m), Owned, NEW c \in Sessions, up[c] # <<>>, Pop(c)
  PROVE  /\ Head1(c) \in Frames(n) /\ Head1(c) = up[c][1] /\ Head1(c).key = client[c].key
         /\ Head1(c).key \in Keys
         /\ up' \in [Sessions -> Seq(Frames(n))] /\ up'[c] = Tail(up[c])
         /\ \A d \in Sessions : d # c => up'[d] = up[d]
         /\ Len(up[c]) \in Nat \ {0} /\ Len(up'[c]) = Len(up[c]) - 1
         /\ \A i \in DOMAIN up'[c] : i + 1 \in DOMAIN up[c] /\ up'[c][i] = up[c][i + 1]
         /\ \A d \in Sessions : \A i \in DOMAIN up'[d] : up'[d][i].key = client[d].key
<1>1. up \in [Sessions -> Seq(Frames(n))] /\ up[c] \in Seq(Frames(n))
  BY DEF ClientTyped
<1>2. up' = [up EXCEPT ![c] = Tail(up[c])]
  BY DEF Pop
<1> DEFINE s == up[c]
           t == Tail(s)
<1>3. /\ Len(s) \in Nat \ {0} /\ Len(t) = Len(s) - 1 /\ t \in Seq(Frames(n)) /\ Head(s) = s[1] /\ s[1] \in Frames(n)
      /\ 1 \in DOMAIN s
      /\ \A i \in DOMAIN t : i + 1 \in DOMAIN s /\ t[i] = s[i + 1]
  <2> HIDE DEF s
  <2>1. s \in Seq(Frames(n)) /\ s # <<>>
    BY <1>1 DEF s
  <2>2. /\ Len(s) \in Nat \ {0} /\ Head(s) = s[1] /\ s[1] \in Frames(n) /\ 1 \in DOMAIN s
    BY <2>1
  <2>3. Len(t) = Len(s) - 1 /\ t \in Seq(Frames(n))
    BY <2>1
  <2>4. ASSUME NEW i \in DOMAIN t PROVE i + 1 \in DOMAIN s /\ t[i] = s[i + 1]
    BY <2>1, <2>2, <2>3
  <2> QED BY <2>2, <2>3, <2>4
<1>4. up' \in [Sessions -> Seq(Frames(n))] /\ up'[c] = t /\ \A d \in Sessions : d # c => up'[d] = up[d]
  BY <1>1, <1>2, <1>3 DEF s
<1> HIDE DEF s, t
<1>5. \A d \in Sessions : \A i \in DOMAIN up'[d] : up'[d][i].key = client[d].key
  BY <1>3, <1>4 DEF Owned, s
<1>6. s[1].key = client[c].key
  BY <1>3 DEF Owned, s
<1> QED BY <1>3, <1>4, <1>5, <1>6, FrameShapes DEF s, Head1
LEMMA ClientSteps ==
  ASSUME LedgerConstants, LedgerTypes, NEW c \in Sessions,
         \/ \E k \in Keys : Login(c, k)
         \/ SendMessage(c) \/ SendFails(c) \/ Burn(c) \/ Leave(c)
  PROVE  LedgerTypes'
<1>0. /\ sent \in Nat /\ now \in Nat /\ sent + 1 \in Nat /\ client[c] \in Clients(sent)
      /\ client[c].key \in Keys \cup {NoKey} /\ client[c].seq \in 0 .. sent /\ client[c].prev \in 0 .. sent
      /\ up[c] \in Seq(Frames(sent)) /\ client[c].on \in BOOLEAN
      /\ client[c] = [on |-> client[c].on, key |-> client[c].key, seq |-> client[c].seq, prev |-> client[c].prev]
  BY DEF LedgerTypes, LedgerConstants, Counted, ClientTyped, Clients
<1>g. ServerTyped(sent + 1, now) /\ ClientTyped(sent + 1, now)
  BY <1>0, TypesGrow DEF LedgerTypes
<1>h. /\ hist = [accepted |-> hist.accepted, refused |-> hist.refused, excused |-> hist.excused,
                 pruned |-> hist.pruned, lost |-> hist.lost, booted |-> hist.booted]
      /\ hist.accepted \subseteq ChatFrames(sent) /\ hist.refused \subseteq Sessions
      /\ hist.excused \subseteq Sessions
      /\ hist.pruned \subseteq Keys /\ hist.lost \subseteq Keys /\ hist.booted \in Nat
  BY <1>0, HistoryShapes DEF LedgerTypes, ServerTyped
<1>1. ASSUME NEW k \in Keys, Login(c, k) PROVE LedgerTypes'
  <2>1. /\ chains[k].seq \in 0 .. sent /\ chains[k].prev \in 0 .. sent
    BY <1>0 DEF LedgerTypes, ServerTyped, Tips
  <2>2. /\ client' \in [Sessions -> Clients(sent)] /\ client'[c].key = k
        /\ \A d \in Sessions : d # c => client'[d] = client[d]
    <3>1. [on |-> TRUE, key |-> k, seq |-> chains[k].seq, prev |-> chains[k].prev] \in Clients(sent)
      BY <2>1 DEF Clients
    <3> QED BY <1>1, <3>1 DEF Login, LedgerTypes, ClientTyped
  <2>3. ClientTyped(sent, now)'
    BY <1>1, <2>2 DEF Login, LedgerTypes, ClientTyped
  <2>4. hist' \in Histories(sent) /\ hist'.booted = hist.booted
    <3> DEFINE ex == IF Rivals(c, k) = {} THEN hist.excused \ {c} ELSE hist.excused \cup {c} \cup Rivals(c, k)
    <3>1. hist' = [accepted |-> hist.accepted, refused |-> hist.refused \ {c}, excused |-> ex,
                   pruned |-> hist.pruned, lost |-> hist.lost, booted |-> hist.booted]
      BY <1>1, <1>h DEF Login
    <3>2. ex \subseteq Sessions
      BY <1>h DEF Rivals
    <3> HIDE DEF ex
    <3> QED BY <1>h, <3>1, <3>2 DEF Histories
  <2>5. ServerTyped(sent, now)' /\ Measured' /\ Counted'
    BY <1>1, <2>4 DEF Login, LedgerTypes, ServerTyped, Measured, Counted
  <2>6. Owned'
    <3>1. ASSUME NEW d \in Sessions
          PROVE  (client'[d].on => client'[d].key \in Keys) /\ \A i \in DOMAIN up[d] : up[d][i].key = client'[d].key
      <4>1. CASE d = c
        <5>1. up[c] = <<>>
          BY <1>1 DEF Login
        <5> QED BY <2>2, <4>1, <5>1
      <4>2. CASE d # c
        BY <2>2, <4>2 DEF LedgerTypes, Owned
      <4> QED BY <4>1, <4>2
    <3>2. up' = up
      BY <1>1 DEF Login
    <3> QED BY <3>1, <3>2 DEF Owned
  <2> QED BY <1>1, <2>3, <2>5, <2>6 DEF LedgerTypes, Login
<1>2. CASE SendMessage(c)
  <2>1. /\ sent' = sent + 1 /\ now' = now /\ sent' \in 0 .. MaxSent /\ client[c].key \in Keys
        /\ UNCHANGED <<chains, exposed, pump, disk, window, boots, reveals, faults, hist>>
    BY <1>0, <1>2 DEF SendMessage, LedgerTypes, LedgerConstants, Counted, Owned
  <2>2. /\ client' \in [Sessions -> Clients(sent + 1)] /\ client'[c].key = client[c].key
        /\ \A d \in Sessions : d # c => client'[d] = client[d]
    <3> DEFINE p == [client[c] EXCEPT !.seq = client[c].seq + 1]
               q == [p EXCEPT !.prev = sent + 1]
    <3>1. client' = [client EXCEPT ![c] = q]
      <4>1. client' = [client EXCEPT ![c].seq = @ + 1, ![c].prev = sent + 1]
        BY <1>2 DEF SendMessage
      <4> QED BY <1>g, <4>1 DEF ClientTyped
    <3>2. client[c] \in Clients(sent + 1) /\ client[c].seq + 1 \in 0 .. (sent + 1) /\ sent + 1 \in 0 .. (sent + 1)
      BY <1>0, <1>g DEF ClientTyped
    <3>3. p \in Clients(sent + 1) /\ p.key = client[c].key
      BY <3>2 DEF Clients
    <3> HIDE DEF p
    <3>4. q \in Clients(sent + 1) /\ q.key = client[c].key
      BY <3>2, <3>3 DEF Clients
    <3> HIDE DEF q
    <3> QED BY <1>g, <3>1, <3>4 DEF ClientTyped
  <2>3. /\ up' \in [Sessions -> Seq(Frames(sent + 1))]
        /\ \A d \in Sessions : \A i \in DOMAIN up'[d] : up'[d][i].key = client[d].key
    <3>1. Signed(c) \in Frames(sent + 1) /\ Signed(c).key = client[c].key
      BY <1>0, <2>1 DEF Signed, Frames, ChatFrames
    <3>2. up' = [up EXCEPT ![c] = Append(up[c], Signed(c))]
      BY <1>2 DEF SendMessage
    <3>3. up \in [Sessions -> Seq(Frames(sent + 1))] /\ up[c] \in Seq(Frames(sent + 1))
      BY <1>g DEF ClientTyped
    <3>4. up' \in [Sessions -> Seq(Frames(sent + 1))]
      BY <3>1, <3>2, <3>3
    <3>5. ASSUME NEW d \in Sessions, NEW i \in DOMAIN up'[d] PROVE up'[d][i].key = client[d].key
      <4>1. CASE d = c
        BY <3>1, <3>2, <3>3, <4>1 DEF LedgerTypes, Owned
      <4>2. CASE d # c
        BY <3>2, <3>3, <4>2 DEF LedgerTypes, Owned
      <4> QED BY <4>1, <4>2
    <3> QED BY <3>4, <3>5
  <2>4. ClientTyped(sent, now)' /\ ServerTyped(sent, now)'
    BY <1>g, <2>1, <2>2, <2>3 DEF ClientTyped, ServerTyped
  <2>5. Owned'
    BY <2>1, <2>2, <2>3 DEF LedgerTypes, Owned
  <2>6. Counted' /\ Measured'
    BY <2>1 DEF LedgerTypes, Counted, Measured
  <2> QED BY <2>4, <2>5, <2>6 DEF LedgerTypes
<1>3. CASE SendFails(c) \/ Leave(c)
  <2>1. /\ sent' \in {sent, sent + 1} /\ sent' \in 0 .. MaxSent /\ now' = now /\ faults' \in 0 .. MaxFaults
        /\ UNCHANGED <<chains, exposed, pump, disk, window, boots, reveals, hist>>
        /\ up' \in {up, [up EXCEPT ![c] = <<>>]}
        /\ client' = [client EXCEPT ![c] = [on |-> FALSE, key |-> client[c].key, seq |-> client[c].seq,
                                            prev |-> client[c].prev]]
    BY <1>0, <1>3 DEF SendFails, Leave, Fault, LedgerTypes, LedgerConstants, Counted, ClientTyped
  <2>2. /\ client' \in [Sessions -> Clients(sent)] /\ client'[c].key = client[c].key /\ client'[c].on = FALSE
        /\ \A d \in Sessions : d # c => client'[d] = client[d]
    <3>1. [on |-> FALSE, key |-> client[c].key, seq |-> client[c].seq, prev |-> client[c].prev] \in Clients(sent)
      BY <1>0, Zenon DEF Clients
    <3> QED BY <2>1, <3>1 DEF LedgerTypes, ClientTyped
  <2>3. /\ up' \in [Sessions -> Seq(Frames(sent))]
        /\ \A d \in Sessions : \A i \in DOMAIN up'[d] : up'[d][i].key = client[d].key
    <3>1. <<>> \in Seq(Frames(sent)) /\ DOMAIN <<>> = {}
      OBVIOUS
    <3>2. up \in [Sessions -> Seq(Frames(sent))]
      BY DEF LedgerTypes, ClientTyped
    <3>3. CASE up' = up
      BY <3>2, <3>3 DEF LedgerTypes, Owned
    <3>4. CASE up' = [up EXCEPT ![c] = <<>>]
      <4>1. up' \in [Sessions -> Seq(Frames(sent))]
        BY <3>1, <3>2, <3>4
      <4>2. ASSUME NEW d \in Sessions, NEW i \in DOMAIN up'[d] PROVE up'[d][i].key = client[d].key
        BY <3>1, <3>2, <3>4 DEF LedgerTypes, Owned
      <4> QED BY <4>1, <4>2
    <3> QED BY <2>1, <3>3, <3>4
  <2>4. ClientTyped(sent, now)' /\ ServerTyped(sent, now)'
    <3>1. up' \in [Sessions -> Seq(Frames(sent + 1))] /\ client' \in [Sessions -> Clients(sent + 1)]
      <4>1. Seq(Frames(sent)) \subseteq Seq(Frames(sent + 1)) /\ Clients(sent) \subseteq Clients(sent + 1)
        BY <1>0, SetsGrow, SeqsGrow
      <4> QED BY <2>2, <2>3, <4>1
    <3>2. CASE sent' = sent
      BY <2>1, <2>2, <2>3, <3>2 DEF LedgerTypes, ClientTyped, ServerTyped
    <3>3. CASE sent' = sent + 1
      BY <1>g, <2>1, <3>1, <3>3 DEF ClientTyped, ServerTyped
    <3> QED BY <2>1, <3>2, <3>3
  <2>5. Owned'
    BY <2>1, <2>2, <2>3 DEF LedgerTypes, Owned
  <2>6. Counted' /\ Measured'
    BY <2>1 DEF LedgerTypes, Counted, Measured
  <2> QED BY <2>4, <2>5, <2>6 DEF LedgerTypes
<1>4. CASE Burn(c)
  <2>1. /\ reveals' \in 0 .. MaxSent /\ client[c].key \in Keys
        /\ UNCHANGED <<now, chains, exposed, client, pump, disk, window, sent, boots, faults, hist>>
    BY <1>0, <1>4 DEF Burn, LedgerTypes, LedgerConstants, Counted, Owned
  <2>3. /\ up' \in [Sessions -> Seq(Frames(sent))]
        /\ \A d \in Sessions : \A i \in DOMAIN up'[d] : up'[d][i].key = client[d].key
    <3> DEFINE f == [kind |-> "reveal", key |-> client[c].key]
    <3>1. f \in Frames(sent) /\ f.key = client[c].key
      BY <2>1 DEF Frames, Reveals
    <3>2. up' = [up EXCEPT ![c] = Append(up[c], f)]
      BY <1>4 DEF Burn
    <3> HIDE DEF f
    <3>3. up \in [Sessions -> Seq(Frames(sent))] /\ up[c] \in Seq(Frames(sent))
      BY DEF LedgerTypes, ClientTyped
    <3>4. up' \in [Sessions -> Seq(Frames(sent))]
      BY <3>1, <3>2, <3>3
    <3>5. ASSUME NEW d \in Sessions, NEW i \in DOMAIN up'[d] PROVE up'[d][i].key = client[d].key
      <4>1. CASE d = c
        BY <3>1, <3>2, <3>3, <4>1 DEF LedgerTypes, Owned
      <4>2. CASE d # c
        BY <3>2, <3>3, <4>2 DEF LedgerTypes, Owned
      <4> QED BY <4>1, <4>2
    <3> QED BY <3>4, <3>5
  <2>4. ClientTyped(sent, now)' /\ ServerTyped(sent, now)'
    BY <2>1, <2>3 DEF LedgerTypes, ClientTyped, ServerTyped
  <2>5. Owned' /\ Counted' /\ Measured'
    BY <2>1, <2>3 DEF LedgerTypes, Owned, Counted, Measured
  <2> QED BY <2>1, <2>4, <2>5 DEF LedgerTypes
<1> QED BY <1>1, <1>2, <1>3, <1>4
LEMMA RegistryTypes ==
  ASSUME now \in Nat, NEW e \in [Keys -> -1 .. now]
  PROVE  /\ \A k \in Keys, at \in -1 .. now : Touch(e, k, at) \in [Keys -> -1 .. now]
         /\ \A k \in Keys : Mark(e, k) \in [Keys -> -1 .. now]
         /\ PruneExposed(e) \subseteq [Keys -> -1 .. now]
  BY DEF Touch, Mark, PruneExposed

(* A pump back at its read, and a record stored.                           *)
LEMMA BackToRead ==
  ASSUME NEW n \in Nat, NEW m \in Nat, ClientTyped(n, m), NEW c \in Sessions, pump' = [pump EXCEPT ![c] = Idle]
  PROVE  /\ pump' \in [Sessions -> Pumps(n, m)] /\ pump'[c] = Idle
         /\ \A d \in Sessions : d # c => pump'[d] = pump[d]
<1>1. Idle \in Pumps(n, m)
  BY DEF Pumps
<1> QED BY <1>1 DEF ClientTyped

LEMMA Stored ==
  ASSUME NEW n \in Nat, NEW m \in Nat, ServerTyped(n, m), Len(window) = Len(disk), NEW r \in Lines(n, m), Store(r)
  PROVE  /\ disk' \in Seq(Lines(n, m)) /\ window' \in Seq(Lines(n, m))
         /\ Len(disk') = Len(disk) + 1 /\ Len(window') = Len(window) + 1 /\ Len(disk) \in Nat
         /\ disk'[Len(disk) + 1] = r /\ window'[Len(disk) + 1] = r
         /\ \A i \in 1 .. Len(disk) : disk'[i] = disk[i] /\ window'[i] = window[i]
  BY DEF ServerTyped, Store

LEMMA PumpSteps ==
  ASSUME LedgerConstants, LedgerTypes, NEW c \in Sessions,
         \/ DropBefore(c) \/ Accept(c) \/ DropAfter(c) \/ LoadFlag(c) \/ Post(c)
         \/ Reveal(c) \/ MarkExposed(c) \/ Announce(c)
  PROVE  LedgerTypes'
<1>0. /\ sent \in Nat /\ now \in Nat /\ ServerTyped(sent, now) /\ ClientTyped(sent, now) /\ Owned
      /\ pump \in [Sessions -> Pumps(sent, now)] /\ pump[c] \in Pumps(sent, now)
      /\ exposed \in [Keys -> -1 .. now] /\ chains \in [Keys -> Tips(sent, now)]
      /\ Len(window) = Len(disk)
  BY DEF LedgerTypes, LedgerConstants, Counted, ClientTyped, ServerTyped, Measured
<1>h. /\ hist = [accepted |-> hist.accepted, refused |-> hist.refused, excused |-> hist.excused,
                 pruned |-> hist.pruned, lost |-> hist.lost, booted |-> hist.booted]
      /\ hist.accepted \subseteq ChatFrames(sent) /\ hist.refused \subseteq Sessions
      /\ hist.excused \subseteq Sessions
      /\ hist.pruned \subseteq Keys /\ hist.lost \subseteq Keys /\ hist.booted \in Nat
  BY <1>0, HistoryShapes DEF ServerTyped
<1>1. CASE DropBefore(c)
  <2>1. /\ up' \in [Sessions -> Seq(Frames(sent))]
        /\ \A d \in Sessions : \A i \in DOMAIN up'[d] : up'[d][i].key = client[d].key
    BY <1>0, <1>1, Popped DEF DropBefore, Reads
  <2>2. hist' \in Histories(sent) /\ hist'.booted = hist.booted
    BY <1>1, <1>h DEF DropBefore, Histories
  <2>3. faults' \in 0 .. MaxFaults
    BY <1>1 DEF DropBefore, Fault, LedgerTypes, LedgerConstants, Counted
  <2> QED BY <1>1, <2>1, <2>2, <2>3 DEF DropBefore, LedgerTypes, Counted, ServerTyped, ClientTyped, Owned, Measured
<1>2. CASE Accept(c)
  <2> DEFINE f == Head1(c)
  <2>1. /\ up' \in [Sessions -> Seq(Frames(sent))] /\ f \in Frames(sent)
        /\ \A d \in Sessions : \A i \in DOMAIN up'[d] : up'[d][i].key = client[d].key
    BY <1>0, <1>2, Popped DEF Accept, Reads
  <2>2. f \in ChatFrames(sent) /\ f.key \in Keys /\ f.seq \in 1 .. sent /\ f.id \in 1 .. sent
    BY <1>0, <1>2, <2>1, FrameShapes DEF Accept, Reads
  <2>u. UNCHANGED <<now, exposed, client, disk, window, sent, boots, reveals, faults>>
    BY <1>2 DEF Accept
  <2>3. CASE Continues(chains[f.key], f)
    <3>1. /\ chains' = [chains EXCEPT ![f.key] = [seq |-> f.seq, prev |-> f.id, seen |-> now, known |-> TRUE]]
          /\ pump' = [pump EXCEPT ![c] = [at |-> "linked", frame |-> f, loaded |-> -1]]
          /\ hist' = [hist EXCEPT !.accepted = @ \cup {f}]
      BY <1>2, <2>3 DEF Accept
    <3> HIDE DEF f
    <3>2. chains' \in [Keys -> Tips(sent, now)] /\ chains'[f.key].known = TRUE
          /\ \A k \in Keys : k # f.key => chains'[k] = chains[k]
      <4>1. [seq |-> f.seq, prev |-> f.id, seen |-> now, known |-> TRUE] \in Tips(sent, now)
        BY <1>0, <2>2 DEF Tips
      <4> QED BY <1>0, <2>2, <3>1, <4>1
    <3>3. pump' \in [Sessions -> Pumps(sent, now)]
      <4>1. [at |-> "linked", frame |-> f, loaded |-> -1] \in Pumps(sent, now)
        BY <1>0, <2>2 DEF Pumps, Handling
      <4> QED BY <1>0, <3>1, <4>1
    <3>4. hist' \in Histories(sent) /\ hist'.booted = hist.booted
      BY <1>h, <2>2, <3>1 DEF Histories
    <3>5. Measured'
      BY <2>u, <3>2, <3>4 DEF LedgerTypes, Measured
    <3>6. ServerTyped(sent, now)' /\ ClientTyped(sent, now)' /\ Counted' /\ Owned'
      BY <1>0, <2>1, <2>u, <3>2, <3>3, <3>4 DEF LedgerTypes, ServerTyped, ClientTyped, Counted, Owned
    <3> QED BY <3>5, <3>6 DEF LedgerTypes
  <2>4. CASE ~Continues(chains[f.key], f)
    <3>1. UNCHANGED <<chains, pump>> /\ hist' = [hist EXCEPT !.refused = @ \cup {c}]
      BY <1>2, <2>4 DEF Accept
    <3>2. hist' \in Histories(sent) /\ hist'.booted = hist.booted
      BY <1>h, <3>1 DEF Histories
    <3> QED BY <1>0, <2>1, <2>u, <3>1, <3>2 DEF LedgerTypes, Measured, ServerTyped, ClientTyped, Counted, Owned
  <2> QED BY <2>3, <2>4
<1>3. CASE DropAfter(c)
  <2>1. pump' \in [Sessions -> Pumps(sent, now)]
    BY <1>0, <1>3, BackToRead DEF DropAfter
  <2>2. faults' \in 0 .. MaxFaults
    BY <1>3 DEF DropAfter, Fault, LedgerTypes, LedgerConstants, Counted
  <2> QED BY <1>3, <2>1, <2>2 DEF DropAfter, LedgerTypes, Measured, ServerTyped, ClientTyped, Counted, Owned
<1>4. CASE LoadFlag(c)
  <2>1. pump[c] \in Handling(sent, now) /\ pump[c].frame.key \in Keys
    BY <1>0, <1>4, PumpShapes DEF LoadFlag, ChatFrames
  <2>2. pump' = [pump EXCEPT ![c] = [[pump[c] EXCEPT !.at = "loaded"] EXCEPT !.loaded = exposed[pump[c].frame.key]]]
    <3>1. pump' = [pump EXCEPT ![c].at = "loaded", ![c].loaded = exposed[pump[c].frame.key]]
      BY <1>4 DEF LoadFlag
    <3> QED BY <1>0, <3>1
  <2> DEFINE p == [pump[c] EXCEPT !.at = "loaded"]
             q == [p EXCEPT !.loaded = exposed[pump[c].frame.key]]
  <2>3. p \in Handling(sent, now)
    BY <2>1 DEF Handling
  <2> HIDE DEF p
  <2>4. q \in Handling(sent, now)
    BY <1>0, <2>1, <2>3 DEF Handling
  <2>5. pump' = [pump EXCEPT ![c] = q]
    BY <2>2 DEF p
  <2> HIDE DEF q
  <2>6. pump' \in [Sessions -> Pumps(sent, now)]
    BY <1>0, <2>4, <2>5 DEF Pumps
  <2> QED BY <1>4, <2>6 DEF LoadFlag, LedgerTypes, Measured, ServerTyped, ClientTyped, Counted, Owned
<1>5. CASE Post(c)
  <2> DEFINE f == pump[c].frame
             at == pump[c].loaded
             r == ChatLine(f, Live(at))
  <2>1. /\ f \in ChatFrames(sent) /\ at \in -1 .. now /\ f.key \in Keys
        /\ f.seq \in 1 .. sent /\ f.prev \in 0 .. sent /\ f.id \in 1 .. sent
    BY <1>0, <1>5, PumpShapes DEF Post, ChatFrames
  <2>2. r \in Lines(sent, now)
    <3>1. Live(at) \in BOOLEAN
      BY DEF Live
    <3>2. PICK b : b = Live(at)
      OBVIOUS
    <3>3. [kind |-> "chat", key |-> f.key, seq |-> f.seq, prev |-> f.prev, id |-> f.id, flag |-> b, at |-> now]
          \in Chats(sent, now)
      <4>1. b \in BOOLEAN /\ now \in 0 .. now
        BY <1>0, <3>1, <3>2
      <4> HIDE DEF f
      <4> QED BY <2>1, <4>1, Zenon DEF Chats
    <3> QED BY <3>2, <3>3 DEF ChatLine, Lines
  <2>3. /\ exposed' = Touch(exposed, f.key, at) /\ Store(r)
        /\ pump' = [pump EXCEPT ![c] = Idle]
        /\ hist' = [hist EXCEPT !.lost = IF StaleDelete(c) THEN @ \cup {f.key} ELSE @]
        /\ UNCHANGED <<now, chains, client, up, sent, boots, reveals, faults>>
    BY <1>5 DEF Post
  <2> HIDE DEF f, at, r
  <2>4. exposed' \in [Keys -> -1 .. now]
    BY <1>0, <2>1, <2>3, RegistryTypes
  <2>5. /\ disk' \in Seq(Lines(sent, now)) /\ window' \in Seq(Lines(sent, now))
        /\ Len(disk') = Len(disk) + 1 /\ Len(window') = Len(window) + 1 /\ Len(disk) \in Nat
    BY <1>0, <2>2, <2>3, Stored
  <2>6. pump' \in [Sessions -> Pumps(sent, now)]
    BY <1>0, <2>3, BackToRead
  <2>7. hist' \in Histories(sent) /\ hist'.booted = hist.booted
    BY <1>h, <2>1, <2>3 DEF Histories
  <2>8. Measured'
    BY <1>h, <2>3, <2>5, <2>7 DEF LedgerTypes, Measured
  <2> QED BY <1>0, <2>3, <2>4, <2>5, <2>6, <2>7, <2>8 DEF LedgerTypes, ServerTyped, ClientTyped, Counted, Owned
<1>6. CASE Reveal(c)
  <2> DEFINE f == Head1(c)
  <2>1. /\ up' \in [Sessions -> Seq(Frames(sent))] /\ f \in Frames(sent)
        /\ \A d \in Sessions : \A i \in DOMAIN up'[d] : up'[d][i].key = client[d].key
    BY <1>0, <1>6, Popped DEF Reveal, Reads
  <2>2. f \in Reveals /\ f.key \in Keys /\ pump[c] = Idle
    BY <1>0, <1>6, <2>1, FrameShapes, PumpShapes DEF Reveal, Reads
  <2>3. pump' \in [Sessions -> Pumps(sent, now)]
    <3>1. CASE UNCHANGED pump
      BY <1>0, <3>1
    <3>2. CASE pump' = [pump EXCEPT ![c].at = "reveal", ![c].frame = f, ![c].loaded = exposed[f.key]]
      <4> HIDE DEF f
      <4>1. pump' = [pump EXCEPT ![c] = [[[pump[c] EXCEPT !.at = "reveal"] EXCEPT !.frame = f] EXCEPT !.loaded = exposed[f.key]]]
        BY <1>0, <3>2
      <4>2. [[[pump[c] EXCEPT !.at = "reveal"] EXCEPT !.frame = f] EXCEPT !.loaded = exposed[f.key]]
            = [at |-> "reveal", frame |-> f, loaded |-> exposed[f.key]]
        <5> DEFINE p == [pump[c] EXCEPT !.at = "reveal"]
                   q == [p EXCEPT !.frame = f]
        <5>1. p = [at |-> "reveal", frame |-> [kind |-> "none"], loaded |-> -1]
          BY <2>2 DEF Idle
        <5> HIDE DEF p
        <5>2. q = [at |-> "reveal", frame |-> f, loaded |-> -1]
          BY <5>1
        <5> HIDE DEF q
        <5>3. [q EXCEPT !.loaded = exposed[f.key]] = [at |-> "reveal", frame |-> f, loaded |-> exposed[f.key]]
          BY <5>2
        <5> QED BY <5>3 DEF p, q
      <4>3. [at |-> "reveal", frame |-> f, loaded |-> exposed[f.key]] \in Pumps(sent, now)
        BY <1>0, <2>2 DEF Pumps, Revealing
      <4> QED BY <1>0, <4>1, <4>2, <4>3
    <3> QED BY <1>6, <3>1, <3>2 DEF Reveal
  <2> QED BY <1>6, <2>1, <2>3 DEF Reveal, LedgerTypes, Measured, ServerTyped, ClientTyped, Counted, Owned
<1>7. CASE MarkExposed(c)
  <2> DEFINE k == pump[c].frame.key
             at == pump[c].loaded
             e == Touch(exposed, k, at)
  <2>1. pump[c] \in Revealing(now) /\ k \in Keys /\ at \in -1 .. now
    BY <1>0, <1>7, PumpShapes DEF MarkExposed, Reveals
  <2>u. UNCHANGED <<now, chains, client, up, disk, window, sent, boots, reveals, faults>>
    BY <1>7 DEF MarkExposed
  <2>2. e \in [Keys -> -1 .. now]
    BY <1>0, <2>1, RegistryTypes
  <2>3. CASE Live(at)
    <3>1. exposed' = e /\ pump' = [pump EXCEPT ![c] = Idle] /\ UNCHANGED hist
      BY <1>7, <2>3 DEF MarkExposed
    <3>2. pump' \in [Sessions -> Pumps(sent, now)]
      BY <1>0, <3>1, BackToRead
    <3> HIDE DEF e
    <3> QED BY <2>u, <2>2, <3>1, <3>2 DEF LedgerTypes, Measured, ServerTyped, ClientTyped, Counted, Owned
  <2>4. CASE ~Live(at)
    <3>1. /\ exposed' \in PruneExposed(Mark(e, k))
          /\ pump' = [pump EXCEPT ![c].at = "announce"]
          /\ hist' = [hist EXCEPT !.lost = (@ \ {k}) \cup
                        {d \in Registered(Mark(e, k)) : exposed'[d] < 0 /\ Live(Mark(e, k)[d])}]
      BY <1>7, <2>4 DEF MarkExposed
    <3> HIDE DEF e
    <3>2. exposed' \in [Keys -> -1 .. now]
      BY <1>0, <2>1, <2>2, <3>1, RegistryTypes
    <3>3. pump' \in [Sessions -> Pumps(sent, now)]
      <4>1. pump' = [pump EXCEPT ![c] = [pump[c] EXCEPT !.at = "announce"]]
        BY <1>0, <3>1
      <4>2. [pump[c] EXCEPT !.at = "announce"] \in Revealing(now)
        BY <2>1 DEF Revealing
      <4> QED BY <1>0, <4>1, <4>2 DEF Pumps
    <3>4. hist' \in Histories(sent) /\ hist'.booted = hist.booted
      <4> DEFINE L == (hist.lost \ {k}) \cup {d \in Registered(Mark(e, k)) : exposed'[d] < 0 /\ Live(Mark(e, k)[d])}
      <4>1. L \subseteq Keys
        BY <1>h DEF Registered
      <4>2. hist' = [hist EXCEPT !.lost = L]
        BY <3>1
      <4> HIDE DEF L
      <4> QED BY <1>h, <4>1, <4>2 DEF Histories
    <3> QED BY <2>u, <3>2, <3>3, <3>4 DEF LedgerTypes, Measured, ServerTyped, ClientTyped, Counted, Owned
  <2> QED BY <2>3, <2>4
<1>8. CASE Announce(c)
  <2> DEFINE r == Notice(pump[c].frame.key)
  <2>1. r \in Lines(sent, now)
    <3>1. pump[c].frame.key \in Keys
      BY <1>0, <1>8, PumpShapes DEF Announce, Reveals
    <3> QED BY <1>0, <3>1 DEF Notice, Lines, Notices
  <2>2. /\ Store(r) /\ pump' = [pump EXCEPT ![c] = Idle]
        /\ UNCHANGED <<now, chains, exposed, client, up, sent, boots, reveals, faults, hist>>
    BY <1>8 DEF Announce
  <2> HIDE DEF r
  <2>5. /\ disk' \in Seq(Lines(sent, now)) /\ window' \in Seq(Lines(sent, now))
        /\ Len(disk') = Len(disk) + 1 /\ Len(window') = Len(window) + 1 /\ Len(disk) \in Nat
    BY <1>0, <2>1, <2>2, Stored
  <2>6. pump' \in [Sessions -> Pumps(sent, now)]
    BY <1>0, <2>2, BackToRead
  <2>8. Measured'
    BY <1>h, <2>2, <2>5 DEF LedgerTypes, Measured
  <2> QED BY <1>0, <2>2, <2>5, <2>6, <2>8 DEF LedgerTypes, ServerTyped, ClientTyped, Counted, Owned
<1> QED BY <1>1, <1>2, <1>3, <1>4, <1>5, <1>6, <1>7, <1>8
(* A restart: the first records stay, and the boot has read them.          *)
LEMMA Rebooted ==
  ASSUME LedgerConstants, LedgerTypes, InTime(disk), NEW kept \in 0 .. Len(disk), Restart(kept)
  PROVE  LET log == SubSeq(disk, 1, kept)
             b == BootFold(log)
         IN
         /\ log \in Seq(Lines(sent, now)) /\ Len(log) = kept /\ InTime(log) /\ disk' = log /\ kept \in Nat
         /\ \A i \in 1 .. kept : log[i] = disk[i] /\ i \in DOMAIN disk /\ log[i] \in Lines(sent, now)
         /\ DOMAIN log = 1 .. kept
         /\ Booted(b, log, sent, now, kept)
         /\ chains' = b.chains /\ window' = b.window /\ exposed' \in PruneExposed(b.exposed)
<1> DEFINE log == SubSeq(disk, 1, kept)
           b == BootFold(log)
<1>0. disk \in Seq(Lines(sent, now)) /\ sent \in Nat /\ now \in 0 .. MaxNow /\ Len(disk) \in Nat /\ kept \in Nat
  BY DEF LedgerTypes, LedgerConstants, Counted, ServerTyped
<1>1. log \in Seq(Lines(sent, now)) /\ Len(log) = kept /\ DOMAIN log = 1 .. kept
      /\ \A i \in 1 .. kept : log[i] = disk[i] /\ i \in DOMAIN disk
  <2>1. \A i \in 1 .. kept : i \in 1 .. Len(disk) /\ disk[i] \in Lines(sent, now)
    BY <1>0
  <2>2. Len(log) = kept /\ \A i \in 1 .. kept : log[i] = disk[i]
    BY <1>0
  <2>3. log = [i \in 1 .. kept |-> disk[i]]
    BY <1>0
  <2> QED BY <1>0, <2>1, <2>2, <2>3
<1> HIDE DEF log
<1>2. InTime(log)
  BY <1>1 DEF InTime
<1>3. \A i \in 1 .. kept : log[i] \in Lines(sent, now)
  BY <1>1
<1>4. Booted(b, log, sent, now, kept)
  BY <1>0, <1>1, <1>2, BootIs
<1>5. disk' = log /\ chains' = b.chains /\ window' = b.window /\ exposed' \in PruneExposed(b.exposed)
  BY DEF Restart, log
<1> QED BY <1>0, <1>1, <1>2, <1>3, <1>4, <1>5 DEF log

LEMMA ServerSteps ==
  ASSUME LedgerConstants, LedgerTypes, InTime(disk),
         Tick \/ Prune \/ \E kept \in 0 .. Len(disk) : kept + MaxLost >= Len(disk) /\ Restart(kept)
  PROVE  LedgerTypes'
<1>0. /\ sent \in Nat /\ now \in Nat /\ ServerTyped(sent, now) /\ ClientTyped(sent, now) /\ Owned
      /\ exposed \in [Keys -> -1 .. now] /\ chains \in [Keys -> Tips(sent, now)]
  BY DEF LedgerTypes, LedgerConstants, Counted, ClientTyped, ServerTyped, Measured
<1>h. /\ hist = [accepted |-> hist.accepted, refused |-> hist.refused, excused |-> hist.excused,
                 pruned |-> hist.pruned, lost |-> hist.lost, booted |-> hist.booted]
      /\ hist.accepted \subseteq ChatFrames(sent) /\ hist.refused \subseteq Sessions
      /\ hist.excused \subseteq Sessions
      /\ hist.pruned \subseteq Keys /\ hist.lost \subseteq Keys /\ hist.booted \in Nat
  BY <1>0, HistoryShapes DEF ServerTyped
<1>1. CASE Tick
  <2>1. ServerTyped(sent, now + 1) /\ ClientTyped(sent, now + 1)
    BY <1>0, TypesGrow
  <2>2. Counted'
    BY <1>1 DEF Tick, LedgerTypes, LedgerConstants, Counted
  <2> QED BY <1>1, <2>1, <2>2 DEF Tick, LedgerTypes, ServerTyped, ClientTyped, Owned, Measured
<1>2. CASE Prune
  <2>1. PICK V \in Evicted([k \in Keys |-> chains[k].seen], {k \in Keys : chains[k].known}) :
          /\ chains' = [k \in Keys |-> IF k \in V THEN NoTip ELSE chains[k]]
          /\ exposed' \in PruneExposed(exposed)
          /\ hist' = [hist EXCEPT
               !.excused = @ \cup {c \in Sessions : client[c].key \in V},
               !.pruned = @ \cup V,
               !.lost = @ \cup {k \in Registered(exposed) : exposed'[k] < 0 /\ Live(exposed[k])}]
          /\ UNCHANGED <<now, client, up, pump, disk, window, sent, boots, reveals, faults>>
    BY <1>2 DEF Prune
  <2>2. V \subseteq Keys
    BY <2>1 DEF Evicted, Oldest
  <2>3. NoTip \in Tips(sent, now) /\ ~NoTip.known /\ NoTip.seq = 0 /\ NoTip.prev = 0
    BY <1>0 DEF NoTip, Tips
  <2>4. /\ chains' \in [Keys -> Tips(sent, now)]
        /\ \A k \in Keys : ~chains'[k].known => chains'[k].seq = 0 /\ chains'[k].prev = 0
    <3>1. \A k \in Keys : chains'[k] = IF k \in V THEN NoTip ELSE chains[k]
      BY <2>1
    <3> QED BY <1>0, <2>1, <2>3, <3>1, Zenon DEF LedgerTypes, Measured
  <2>5. exposed' \in [Keys -> -1 .. now]
    BY <1>0, <2>1, RegistryTypes
  <2>6. hist' \in Histories(sent) /\ hist'.booted = hist.booted
    <3> DEFINE x == hist.excused \cup {c \in Sessions : client[c].key \in V}
               v == hist.pruned \cup V
               l == hist.lost \cup {k \in Registered(exposed) : exposed'[k] < 0 /\ Live(exposed[k])}
    <3>1. x \subseteq Sessions /\ v \subseteq Keys /\ l \subseteq Keys
      BY <1>h, <2>2 DEF Registered
    <3>2. hist' = [hist EXCEPT !.excused = x, !.pruned = v, !.lost = l]
      BY <2>1
    <3> HIDE DEF x, v, l
    <3>3. hist' = [accepted |-> hist.accepted, refused |-> hist.refused, excused |-> x,
                   pruned |-> v, lost |-> l, booted |-> hist.booted]
      BY <1>h, <3>2
    <3> QED BY <1>h, <3>1, <3>3 DEF Histories
  <2>7. Measured'
    BY <2>1, <2>4, <2>6 DEF LedgerTypes, Measured
  <2> QED BY <1>0, <2>1, <2>4, <2>5, <2>6, <2>7 DEF LedgerTypes, ServerTyped, ClientTyped, Counted, Owned
<1>3. ASSUME NEW kept \in 0 .. Len(disk), Restart(kept) PROVE LedgerTypes'
  <2> DEFINE log == SubSeq(disk, 1, kept)
             b == BootFold(log)
  <2>1. /\ log \in Seq(Lines(sent, now)) /\ Len(log) = kept /\ disk' = log /\ kept \in Nat
        /\ Booted(b, log, sent, now, kept)
        /\ chains' = b.chains /\ window' = b.window /\ exposed' \in PruneExposed(b.exposed)
    BY <1>3, Rebooted
  <2>u. /\ boots < MaxBoots /\ boots' = boots + 1
        /\ client' = [c \in Sessions |-> Off]
        /\ up' = [c \in Sessions |-> <<>>]
        /\ pump' = [c \in Sessions |-> Idle]
        /\ hist' = [hist EXCEPT !.excused = {}, !.refused = {}, !.booted = kept,
                                !.lost = {k \in Registered(b.exposed) : exposed'[k] < 0}]
        /\ UNCHANGED <<now, sent, reveals, faults>>
    BY <1>3 DEF Restart
  <2> HIDE DEF b, log
  <2>2. /\ b.chains \in [Keys -> Tips(sent, now)] /\ b.exposed \in [Keys -> -1 .. now]
        /\ b.window \in Seq(Lines(sent, now)) /\ Len(b.window) = kept
    BY <2>1 DEF Booted, BootTypes
  <2>3. exposed' \in [Keys -> -1 .. now]
    BY <1>0, <2>1, <2>2, RegistryTypes
  <2>4. hist' \in Histories(sent) /\ hist'.booted = kept
    <3> DEFINE l == {k \in Registered(b.exposed) : exposed'[k] < 0}
    <3>1. l \subseteq Keys
      BY DEF Registered
    <3> HIDE DEF l
    <3>2. hist' = [hist EXCEPT !.excused = {}, !.refused = {}, !.booted = kept, !.lost = l]
      BY <2>u DEF l
    <3>3. hist' = [accepted |-> hist.accepted, refused |-> {}, excused |-> {},
                   pruned |-> hist.pruned, lost |-> l, booted |-> kept]
      BY <1>h, <3>2
    <3> QED BY <1>h, <2>1, <3>1, <3>3 DEF Histories
  <2>5. ServerTyped(sent, now)'
    BY <2>1, <2>u, <2>2, <2>3, <2>4 DEF ServerTyped
  <2>6. ClientTyped(sent, now)' /\ Owned'
    <3>1. Off \in Clients(sent) /\ ~Off.on
      BY <1>0 DEF Off, Clients
    <3>2. <<>> \in Seq(Frames(sent)) /\ DOMAIN <<>> = {}
      OBVIOUS
    <3>3. Idle \in Pumps(sent, now)
      BY DEF Pumps
    <3>4. client' \in [Sessions -> Clients(sent)] /\ up' \in [Sessions -> Seq(Frames(sent))]
          /\ pump' \in [Sessions -> Pumps(sent, now)]
      BY <2>u, <3>1, <3>2, <3>3
    <3>5. Owned'
      <4>1. ASSUME NEW c \in Sessions PROVE ~client'[c].on /\ DOMAIN up'[c] = {}
        BY <2>u, <3>1, <3>2
      <4> QED BY <4>1 DEF Owned
    <3> QED BY <2>u, <3>4, <3>5 DEF ClientTyped
  <2>7. Measured'
    <3>1. \A k \in Keys : ~chains'[k].known => chains'[k].seq = 0 /\ chains'[k].prev = 0
      BY <2>1 DEF Booted, BootTips
    <3> QED BY <2>1, <2>2, <2>4, <3>1 DEF Measured
  <2>8. Counted'
    BY <2>u DEF LedgerTypes, LedgerConstants, Counted
  <2> QED BY <2>5, <2>6, <2>7, <2>8 DEF LedgerTypes
<1> QED BY <1>1, <1>2, <1>3

LEMMA TypesKept ==
  ASSUME LedgerConstants, LedgerTypes, InTime(disk), [Next]_vars
  PROVE  LedgerTypes'
<1>1. CASE UNCHANGED vars
  BY <1>1 DEF vars, LedgerTypes, Counted, ServerTyped, ClientTyped, Owned, Measured
<1>2. CASE Next
  BY <1>2, ClientSteps, PumpSteps, ServerSteps DEF Next
<1> QED BY <1>1, <1>2

LEMMA TypesInit == LedgerConstants /\ Init => LedgerTypes /\ InTime(disk)
<1> SUFFICES ASSUME LedgerConstants, Init PROVE LedgerTypes /\ InTime(disk)
  OBVIOUS
<1>1. Counted
  BY DEF Init, LedgerConstants, Counted
<1>2. ServerTyped(0, 0)
  <2>1. NoTip \in Tips(0, 0)
    BY DEF NoTip, Tips
  <2>2. hist \in Histories(0)
    BY DEF Init, Histories
  <2> QED BY <2>1, <2>2 DEF Init, ServerTyped
<1>3. ClientTyped(0, 0)
  <2>1. Off \in Clients(0) /\ <<>> \in Seq(Frames(0)) /\ Idle \in Pumps(0, 0)
    BY DEF Off, Clients, Pumps
  <2> QED BY <2>1 DEF Init, ClientTyped
<1>4. Owned
  <2>1. ASSUME NEW c \in Sessions PROVE ~client[c].on /\ DOMAIN up[c] = {}
    BY DEF Init, Off
  <2> QED BY <2>1 DEF Owned
<1>5. Measured /\ InTime(disk)
  BY DEF Init, Measured, NoTip, InTime
<1> QED BY <1>1, <1>2, <1>3, <1>4, <1>5 DEF LedgerTypes, Init

LEMMA TypesSuffice == LedgerConstants /\ LedgerTypes => TypeOK
<1> SUFFICES ASSUME LedgerConstants, LedgerTypes PROVE TypeOK
  OBVIOUS
<1>0. /\ sent \in Nat /\ now \in Nat /\ MaxSent \in Nat /\ MaxNow \in Nat /\ sent <= MaxSent /\ now <= MaxNow
  BY DEF LedgerTypes, LedgerConstants, Counted
<1>1. ServerTyped(MaxSent, MaxNow) /\ ClientTyped(MaxSent, MaxNow)
  BY <1>0, TypesGrow DEF LedgerTypes
<1>2. \A c \in Sessions : Set(up[c]) \subseteq Frame
  <2>1. Frames(MaxSent) = Frame
    BY DEF Frames, Frame, ChatFrames, Reveals
  <2>2. ASSUME NEW c \in Sessions, NEW i \in DOMAIN up[c] PROVE up[c][i] \in Frames(MaxSent)
    <3>1. up[c] \in Seq(Frames(MaxSent))
      BY <1>1 DEF ClientTyped
    <3> QED BY <3>1
  <2> QED BY <2>1, <2>2 DEF Set
<1>3. \A c \in Sessions : pump[c].at \in {"read", "linked", "loaded", "reveal", "announce"}
  BY <1>0, <1>1, PumpShapes DEF ClientTyped
<1> QED BY <1>1, <1>2, <1>3 DEF TypeOK, LedgerTypes, Counted, ServerTyped, ClientTyped, Tips, Clients, Measured
-----------------------------------------------------------------------------
(* The registry of published seeds.                                        *)

(* An entry moves up, or it had expired, unless the loss is on record.     *)
SafeMove(k) ==
  \/ exposed'[k] = now
  \/ k \notin hist.lost /\ (exposed'[k] >= exposed[k] \/ now - exposed[k] > TTL)

(* What every step of the registry has in common: a record stored is as    *)
(* young as the clock, and an announcement finds its key registered.       *)
RegistryStep ==
  /\ now' = now
  /\ \A k \in Keys \ hist'.lost : SafeMove(k)
  /\ \A i \in DOMAIN disk' :
       \/ i \in DOMAIN disk /\ disk'[i] = disk[i]
       \/ /\ i = Len(disk) + 1 /\ disk'[i].at = now
          /\ disk'[i].kind = "notice" /\ disk'[i].key \notin hist'.lost => exposed'[disk'[i].key] = now
  /\ \A c \in Sessions : pump'[c].at = "announce" =>
       \/ pump'[c] = pump[c]
       \/ pump'[c].frame.key \notin hist'.lost => exposed'[pump'[c].frame.key] = now

LEMMA RegistryMoves ==
  ASSUME LedgerConstants, LedgerTypes, LedgerTypes', InTime(disk), Noticed, Announcing, RegistryStep
  PROVE  InTime(disk)' /\ Noticed' /\ Announcing'
<1>0. /\ now \in Nat /\ sent \in Nat /\ now' = now /\ TTL \in Nat /\ sent' \in Nat /\ now' \in Nat
      /\ exposed \in [Keys -> -1 .. now] /\ exposed' \in [Keys -> -1 .. now]
      /\ disk \in Seq(Lines(sent, now)) /\ disk' \in Seq(Lines(sent', now))
      /\ pump \in [Sessions -> Pumps(sent, now)] /\ pump' \in [Sessions -> Pumps(sent', now)]
  BY DEF RegistryStep, LedgerTypes, LedgerConstants, Counted, ServerTyped, ClientTyped
<1>1. /\ \A i \in DOMAIN disk : disk[i] \in Lines(sent, now) /\ disk[i].key \in Keys /\ disk[i].at \in 0 .. now
      /\ \A i \in DOMAIN disk' : disk'[i] \in Lines(sent', now) /\ disk'[i].key \in Keys /\ disk'[i].at \in 0 .. now
      /\ DOMAIN disk = 1 .. Len(disk) /\ DOMAIN disk' = 1 .. Len(disk') /\ Len(disk) \in Nat /\ Len(disk') \in Nat
  <2>1. \A S, z : z \in Seq(S) => Len(z) \in Nat /\ DOMAIN z = 1 .. Len(z) /\ \A i \in DOMAIN z : z[i] \in S
    OBVIOUS
  <2>2. /\ \A i \in DOMAIN disk : disk[i] \in Lines(sent, now)
        /\ \A i \in DOMAIN disk' : disk'[i] \in Lines(sent', now)
        /\ DOMAIN disk = 1 .. Len(disk) /\ DOMAIN disk' = 1 .. Len(disk') /\ Len(disk) \in Nat /\ Len(disk') \in Nat
    BY <1>0, <2>1, Zenon
  <2> QED BY <1>0, <2>2, LineShapes
<1>2. \A i \in DOMAIN disk' :
       \/ i \in DOMAIN disk /\ disk'[i] = disk[i]
       \/ /\ i = Len(disk) + 1 /\ disk'[i].at = now
          /\ disk'[i].kind = "notice" /\ disk'[i].key \notin hist'.lost => exposed'[disk'[i].key] = now
  BY DEF RegistryStep
<1>3. InTime(disk)'
  <2> SUFFICES ASSUME NEW p \in DOMAIN disk', NEW q \in DOMAIN disk', p < q PROVE disk'[p].at <= disk'[q].at
    BY DEF InTime
  <2>1. CASE q \in DOMAIN disk /\ disk'[q] = disk[q]
    <3>1. p \in DOMAIN disk /\ disk'[p] = disk[p]
      BY <1>1, <1>2, <2>1
    <3> QED BY <2>1, <3>1 DEF InTime
  <2>2. CASE disk'[q].at = now
    BY <1>0, <1>1, <2>2
  <2> QED BY <1>2, <2>1, <2>2
<1>4. Noticed'
  <2> SUFFICES ASSUME NEW i \in DOMAIN disk', disk'[i].kind = "notice", now - disk'[i].at <= TTL,
                      disk'[i].key \notin hist'.lost
               PROVE  exposed'[disk'[i].key] >= disk'[i].at
    BY <1>0 DEF Noticed
  <2>1. SafeMove(disk'[i].key)
    BY <1>1 DEF RegistryStep
  <2>2. CASE exposed'[disk'[i].key] = now
    BY <1>0, <1>1, <2>2
  <2>3. CASE exposed'[disk'[i].key] # now
    <3>1. i \in DOMAIN disk /\ disk'[i] = disk[i]
      BY <1>2, <2>3
    <3>2. disk[i].key \notin hist.lost /\ (exposed'[disk[i].key] >= exposed[disk[i].key] \/ now - exposed[disk[i].key] > TTL)
      BY <2>1, <2>3, <3>1 DEF SafeMove
    <3>3. exposed[disk[i].key] >= disk[i].at
      BY <3>1, <3>2 DEF Noticed
    <3>4. exposed[disk[i].key] \in -1 .. now /\ exposed'[disk[i].key] \in -1 .. now /\ disk[i].at \in 0 .. now
      BY <1>0, <1>1, <3>1
    <3> QED BY <1>0, <3>1, <3>2, <3>3, <3>4
  <2> QED BY <2>2, <2>3
<1>5. Announcing'
  <2> SUFFICES ASSUME NEW c \in Sessions, pump'[c].at = "announce", pump'[c].frame.key \notin hist'.lost
               PROVE  exposed'[pump'[c].frame.key] = now
    BY <1>0 DEF Announcing
  <2>1. CASE pump'[c] = pump[c]
    <3>1. pump[c].frame.key \in Keys
      BY <1>0, <2>1, PumpShapes DEF Reveals
    <3>2. SafeMove(pump[c].frame.key)
      BY <2>1, <3>1 DEF RegistryStep
    <3>3. CASE exposed'[pump[c].frame.key] # now
      <4>1. exposed[pump[c].frame.key] = now
        BY <2>1, <3>2, <3>3 DEF SafeMove, Announcing
      <4>2. exposed'[pump[c].frame.key] \in -1 .. now
        BY <1>0, <3>1
      <4> QED BY <1>0, <3>2, <3>3, <4>1, <4>2 DEF SafeMove
    <3> QED BY <2>1, <3>3
  <2> QED BY <2>1 DEF RegistryStep
<1> QED BY <1>3, <1>4, <1>5

(* The entries a prune takes are expired ones, or they are on record.      *)
LEMMA PrunedEntries ==
  ASSUME now \in Nat, TTL \in Nat, NEW e \in [Keys -> -1 .. now], NEW x \in PruneExposed(e), NEW k \in Keys
  PROVE  x[k] = e[k] \/ (x[k] = -1 /\ e[k] >= 0 /\ (now - e[k] > TTL \/ (k \in Registered(e) /\ x[k] < 0 /\ Live(e[k]))))
<1>1. PICK V \in Evicted(e, Registered(e)) : x = [d \in Keys |-> IF d \in V THEN -1 ELSE e[d]]
  BY DEF PruneExposed
<1>2. V \subseteq Registered(e)
  BY <1>1 DEF Evicted, Oldest
<1>3. CASE k \in V
  BY <1>1, <1>2, <1>3 DEF Registered, Live
<1>4. CASE k \notin V
  BY <1>1, <1>4
<1> QED BY <1>3, <1>4
LEMMA ExposureKept ==
  ASSUME LedgerConstants, LedgerTypes, LedgerTypes', ExposedInv, [Next]_vars
  PROVE  ExposedInv'
<1>0. /\ sent \in Nat /\ now \in Nat /\ TTL \in Nat /\ ServerTyped(sent, now) /\ ClientTyped(sent, now)
      /\ pump \in [Sessions -> Pumps(sent, now)]
      /\ exposed \in [Keys -> -1 .. now] /\ Len(window) = Len(disk) /\ Len(disk) \in Nat
      /\ disk \in Seq(Lines(sent, now)) /\ DOMAIN disk = 1 .. Len(disk)
  BY DEF LedgerTypes, LedgerConstants, Counted, ClientTyped, ServerTyped, Measured
<1>h. /\ hist = [accepted |-> hist.accepted, refused |-> hist.refused, excused |-> hist.excused,
                 pruned |-> hist.pruned, lost |-> hist.lost, booted |-> hist.booted]
      /\ hist.booted \in Nat /\ hist.booted <= Len(disk) /\ hist.lost \subseteq Keys
  BY <1>0, HistoryShapes DEF LedgerTypes, ServerTyped, Measured
<1>m. ASSUME RegistryStep PROVE InTime(disk)' /\ Noticed' /\ Announcing'
  BY <1>m, RegistryMoves DEF ExposedInv
<1>r. ASSUME NEW r \in Lines(sent, now), Store(r), hist'.booted = hist.booted
      PROVE  /\ Flagged' /\ DOMAIN disk' = 1 .. (Len(disk) + 1) /\ disk'[Len(disk) + 1] = r
             /\ \A i \in 1 .. Len(disk) : disk'[i] = disk[i]
  <2>1. /\ DOMAIN disk' = 1 .. (Len(disk) + 1) /\ disk'[Len(disk) + 1] = r
        /\ \A i \in 1 .. Len(disk) : disk'[i] = disk[i] /\ window'[i] = window[i]
    BY <1>0, <1>r, Stored
  <2>2. 1 .. hist.booted \subseteq 1 .. Len(disk)
    BY <1>0, <1>h
  <2>3. Flagged'
    BY <1>r, <2>1, <2>2 DEF ExposedInv, Flagged
  <2> QED BY <2>1, <2>3
<1>q. ASSUME UNCHANGED <<now, exposed, disk, window>>, hist'.lost = hist.lost, hist'.booted = hist.booted,
             \A d \in Sessions : pump'[d].at = "announce" => pump'[d] = pump[d]
      PROVE  ExposedInv'
  <2>1. RegistryStep
    <3>1. \A k \in Keys \ hist'.lost : SafeMove(k)
      BY <1>0, <1>q DEF SafeMove
    <3> QED BY <1>q, <3>1 DEF RegistryStep
  <2>2. Flagged'
    BY <1>q DEF ExposedInv, Flagged
  <2> QED BY <1>m, <2>1, <2>2 DEF ExposedInv
<1>1. ASSUME NEW c \in Sessions,
             \/ \E k \in Keys : Login(c, k)
             \/ SendMessage(c) \/ SendFails(c) \/ Burn(c) \/ Leave(c)
      PROVE  ExposedInv'
  <2>1. UNCHANGED <<now, exposed, disk, window, pump>>
    BY <1>1 DEF Login, SendMessage, SendFails, Burn, Leave
  <2>2. hist'.lost = hist.lost /\ hist'.booted = hist.booted
    BY <1>1, <1>h DEF Login, SendMessage, SendFails, Burn, Leave
  <2> QED BY <1>q, <2>1, <2>2
<1>2. ASSUME NEW c \in Sessions, DropBefore(c) \/ Accept(c) \/ DropAfter(c) \/ LoadFlag(c) \/ Reveal(c)
      PROVE  ExposedInv'
  <2>1. UNCHANGED <<now, exposed, disk, window>>
    BY <1>2 DEF DropBefore, Accept, DropAfter, LoadFlag, Reveal
  <2>2. hist'.lost = hist.lost /\ hist'.booted = hist.booted
    BY <1>2, <1>h DEF DropBefore, Accept, DropAfter, LoadFlag, Reveal
  <2>3. \A d \in Sessions : pump'[d].at = "announce" => pump'[d] = pump[d]
    <3>1. CASE DropBefore(c)
      BY <3>1 DEF DropBefore
    <3>2. CASE Accept(c)
      BY <1>0, <3>2 DEF Accept
    <3>3. CASE DropAfter(c)
      BY <1>0, <3>3, BackToRead DEF DropAfter, Idle
    <3>4. CASE LoadFlag(c)
      <4>1. ASSUME NEW d \in Sessions, d # c PROVE pump'[d] = pump[d]
        BY <1>0, <3>4, <4>1 DEF LoadFlag
      <4>2. pump'[c].at = "loaded"
        <5>1. pump' = [pump EXCEPT ![c] = [[pump[c] EXCEPT !.at = "loaded"] EXCEPT !.loaded = exposed[pump[c].frame.key]]]
          BY <1>0, <3>4 DEF LoadFlag
        <5>2. pump[c] \in Handling(sent, now)
          BY <1>0, <3>4, PumpShapes DEF LoadFlag
        <5> DEFINE p == [pump[c] EXCEPT !.at = "loaded"]
        <5>3. p \in Handling(sent, now) /\ p.at = "loaded"
          BY <5>2 DEF Handling
        <5> HIDE DEF p
        <5>4. [p EXCEPT !.loaded = exposed[pump[c].frame.key]].at = "loaded"
          BY <5>3 DEF Handling
        <5> QED BY <1>0, <5>1, <5>4 DEF p
      <4> QED BY <4>1, <4>2
    <3>5. CASE Reveal(c)
      <4>1. ASSUME NEW d \in Sessions, d # c PROVE pump'[d] = pump[d]
        BY <1>0, <3>5, <4>1 DEF Reveal
      <4>2. CASE pump' = pump
        BY <4>2
      <4>3. CASE pump' # pump
        <5>1. pump' = [pump EXCEPT ![c] = [[[pump[c] EXCEPT !.at = "reveal"] EXCEPT !.frame = Head1(c)] EXCEPT !.loaded = exposed[Head1(c).key]]]
          BY <1>0, <3>5, <4>3 DEF Reveal
        <5>2. pump[c] = Idle
          BY <1>0, <3>5, PumpShapes DEF Reveal, Reads
        <5> DEFINE p == [pump[c] EXCEPT !.at = "reveal"]
                   q == [p EXCEPT !.frame = Head1(c)]
        <5>3. p = [at |-> "reveal", frame |-> [kind |-> "none"], loaded |-> -1]
          BY <5>2 DEF Idle
        <5> HIDE DEF p
        <5>4. q = [at |-> "reveal", frame |-> Head1(c), loaded |-> -1]
          BY <5>3
        <5> HIDE DEF q
        <5>5. [q EXCEPT !.loaded = exposed[Head1(c).key]].at = "reveal"
          BY <5>4
        <5>6. pump'[c].at = "reveal"
          BY <1>0, <5>1, <5>5 DEF p, q
        <5> QED BY <4>1, <5>6
      <4> QED BY <4>2, <4>3
    <3> QED BY <1>2, <3>1, <3>2, <3>3, <3>4, <3>5
  <2> QED BY <1>q, <2>1, <2>2, <2>3
<1>3. ASSUME NEW c \in Sessions, Post(c) PROVE ExposedInv'
  <2> DEFINE f == pump[c].frame
             at == pump[c].loaded
             r == ChatLine(f, Live(at))
  <2>1. /\ f \in ChatFrames(sent) /\ at \in -1 .. now /\ f.key \in Keys
        /\ f.seq \in 1 .. sent /\ f.prev \in 0 .. sent /\ f.id \in 1 .. sent
    BY <1>0, <1>3, PumpShapes DEF Post, ChatFrames
  <2>2. r \in Lines(sent, now) /\ r.at = now /\ r.kind = "chat"
    <3>2. PICK b : b = Live(at) /\ b \in BOOLEAN
      BY DEF Live
    <3>3. [kind |-> "chat", key |-> f.key, seq |-> f.seq, prev |-> f.prev, id |-> f.id, flag |-> b, at |-> now]
          \in Chats(sent, now)
      <4>1. b \in BOOLEAN /\ now \in 0 .. now
        BY <1>0, <3>2
      <4> HIDE DEF f
      <4> QED BY <2>1, <4>1, Zenon DEF Chats
    <3> QED BY <3>2, <3>3 DEF ChatLine, Lines
  <2>3. /\ exposed' = Touch(exposed, f.key, at) /\ Store(r)
        /\ pump' = [pump EXCEPT ![c] = Idle]
        /\ hist' = [hist EXCEPT !.lost = IF StaleDelete(c) THEN @ \cup {f.key} ELSE @]
        /\ now' = now
    BY <1>3 DEF Post
  <2>4. /\ hist'.booted = hist.booted /\ hist.lost \subseteq hist'.lost
        /\ StaleDelete(c) => f.key \in hist'.lost
    BY <1>h, <2>3
  <2>5. ASSUME NEW k \in Keys \ hist'.lost PROVE SafeMove(k)
    <3>1. CASE k # f.key
      <4>1. exposed'[k] = exposed[k]
        BY <1>0, <2>1, <2>3, <3>1 DEF Touch
      <4> QED BY <1>0, <2>4, <4>1 DEF SafeMove
    <3>2. CASE k = f.key
      <4>1. at >= 0 /\ ~Live(at) => exposed[k] = at
        BY <2>4, <3>2 DEF StaleDelete
      <4>2. k \notin hist.lost
        BY <2>4
      <4>3. exposed[k] \in -1 .. now
        BY <1>0
      <4> HIDE DEF f, at
      <4>4. exposed'[k] = IF at < 0 THEN exposed[k] ELSE IF now - at > TTL THEN -1 ELSE IF now > at THEN now ELSE exposed[k]
        BY <1>0, <2>1, <2>3, <3>2 DEF Touch
      <4> QED BY <1>0, <2>1, <4>1, <4>2, <4>3, <4>4 DEF SafeMove, Live
    <3> QED BY <3>1, <3>2
  <2> HIDE DEF f, at, r
  <2>6. /\ Flagged' /\ DOMAIN disk' = 1 .. (Len(disk) + 1) /\ disk'[Len(disk) + 1] = r
        /\ \A i \in 1 .. Len(disk) : disk'[i] = disk[i]
    BY <1>r, <2>2, <2>3, <2>4
  <2>7. \A i \in DOMAIN disk' : (i \in DOMAIN disk /\ disk'[i] = disk[i]) \/ (i = Len(disk) + 1 /\ disk'[i] = r)
    BY <1>0, <2>6
  <2>8. \A d \in Sessions : pump'[d].at = "announce" => pump'[d] = pump[d]
    BY <1>0, <2>3, BackToRead DEF Idle
  <2>9. RegistryStep
    BY <2>2, <2>3, <2>5, <2>7, <2>8 DEF RegistryStep
  <2> QED BY <1>m, <2>6, <2>9 DEF ExposedInv
<1>4. ASSUME NEW c \in Sessions, MarkExposed(c) PROVE ExposedInv'
  <2> DEFINE k == pump[c].frame.key
             at == pump[c].loaded
             e == Touch(exposed, k, at)
  <2>1. pump[c] \in Revealing(now) /\ k \in Keys /\ at \in -1 .. now
    BY <1>0, <1>4, PumpShapes DEF MarkExposed, Reveals
  <2>u. UNCHANGED <<now, disk, window>>
    BY <1>4 DEF MarkExposed
  <2>2. e \in [Keys -> -1 .. now]
    BY <1>0, <2>1, RegistryTypes
  <2>t. \A d \in Keys : d # k => e[d] = exposed[d]
    BY <1>0, <2>1 DEF Touch
  <2>3. CASE Live(at)
    <3>1. exposed' = e /\ pump' = [pump EXCEPT ![c] = Idle] /\ hist' = hist
      BY <1>4, <2>3 DEF MarkExposed
    <3>2. e[k] = now \/ e[k] = exposed[k]
      BY <1>0, <2>1, <2>3 DEF Touch, Live
    <3> HIDE DEF e
    <3>3. \A d \in Keys \ hist'.lost : SafeMove(d)
      BY <1>0, <2>2, <2>t, <3>1, <3>2 DEF SafeMove
    <3>4. \A d \in Sessions : pump'[d].at = "announce" => pump'[d] = pump[d]
      BY <1>0, <3>1, BackToRead DEF Idle
    <3>5. RegistryStep
      BY <2>u, <3>3, <3>4 DEF RegistryStep
    <3>6. Flagged'
      BY <2>u, <3>1 DEF ExposedInv, Flagged
    <3> QED BY <1>m, <3>5, <3>6 DEF ExposedInv
  <2>4. CASE ~Live(at)
    <3> DEFINE m == Mark(e, k)
    <3>1. /\ exposed' \in PruneExposed(m)
          /\ pump' = [pump EXCEPT ![c].at = "announce"]
          /\ hist' = [hist EXCEPT !.lost = (@ \ {k}) \cup {d \in Registered(m) : exposed'[d] < 0 /\ Live(m[d])}]
      BY <1>4, <2>4 DEF MarkExposed
    <3>2. m \in [Keys -> -1 .. now] /\ m[k] = now /\ \A d \in Keys : d # k => m[d] = exposed[d]
      BY <1>0, <2>1, <2>2, <2>t, RegistryTypes DEF Mark
    <3> HIDE DEF e, m
    <3>3. /\ hist'.booted = hist.booted
          /\ \A d \in Keys \ hist'.lost : (d # k => d \notin hist.lost) /\ ~(d \in Registered(m) /\ exposed'[d] < 0 /\ Live(m[d]))
      <4> DEFINE L == {d \in Registered(m) : exposed'[d] < 0 /\ Live(m[d])}
      <4>1. hist'.booted = hist.booted /\ hist'.lost = (hist.lost \ {k}) \cup L
        BY <1>h, <3>1
      <4> QED BY <4>1
    <3>4. ASSUME NEW d \in Keys \ hist'.lost PROVE exposed'[d] = m[d] \/ (now - m[d] > TTL /\ d # k)
      <4>1. exposed'[d] = m[d] \/ (exposed'[d] = -1 /\ m[d] >= 0 /\ now - m[d] > TTL)
        BY <1>0, <3>1, <3>2, <3>3, PrunedEntries
      <4> QED BY <1>0, <3>2, <4>1
    <3>5. ASSUME NEW d \in Keys \ hist'.lost PROVE SafeMove(d) /\ (d = k => exposed'[d] = now)
      BY <1>0, <3>2, <3>3, <3>4 DEF SafeMove
    <3>6. /\ pump'[c].frame.key = k
          /\ \A d \in Sessions : d # c => pump'[d] = pump[d]
      <4>1. pump' = [pump EXCEPT ![c] = [pump[c] EXCEPT !.at = "announce"]]
        BY <1>0, <3>1
      <4>2. [pump[c] EXCEPT !.at = "announce"].frame = pump[c].frame
        BY <2>1 DEF Revealing
      <4> QED BY <1>0, <4>1, <4>2
    <3>7. RegistryStep
      BY <2>1, <2>u, <3>5, <3>6 DEF RegistryStep
    <3>8. Flagged'
      BY <2>u, <3>3 DEF ExposedInv, Flagged
    <3> QED BY <1>m, <3>7, <3>8 DEF ExposedInv
  <2> QED BY <2>3, <2>4
<1>5. ASSUME NEW c \in Sessions, Announce(c) PROVE ExposedInv'
  <2> DEFINE k == pump[c].frame.key
             r == Notice(k)
  <2>1. k \in Keys /\ r \in Lines(sent, now) /\ r.at = now /\ r.key = k
    <3>1. k \in Keys
      BY <1>0, <1>5, PumpShapes DEF Announce, Reveals
    <3> QED BY <1>0, <3>1 DEF Notice, Lines, Notices
  <2>2. Store(r) /\ pump' = [pump EXCEPT ![c] = Idle] /\ UNCHANGED <<now, exposed, hist>> /\ pump[c].at = "announce"
    BY <1>5 DEF Announce
  <2>3. k \notin hist.lost => exposed[k] = now
    BY <2>2 DEF ExposedInv, Announcing
  <2> HIDE DEF k, r
  <2>6. /\ Flagged' /\ DOMAIN disk' = 1 .. (Len(disk) + 1) /\ disk'[Len(disk) + 1] = r
        /\ \A i \in 1 .. Len(disk) : disk'[i] = disk[i]
    BY <1>r, <2>1, <2>2
  <2>7. \A i \in DOMAIN disk' : (i \in DOMAIN disk /\ disk'[i] = disk[i]) \/ (i = Len(disk) + 1 /\ disk'[i] = r)
    BY <1>0, <2>6
  <2>8. \A d \in Sessions : pump'[d].at = "announce" => pump'[d] = pump[d]
    BY <1>0, <2>2, BackToRead DEF Idle
  <2>9. \A d \in Keys \ hist'.lost : SafeMove(d)
    BY <1>0, <2>2 DEF SafeMove
  <2>10. RegistryStep
    BY <2>1, <2>2, <2>3, <2>7, <2>8, <2>9 DEF RegistryStep
  <2> QED BY <1>m, <2>6, <2>10 DEF ExposedInv
<1>6. CASE Tick
  <2>1. now' = now + 1 /\ UNCHANGED <<exposed, disk, window, pump, hist>> /\ \A c \in Sessions : pump[c].at = "read"
    BY <1>6 DEF Tick
  <2>2. Noticed'
    <3> SUFFICES ASSUME NEW i \in DOMAIN disk, disk[i].kind = "notice", now' - disk[i].at <= TTL, disk[i].key \notin hist.lost
                 PROVE  exposed[disk[i].key] >= disk[i].at
      BY <2>1 DEF Noticed
    <3>1. disk[i].at \in 0 .. now
      BY <1>0, LineShapes
    <3>2. now - disk[i].at <= TTL
      BY <1>0, <2>1, <3>1
    <3> QED BY <3>2 DEF ExposedInv, Noticed
  <2>3. Announcing' /\ Flagged' /\ InTime(disk)'
    BY <2>1 DEF ExposedInv, Announcing, Flagged, InTime
  <2> QED BY <2>2, <2>3 DEF ExposedInv
<1>7. CASE Prune
  <2>1. /\ exposed' \in PruneExposed(exposed) /\ UNCHANGED <<now, pump, disk, window>>
        /\ hist'.booted = hist.booted
        /\ hist'.lost = hist.lost \cup {k \in Registered(exposed) : exposed'[k] < 0 /\ Live(exposed[k])}
    BY <1>7, <1>h DEF Prune
  <2>2. ASSUME NEW k \in Keys \ hist'.lost PROVE SafeMove(k)
    <3>1. k \notin hist.lost /\ ~(k \in Registered(exposed) /\ exposed'[k] < 0 /\ Live(exposed[k]))
      BY <2>1
    <3>2. exposed'[k] = exposed[k] \/ now - exposed[k] > TTL
      BY <1>0, <2>1, <3>1, PrunedEntries
    <3> QED BY <1>0, <3>1, <3>2 DEF SafeMove
  <2>3. RegistryStep
    BY <2>1, <2>2 DEF RegistryStep
  <2>4. Flagged'
    BY <2>1 DEF ExposedInv, Flagged
  <2> QED BY <1>m, <2>3, <2>4 DEF ExposedInv
<1>8. ASSUME NEW kept \in 0 .. Len(disk), Restart(kept) PROVE ExposedInv'
  <2> DEFINE log == SubSeq(disk, 1, kept)
             b == BootFold(log)
  <2>1. /\ log \in Seq(Lines(sent, now)) /\ Len(log) = kept /\ InTime(log) /\ disk' = log /\ kept \in Nat
        /\ \A i \in 1 .. kept : log[i] \in Lines(sent, now)
        /\ DOMAIN log = 1 .. kept
        /\ Booted(b, log, sent, now, kept)
        /\ window' = b.window /\ exposed' \in PruneExposed(b.exposed)
    BY <1>8, Rebooted DEF ExposedInv
  <2>2. /\ now' = now /\ pump' = [c \in Sessions |-> Idle] /\ hist'.booted = kept
        /\ hist'.lost = {k \in Registered(b.exposed) : exposed'[k] < 0}
    BY <1>8, <1>h DEF Restart
  <2> HIDE DEF b, log
  <2>3. b.exposed \in [Keys -> -1 .. now]
    BY <2>1 DEF Booted, BootTypes
  <2>4. Noticed'
    <3> SUFFICES ASSUME NEW i \in 1 .. kept, log[i].kind = "notice", now - log[i].at <= TTL, log[i].key \notin hist'.lost
                 PROVE  exposed'[log[i].key] >= log[i].at
      BY <2>1, <2>2 DEF Noticed
    <3> DEFINE k == log[i].key
    <3>1. k \in Keys /\ log[i].at \in 0 .. now
      BY <1>0, <2>1, LineShapes
    <3>2. b.exposed[k] >= log[i].at
      BY <2>1, <3>1 DEF Booted, BootExposed
    <3>3. ~(k \in Registered(b.exposed) /\ exposed'[k] < 0)
      BY <2>2
    <3>4. b.exposed[k] \in -1 .. now
      BY <2>3, <3>1
    <3> HIDE DEF k
    <3>5. exposed'[k] = b.exposed[k] \/ now - b.exposed[k] > TTL
      BY <1>0, <2>1, <2>3, <3>1, <3>3, PrunedEntries
    <3>6. ~(now - b.exposed[k] > TTL)
      BY <1>0, <3>1, <3>2, <3>4
    <3> QED BY <3>2, <3>5, <3>6 DEF k
  <2>5. Announcing'
    BY <2>2 DEF Announcing, Idle
  <2>6. Flagged'
    BY <2>1, <2>2 DEF Booted, BootFlags, Flagged
  <2> QED BY <2>1, <2>4, <2>5, <2>6 DEF ExposedInv
<1>9. CASE UNCHANGED vars
  BY <1>9 DEF vars, ExposedInv, InTime, Noticed, Announcing, Flagged
<1> QED BY <1>1, <1>2, <1>3, <1>4, <1>5, <1>6, <1>7, <1>8, <1>9 DEF Next
-----------------------------------------------------------------------------
(* The chains.                                                             *)

(* The frame in a pump's hands is the one it took.                         *)
LEMMA HandsKept ==
  ASSUME LedgerTypes, LedgerConstants, NEW c \in Sessions, NEW d \in Sessions,
         \/ DropBefore(c) \/ DropAfter(c) \/ LoadFlag(c) \/ Post(c)
         \/ Reveal(c) \/ MarkExposed(c) \/ Announce(c)
  PROVE  /\ pump'[d].at \in {"linked", "loaded"} =>
              pump[d].at \in {"linked", "loaded"} /\ pump'[d].frame = pump[d].frame
         /\ pump'[d].at # "read" => pump[d].at # "read" \/ (d = c /\ up[c] # <<>>)
         /\ Post(c) => pump'[c].at = "read"
         /\ d # c => pump'[d] = pump[d]
<1>0. /\ sent \in Nat /\ now \in Nat /\ ClientTyped(sent, now)
      /\ pump \in [Sessions -> Pumps(sent, now)] /\ pump[c] \in Pumps(sent, now)
  BY DEF LedgerTypes, LedgerConstants, Counted, ClientTyped
<1>1. CASE DropBefore(c)
  BY <1>1 DEF DropBefore, Post, Reads
<1>2. CASE pump' = [pump EXCEPT ![c] = Idle]
  BY <1>0, <1>2, BackToRead DEF Idle
<1>3. CASE LoadFlag(c)
  <2>1. pump' = [pump EXCEPT ![c] = [[pump[c] EXCEPT !.at = "loaded"] EXCEPT !.loaded = exposed[pump[c].frame.key]]]
    BY <1>0, <1>3 DEF LoadFlag
  <2>2. pump[c] = [at |-> pump[c].at, frame |-> pump[c].frame, loaded |-> pump[c].loaded] /\ pump[c].at = "linked"
    BY <1>0, <1>3, PumpShapes DEF LoadFlag
  <2> DEFINE p == [pump[c] EXCEPT !.at = "loaded"]
             q == [p EXCEPT !.loaded = exposed[pump[c].frame.key]]
  <2>3. p = [at |-> "loaded", frame |-> pump[c].frame, loaded |-> pump[c].loaded]
    BY <2>2
  <2> HIDE DEF p
  <2>4. q.frame = pump[c].frame
    BY <2>3
  <2>5. pump'[c].frame = pump[c].frame /\ \A e \in Sessions : e # c => pump'[e] = pump[e]
    BY <1>0, <2>1, <2>4 DEF p
  <2>6. ~Post(c)
    BY <2>2 DEF Post
  <2> QED BY <2>2, <2>5, <2>6
<1>4. CASE Reveal(c) /\ pump' # pump
  <2>1. pump' = [pump EXCEPT ![c] = [[[pump[c] EXCEPT !.at = "reveal"] EXCEPT !.frame = Head1(c)] EXCEPT !.loaded = exposed[Head1(c).key]]]
    BY <1>0, <1>4 DEF Reveal
  <2>2. pump[c] = Idle /\ up[c] # <<>>
    BY <1>0, <1>4, PumpShapes DEF Reveal, Reads
  <2> DEFINE p == [pump[c] EXCEPT !.at = "reveal"]
             q == [p EXCEPT !.frame = Head1(c)]
  <2>3. p = [at |-> "reveal", frame |-> [kind |-> "none"], loaded |-> -1]
    BY <2>2 DEF Idle
  <2> HIDE DEF p
  <2>4. q = [at |-> "reveal", frame |-> Head1(c), loaded |-> -1]
    BY <2>3
  <2> HIDE DEF q
  <2>5. [q EXCEPT !.loaded = exposed[Head1(c).key]].at = "reveal"
    BY <2>4
  <2>6. pump'[c].at = "reveal" /\ \A e \in Sessions : e # c => pump'[e] = pump[e]
    BY <1>0, <2>1, <2>5 DEF p, q
  <2>7. ~Post(c)
    BY <2>2 DEF Post, Idle
  <2> QED BY <2>2, <2>6, <2>7
<1>5. CASE MarkExposed(c) /\ pump' # [pump EXCEPT ![c] = Idle]
  <2>1. pump' = [pump EXCEPT ![c] = [pump[c] EXCEPT !.at = "announce"]] /\ pump[c].at = "reveal"
    BY <1>0, <1>5 DEF MarkExposed
  <2>2. pump[c] = [at |-> pump[c].at, frame |-> pump[c].frame, loaded |-> pump[c].loaded]
    BY <1>0, PumpShapes
  <2>3. [pump[c] EXCEPT !.at = "announce"].at = "announce"
    BY <2>2
  <2>4. pump'[c].at = "announce" /\ \A e \in Sessions : e # c => pump'[e] = pump[e]
    BY <1>0, <2>1, <2>3
  <2>5. ~Post(c)
    BY <2>1 DEF Post
  <2> QED BY <2>1, <2>4, <2>5
<1>6. CASE Reveal(c) /\ pump' = pump
  BY <1>6 DEF Reveal, Reads, Post
<1> QED BY <1>1, <1>2, <1>3, <1>4, <1>5, <1>6 DEF DropAfter, Post, Announce

(* What every step of the chains has in common: a tip is old, forgotten or *)
(* accepted, and a stored or held message was accepted.                    *)
ChainStep ==
  /\ hist.accepted \subseteq hist'.accepted
  /\ \A f \in hist'.accepted : f \in hist.accepted \/ Extends(f.key, f.seq, f.prev)
  /\ \A k \in Keys : \/ chains'[k] = chains[k] \/ ~chains'[k].known
                     \/ Accepted(k, chains[k].seq, chains[k].prev)'
  /\ \A i \in DOMAIN disk' : disk'[i].kind = "chat" =>
       \/ i \in DOMAIN disk /\ disk'[i] = disk[i]
       \/ \E f \in hist.accepted : f.key = disk'[i].key /\ f.seq = disk'[i].seq /\ f.id = disk'[i].id
                                   /\ f.prev = disk'[i].prev
  /\ \A c \in Sessions : pump'[c].at \in {"linked", "loaded"} =>
       \/ pump[c].at \in {"linked", "loaded"} /\ pump'[c].frame = pump[c].frame
       \/ pump'[c].frame \in hist'.accepted

LEMMA ChainMoves == ChainInv /\ ChainStep => ChainInv'
<1> SUFFICES ASSUME ChainInv, ChainStep PROVE ChainInv'
  OBVIOUS
<1>1. /\ \A k, s, p : Extends(k, s, p) => Extends(k, s, p)'
      /\ \A k, s, p : Accepted(k, s, p) => Accepted(k, s, p)'
  BY DEF ChainStep, Extends, Accepted
<1>2. \A f \in hist'.accepted : Extends(f.key, f.seq, f.prev)'
  BY <1>1 DEF ChainStep, ChainInv
<1>3. \A k \in Keys : chains'[k].known => Accepted(k, chains[k].seq, chains[k].prev)'
  <2> TAKE k \in Keys
  <2>1. CASE chains'[k] = chains[k]
    <3>1. chains[k].known => Accepted(k, chains[k].seq, chains[k].prev)
      BY DEF ChainInv
    <3>2. chains[k].known => \E g \in hist'.accepted : g.key = k /\ g.seq = chains[k].seq /\ g.id = chains[k].prev
      BY <3>1 DEF ChainStep, Accepted
    <3> QED BY <2>1, <3>2 DEF Accepted
  <2>2. CASE chains'[k] # chains[k]
    BY <2>2, Zenon DEF ChainStep
  <2> QED BY <2>1, <2>2
<1>4. \A i \in DOMAIN disk' : disk'[i].kind = "chat" =>
       Accepted(disk[i].key, disk[i].seq, disk[i].id)' /\ Extends(disk[i].key, disk[i].seq, disk[i].prev)'
  <2> SUFFICES ASSUME NEW i \in DOMAIN disk', disk'[i].kind = "chat"
               PROVE  Accepted(disk[i].key, disk[i].seq, disk[i].id)' /\ Extends(disk[i].key, disk[i].seq, disk[i].prev)'
    OBVIOUS
  <2>1. CASE i \in DOMAIN disk /\ disk'[i] = disk[i]
    <3>1. Accepted(disk[i].key, disk[i].seq, disk[i].id) /\ Extends(disk[i].key, disk[i].seq, disk[i].prev)
      BY <2>1 DEF ChainInv
    <3> QED BY <2>1, <3>1 DEF ChainStep, Extends, Accepted
  <2>2. CASE \E f \in hist.accepted : f.key = disk'[i].key /\ f.seq = disk'[i].seq /\ f.id = disk'[i].id
                                   /\ f.prev = disk'[i].prev
    <3>1. PICK f \in hist.accepted : f.key = disk'[i].key /\ f.seq = disk'[i].seq /\ f.id = disk'[i].id
                                   /\ f.prev = disk'[i].prev
      BY <2>2
    <3>2. f \in hist'.accepted /\ Extends(f.key, f.seq, f.prev)
      BY DEF ChainStep, ChainInv
    <3> QED BY <3>1, <3>2 DEF ChainStep, Extends, Accepted
  <2> QED BY <2>1, <2>2 DEF ChainStep
<1>5. \A c \in Sessions : pump'[c].at \in {"linked", "loaded"} => pump'[c].frame \in hist'.accepted
  BY DEF ChainStep, ChainInv
<1> QED BY <1>2, <1>3, <1>4, <1>5 DEF ChainInv

LEMMA ChainsKept ==
  ASSUME LedgerConstants, LedgerTypes, InTime(disk), ChainInv, [Next]_vars
  PROVE  ChainInv'
<1>0. /\ sent \in Nat /\ now \in Nat /\ ServerTyped(sent, now) /\ ClientTyped(sent, now) /\ Owned
      /\ pump \in [Sessions -> Pumps(sent, now)] /\ chains \in [Keys -> Tips(sent, now)]
      /\ Len(window) = Len(disk)
  BY DEF LedgerTypes, LedgerConstants, Counted, ClientTyped, ServerTyped, Measured
<1>h. /\ hist = [accepted |-> hist.accepted, refused |-> hist.refused, excused |-> hist.excused,
                 pruned |-> hist.pruned, lost |-> hist.lost, booted |-> hist.booted]
      /\ hist.accepted \subseteq ChatFrames(sent)
  BY <1>0, HistoryShapes DEF ServerTyped
<1>m. ASSUME ChainStep PROVE ChainInv'
  BY <1>m, ChainMoves
<1>1. ASSUME NEW c \in Sessions,
             \/ \E k \in Keys : Login(c, k)
             \/ SendMessage(c) \/ SendFails(c) \/ Burn(c) \/ Leave(c)
      PROVE  ChainInv'
  <2>1. UNCHANGED <<chains, disk, pump>>
    BY <1>1 DEF Login, SendMessage, SendFails, Burn, Leave
  <2>2. hist'.accepted = hist.accepted
    BY <1>1, <1>h DEF Login, SendMessage, SendFails, Burn, Leave
  <2>3. ChainStep
    BY <2>1, <2>2 DEF ChainStep
  <2> QED BY <1>m, <2>3
<1>2. ASSUME NEW c \in Sessions, DropBefore(c) \/ DropAfter(c) \/ LoadFlag(c) \/ Reveal(c) \/ MarkExposed(c)
      PROVE  ChainInv'
  <2>1. UNCHANGED <<chains, disk>>
    BY <1>2 DEF DropBefore, DropAfter, LoadFlag, Reveal, MarkExposed
  <2>2. hist'.accepted = hist.accepted
    BY <1>2, <1>h DEF DropBefore, DropAfter, LoadFlag, Reveal, MarkExposed
  <2>3. \A d \in Sessions : pump'[d].at \in {"linked", "loaded"} =>
          pump[d].at \in {"linked", "loaded"} /\ pump'[d].frame = pump[d].frame
    BY <1>2, HandsKept
  <2>4. ChainStep
    BY <2>1, <2>2, <2>3 DEF ChainStep
  <2> QED BY <1>m, <2>4
<1>3. ASSUME NEW c \in Sessions, Accept(c) PROVE ChainInv'
  <2> DEFINE f == Head1(c)
  <2>1. f \in ChatFrames(sent) /\ f.key \in Keys /\ f.seq \in 1 .. sent /\ f.id \in 1 .. sent
    <3>1. f \in Frames(sent) /\ f.kind = "chat"
      BY <1>0, <1>3, Popped DEF Accept, Reads
    <3> QED BY <1>0, <3>1, FrameShapes
  <2>2. disk' = disk
    BY <1>3 DEF Accept
  <2>3. CASE Continues(chains[f.key], f)
    <3>1. /\ chains' = [chains EXCEPT ![f.key] = [seq |-> f.seq, prev |-> f.id, seen |-> now, known |-> TRUE]]
          /\ pump' = [pump EXCEPT ![c] = [at |-> "linked", frame |-> f, loaded |-> -1]]
          /\ hist'.accepted = hist.accepted \cup {f}
      BY <1>3, <1>h, <2>3 DEF Accept
    <3> HIDE DEF f
    <3>2. Extends(f.key, f.seq, f.prev)
      <4> DEFINE tip == chains[f.key]
      <4>t. tip.seq \in 0 .. sent
        BY <1>0, <2>1 DEF Tips
      <4>1. CASE tip.known
        <5>1. f.seq = tip.seq + 1 /\ f.prev = tip.prev
          BY <2>3, <4>1 DEF Continues
        <5>2. Accepted(f.key, tip.seq, tip.prev)
          BY <2>1, <4>1 DEF ChainInv
        <5>3. tip.seq = f.seq - 1
          BY <4>t, <5>1
        <5> QED BY <5>1, <5>2, <5>3 DEF Accepted, Extends
      <4>2. CASE ~tip.known
        BY <2>3, <4>2 DEF Continues, Extends
      <4> QED BY <4>1, <4>2
    <3>3. ASSUME NEW k \in Keys PROVE chains'[k] = chains[k] \/ Accepted(k, chains[k].seq, chains[k].prev)'
      <4>1. CASE k = f.key
        <5>1. chains'[k].seq = f.seq /\ chains'[k].prev = f.id /\ f \in hist'.accepted
          BY <1>0, <3>1, <4>1
        <5> QED BY <4>1, <5>1 DEF Accepted
      <4>2. CASE k # f.key
        BY <1>0, <3>1, <4>2
      <4> QED BY <4>1, <4>2
    <3>4. ASSUME NEW d \in Sessions
          PROVE  pump'[d] = pump[d] \/ pump'[d].frame \in hist'.accepted
      BY <1>0, <3>1
    <3>5. ChainStep
      BY <2>2, <3>1, <3>2, <3>3, <3>4, Zenon DEF ChainStep
    <3> QED BY <1>m, <3>5
  <2>4. CASE ~Continues(chains[f.key], f)
    <3>1. UNCHANGED <<chains, pump>> /\ hist'.accepted = hist.accepted
      BY <1>3, <1>h, <2>4 DEF Accept
    <3>2. ChainStep
      BY <2>2, <3>1 DEF ChainStep
    <3> QED BY <1>m, <3>2
  <2> QED BY <2>3, <2>4
<1>4. ASSUME NEW c \in Sessions, Post(c) PROVE ChainInv'
  <2> DEFINE f == pump[c].frame
             r == ChatLine(f, Live(pump[c].loaded))
  <2>1. f \in hist.accepted
    BY <1>4 DEF Post, ChainInv
  <2>2. r.kind = "chat" /\ r.key = f.key /\ r.seq = f.seq /\ r.id = f.id /\ r.prev = f.prev
    BY DEF ChatLine
  <2>3. disk' = Append(disk, r) /\ chains' = chains /\ hist'.accepted = hist.accepted
    BY <1>4, <1>h DEF Post, Store
  <2> HIDE DEF f, r
  <2>4. \A i \in DOMAIN disk' : (i \in DOMAIN disk /\ disk'[i] = disk[i]) \/ disk'[i] = r
    BY <1>0, <2>3 DEF ServerTyped
  <2>5. \A d \in Sessions : pump'[d].at \in {"linked", "loaded"} =>
          pump[d].at \in {"linked", "loaded"} /\ pump'[d].frame = pump[d].frame
    BY <1>4, HandsKept
  <2>6. ChainStep
    BY <2>1, <2>2, <2>3, <2>4, <2>5, Zenon DEF ChainStep
  <2> QED BY <1>m, <2>6
<1>5. ASSUME NEW c \in Sessions, Announce(c) PROVE ChainInv'
  <2> DEFINE r == Notice(pump[c].frame.key)
  <2>1. r.kind # "chat" /\ disk' = Append(disk, r) /\ chains' = chains /\ hist' = hist
    BY <1>5 DEF Announce, Store, Notice
  <2> HIDE DEF r
  <2>2. \A i \in DOMAIN disk' : (i \in DOMAIN disk /\ disk'[i] = disk[i]) \/ disk'[i] = r
    BY <1>0, <2>1 DEF ServerTyped
  <2>3. \A d \in Sessions : pump'[d].at \in {"linked", "loaded"} =>
          pump[d].at \in {"linked", "loaded"} /\ pump'[d].frame = pump[d].frame
    BY <1>5, HandsKept
  <2>4. ChainStep
    BY <2>1, <2>2, <2>3 DEF ChainStep
  <2> QED BY <1>m, <2>4
<1>6. CASE Tick \/ UNCHANGED vars
  <2>1. UNCHANGED <<chains, disk, pump, hist>>
    BY <1>6 DEF Tick, vars
  <2>2. ChainStep
    BY <2>1 DEF ChainStep
  <2> QED BY <1>m, <2>2
<1>7. CASE Prune
  <2>1. UNCHANGED <<disk, pump>> /\ hist'.accepted = hist.accepted
    BY <1>7, <1>h DEF Prune
  <2>2. \A k \in Keys : chains'[k] = chains[k] \/ ~chains'[k].known
    BY <1>7 DEF Prune, NoTip
  <2>3. ChainStep
    BY <2>1, <2>2 DEF ChainStep
  <2> QED BY <1>m, <2>3
<1>8. ASSUME NEW kept \in 0 .. Len(disk), Restart(kept) PROVE ChainInv'
  <2> DEFINE log == SubSeq(disk, 1, kept)
             b == BootFold(log)
  <2>1. /\ disk' = log /\ DOMAIN log = 1 .. kept
        /\ \A i \in 1 .. kept : log[i] = disk[i] /\ i \in DOMAIN disk
        /\ Booted(b, log, sent, now, kept) /\ chains' = b.chains
    BY <1>8, Rebooted
  <2>2. hist'.accepted = hist.accepted /\ pump' = [c \in Sessions |-> Idle]
    BY <1>8, <1>h DEF Restart
  <2> HIDE DEF log, b
  <2>3. ASSUME NEW k \in Keys PROVE ~chains'[k].known \/ Accepted(k, chains[k].seq, chains[k].prev)'
    <3> SUFFICES ASSUME b.chains[k].known PROVE Accepted(k, chains[k].seq, chains[k].prev)'
      BY <2>1
    <3>1. PICK p \in 1 .. kept : /\ log[p].kind = "chat" /\ log[p].key = k
                                /\ log[p].seq = b.chains[k].seq /\ log[p].id = b.chains[k].prev
      BY <2>1 DEF Booted, BootTips
    <3>2. Accepted(k, b.chains[k].seq, b.chains[k].prev)
      BY <2>1, <3>1 DEF ChainInv
    <3> QED BY <2>1, <2>2, <3>2 DEF Accepted
  <2>4. \A c \in Sessions : pump'[c].at \notin {"linked", "loaded"}
    BY <2>2 DEF Idle
  <2>5. \A i \in DOMAIN disk' : i \in DOMAIN disk /\ disk'[i] = disk[i]
    BY <2>1
  <2>6. ChainStep
    BY <2>2, <2>3, <2>4, <2>5, Zenon DEF ChainStep
  <2> QED BY <1>m, <2>6
<1> QED BY <1>1, <1>2, <1>3, <1>4, <1>5, <1>6, <1>7, <1>8 DEF Next
-----------------------------------------------------------------------------
(* The numbers.                                                            *)

(* A step that stores nothing of the key and takes nothing of it in hand.  *)
QuietFor(k) ==
  /\ \A i \in DOMAIN disk' : disk'[i].kind = "chat" /\ disk'[i].key = k => i \in DOMAIN disk /\ disk'[i] = disk[i]
  /\ \A c \in Sessions : InHand(c)' /\ pump'[c].frame.key = k => InHand(c) /\ pump'[c].frame = pump[c].frame

LEMMA QuietNumbers ==
  ASSUME NEW k \in Keys, QuietFor(k), Distinct(k)
  PROVE  Distinct(k)' /\ (Covered(k) /\ chains'[k] = chains[k] => Covered(k)')
<1>1. Distinct(k)'
  <2>1. \A i, j \in DOMAIN disk' : i # j /\ disk'[i].kind = "chat" /\ disk'[j].kind = "chat"
          /\ disk'[i].key = k /\ disk'[j].key = k => disk'[i].seq # disk'[j].seq
    BY DEF QuietFor, Distinct
  <2>2. \A c \in Sessions, i \in DOMAIN disk' : InHand(c)' /\ pump'[c].frame.key = k
          /\ disk'[i].kind = "chat" /\ disk'[i].key = k => disk'[i].seq # pump'[c].frame.seq
    <3> SUFFICES ASSUME NEW c \in Sessions, NEW i \in DOMAIN disk', InHand(c)', pump'[c].frame.key = k,
                        disk'[i].kind = "chat", disk'[i].key = k
                 PROVE  disk'[i].seq # pump'[c].frame.seq
      OBVIOUS
    <3>1. i \in DOMAIN disk /\ disk'[i] = disk[i]
      BY DEF QuietFor
    <3>2. InHand(c) /\ pump'[c].frame = pump[c].frame
      BY DEF QuietFor
    <3> QED BY <3>1, <3>2 DEF Distinct
  <2>3. \A c, d \in Sessions : c # d /\ InHand(c)' /\ InHand(d)' /\ pump'[c].frame.key = k
          /\ pump'[d].frame.key = k => pump'[c].frame.seq # pump'[d].frame.seq
    <3> SUFFICES ASSUME NEW c \in Sessions, NEW d \in Sessions, c # d, InHand(c)', InHand(d)',
                        pump'[c].frame.key = k, pump'[d].frame.key = k
                 PROVE  pump'[c].frame.seq # pump'[d].frame.seq
      OBVIOUS
    <3>1. InHand(c) /\ pump'[c].frame = pump[c].frame /\ InHand(d) /\ pump'[d].frame = pump[d].frame
      BY DEF QuietFor
    <3> QED BY <3>1 DEF Distinct
  <2> QED BY <2>1, <2>2, <2>3 DEF Distinct
<1>2. Covered(k) /\ chains'[k] = chains[k] => Covered(k)'
  BY Zenon DEF QuietFor, Covered
<1> QED BY <1>1, <1>2

LEMMA NumbersKept ==
  ASSUME LedgerConstants, LedgerTypes, InTime(disk), SeqInv, [Next]_vars
  PROVE  SeqInv'
<1>0. /\ sent \in Nat /\ now \in Nat /\ ServerTyped(sent, now) /\ ClientTyped(sent, now) /\ Owned
      /\ pump \in [Sessions -> Pumps(sent, now)] /\ chains \in [Keys -> Tips(sent, now)]
      /\ Len(window) = Len(disk) /\ disk \in Seq(Lines(sent, now))
  BY DEF LedgerTypes, LedgerConstants, Counted, ClientTyped, ServerTyped, Measured
<1>h. /\ hist = [accepted |-> hist.accepted, refused |-> hist.refused, excused |-> hist.excused,
                 pruned |-> hist.pruned, lost |-> hist.lost, booted |-> hist.booted]
  BY <1>0, HistoryShapes DEF ServerTyped
<1>q. ASSUME NEW k \in Keys \ hist'.pruned, hist.pruned \subseteq hist'.pruned, QuietFor(k), chains'[k] = chains[k]
      PROVE  Covered(k)' /\ Distinct(k)'
  BY <1>q, QuietNumbers DEF SeqInv
<1>1. ASSUME NEW c \in Sessions,
             \/ \E k \in Keys : Login(c, k)
             \/ SendMessage(c) \/ SendFails(c) \/ Burn(c) \/ Leave(c)
      PROVE  SeqInv'
  <2>1. UNCHANGED <<chains, disk, pump>>
    BY <1>1 DEF Login, SendMessage, SendFails, Burn, Leave
  <2>2. hist'.pruned = hist.pruned
    BY <1>1, <1>h DEF Login, SendMessage, SendFails, Burn, Leave
  <2>3. \A k \in Keys : QuietFor(k)
    BY <2>1 DEF QuietFor, InHand
  <2> QED BY <1>q, <2>1, <2>2, <2>3 DEF SeqInv
<1>2. ASSUME NEW c \in Sessions, DropBefore(c) \/ DropAfter(c) \/ LoadFlag(c) \/ Reveal(c) \/ MarkExposed(c)
      PROVE  SeqInv'
  <2>1. UNCHANGED <<chains, disk>>
    BY <1>2 DEF DropBefore, DropAfter, LoadFlag, Reveal, MarkExposed
  <2>2. hist'.pruned = hist.pruned
    BY <1>2, <1>h DEF DropBefore, DropAfter, LoadFlag, Reveal, MarkExposed
  <2>3. \A d \in Sessions : InHand(d)' => InHand(d) /\ pump'[d].frame = pump[d].frame
    BY <1>2, HandsKept DEF InHand
  <2>4. \A k \in Keys : QuietFor(k)
    BY <2>1, <2>3 DEF QuietFor
  <2> QED BY <1>q, <2>1, <2>2, <2>4 DEF SeqInv
<1>3. ASSUME NEW c \in Sessions, Accept(c) PROVE SeqInv'
  <2> DEFINE f == Head1(c)
  <2>1. f \in ChatFrames(sent) /\ f.key \in Keys /\ f.seq \in 1 .. sent
    <3>1. f \in Frames(sent) /\ f.kind = "chat"
      BY <1>0, <1>3, Popped DEF Accept, Reads
    <3> QED BY <1>0, <3>1, FrameShapes
  <2>2. disk' = disk /\ pump[c].at = "read"
    BY <1>3 DEF Accept, Reads
  <2>3. CASE Continues(chains[f.key], f)
    <3>1. /\ chains' = [chains EXCEPT ![f.key] = [seq |-> f.seq, prev |-> f.id, seen |-> now, known |-> TRUE]]
          /\ pump' = [pump EXCEPT ![c] = [at |-> "linked", frame |-> f, loaded |-> -1]]
          /\ hist'.pruned = hist.pruned
      BY <1>3, <1>h, <2>3 DEF Accept
    <3> HIDE DEF f
    <3>2. pump'[c].frame = f /\ \A d \in Sessions : d # c => pump'[d] = pump[d]
      BY <1>0, <3>1
    <3>3. ASSUME NEW k \in Keys \ hist'.pruned, k # f.key PROVE Covered(k)' /\ Distinct(k)'
      <4>1. QuietFor(k)
        BY <2>2, <3>2, <3>3 DEF QuietFor, InHand
      <4>2. chains'[k] = chains[k]
        BY <1>0, <3>1, <3>3
      <4> QED BY <1>q, <3>1, <4>1, <4>2
    <3>4. ASSUME NEW k \in Keys \ hist'.pruned, k = f.key PROVE Covered(k)' /\ Distinct(k)'
      <4> DEFINE tip == chains[k]
      <4>t. tip.seq \in 0 .. sent /\ chains'[k].seq = f.seq /\ chains'[k].known = TRUE
        BY <1>0, <2>1, <3>1, <3>4 DEF Tips
      <4>k. k \in Keys /\ Covered(k) /\ Distinct(k)
        BY <2>1, <3>1, <3>4 DEF SeqInv
      <4>c. tip.known = TRUE => f.seq = tip.seq + 1
        BY <2>3, <3>4 DEF Continues
      <4>1. \A i \in DOMAIN disk : disk[i].kind = "chat" /\ disk[i].key = k => disk[i].seq < f.seq /\ disk[i].seq \in Nat
        <5> SUFFICES ASSUME NEW i \in DOMAIN disk, disk[i].kind = "chat", disk[i].key = k
                     PROVE  disk[i].seq < f.seq /\ disk[i].seq \in Nat
          OBVIOUS
        <5>1. disk[i].seq \in Nat
          <6>1. disk[i] \in Lines(sent, now)
            BY <1>0
          <6> QED BY <1>0, <6>1, LineShapes
        <5>2. disk[i].seq <= tip.seq /\ f.seq = tip.seq + 1
          BY <4>k, <4>c DEF Covered
        <5> QED BY <4>t, <5>1, <5>2
      <4>2. \A d \in Sessions : InHand(d) /\ pump[d].frame.key = k => pump[d].frame.seq < f.seq /\ pump[d].frame.seq \in Nat
        <5> SUFFICES ASSUME NEW d \in Sessions, InHand(d), pump[d].frame.key = k
                     PROVE  pump[d].frame.seq < f.seq /\ pump[d].frame.seq \in Nat
          OBVIOUS
        <5>1. pump[d].frame.seq \in Nat
          BY <1>0, PumpShapes DEF InHand, ChatFrames
        <5>2. pump[d].frame.seq <= tip.seq /\ f.seq = tip.seq + 1
          BY <4>k, <4>c DEF Covered
        <5> QED BY <4>t, <5>1, <5>2
      <4>3. \A d \in Sessions : d # c /\ InHand(d)' => InHand(d) /\ pump'[d].frame = pump[d].frame
        BY <3>2 DEF InHand
      <4> HIDE DEF tip
      <4>4. Covered(k)'
        <5>1. \A i \in DOMAIN disk : disk[i].kind = "chat" /\ disk[i].key = k => disk[i].seq <= chains'[k].seq
          BY <2>1, <4>t, <4>1
        <5>2. \A d \in Sessions : InHand(d)' /\ pump'[d].frame.key = k => pump'[d].frame.seq <= chains'[k].seq
          BY <2>1, <3>2, <4>t, <4>2, <4>3
        <5> QED BY <2>2, <4>t, <5>1, <5>2 DEF Covered
      <4>5. Distinct(k)'
        <5>1. \A d \in Sessions, i \in DOMAIN disk : InHand(d)' /\ pump'[d].frame.key = k
                /\ disk[i].kind = "chat" /\ disk[i].key = k => disk[i].seq # pump'[d].frame.seq
          <6> SUFFICES ASSUME NEW d \in Sessions, NEW i \in DOMAIN disk, InHand(d)', pump'[d].frame.key = k,
                              disk[i].kind = "chat", disk[i].key = k
                       PROVE  disk[i].seq # pump'[d].frame.seq
            OBVIOUS
          <6>1. CASE d = c
            BY <2>1, <3>2, <4>1, <6>1
          <6>2. CASE d # c
            BY <4>3, <4>k, <6>2 DEF Distinct
          <6> QED BY <6>1, <6>2
        <5>2. \A d, e \in Sessions : d # e /\ InHand(d)' /\ InHand(e)' /\ pump'[d].frame.key = k
                /\ pump'[e].frame.key = k => pump'[d].frame.seq # pump'[e].frame.seq
          <6> SUFFICES ASSUME NEW d \in Sessions, NEW e \in Sessions, d # e, InHand(d)', InHand(e)',
                              pump'[d].frame.key = k, pump'[e].frame.key = k
                       PROVE  pump'[d].frame.seq # pump'[e].frame.seq
            OBVIOUS
          <6>1. CASE d = c
            BY <2>1, <3>2, <4>2, <4>3, <6>1
          <6>2. CASE e = c
            BY <2>1, <3>2, <4>2, <4>3, <6>2
          <6>3. CASE d # c /\ e # c
            BY <4>3, <4>k, <6>3 DEF Distinct
          <6> QED BY <6>1, <6>2, <6>3
        <5>3. \A i, j \in DOMAIN disk : i # j /\ disk[i].kind = "chat" /\ disk[j].kind = "chat"
                /\ disk[i].key = k /\ disk[j].key = k => disk[i].seq # disk[j].seq
          BY <4>k DEF Distinct
        <5> QED BY <2>2, <5>1, <5>2, <5>3 DEF Distinct
      <4> QED BY <4>4, <4>5
    <3> QED BY <3>3, <3>4 DEF SeqInv
  <2>4. CASE ~Continues(chains[f.key], f)
    <3>1. UNCHANGED <<chains, pump>> /\ hist'.pruned = hist.pruned
      BY <1>3, <1>h, <2>4 DEF Accept
    <3>2. \A k \in Keys : QuietFor(k)
      BY <2>2, <3>1 DEF QuietFor, InHand
    <3> QED BY <1>q, <3>1, <3>2 DEF SeqInv
  <2> QED BY <2>3, <2>4
<1>4. ASSUME NEW c \in Sessions, Post(c) PROVE SeqInv'
  <2> DEFINE f == pump[c].frame
             r == ChatLine(f, Live(pump[c].loaded))
  <2>1. InHand(c) /\ r.kind = "chat" /\ r.key = f.key /\ r.seq = f.seq
    BY <1>4 DEF ChatLine, Post, InHand
  <2>2. disk' = Append(disk, r) /\ chains' = chains /\ hist'.pruned = hist.pruned
    BY <1>4, <1>h DEF Post, Store
  <2> HIDE DEF r
  <2>3. \A i \in DOMAIN disk' : (i \in DOMAIN disk /\ disk'[i] = disk[i]) \/ (i = Len(disk) + 1 /\ disk'[i] = r)
    BY <1>0, <2>2 DEF ServerTyped
  <2>4. ~InHand(c)' /\ \A d \in Sessions : InHand(d)' => d # c /\ InHand(d) /\ pump'[d].frame = pump[d].frame
    BY <1>4, HandsKept DEF InHand
  <2>5. ASSUME NEW k \in Keys \ hist'.pruned, k # f.key PROVE Covered(k)' /\ Distinct(k)'
    <3>1. QuietFor(k)
      BY <2>1, <2>3, <2>4, <2>5 DEF QuietFor
    <3> QED BY <1>q, <2>2, <3>1
  <2>6. ASSUME NEW k \in Keys \ hist'.pruned, k = f.key PROVE Covered(k)' /\ Distinct(k)'
    <3>k. Covered(k) /\ Distinct(k)
      BY <2>2 DEF SeqInv
    <3>f. chains[k].known = TRUE /\ r.seq <= chains[k].seq
      BY <2>1, <2>6, <3>k DEF Covered
    <3> HIDE DEF f
    <3>1. Covered(k)'
      BY <2>2, <2>3, <2>4, <3>k, <3>f DEF Covered
    <3>2. \A i \in DOMAIN disk : disk[i].kind = "chat" /\ disk[i].key = k => disk[i].seq # r.seq
      BY <2>1, <2>6, <3>k DEF Distinct, f
    <3>3. \A d \in Sessions : InHand(d)' /\ pump'[d].frame.key = k => r.seq # pump'[d].frame.seq
      BY <2>1, <2>4, <2>6, <3>k DEF Distinct, f
    <3>4. \A i, j \in DOMAIN disk' : i # j /\ disk'[i].kind = "chat" /\ disk'[j].kind = "chat"
            /\ disk'[i].key = k /\ disk'[j].key = k => disk'[i].seq # disk'[j].seq
      BY <2>3, <3>k, <3>2 DEF Distinct
    <3>5. \A d \in Sessions, i \in DOMAIN disk' : InHand(d)' /\ pump'[d].frame.key = k
            /\ disk'[i].kind = "chat" /\ disk'[i].key = k => disk'[i].seq # pump'[d].frame.seq
      BY <2>3, <2>4, <3>k, <3>3 DEF Distinct
    <3>6. \A d, e \in Sessions : d # e /\ InHand(d)' /\ InHand(e)' /\ pump'[d].frame.key = k
            /\ pump'[e].frame.key = k => pump'[d].frame.seq # pump'[e].frame.seq
      BY <2>4, <3>k, Zenon DEF Distinct
    <3>7. Distinct(k)'
      BY <3>4, <3>5, <3>6 DEF Distinct
    <3> QED BY <3>1, <3>7
  <2> QED BY <2>5, <2>6 DEF SeqInv
<1>5. ASSUME NEW c \in Sessions, Announce(c) PROVE SeqInv'
  <2> DEFINE r == Notice(pump[c].frame.key)
  <2>1. r.kind # "chat" /\ disk' = Append(disk, r) /\ chains' = chains /\ hist' = hist
    BY <1>5 DEF Announce, Store, Notice
  <2> HIDE DEF r
  <2>2. \A i \in DOMAIN disk' : (i \in DOMAIN disk /\ disk'[i] = disk[i]) \/ disk'[i] = r
    BY <1>0, <2>1 DEF ServerTyped
  <2>3. \A d \in Sessions : InHand(d)' => InHand(d) /\ pump'[d].frame = pump[d].frame
    BY <1>5, HandsKept DEF InHand
  <2>4. \A k \in Keys : QuietFor(k)
    BY <2>1, <2>2, <2>3 DEF QuietFor
  <2> QED BY <1>q, <2>1, <2>4 DEF SeqInv
<1>6. CASE Tick \/ UNCHANGED vars
  <2>1. UNCHANGED <<chains, disk, pump, hist>>
    BY <1>6 DEF Tick, vars
  <2>2. \A k \in Keys : QuietFor(k)
    BY <2>1 DEF QuietFor, InHand
  <2> QED BY <1>q, <2>1, <2>2 DEF SeqInv
<1>7. CASE Prune
  <2>1. PICK V : /\ chains' = [k \in Keys |-> IF k \in V THEN NoTip ELSE chains[k]]
                 /\ hist'.pruned = hist.pruned \cup V /\ UNCHANGED <<disk, pump>>
    BY <1>7, <1>h DEF Prune
  <2>2. \A k \in Keys : QuietFor(k)
    BY <2>1 DEF QuietFor, InHand
  <2>3. \A k \in Keys \ hist'.pruned : chains'[k] = chains[k]
    BY <2>1
  <2> QED BY <1>q, <2>1, <2>2, <2>3 DEF SeqInv
<1>8. ASSUME NEW kept \in 0 .. Len(disk), Restart(kept) PROVE SeqInv'
  <2> DEFINE log == SubSeq(disk, 1, kept)
             b == BootFold(log)
  <2>1. /\ disk' = log /\ DOMAIN log = 1 .. kept
        /\ \A i \in 1 .. kept : log[i] = disk[i] /\ i \in DOMAIN disk
        /\ Booted(b, log, sent, now, kept) /\ chains' = b.chains
    BY <1>8, Rebooted
  <2>2. hist'.pruned = hist.pruned /\ pump' = [c \in Sessions |-> Idle]
    BY <1>8, <1>h DEF Restart
  <2> HIDE DEF log, b
  <2>3. \A c \in Sessions : ~InHand(c)'
    BY <2>2 DEF Idle, InHand
  <2>4. \A k \in Keys : QuietFor(k)
    BY <2>1, <2>3 DEF QuietFor
  <2>5. \A k \in Keys : Covered(k)'
    <3>1. b.chains \in [Keys -> Tips(sent, now)]
      BY <2>1 DEF Booted, BootTypes
    <3>2. \A k \in Keys : b.chains[k].known \in BOOLEAN
      BY <3>1 DEF Tips
    <3>3. \A k \in Keys : \A p \in 1 .. kept : log[p].kind = "chat" /\ log[p].key = k =>
            b.chains[k].known = TRUE /\ log[p].seq <= b.chains[k].seq
      BY <2>1, <3>2 DEF Booted, BootTips
    <3> QED BY <2>1, <2>3, <3>3 DEF Covered
  <2>6. \A k \in Keys \ hist'.pruned : Distinct(k)'
    BY <2>2, <2>4, QuietNumbers DEF SeqInv
  <2> QED BY <2>5, <2>6 DEF SeqInv
<1> QED BY <1>1, <1>2, <1>3, <1>4, <1>5, <1>6, <1>7, <1>8 DEF Next
-----------------------------------------------------------------------------
(* Client and server in step: what happens to the frames on their way.     *)
LEMMA QueueGrows ==
  ASSUME NEW n \in Nat, NEW s \in Seq(Frames(n)), NEW f
  PROVE  LET t == Append(s, f) IN
         /\ Len(s) \in Nat /\ DOMAIN s = 1 .. Len(s) /\ DOMAIN t = 1 .. (Len(s) + 1) /\ t[Len(s) + 1] = f
         /\ \A i \in DOMAIN s : t[i] = s[i] /\ i \in DOMAIN t
  OBVIOUS

LEMMA ChatSent ==
  ASSUME NEW n \in Nat, NEW s \in Seq(Frames(n)), NEW tip, NEW e, Linked(s), Starts(s, tip), Ends(s, tip, e),
         NEW f, f.kind = "chat", f.seq = e.seq + 1, f.prev = e.prev,
         NEW g, g.seq = f.seq, g.prev = f.id
  PROVE  LET t == Append(s, f) IN Linked(t) /\ Starts(t, tip) /\ Ends(t, tip, g)
<1> DEFINE t == Append(s, f)
           m == Len(s) + 1
<1>1. /\ Len(s) \in Nat /\ DOMAIN s = 1 .. Len(s) /\ DOMAIN t = 1 .. m /\ t[m] = f
      /\ \A i \in DOMAIN s : t[i] = s[i] /\ i \in DOMAIN t
  BY QueueGrows
<1> HIDE DEF t
<1>2. \A i \in DOMAIN t : i = m \/ i \in DOMAIN s
  BY <1>1
<1>3. \A i \in DOMAIN s : i \in Nat /\ i < m
  BY <1>1
<1>m. m \in DOMAIN t /\ m \in Nat /\ m \notin DOMAIN s
  BY <1>1
<1> HIDE DEF m
<1>4. ASSUME NEW i \in DOMAIN t, NEW j \in DOMAIN t, NextChat(t, i, j)
      PROVE  t[j].seq = t[i].seq + 1 /\ t[j].prev = t[i].id
  <2>1. i < j
    BY <1>4 DEF NextChat
  <2>2. i \in DOMAIN s
    <3>1. CASE i = m
      BY <1>2, <1>3, <1>m, <2>1, <3>1
    <3> QED BY <1>2, <3>1
  <2>3. CASE j \in DOMAIN s
    <3>1. NextChat(s, i, j)
      BY <1>1, <1>4, <2>2, <2>3 DEF NextChat
    <3> QED BY <1>1, <2>2, <2>3, <3>1 DEF Linked
  <2>4. CASE j = m
    <3>1. LastChat(s, i)
      BY <1>1, <1>3, <1>4, <2>2, <2>4 DEF NextChat, LastChat
    <3> QED BY <1>1, <2>2, <2>4, <3>1 DEF Ends
  <2> QED BY <1>2, <2>3, <2>4
<1>5. ASSUME NEW i \in DOMAIN t, FirstChat(t, i)
      PROVE  t[i].seq = tip.seq + 1 /\ t[i].prev = tip.prev
  <2>1. CASE i \in DOMAIN s
    <3>1. FirstChat(s, i)
      BY <1>1, <1>5, <2>1 DEF FirstChat
    <3> QED BY <1>1, <2>1, <3>1 DEF Starts
  <2>2. CASE i = m
    <3>1. \A j \in DOMAIN s : s[j].kind # "chat"
      BY <1>1, <1>3, <1>5, <2>2 DEF FirstChat
    <3> QED BY <1>1, <2>2, <3>1 DEF Ends
  <2> QED BY <1>2, <2>1, <2>2
<1>6. ASSUME NEW i \in DOMAIN t, LastChat(t, i)
      PROVE  g.seq = t[i].seq /\ g.prev = t[i].id
  <2>1. CASE i \in DOMAIN s
    BY <1>1, <1>3, <1>6, <1>m, <2>1 DEF LastChat
  <2> QED BY <1>1, <1>2, <2>1
<1>7. Ends(t, tip, g)
  BY <1>1, <1>6, <1>m DEF Ends
<1> QED BY <1>4, <1>5, <1>7 DEF Linked, Starts, t

LEMMA OtherSent ==
  ASSUME NEW n \in Nat, NEW s \in Seq(Frames(n)), NEW tip, NEW e, Linked(s), Starts(s, tip),
         NEW f, f.kind # "chat"
  PROVE  LET t == Append(s, f) IN Linked(t) /\ Starts(t, tip) /\ (Ends(s, tip, e) => Ends(t, tip, e))
<1> DEFINE t == Append(s, f)
           m == Len(s) + 1
<1>1. /\ Len(s) \in Nat /\ DOMAIN s = 1 .. Len(s) /\ DOMAIN t = 1 .. m /\ t[m] = f
      /\ \A i \in DOMAIN s : t[i] = s[i] /\ i \in DOMAIN t
  BY QueueGrows
<1> HIDE DEF t
<1>2. \A i \in DOMAIN t : i = m \/ i \in DOMAIN s
  BY <1>1
<1> HIDE DEF m
<1>3. \A i, j \in DOMAIN t : NextChat(t, i, j) => i \in DOMAIN s /\ j \in DOMAIN s /\ NextChat(s, i, j)
  BY <1>1, <1>2 DEF NextChat
<1>4. \A i \in DOMAIN t : FirstChat(t, i) => i \in DOMAIN s /\ FirstChat(s, i)
  BY <1>1, <1>2 DEF FirstChat
<1>5. \A i \in DOMAIN t : LastChat(t, i) => i \in DOMAIN s /\ LastChat(s, i)
  BY <1>1, <1>2 DEF LastChat
<1>6. Linked(t)
  BY <1>1, <1>3 DEF Linked
<1>7. Starts(t, tip)
  BY <1>1, <1>4 DEF Starts
<1>8. Ends(s, tip, e) => Ends(t, tip, e)
  BY <1>1, <1>5 DEF Ends
<1> QED BY <1>6, <1>7, <1>8 DEF t

(* t is s without its first frame.                                         *)
Behind(s, t) ==
  /\ Len(s) \in Nat \ {0} /\ DOMAIN s = 1 .. Len(s) /\ DOMAIN t = 1 .. (Len(s) - 1)
  /\ \A i \in DOMAIN t : i + 1 \in DOMAIN s /\ t[i] = s[i + 1]

LEMMA Shifted ==
  ASSUME NEW s, NEW t, Behind(s, t)
  PROVE  /\ 1 \in DOMAIN s /\ \A i \in DOMAIN t : i \in Nat \ {0} /\ i + 1 > 1
         /\ \A i \in DOMAIN s : i = 1 \/ (i - 1 \in DOMAIN t /\ t[i - 1] = s[i])
         /\ \A i, j \in DOMAIN t : NextChat(t, i, j) => NextChat(s, i + 1, j + 1)
         /\ \A i \in DOMAIN t : LastChat(t, i) => LastChat(s, i + 1)
<1>1. /\ 1 \in DOMAIN s /\ \A i \in DOMAIN t : i \in Nat \ {0} /\ i + 1 > 1
      /\ \A i \in DOMAIN s : i \in Nat /\ (i = 1 \/ (i - 1 \in DOMAIN t /\ t[i - 1] = s[i]))
  <2>1. 1 \in DOMAIN s /\ \A i \in DOMAIN t : i \in Nat \ {0} /\ i + 1 > 1
    BY DEF Behind
  <2>2. ASSUME NEW i \in DOMAIN s, i # 1 PROVE i - 1 \in DOMAIN t /\ t[i - 1] = s[i] /\ i \in Nat
    <3>1. i - 1 \in DOMAIN t /\ i \in Nat /\ (i - 1) + 1 = i
      BY <2>2 DEF Behind
    <3> QED BY <3>1 DEF Behind
  <2> QED BY <2>1, <2>2
<1>2. ASSUME NEW i \in DOMAIN t, NEW j \in DOMAIN t, NextChat(t, i, j) PROVE NextChat(s, i + 1, j + 1)
  <2>1. i + 1 \in DOMAIN s /\ j + 1 \in DOMAIN s /\ i + 1 < j + 1 /\ s[i + 1].kind = "chat" /\ s[j + 1].kind = "chat"
    BY <1>1, <1>2 DEF NextChat, Behind
  <2>2. ASSUME NEW l \in DOMAIN s, i + 1 < l, l < j + 1 PROVE s[l].kind # "chat"
    <3>1. l - 1 \in DOMAIN t /\ t[l - 1] = s[l] /\ i < l - 1 /\ l - 1 < j
      BY <1>1, <2>2
    <3> QED BY <1>2, <3>1 DEF NextChat
  <2> QED BY <2>1, <2>2 DEF NextChat
<1>3. ASSUME NEW i \in DOMAIN t, LastChat(t, i) PROVE LastChat(s, i + 1)
  <2>1. i + 1 \in DOMAIN s /\ s[i + 1].kind = "chat"
    BY <1>1, <1>3 DEF LastChat, Behind
  <2>2. ASSUME NEW l \in DOMAIN s, i + 1 < l PROVE s[l].kind # "chat"
    <3>1. l - 1 \in DOMAIN t /\ t[l - 1] = s[l] /\ i < l - 1
      BY <1>1, <2>2
    <3> QED BY <1>3, <3>1 DEF LastChat
  <2> QED BY <2>1, <2>2 DEF LastChat
<1> QED BY <1>1, <1>2, <1>3

LEMMA ShiftedLinks ==
  ASSUME NEW s, NEW t, Behind(s, t), NEW tip, NEW e
  PROVE  /\ Linked(s) => Linked(t)
         /\ Ends(s, tip, e) => \A i \in DOMAIN t : LastChat(t, i) => e.seq = t[i].seq /\ e.prev = t[i].id
<1>1. ASSUME Linked(s), NEW i \in DOMAIN t, NEW j \in DOMAIN t, NextChat(t, i, j)
      PROVE  t[j].seq = t[i].seq + 1 /\ t[j].prev = t[i].id
  <2>1. NextChat(s, i + 1, j + 1)
    BY <1>1, Shifted
  <2>2. /\ i + 1 \in DOMAIN s /\ t[i] = s[i + 1] /\ j + 1 \in DOMAIN s /\ t[j] = s[j + 1]
    BY DEF Behind
  <2> QED BY <1>1, <2>1, <2>2 DEF Linked
<1>2. ASSUME Ends(s, tip, e), NEW i \in DOMAIN t, LastChat(t, i)
      PROVE  e.seq = t[i].seq /\ e.prev = t[i].id
  <2>1. LastChat(s, i + 1)
    BY <1>2, Shifted
  <2>2. i + 1 \in DOMAIN s /\ t[i] = s[i + 1]
    BY DEF Behind
  <2> QED BY <1>2, <2>1, <2>2 DEF Ends
<1> QED BY <1>1, <1>2 DEF Linked

LEMMA ChatRead ==
  ASSUME NEW s, NEW t, Behind(s, t), NEW tip, NEW e, Linked(s), Starts(s, tip), s[1].kind = "chat",
         NEW new, new.seq = s[1].seq, new.prev = s[1].id
  PROVE  /\ s[1].seq = tip.seq + 1 /\ s[1].prev = tip.prev
         /\ Linked(t) /\ Starts(t, new) /\ (Ends(s, tip, e) => Ends(t, new, e))
<1>1. FirstChat(s, 1)
  <2>1. \A j \in DOMAIN s : ~(j < 1)
    BY DEF Behind
  <2> QED BY <2>1, Shifted DEF FirstChat
<1>2. s[1].seq = tip.seq + 1 /\ s[1].prev = tip.prev
  BY <1>1 DEF Starts, FirstChat
<1>3. Linked(t)
  BY ShiftedLinks
<1>4. ASSUME NEW i \in DOMAIN t, FirstChat(t, i) PROVE t[i].seq = new.seq + 1 /\ t[i].prev = new.prev
  <2>1. NextChat(s, 1, i + 1)
    <3>1. 1 \in DOMAIN s /\ i + 1 \in DOMAIN s /\ 1 < i + 1 /\ s[i + 1].kind = "chat"
      BY <1>4, Shifted DEF FirstChat, Behind
    <3>2. ASSUME NEW l \in DOMAIN s, 1 < l, l < i + 1 PROVE s[l].kind # "chat"
      <4>1. l - 1 \in DOMAIN t /\ t[l - 1] = s[l] /\ l \in Nat /\ i \in Nat
        BY <3>2, Shifted DEF Behind
      <4>2. l - 1 < i
        BY <3>2, <4>1
      <4> QED BY <1>4, <4>1, <4>2 DEF FirstChat
    <3> QED BY <3>1, <3>2 DEF NextChat
  <2>2. 1 \in DOMAIN s /\ i + 1 \in DOMAIN s /\ t[i] = s[i + 1]
    BY Shifted DEF Behind
  <2> QED BY <2>1, <2>2 DEF Linked
<1>5. ASSUME Ends(s, tip, e) PROVE Ends(t, new, e)
  <2>1. \A i \in DOMAIN t : LastChat(t, i) => e.seq = t[i].seq /\ e.prev = t[i].id
    BY <1>5, ShiftedLinks
  <2>2. ASSUME \A i \in DOMAIN t : t[i].kind # "chat" PROVE e.seq = new.seq /\ e.prev = new.prev
    <3>1. LastChat(s, 1)
      <4>1. ASSUME NEW l \in DOMAIN s, 1 < l PROVE s[l].kind # "chat"
        <5>1. l - 1 \in DOMAIN t /\ t[l - 1] = s[l]
          BY <4>1, Shifted
        <5> QED BY <2>2, <5>1
      <4> QED BY <4>1, Shifted DEF LastChat
    <3> QED BY <1>5, <3>1 DEF Ends, LastChat
  <2> QED BY <2>1, <2>2 DEF Ends
<1> QED BY <1>2, <1>3, <1>4, <1>5 DEF Starts

LEMMA OtherRead ==
  ASSUME NEW s, NEW t, Behind(s, t), NEW tip, NEW e, Linked(s), Starts(s, tip), s[1].kind # "chat"
  PROVE  Linked(t) /\ Starts(t, tip) /\ (Ends(s, tip, e) => Ends(t, tip, e))
<1>3. Linked(t)
  BY ShiftedLinks
<1>4. ASSUME NEW i \in DOMAIN t, FirstChat(t, i) PROVE t[i].seq = tip.seq + 1 /\ t[i].prev = tip.prev
  <2>1. FirstChat(s, i + 1)
    <3>1. i + 1 \in DOMAIN s /\ s[i + 1].kind = "chat"
      BY <1>4, Shifted DEF FirstChat, Behind
    <3>2. ASSUME NEW l \in DOMAIN s, l < i + 1 PROVE s[l].kind # "chat"
      <4>1. CASE l # 1
        <5>1. l - 1 \in DOMAIN t /\ t[l - 1] = s[l] /\ l \in Nat /\ i \in Nat
          BY <4>1, Shifted DEF Behind
        <5>2. l - 1 < i
          BY <3>2, <5>1
        <5> QED BY <1>4, <5>1, <5>2 DEF FirstChat
      <4> QED BY <4>1
    <3> QED BY <3>1, <3>2 DEF FirstChat
  <2> QED BY <2>1, Shifted DEF Starts, Behind
<1>5. ASSUME Ends(s, tip, e) PROVE Ends(t, tip, e)
  <2>1. \A i \in DOMAIN t : LastChat(t, i) => e.seq = t[i].seq /\ e.prev = t[i].id
    BY <1>5, ShiftedLinks
  <2>2. ASSUME \A i \in DOMAIN t : t[i].kind # "chat" PROVE e.seq = tip.seq /\ e.prev = tip.prev
    <3>1. \A l \in DOMAIN s : s[l].kind # "chat"
      BY <2>2, Shifted
    <3> QED BY <1>5, <3>1 DEF Ends
  <2> QED BY <2>1, <2>2 DEF Ends
<1> QED BY <1>3, <1>4, <1>5 DEF Starts

LEMMA NothingOnItsWay ==
  ASSUME NEW tip, NEW e
  PROVE  /\ Linked(<<>>) /\ Starts(<<>>, tip)
         /\ e.seq = tip.seq /\ e.prev = tip.prev => Ends(<<>>, tip, e)
  BY DEF Linked, Starts, Ends
(* What a step may do to a session in step: leave it, or its client gone,  *)
(* as it was; end it; or keep it in step.                                  *)
SameSession(c) ==
  /\ c \notin hist.excused /\ up'[c] = up[c] /\ client'[c].key = client[c].key
  /\ chains'[client[c].key] = chains[client[c].key]
  /\ client'[c].on => client'[c] = client[c]
OverSession(c) == up'[c] = <<>> /\ ~client'[c].on

LEMMA StepMoves ==
  ASSUME InStep,
         \A c \in Sessions \ hist'.excused :
           SameSession(c) \/ OverSession(c) \/ Follows(up[c], chains[client[c].key], client[c])'
  PROVE  InStep'
<1> SUFFICES ASSUME NEW c \in Sessions \ hist'.excused PROVE Follows(up[c], chains[client[c].key], client[c])'
  BY DEF InStep
<1>1. CASE SameSession(c)
  <2>1. Follows(up[c], chains[client[c].key], client[c])
    BY <1>1 DEF InStep, SameSession
  <2>2. Linked(up'[c]) /\ Starts(up'[c], chains'[client'[c].key])
    BY <1>1, <2>1 DEF Follows, SameSession
  <2>3. ASSUME client'[c].on PROVE Ends(up'[c], chains'[client'[c].key], client'[c])
    <3>1. client'[c] = client[c]
      BY <1>1, <2>3, Zenon DEF SameSession
    <3>2. Ends(up[c], chains[client[c].key], client[c])
      BY <2>1, <2>3, <3>1 DEF Follows
    <3> QED BY <1>1, <3>1, <3>2, Zenon DEF SameSession
  <2> QED BY <2>2, <2>3 DEF Follows
<1>2. CASE OverSession(c)
  BY <1>2, NothingOnItsWay DEF OverSession, Follows
<1> QED BY <1>1, <1>2

LEMMA AloneMoves ==
  ASSUME Alone, hist.excused \subseteq hist'.excused,
         \A c \in Sessions : client'[c].key = client[c].key /\ (Active(c)' => Active(c))
  PROVE  Alone'
  BY Zenon DEF Alone

LEMMA InStepKept ==
  ASSUME LedgerConstants, LedgerTypes, StepInv, [Next]_vars
  PROVE  StepInv'
<1>0. /\ sent \in Nat /\ now \in Nat /\ ServerTyped(sent, now) /\ ClientTyped(sent, now) /\ Owned /\ Measured
      /\ pump \in [Sessions -> Pumps(sent, now)] /\ chains \in [Keys -> Tips(sent, now)]
      /\ up \in [Sessions -> Seq(Frames(sent))] /\ client \in [Sessions -> Clients(sent)]
      /\ InStep /\ Alone /\ hist.refused \subseteq hist.excused
  BY DEF LedgerTypes, LedgerConstants, Counted, ClientTyped, ServerTyped, StepInv, RefusedIsExcused
<1>h. /\ hist = [accepted |-> hist.accepted, refused |-> hist.refused, excused |-> hist.excused,
                 pruned |-> hist.pruned, lost |-> hist.lost, booted |-> hist.booted]
      /\ hist.excused \subseteq Sessions /\ hist.refused \subseteq Sessions
  BY <1>0, HistoryShapes DEF ServerTyped
(* Steps after which the queues, the tips and the clients are as before.   *)
<1>q. ASSUME UNCHANGED <<chains, client, up>>, hist'.excused = hist.excused, hist'.refused = hist.refused,
             \A d \in Sessions : pump'[d].at # "read" => pump[d].at # "read"
      PROVE  StepInv'
  <2>1. \A d \in Sessions \ hist'.excused : SameSession(d)
    BY <1>q, Zenon DEF SameSession
  <2>2. \A d \in Sessions : Active(d)' => Active(d)
    BY <1>q, Zenon DEF Active
  <2>3. Alone'
    BY <1>0, <1>q, <2>2, AloneMoves
  <2>4. InStep'
    BY <1>0, <2>1, StepMoves
  <2> QED BY <1>0, <1>q, <2>3, <2>4 DEF StepInv, RefusedIsExcused
<1>1. ASSUME NEW c \in Sessions, NEW k \in Keys, Login(c, k) PROVE StepInv'
  <2>1. /\ ~client[c].on /\ up[c] = <<>> /\ UNCHANGED <<chains, up, pump>>
        /\ client' = [client EXCEPT ![c] = [on |-> TRUE, key |-> k, seq |-> chains[k].seq, prev |-> chains[k].prev]]
        /\ hist'.refused = hist.refused \ {c}
        /\ hist'.excused = IF Rivals(c, k) = {} THEN hist.excused \ {c} ELSE hist.excused \cup {c} \cup Rivals(c, k)
    BY <1>1, <1>h DEF Login
  <2>2. /\ \A d \in Sessions : d # c => client'[d] = client[d]
        /\ client'[c].key = k /\ client'[c].seq = chains[k].seq /\ client'[c].prev = chains[k].prev
    BY <1>0, <2>1
  <2>3. \A d \in Sessions : d # c /\ Active(d) /\ client[d].key = k => d \in Rivals(c, k)
    BY Zenon DEF Active, Rivals
  <2>4. \A d \in Sessions : d # c => (Active(d)' => Active(d))
    BY <2>1, <2>2, Zenon DEF Active
  <2>5. InStep'
    <3>1. ASSUME NEW d \in Sessions \ hist'.excused, d # c PROVE SameSession(d)
      <4>1. d \notin hist.excused
        BY <2>1, <3>1
      <4> QED BY <2>1, <2>2, <3>1, <4>1, Zenon DEF SameSession
    <3>2. Follows(up[c], chains[client[c].key], client[c])'
      <4>1. Follows(<<>>, chains[k], client'[c])
        BY <2>2, NothingOnItsWay DEF Follows
      <4> QED BY <2>1, <2>2, <4>1
    <3> QED BY <1>0, <3>1, <3>2, StepMoves
  <2>6. Alone'
    <3> SUFFICES ASSUME NEW a \in Sessions \ hist'.excused, NEW d \in Sessions, d # a,
                        client'[d].key = client'[a].key, Active(a)'
                 PROVE  ~Active(d)'
      BY DEF Alone
    <3>1. CASE a = c
      <4>1. Rivals(c, k) = {}
        BY <2>1, <3>1
      <4>2. client[d].key = k /\ d # c
        BY <2>2, <3>1
      <4> QED BY <2>3, <2>4, <4>1, <4>2
    <3>2. CASE a # c /\ d = c
      <4>1. a \in Rivals(c, k)
        BY <2>2, <2>3, <2>4, <3>2
      <4> QED BY <2>1, <4>1
    <3>3. CASE a # c /\ d # c
      <4>1. a \notin hist.excused
        BY <2>1, <3>3
      <4> QED BY <1>0, <2>2, <2>4, <3>3, <4>1 DEF Alone
    <3> QED BY <3>1, <3>2, <3>3
  <2>7. RefusedIsExcused'
    BY <1>0, <2>1 DEF RefusedIsExcused
  <2> QED BY <2>5, <2>6, <2>7 DEF StepInv
<1>2. ASSUME NEW c \in Sessions, SendMessage(c) PROVE StepInv'
  <2> DEFINE p == [client[c] EXCEPT !.seq = client[c].seq + 1]
             q == [p EXCEPT !.prev = sent + 1]
             f == Signed(c)
  <2>1. /\ client[c].on /\ UNCHANGED <<chains, pump, hist>>
        /\ up' = [up EXCEPT ![c] = Append(up[c], f)]
    BY <1>2 DEF SendMessage
  <2>2. client' = [client EXCEPT ![c] = q]
    <3>1. client' = [client EXCEPT ![c].seq = @ + 1, ![c].prev = sent + 1]
      BY <1>2 DEF SendMessage
    <3> QED BY <1>0, <3>1
  <2>3. p.key = client[c].key /\ p.seq = client[c].seq + 1
        /\ p \in [on : BOOLEAN, key : Keys \cup {NoKey}, seq : Nat, prev : Nat]
    <3>1. client[c] \in [on : BOOLEAN, key : Keys \cup {NoKey}, seq : Nat, prev : Nat]
      BY <1>0 DEF Clients
    <3> QED BY <3>1
  <2> HIDE DEF p
  <2>4. q.key = client[c].key /\ q.seq = client[c].seq + 1 /\ q.prev = sent + 1
    BY <1>0, <2>3
  <2> HIDE DEF q
  <2>5. /\ client'[c].key = client[c].key /\ client'[c].seq = client[c].seq + 1 /\ client'[c].prev = sent + 1
        /\ \A d \in Sessions : d # c => client'[d] = client[d] /\ up'[d] = up[d]
        /\ up'[c] = Append(up[c], f)
    BY <1>0, <2>1, <2>2, <2>4
  <2>6. f.kind = "chat" /\ f.seq = client[c].seq + 1 /\ f.prev = client[c].prev /\ f.id = sent + 1
    BY DEF Signed
  <2> HIDE DEF f
  <2>7. InStep'
    <3>1. ASSUME NEW d \in Sessions \ hist'.excused, d # c PROVE SameSession(d)
      BY <2>1, <2>5, <3>1, Zenon DEF SameSession
    <3>2. ASSUME c \notin hist'.excused PROVE Follows(up[c], chains[client[c].key], client[c])'
      <4> DEFINE tip == chains[client[c].key]
      <4>1. Linked(up[c]) /\ Starts(up[c], tip) /\ Ends(up[c], tip, client[c])
        BY <1>0, <2>1, <3>2 DEF InStep, Follows
      <4>2. up[c] \in Seq(Frames(sent))
        BY <1>0
      <4>3. Linked(up'[c]) /\ Starts(up'[c], tip) /\ Ends(up'[c], tip, client'[c])
        <5> HIDE DEF tip
        <5> QED BY <1>0, <2>5, <2>6, <4>1, <4>2, ChatSent
      <4> QED BY <2>1, <2>5, <4>3 DEF Follows
    <3> QED BY <1>0, <3>1, <3>2, StepMoves
  <2>8. \A d \in Sessions : Active(d)' => Active(d)
    BY <2>1, <2>5, Zenon DEF Active
  <2>9. Alone'
    BY <1>0, <2>1, <2>5, <2>8, AloneMoves
  <2> QED BY <1>0, <2>1, <2>7, <2>9 DEF StepInv, RefusedIsExcused
<1>3. ASSUME NEW c \in Sessions, SendFails(c) \/ Leave(c) PROVE StepInv'
  <2>1. /\ client[c].on /\ UNCHANGED <<chains, pump, hist>>
        /\ client' = [client EXCEPT ![c].on = FALSE]
        /\ up' \in {up, [up EXCEPT ![c] = <<>>]}
    BY <1>3 DEF SendFails, Leave
  <2>2. /\ client'[c].on = FALSE /\ client'[c].key = client[c].key
        /\ \A d \in Sessions : d # c => client'[d] = client[d] /\ up'[d] = up[d]
        /\ up'[c] = up[c] \/ up'[c] = <<>>
    BY <1>0, <2>1 DEF Clients
  <2>3. ASSUME NEW d \in Sessions \ hist'.excused PROVE SameSession(d) \/ OverSession(d)
    <3>1. CASE d # c
      BY <2>1, <2>2, <3>1, Zenon DEF SameSession
    <3>2. CASE d = c /\ up'[c] = up[c]
      BY <2>1, <2>2, <3>2, Zenon DEF SameSession
    <3>3. CASE d = c /\ up'[c] = <<>>
      BY <2>2, <3>3 DEF OverSession
    <3> QED BY <2>2, <3>1, <3>2, <3>3
  <2>4. \A d \in Sessions : Active(d)' => Active(d)
    BY <2>1, <2>2, Zenon DEF Active
  <2>5. Alone'
    <3>1. \A d \in Sessions : client'[d].key = client[d].key
      BY <2>2
    <3> QED BY <1>0, <2>1, <2>4, <3>1, AloneMoves
  <2>6. InStep'
    BY <1>0, <2>3, StepMoves
  <2> QED BY <1>0, <2>1, <2>5, <2>6 DEF StepInv, RefusedIsExcused
<1>4. ASSUME NEW c \in Sessions, Burn(c) PROVE StepInv'
  <2> DEFINE f == [kind |-> "reveal", key |-> client[c].key]
  <2>1. client[c].on /\ UNCHANGED <<chains, client, pump, hist>> /\ up' = [up EXCEPT ![c] = Append(up[c], f)]
    BY <1>4 DEF Burn
  <2>2. f.kind # "chat"
    OBVIOUS
  <2> HIDE DEF f
  <2>3. up'[c] = Append(up[c], f) /\ \A d \in Sessions : d # c => up'[d] = up[d]
    BY <1>0, <2>1
  <2>4. InStep'
    <3>1. ASSUME NEW d \in Sessions \ hist'.excused, d # c PROVE SameSession(d)
      BY <2>1, <2>3, <3>1, Zenon DEF SameSession
    <3>2. ASSUME c \notin hist'.excused PROVE Follows(up[c], chains[client[c].key], client[c])'
      <4> DEFINE tip == chains[client[c].key]
      <4>1. Linked(up[c]) /\ Starts(up[c], tip) /\ Ends(up[c], tip, client[c])
        BY <1>0, <2>1, <3>2 DEF InStep, Follows
      <4>2. up[c] \in Seq(Frames(sent))
        BY <1>0
      <4>3. Linked(up'[c]) /\ Starts(up'[c], tip) /\ Ends(up'[c], tip, client[c])
        <5> HIDE DEF tip
        <5> QED BY <1>0, <2>2, <2>3, <4>1, <4>2, OtherSent
      <4> QED BY <2>1, <4>3 DEF Follows
    <3> QED BY <1>0, <3>1, <3>2, StepMoves
  <2>5. \A d \in Sessions : Active(d)' => Active(d)
    BY <2>1, <2>3, Zenon DEF Active
  <2>6. Alone'
    BY <1>0, <2>1, <2>5, AloneMoves
  <2> QED BY <1>0, <2>1, <2>4, <2>6 DEF StepInv, RefusedIsExcused
<1>5. ASSUME NEW c \in Sessions, DropBefore(c) PROVE StepInv'
  <2>1. /\ UNCHANGED <<chains, client, pump>> /\ up[c] # <<>> /\ Pop(c)
        /\ hist'.excused = hist.excused \cup {c} /\ hist'.refused = hist.refused
    BY <1>5, <1>h DEF DropBefore, Reads
  <2>2. \A d \in Sessions : d # c => up'[d] = up[d]
    BY <1>0, <2>1, Popped
  <2>3. ASSUME NEW d \in Sessions \ hist'.excused PROVE SameSession(d)
    <3>1. d # c /\ d \notin hist.excused
      BY <2>1
    <3> QED BY <2>1, <2>2, <3>1, Zenon DEF SameSession
  <2>4. \A d \in Sessions : Active(d)' => Active(d)
    BY <2>1, <2>2, Zenon DEF Active
  <2>5. Alone' /\ InStep'
    BY <1>0, <2>1, <2>3, <2>4, AloneMoves, StepMoves
  <2> QED BY <1>0, <2>1, <2>5 DEF StepInv, RefusedIsExcused
<1>6. ASSUME NEW c \in Sessions, Accept(c) PROVE StepInv'
  <2> DEFINE f == Head1(c)
             k == client[c].key
             tip == chains[client[c].key]
             new == [seq |-> f.seq, prev |-> f.id, seen |-> now, known |-> TRUE]
  <2>1. /\ up[c] # <<>> /\ Pop(c) /\ f.kind = "chat" /\ client' = client
    BY <1>6 DEF Accept, Reads
  <2>2. /\ f = up[c][1] /\ f.key = k /\ k \in Keys
        /\ \A d \in Sessions : d # c => up'[d] = up[d]
        /\ Behind(up[c], up'[c])
    BY <1>0, <2>1, Popped DEF Behind
  <2>3. Active(c)
    BY <2>1 DEF Active
  <2>4. \A d \in Sessions \ hist.excused : d # c /\ client[d].key = k => ~Active(d)
    BY <1>0, <2>3 DEF Alone
  <2>5. new.seq = f.seq /\ new.prev = f.id
    OBVIOUS
  <2> HIDE DEF new
  <2>6. ASSUME c \notin hist.excused
        PROVE  /\ f.seq = tip.seq + 1 /\ f.prev = tip.prev
               /\ Linked(up'[c]) /\ Starts(up'[c], new)
               /\ client[c].on => Ends(up'[c], new, client[c])
    <3>1. Linked(up[c]) /\ Starts(up[c], tip) /\ (client[c].on => Ends(up[c], tip, client[c]))
      BY <1>0, <2>6 DEF InStep, Follows
    <3>2. up[c][1].kind = "chat" /\ new.seq = up[c][1].seq /\ new.prev = up[c][1].id
      BY <2>1, <2>2, <2>5
    <3>3. /\ up[c][1].seq = tip.seq + 1 /\ up[c][1].prev = tip.prev
          /\ Linked(up'[c]) /\ Starts(up'[c], new) /\ (Ends(up[c], tip, client[c]) => Ends(up'[c], new, client[c]))
      <4> HIDE DEF tip
      <4> QED BY <2>2, <3>1, <3>2, ChatRead
    <3> QED BY <2>2, <3>1, <3>3
  <2>7. c \notin hist.excused => Continues(chains[f.key], f)
    <3> SUFFICES ASSUME c \notin hist.excused PROVE Continues(tip, f)
      BY <2>2
    <3>1. f.seq = tip.seq + 1 /\ f.prev = tip.prev
      BY <2>6
    <3>2. ~tip.known => tip.seq = 0 /\ tip.prev = 0
      BY <1>0, <2>2 DEF Measured
    <3>3. CASE tip.known
      BY <3>1, <3>3 DEF Continues
    <3>4. CASE ~tip.known
      BY <3>1, <3>2, <3>4 DEF Continues
    <3> QED BY <3>3, <3>4
  <2>8. CASE Continues(chains[f.key], f)
    <3>1. /\ chains' = [chains EXCEPT ![f.key] = new]
          /\ hist'.excused = hist.excused /\ hist'.refused = hist.refused
          /\ pump' = [pump EXCEPT ![c] = [at |-> "linked", frame |-> f, loaded |-> -1]]
      BY <1>6, <1>h, <2>8 DEF Accept, new
    <3> HIDE DEF f
    <3>2. chains'[k] = new /\ \A j : j # k => chains'[j] = chains[j]
      <4>1. DOMAIN chains' = DOMAIN chains
        BY <3>1
      <4> QED BY <1>0, <2>2, <3>1
    <3>3. ASSUME NEW d \in Sessions \ hist'.excused, d # c
          PROVE  SameSession(d) \/ OverSession(d)
      <4>1. d \notin hist.excused /\ up'[d] = up[d] /\ client'[d] = client[d]
        BY <2>1, <2>2, <3>1, <3>3
      <4>2. CASE client[d].key = k
        <5>1. ~Active(d)
          BY <2>4, <3>3, <4>1, <4>2
        <5>2. up[d] = <<>> /\ ~client[d].on
          BY <5>1 DEF Active
        <5> QED BY <4>1, <5>2 DEF OverSession
      <4>3. CASE client[d].key # k
        <5>1. chains'[client[d].key] = chains[client[d].key]
          BY <3>2, <4>3
        <5> QED BY <4>1, <5>1, Zenon DEF SameSession
      <4> QED BY <4>2, <4>3
    <3>4. ASSUME c \notin hist'.excused PROVE Follows(up[c], chains[client[c].key], client[c])'
      <4>1. Linked(up'[c]) /\ Starts(up'[c], new) /\ (client[c].on => Ends(up'[c], new, client[c]))
        BY <2>6, <3>1, <3>4
      <4>2. chains'[client'[c].key] = new /\ client'[c] = client[c]
        BY <2>1, <3>2
      <4> QED BY <4>1, <4>2, Zenon DEF Follows
    <3>5. InStep'
      BY <1>0, <3>3, <3>4, StepMoves
    <3>6. \A d \in Sessions : Active(d)' => Active(d)
      <4>1. \A d \in Sessions : d # c => pump'[d] = pump[d]
        BY <1>0, <3>1
      <4> QED BY <2>1, <2>2, <2>3, <4>1, Zenon DEF Active
    <3>7. Alone'
      BY <1>0, <2>1, <3>1, <3>6, AloneMoves
    <3> QED BY <1>0, <3>1, <3>5, <3>7 DEF StepInv, RefusedIsExcused
  <2>9. CASE ~Continues(chains[f.key], f)
    <3>1. UNCHANGED <<chains, pump>> /\ hist'.excused = hist.excused /\ hist'.refused = hist.refused \cup {c}
      BY <1>6, <1>h, <2>9 DEF Accept
    <3>2. c \in hist.excused
      BY <2>7, <2>9
    <3>3. ASSUME NEW d \in Sessions \ hist'.excused PROVE SameSession(d)
      <4>1. d # c /\ d \notin hist.excused
        BY <3>1, <3>2
      <4> QED BY <2>1, <2>2, <3>1, <4>1, Zenon DEF SameSession
    <3>4. \A d \in Sessions : Active(d)' => Active(d)
      BY <2>1, <2>2, <2>3, <3>1, Zenon DEF Active
    <3>5. Alone' /\ InStep'
      BY <1>0, <2>1, <3>1, <3>3, <3>4, AloneMoves, StepMoves
    <3> QED BY <1>0, <3>1, <3>2, <3>5 DEF StepInv, RefusedIsExcused
  <2> QED BY <2>8, <2>9
<1>7. ASSUME NEW c \in Sessions, DropAfter(c) \/ LoadFlag(c) \/ Post(c) \/ MarkExposed(c) \/ Announce(c)
      PROVE  StepInv'
  <2>1. UNCHANGED <<chains, client, up>> /\ pump[c].at # "read"
    BY <1>7 DEF DropAfter, LoadFlag, Post, MarkExposed, Announce
  <2>2. hist'.excused = hist.excused /\ hist'.refused = hist.refused
    BY <1>7, <1>h DEF DropAfter, LoadFlag, Post, MarkExposed, Announce
  <2>3. \A d \in Sessions : pump'[d].at # "read" => pump[d].at # "read"
    BY <1>7, <2>1, HandsKept
  <2> QED BY <1>q, <2>1, <2>2, <2>3
<1>8. ASSUME NEW c \in Sessions, Reveal(c) PROVE StepInv'
  <2>1. up[c] # <<>> /\ Pop(c) /\ Head1(c).kind = "reveal" /\ UNCHANGED <<chains, client, hist>>
    BY <1>8 DEF Reveal, Reads
  <2>2. /\ Head1(c) = up[c][1]
        /\ \A d \in Sessions : d # c => up'[d] = up[d]
        /\ Behind(up[c], up'[c])
    BY <1>0, <2>1, Popped DEF Behind
  <2>3. ASSUME NEW d \in Sessions \ hist'.excused, d # c PROVE SameSession(d)
    BY <2>1, <2>2, <2>3, Zenon DEF SameSession
  <2>4. ASSUME c \notin hist'.excused PROVE Follows(up[c], chains[client[c].key], client[c])'
    <3> DEFINE tip == chains[client[c].key]
    <3>1. Linked(up[c]) /\ Starts(up[c], tip) /\ (client[c].on => Ends(up[c], tip, client[c]))
      BY <1>0, <2>1, <2>4 DEF InStep, Follows
    <3>2. Linked(up'[c]) /\ Starts(up'[c], tip) /\ (Ends(up[c], tip, client[c]) => Ends(up'[c], tip, client[c]))
      <4>1. up[c][1].kind # "chat"
        BY <2>1, <2>2
      <4> HIDE DEF tip
      <4> QED BY <2>2, <3>1, <4>1, OtherRead
    <3> QED BY <2>1, <3>1, <3>2, Zenon DEF Follows
  <2>5. \A d \in Sessions : Active(d)' => Active(d)
    <3>1. \A d \in Sessions : pump'[d].at # "read" => pump[d].at # "read" \/ (d = c /\ up[c] # <<>>)
      BY <1>8, HandsKept
    <3> QED BY <2>1, <2>2, <3>1, Zenon DEF Active
  <2>6. Alone' /\ InStep'
    BY <1>0, <2>1, <2>3, <2>4, <2>5, AloneMoves, StepMoves
  <2> QED BY <1>0, <2>1, <2>6 DEF StepInv, RefusedIsExcused
<1>9. CASE Tick \/ UNCHANGED vars
  <2>1. UNCHANGED <<chains, client, up, pump, hist>>
    BY <1>9 DEF Tick, vars
  <2> QED BY <1>q, <2>1
<1>10. CASE Prune
  <2>1. PICK V : /\ chains' = [k \in Keys |-> IF k \in V THEN NoTip ELSE chains[k]]
                 /\ hist'.excused = hist.excused \cup {c \in Sessions : client[c].key \in V}
                 /\ hist'.refused = hist.refused /\ UNCHANGED <<client, up, pump>>
    BY <1>10, <1>h DEF Prune
  <2>2. ASSUME NEW d \in Sessions \ hist'.excused PROVE SameSession(d) \/ OverSession(d)
    <3>1. d \notin hist.excused /\ client[d].key \notin V
      BY <2>1
    <3>2. CASE client[d].key \in Keys
      <4>1. chains'[client[d].key] = chains[client[d].key]
        BY <2>1, <3>1, <3>2
      <4> QED BY <2>1, <3>1, <4>1, Zenon DEF SameSession
    <3>3. CASE client[d].key \notin Keys
      <4>1. ~client[d].on
        BY <1>0, <3>3 DEF Owned
      <4>2. up[d] = <<>>
        <5>1. \A i \in DOMAIN up[d] : up[d][i].key = client[d].key /\ up[d][i] \in Frames(sent)
          BY <1>0 DEF Owned
        <5>2. \A i \in DOMAIN up[d] : up[d][i].key \in Keys
          BY <1>0, <5>1, FrameShapes
        <5>3. DOMAIN up[d] = {} /\ up[d] \in Seq(Frames(sent))
          BY <1>0, <3>3, <5>1, <5>2
        <5> DEFINE z == up[d]
        <5>4. z \in Seq(Frames(sent)) /\ DOMAIN z = {}
          BY <5>3
        <5> HIDE DEF z
        <5>5. Len(z) = 0
          BY <5>4
        <5>6. z = <<>>
          BY <5>4, <5>5
        <5> QED BY <5>6 DEF z
      <4> QED BY <2>1, <4>1, <4>2 DEF OverSession
    <3> QED BY <3>2, <3>3
  <2>3. \A d \in Sessions : Active(d)' => Active(d)
    BY <2>1, Zenon DEF Active
  <2>4. Alone' /\ InStep'
    BY <1>0, <2>1, <2>2, <2>3, AloneMoves, StepMoves
  <2> QED BY <1>0, <2>1, <2>4 DEF StepInv, RefusedIsExcused
<1>11. ASSUME NEW kept, Restart(kept) PROVE StepInv'
  <2>1. /\ client' = [c \in Sessions |-> Off] /\ up' = [c \in Sessions |-> <<>>] /\ pump' = [c \in Sessions |-> Idle]
        /\ hist'.refused = {} /\ hist'.excused = {}
    BY <1>11, <1>h DEF Restart
  <2>2. \A d \in Sessions : OverSession(d) /\ ~Active(d)'
    BY <2>1 DEF OverSession, Active, Off, Idle
  <2>3. InStep'
    BY <1>0, <2>2, StepMoves
  <2>4. Alone'
    BY <2>2 DEF Alone
  <2> QED BY <2>1, <2>3, <2>4 DEF StepInv, RefusedIsExcused
<1> QED BY <1>1, <1>2, <1>3, <1>4, <1>5, <1>6, <1>7, <1>8, <1>9, <1>10, <1>11 DEF Next
-----------------------------------------------------------------------------
(* The theorems.                                                           *)
LedgerInv == LedgerTypes /\ ExposedInv /\ ChainInv /\ SeqInv /\ StepInv

LEMMA LedgerInit == LedgerConstants /\ Init => LedgerInv
<1> SUFFICES ASSUME LedgerConstants, Init PROVE LedgerInv
  OBVIOUS
<1>1. LedgerTypes /\ InTime(disk)
  BY TypesInit
<1>2. /\ disk = <<>> /\ window = <<>> /\ hist.booted = 0 /\ hist.accepted = {} /\ hist.refused = {}
      /\ \A c \in Sessions : pump[c] = Idle /\ up[c] = <<>> /\ ~client[c].on
      /\ \A k \in Keys : ~chains[k].known
  BY DEF Init, NoTip, Off
<1>3. DOMAIN disk = {} /\ 1 .. 0 = {}
  BY <1>2
<1>4. ExposedInv
  BY <1>1, <1>2, <1>3 DEF ExposedInv, Noticed, Announcing, Flagged, Idle
<1>5. ChainInv
  BY <1>2, <1>3 DEF ChainInv, Idle
<1>6. SeqInv
  BY <1>2, <1>3 DEF SeqInv, Covered, Distinct, InHand, Idle
<1>7. StepInv
  <2>1. InStep
    <3>1. \A c \in Sessions : Follows(<<>>, chains[client[c].key], client[c])
      BY <1>2, NothingOnItsWay DEF Follows
    <3> QED BY <1>2, <3>1 DEF InStep
  <2>2. Alone
    BY <1>2 DEF Alone, Active, Idle
  <2> QED BY <1>2, <2>1, <2>2 DEF StepInv, RefusedIsExcused
<1> QED BY <1>1, <1>4, <1>5, <1>6, <1>7 DEF LedgerInv

LEMMA LedgerStep == LedgerConstants /\ LedgerInv /\ [Next]_vars => LedgerInv'
<1> SUFFICES ASSUME LedgerConstants, LedgerInv, [Next]_vars PROVE LedgerInv'
  OBVIOUS
<1>1. LedgerTypes /\ InTime(disk) /\ ExposedInv /\ ChainInv /\ SeqInv /\ StepInv
  BY DEF LedgerInv, ExposedInv
<1>2. LedgerTypes'
  BY <1>1, TypesKept
<1>3. ExposedInv'
  BY <1>1, <1>2, ExposureKept
<1>4. ChainInv' /\ SeqInv' /\ StepInv'
  BY <1>1, ChainsKept, NumbersKept, InStepKept
<1> QED BY <1>2, <1>3, <1>4 DEF LedgerInv

LEMMA LedgerAlways == Spec => []LedgerInv
<1>0. LedgerConstants
  BY LedgerAssumption DEF LedgerConstants
<1>1. Init => LedgerInv
  BY <1>0, LedgerInit
<1>2. LedgerInv /\ [Next]_vars => LedgerInv'
  BY <1>0, LedgerStep
<1> QED BY <1>1, <1>2, PTL DEF Spec

(* No session is refused for its number or its hash without one of the     *)
(* three excuses, however its frames, the drops on either side of the      *)
(* chain check, the cleanup and restarts interleave.                       *)
THEOREM RefusalsAlwaysExcused == Spec => []RefusedIsExcused
<1>1. LedgerInv => RefusedIsExcused
  BY DEF LedgerInv, StepInv
<1> QED BY <1>1, LedgerAlways, PTL

(* The stored lines of a key form one chain: every line continues one the  *)
(* server accepted, and no number is stored twice unless the tip was       *)
(* pruned, also when two handlers store out of order and a restart loses   *)
(* the last records.                                                       *)
THEOREM ChainsAlwaysContinue == Spec => []ChainsContinue
<1>0. LedgerConstants
  BY LedgerAssumption DEF LedgerConstants
<1>1. LedgerInv => TypeOK
  BY <1>0, TypesSuffice DEF LedgerInv
<1>2. LedgerInv => StoredContinues
  <2> SUFFICES ASSUME LedgerInv, NEW i \in DOMAIN disk, disk[i].kind = "chat"
               PROVE  \/ disk[i].seq = 1 /\ disk[i].prev = 0
                      \/ \E f \in hist.accepted : f.key = disk[i].key /\ f.id = disk[i].prev /\ f.seq = disk[i].seq - 1
    BY DEF StoredContinues, Set
  <2>1. Extends(disk[i].key, disk[i].seq, disk[i].prev)
    BY DEF LedgerInv, ChainInv
  <2> QED BY <2>1 DEF Extends
<1>3. LedgerInv => NoSeqReuse
  <2> SUFFICES ASSUME LedgerInv, NEW i \in DOMAIN disk, NEW j \in DOMAIN disk, i # j,
                      disk[i].kind = "chat", disk[j].kind = "chat", disk[i].key = disk[j].key,
                      disk[i].seq = disk[j].seq, disk[i].key \notin hist.pruned
               PROVE  FALSE
    BY DEF NoSeqReuse
  <2>1. disk[i].key \in Keys
    <3>1. disk \in Seq(Lines(sent, now)) /\ sent \in Nat /\ now \in Nat
      BY <1>0 DEF LedgerInv, LedgerTypes, Counted, ServerTyped, LedgerConstants
    <3>2. disk[i] \in Lines(sent, now)
      BY <3>1
    <3> QED BY <3>1, <3>2, LineShapes
  <2>2. Distinct(disk[i].key)
    BY <2>1 DEF LedgerInv, SeqInv
  <2> QED BY <2>2 DEF Distinct
<1>4. LedgerInv => ChainsContinue
  BY <1>1, <1>2, <1>3 DEF ChainsContinue
<1> QED BY <1>4, LedgerAlways, PTL

(* A published seed sticks: while its announcement is younger than the TTL *)
(* its key is registered, unless the cap or a stale lookup took it, and    *)
(* the boot flags every line behind an announcement, for every log.        *)
THEOREM ExposureAlwaysSticks == Spec => []ExposureSticks
<1>1. LedgerInv => ExposureSticks
  <2> SUFFICES ASSUME LedgerInv PROVE ExposureSticks
    OBVIOUS
  <2>1. ASSUME NEW i \in DOMAIN disk, disk[i].kind = "notice", now - disk[i].at <= TTL, disk[i].key \notin hist.lost
        PROVE  exposed[disk[i].key] >= 0
    <3>1. exposed[disk[i].key] >= disk[i].at
      BY <2>1 DEF LedgerInv, ExposedInv, Noticed
    <3>2. /\ disk \in Seq(Lines(sent, now)) /\ sent \in Nat /\ now \in Nat /\ exposed \in [Keys -> -1 .. now]
      BY LedgerAssumption DEF LedgerInv, LedgerTypes, Counted, ServerTyped
    <3>3. disk[i] \in Lines(sent, now)
      BY <3>2
    <3>4. disk[i].at \in Nat /\ disk[i].key \in Keys
      BY <3>2, <3>3, LineShapes
    <3>5. exposed[disk[i].key] \in Int
      BY <3>2, <3>4
    <3> QED BY <3>1, <3>4, <3>5
  <2>2. ASSUME NEW i \in 1 .. hist.booted, NEW j \in 1 .. hist.booted, i < j, window[i].kind = "notice",
               window[j].kind = "chat", window[i].key = window[j].key
        PROVE  window[j].flag
    <3>1. window[j].flag = TRUE
      BY <2>2 DEF LedgerInv, ExposedInv, Flagged
    <3> QED BY <3>1
  <2> QED BY <2>1, <2>2 DEF ExposureSticks, Set
<1> QED BY <1>1, LedgerAlways, PTL
=============================================================================
