----------------------------- MODULE SideProofs -----------------------------
(***************************************************************************)
(* Theorems about the smaller modules that the runs check side by side.    *)
(* Settings, for any .env files, start environments and edits: the two     *)
(* configurations the server reads belong to one reload, the tables of the *)
(* tiers can always be walked, and the server follows the file.  The       *)
(* environment is changed before it is known whether it loads, so the      *)
(* argument is about what each stage of a reload may have stored (Stages). *)
(* KeyMigrate, for any passphrases and kills: the identity survives.       *)
(* Votes, for any addresses and messages: a vote counts once, in the       *)
(* totals and in the line they are drawn from; the latest fold of a        *)
(* message, held by a handler or published, carries its totals.            *)
(* Behaviour, for any addresses, caps, thresholds and reloads: the scoring *)
(* engine keeps up with its store.                                         *)
(***************************************************************************)
EXTENDS Settings, KeyMigrate, Votes, Behaviour, FiniteSetTheorems, WellFoundedInduction,
        SequenceTheorems, TLAPS

-----------------------------------------------------------------------------
(* Where a reload is, and what it has stored by then.                      *)
Stages ==
  /\ reload \in {"none", "read", "load", "half"}
  /\ Loads(stored) /\ dynamic = Dynamic(stored)
  /\ reload = "half" => stored = shell
  /\ reload # "half" => abuse = Abuse(stored)

LEMMA StagesInit == Init => Stages
  BY DEF Init, Boot, Stages, Loads

LEMMA StagesStep == Stages /\ [Next]_vars => Stages'
<1> SUFFICES ASSUME Stages, [Next]_vars PROVE Stages'
  OBVIOUS
<1>1. CASE Edit
  BY <1>1 DEF Edit, Stages
<1>2. CASE Watch
  BY <1>2 DEF Watch, Stages
<1>3. CASE ReadFile
  BY <1>3 DEF ReadFile, Stages
<1>4. CASE StoreDynamic
  <2>1. CASE BothLoad(shell)
    <3>1. dynamic' = Dynamic(shell) /\ stored' = shell /\ shell' = shell /\ reload' = "half"
      BY <1>4, <2>1 DEF StoreDynamic
    <3> QED BY <2>1, <3>1 DEF Stages, Loads, BothLoad
  <2>2. CASE ~BothLoad(shell)
    BY <1>4, <2>2 DEF StoreDynamic, Stages
  <2> QED BY <2>1, <2>2
<1>5. CASE StoreAbuse
  BY <1>5 DEF StoreAbuse, Stages
<1>6. CASE Tick
  BY <1>6 DEF Tick, Stages
<1>7. CASE UNCHANGED vars
  BY <1>7 DEF vars, Stages
<1> QED BY <1>1, <1>2, <1>3, <1>4, <1>5, <1>6, <1>7 DEF Next

-----------------------------------------------------------------------------
(* What is in an environment: numbers and pairs of numbers, unless         *)
(* malformed.                                                              *)
Typed(e) ==
  /\ \A k \in {"tiers", "gate"} \cap DOMAIN e : e[k] = Bad \/ e[k] \in Int
  /\ \A n \in Nat : Threshold[n] \in DOMAIN e => e[Threshold[n]] = Bad \/ e[Threshold[n]] \in Int \X Int

EnvsTyped == \A e \in EnvFiles \cup Shells : Typed(e)

LEMMA PutTyped ==
  ASSUME NEW f, NEW g, Typed(f), Typed(g)
  PROVE  Typed(Put(f, g))
<1> DEFINE h == Put(f, g)
<1>1. /\ DOMAIN h = DOMAIN f \cup DOMAIN g
      /\ \A k \in DOMAIN h : h[k] = IF k \in DOMAIN f THEN f[k] ELSE g[k]
  BY DEF Put
<1> HIDE DEF h
<1>2. Typed(h)
  BY <1>1 DEF Typed
<1> QED BY <1>2 DEF h

(* TablesUsable, of the tables of any environment that loads.              *)
Usable(a) ==
  /\ a.gate < a.tiers
  /\ a.tables # << >> => Len(a.tables) = a.tiers - 1
  /\ \A n \in DOMAIN a.tables :
       /\ a.tables[n][1] > a.tables[n][2]
       /\ n > 1 => a.tables[n][2] > a.tables[n - 1][1]

LEMMA LoadedUsable ==
  ASSUME NEW e, Typed(e), AbuseLoads(e)
  PROVE  Usable(Abuse(e))
<1> DEFINE a == Abuse(e)
<1>1. e["tiers"] \in Int /\ e["tiers"] >= 2 /\ e["gate"] \in 0 .. (e["tiers"] - 1)
  BY DEF AbuseLoads, GroupA, Has, Typed
<1>2. a.tiers = e["tiers"] /\ a.gate = e["gate"]
  BY DEF Abuse
<1>3. CASE ~BehaviorEnabled(e)
  <2>1. a.tables = [n \in 1 .. 0 |-> e[Threshold[n]]]
    BY <1>3 DEF Abuse
  <2>2. a.tables = << >> /\ DOMAIN a.tables = {}
    BY <2>1
  <2> QED BY <1>1, <1>2, <2>2 DEF Usable
<1>4. CASE BehaviorEnabled(e)
  <2> DEFINE k == e["tiers"] - 1
  <2>1. a.tables = [n \in 1 .. k |-> e[Threshold[n]]] /\ k \in Nat
    BY <1>1, <1>4 DEF Abuse
  <2>2. \A n \in 1 .. k : /\ Threshold[n] \in DOMAIN e /\ e[Threshold[n]] # Bad
                          /\ e[Threshold[n]][1] > e[Threshold[n]][2]
                          /\ n > 1 => e[Threshold[n]][2] > e[Threshold[n - 1]][1]
    BY <1>1, <1>4 DEF AbuseLoads, TiersOrdered, Has
  <2>3. \A n \in 1 .. k : e[Threshold[n]] \in Int \X Int
    BY <2>2 DEF Typed
  <2>4. Len(a.tables) = k /\ DOMAIN a.tables = 1 .. k
    <3>1. a.tables \in [1 .. k -> Int \X Int]
      BY <2>1, <2>3
    <3>2. a.tables \in Seq(Int \X Int)
      BY <2>1, <3>1
    <3> QED BY <2>1, <3>1, <3>2
  <2>5. \A n \in 1 .. k : a.tables[n] = e[Threshold[n]]
    BY <2>1
  <2>6. \A n \in 1 .. k : n > 1 => n - 1 \in 1 .. k
    BY <2>1
  <2> QED BY <1>1, <1>2, <2>1, <2>2, <2>4, <2>5, <2>6 DEF Usable
<1> QED BY <1>3, <1>4

UsableInv == Stages /\ Typed(shell) /\ Typed(dotenv) /\ TablesUsable

LEMMA UsableInit == EnvsTyped /\ Init => UsableInv
<1> SUFFICES ASSUME EnvsTyped, Init PROVE UsableInv
  OBVIOUS
<1>1. PICK file \in EnvFiles, env \in Shells : Boot(file, env)
  BY DEF Init
<1>2. Typed(shell) /\ Typed(dotenv)
  BY <1>1, PutTyped DEF EnvsTyped, Boot, Load
<1>3. Usable(abuse)
  BY <1>1, <1>2, LoadedUsable DEF Boot
<1> QED BY <1>2, <1>3, StagesInit DEF UsableInv, Usable, TablesUsable

LEMMA UsableStep == EnvsTyped /\ UsableInv /\ [Next]_vars => UsableInv'
<1> SUFFICES ASSUME EnvsTyped, UsableInv, [Next]_vars PROVE UsableInv'
  OBVIOUS
<1>1. Stages'
  BY StagesStep DEF UsableInv
<1>2. CASE Edit
  BY <1>1, <1>2 DEF Edit, UsableInv, EnvsTyped, TablesUsable
<1>3. CASE Watch \/ StoreDynamic \/ Tick \/ UNCHANGED vars
  <2>1. shell' = shell /\ dotenv' = dotenv /\ abuse' = abuse
    BY <1>3 DEF Watch, StoreDynamic, Tick, vars
  <2> QED BY <1>1, <2>1 DEF UsableInv, TablesUsable
<1>4. CASE ReadFile
  <2>1. Typed(shell')
    BY <1>4, PutTyped DEF ReadFile, Overload, UsableInv
  <2> QED BY <1>1, <1>4, <2>1 DEF ReadFile, UsableInv, TablesUsable
<1>5. CASE StoreAbuse
  <2>1. Usable(Abuse(shell))
    BY <1>5, LoadedUsable DEF StoreAbuse, UsableInv, Stages, Loads
  <2>2. shell' = shell /\ dotenv' = dotenv /\ abuse' = Abuse(shell)
    BY <1>5 DEF StoreAbuse
  <2>3. Usable(abuse)'
    BY <2>1, <2>2 DEF Usable
  <2> QED BY <1>1, <2>2, <2>3 DEF UsableInv, TablesUsable, Usable
<1> QED BY <1>2, <1>3, <1>4, <1>5 DEF Next

(* ReloadDynamicConfig stores both configurations or neither, and          *)
(* LoadAbuseConfig's checks are enough for whoever walks the tables: after *)
(* any edits, good or malformed, both halves come from one environment     *)
(* that loaded, the gate's tier has a preset and the tiers are entered     *)
(* above where they are left, above the tier below.                        *)
THEOREM AlwaysWhole ==
  ASSUME EnvsTyped
  PROVE  Spec => []ReloadsAreWhole
<1>1. Init => UsableInv
  BY UsableInit
<1>2. UsableInv /\ [Next]_vars => UsableInv'
  BY UsableStep
<1>3. UsableInv => ReloadsAreWhole
  BY DEF UsableInv, Stages, OneReload, ReloadsAreWhole
<1> QED BY <1>1, <1>2, <1>3, PTL DEF Spec
-----------------------------------------------------------------------------
(* The environment has everything that is in the file.                     *)
Covers(e, file) == \A k \in DOMAIN file : k \in DOMAIN e /\ e[k] = file[k]

(* A complete file decides both configurations, whatever else is in the    *)
(* environment.                                                            *)
LEMMA CompleteDecides ==
  ASSUME NEW f, NEW e, Typed(f), Complete(f), Covers(e, f)
  PROVE  BothLoad(e) /\ Dynamic(e) = Dynamic(f) /\ Abuse(e) = Abuse(f)
<1>1. \A k : Has(f, k) => Has(e, k) /\ e[k] = f[k]
  BY DEF Has, Covers
<1>2. DynamicLoads(f) /\ GroupA(f) /\ "engine" \in DOMAIN f /\ (BehaviorEnabled(f) => TiersOrdered(f))
  BY DEF Complete, Loads, AbuseLoads
<1>3. DynamicLoads(e) /\ Dynamic(e) = Dynamic(f)
  BY <1>1, <1>2 DEF DynamicLoads, Dynamic
<1>4. e["tiers"] = f["tiers"] /\ e["gate"] = f["gate"] /\ "engine" \in DOMAIN e /\ e["engine"] = f["engine"]
  BY <1>1, <1>2 DEF GroupA, Covers
<1>5. GroupA(e)
  BY <1>1, <1>2, <1>4 DEF GroupA
<1>6. BehaviorEnabled(e) = BehaviorEnabled(f)
  BY <1>2, <1>4 DEF BehaviorEnabled
<1>7. ASSUME BehaviorEnabled(f)
      PROVE  /\ TiersOrdered(e)
             /\ \A n \in 1 .. (f["tiers"] - 1) : e[Threshold[n]] = f[Threshold[n]]
  <2>1. \A n \in 1 .. (f["tiers"] - 1) : Has(e, Threshold[n]) /\ e[Threshold[n]] = f[Threshold[n]]
    BY <1>1, <1>2, <1>7 DEF TiersOrdered
  <2>2. \A n \in 1 .. (f["tiers"] - 1) :
          /\ f[Threshold[n]][1] > f[Threshold[n]][2]
          /\ f[Threshold[n]][2] > IF n = 1 THEN 0 ELSE f[Threshold[n - 1]][1]
    BY <1>2, <1>7 DEF TiersOrdered
  <2>3. f["tiers"] \in Int
    BY <1>2 DEF GroupA, Has, Typed
  <2>4. \A n \in 1 .. (f["tiers"] - 1) : n = 1 \/ n - 1 \in 1 .. (f["tiers"] - 1)
    BY <2>3
  <2> QED BY <1>4, <2>1, <2>2, <2>4 DEF TiersOrdered
<1>8. AbuseLoads(e)
  BY <1>5, <1>6, <1>7 DEF AbuseLoads
<1>9. Abuse(e) = Abuse(f)
  <2>1. CASE BehaviorEnabled(f)
    BY <1>4, <1>6, <1>7, <2>1 DEF Abuse
  <2>2. CASE ~BehaviorEnabled(f)
    BY <1>4, <1>6, <2>2 DEF Abuse
  <2> QED BY <2>1, <2>2
<1> QED BY <1>3, <1>8, <1>9 DEF BothLoad

(* Once the watcher has seen the time of the last visible edit, the reload *)
(* it began reads that edit's file; a visible edit is later than what the  *)
(* watcher has seen.                                                       *)
Clocks ==
  /\ wall \in Nat /\ stamp \in Nat /\ seenStamp \in Nat /\ edits \in Nat
  /\ 0 < stamp /\ stamp <= wall /\ seenStamp <= stamp
  /\ seenStamp = 0 => edits = 0 \/ blind

CaughtUp == seenStamp = stamp /\ edits > 0 /\ ~blind

FollowInv ==
  /\ Stages /\ Clocks /\ Typed(dotenv)
  /\ CaughtUp /\ reload # "read" => Covers(shell, dotenv)
  /\ CaughtUp /\ reload \in {"none", "half"} /\ Complete(dotenv) => Covers(stored, dotenv)

LEMMA FollowInit == EnvsTyped /\ Init => FollowInv
<1> SUFFICES ASSUME EnvsTyped, Init PROVE FollowInv
  OBVIOUS
<1>1. wall = 1 /\ stamp = 1 /\ edits = 0 /\ seenStamp = 0 /\ dotenv \in EnvFiles
  BY DEF Init, Boot
<1>2. Clocks /\ ~CaughtUp
  BY <1>1 DEF Clocks, CaughtUp
<1> QED BY <1>1, <1>2, StagesInit DEF FollowInv, EnvsTyped

LEMMA FollowStep == EnvsTyped /\ FollowInv /\ [Next]_vars => FollowInv'
<1> SUFFICES ASSUME EnvsTyped, FollowInv, [Next]_vars PROVE FollowInv'
  OBVIOUS
<1>0. Stages' /\ Typed(dotenv')
  <2>1. dotenv' = dotenv \/ dotenv' \in EnvFiles
    BY DEF Next, Edit, Watch, ReadFile, StoreDynamic, StoreAbuse, Tick, vars
  <2> QED BY <2>1, StagesStep DEF FollowInv, EnvsTyped
<1>1. CASE Edit
  <2>a. (~blind' => stamp # wall /\ seenStamp # 0) /\ (blind' \/ (stamp # wall /\ seenStamp # 0))
    BY <1>1, Zenon DEF Edit
  <2>b. stamp' = wall /\ wall' = wall /\ seenStamp' = seenStamp /\ edits' = edits + 1
    BY <1>1 DEF Edit
  <2>1. Clocks' /\ ~CaughtUp'
    BY <2>a, <2>b DEF FollowInv, Clocks, CaughtUp
  <2> QED BY <1>0, <2>1 DEF FollowInv
<1>2. CASE Watch
  <2>1. Clocks' /\ (CaughtUp' => reload' = "read")
    BY <1>2 DEF Watch, FollowInv, Clocks, CaughtUp
  <2> QED BY <1>0, <2>1 DEF FollowInv
<1>3. CASE ReadFile
  <2>1. Covers(shell', dotenv') /\ reload' = "load"
    BY <1>3 DEF ReadFile, Overload, Put, Covers
  <2>2. Clocks'
    BY <1>3 DEF ReadFile, FollowInv, Clocks
  <2> QED BY <1>0, <2>1, <2>2 DEF FollowInv
<1>4. CASE StoreDynamic
  <2>1. Clocks' /\ CaughtUp' = CaughtUp /\ reload = "load" /\ reload' # "read"
    BY <1>4 DEF StoreDynamic, FollowInv, Clocks, CaughtUp
  <2>2. shell' = shell /\ dotenv' = dotenv
    BY <1>4 DEF StoreDynamic
  <2>3. ASSUME CaughtUp, Complete(dotenv) PROVE Covers(stored', dotenv)
    <3>1. Typed(dotenv) /\ Covers(shell, dotenv)
      BY <2>1, <2>3 DEF FollowInv
    <3>2. BothLoad(shell)
      BY <2>3, <3>1, CompleteDecides
    <3> QED BY <1>4, <3>1, <3>2 DEF StoreDynamic
  <2>4. CaughtUp => Covers(shell, dotenv)
    BY <2>1 DEF FollowInv
  <2> QED BY <1>0, <2>1, <2>2, <2>3, <2>4 DEF FollowInv
<1>5. CASE StoreAbuse
  <2>1. Clocks' /\ CaughtUp' = CaughtUp /\ reload = "half" /\ shell' = shell /\ dotenv' = dotenv /\ stored' = stored
    BY <1>5 DEF StoreAbuse, FollowInv, Clocks, CaughtUp
  <2> QED BY <1>0, <2>1 DEF FollowInv
<1>6. CASE Tick
  <2>1. /\ Clocks' /\ CaughtUp' = CaughtUp
        /\ shell' = shell /\ dotenv' = dotenv /\ stored' = stored /\ reload' = reload
    BY <1>6 DEF Tick, FollowInv, Clocks, CaughtUp
  <2> QED BY <1>0, <2>1 DEF FollowInv
<1>7. CASE UNCHANGED vars
  <2>1. /\ Clocks' /\ CaughtUp' = CaughtUp
        /\ shell' = shell /\ dotenv' = dotenv /\ stored' = stored /\ reload' = reload
    BY <1>7 DEF vars, FollowInv, Clocks, CaughtUp
  <2> QED BY <1>0, <2>1 DEF FollowInv
<1> QED BY <1>1, <1>2, <1>3, <1>4, <1>5, <1>6, <1>7 DEF Next

(* WatchEnvFile and ReloadDynamicConfig: once the watcher has caught up    *)
(* with a complete file the server runs on that file, for any files of     *)
(* typed settings, any start environment, and any files that did not load  *)
(* in between.                                                             *)
THEOREM SettingsAlwaysFollow ==
  ASSUME EnvsTyped
  PROVE  Spec => []SettingsFollow
<1>1. Init => FollowInv
  BY FollowInit
<1>2. FollowInv /\ [Next]_vars => FollowInv'
  BY FollowStep
<1>3. FollowInv => SettingsFollow
  <2> SUFFICES ASSUME FollowInv, reload = "none", CaughtUp, Complete(dotenv)
               PROVE  dynamic = Dynamic(dotenv) /\ abuse = Abuse(dotenv)
    BY DEF SettingsFollow, CaughtUp
  <2>1. Typed(dotenv) /\ Covers(stored, dotenv) /\ dynamic = Dynamic(stored) /\ abuse = Abuse(stored)
    BY DEF FollowInv, Stages
  <2> QED BY <2>1, CompleteDecides
<1> QED BY <1>1, <1>2, <1>3, PTL DEF Spec

-----------------------------------------------------------------------------
(* Where the identity is at each step of a migration.                      *)
KeyAt ==
  /\ step = "idle" =>
       \/ files.in \in {Key(pass[1]), Key(pass[2])}
       \/ files.in = Gone /\ files.old \in {Key(pass[1]), Key(pass[2])}
  /\ step \in {"open", "saved"} => files.in = Key(pass[1])
  /\ step = "backed up" => files.in = Gone /\ files.old = Key(pass[1])
  /\ step \in {"saved", "backed up"} => files.copy = Key(pass[2])

KeyInv ==
  /\ files = [in |-> files.in, old |-> files.old, copy |-> files.copy]
  /\ pass = <<pass[1], pass[2]>>
  /\ step \in {"idle", "open", "saved", "backed up"}
  /\ KeyAt

LEMMA KeyInit == MigrateInit => KeyInv
  BY DEF MigrateInit, KeyInv, KeyAt

LEMMA KeyStep == KeyInv /\ [MigrateNext]_migrateVars => KeyInv'
<1> SUFFICES ASSUME KeyInv, [MigrateNext]_migrateVars PROVE KeyInv'
  OBVIOUS
<1>0. PICK a, b, c, p, q : files = [in |-> a, old |-> b, copy |-> c] /\ pass = <<p, q>>
  BY DEF KeyInv
<1>k. \A x : Key(x) # Gone /\ Key(x).pass = x
  BY DEF Key, Gone
<1>1. ASSUME NEW new \in Passes, Open(new) PROVE KeyInv'
  <2>1. step' = "open" /\ pass' = <<a.pass, new>> /\ files' = files /\ step = "idle" /\ a # Gone
    BY <1>1, <1>0 DEF Open
  <2>2. a = Key(a.pass)
    BY <1>0, <1>k, <2>1 DEF KeyInv, KeyAt
  <2> QED BY <1>0, <2>1, <2>2 DEF KeyInv, KeyAt
<1>2. CASE SaveCopy
  <2>1. /\ files' = [in |-> a, old |-> b, copy |-> Key(q)]
        /\ step = "open" /\ step' = "saved" /\ pass' = pass
    BY <1>2, <1>0 DEF SaveCopy
  <2> QED BY <1>0, <2>1 DEF KeyInv, KeyAt
<1>3. CASE Backup
  <2>1. /\ files' = [in |-> Gone, old |-> a, copy |-> c]
        /\ step = "saved" /\ step' = "backed up" /\ pass' = pass
    BY <1>3, <1>0 DEF Backup, BackedUp
  <2> QED BY <1>0, <2>1 DEF KeyInv, KeyAt
<1>4. CASE Rename
  <2>1. /\ files' = [in |-> c, old |-> b, copy |-> Gone]
        /\ step = "backed up" /\ step' = "idle" /\ pass' = pass
    BY <1>4, <1>0 DEF Rename, InPlace
  <2> QED BY <1>0, <2>1 DEF KeyInv, KeyAt
<1>5. CASE Fail
  <2>1. step' = "idle" /\ pass' = pass
    BY <1>5 DEF Fail
  <2>2. CASE step \in {"open", "saved"}
    <3>1. files' = files \/ files' = [in |-> a, old |-> b, copy |-> Gone]
      BY <1>5, <1>0, <2>2 DEF Fail
    <3>2. a = Key(p)
      BY <1>0, <2>2 DEF KeyInv, KeyAt
    <3>3. CASE files' = files
      BY <1>0, <2>1, <3>2, <3>3 DEF KeyInv, KeyAt
    <3>4. CASE files' = [in |-> a, old |-> b, copy |-> Gone]
      BY <1>0, <2>1, <3>2, <3>4 DEF KeyInv, KeyAt
    <3> QED BY <3>1, <3>3, <3>4
  <2>3. CASE step = "backed up"
    <3>1. a = Gone /\ b = Key(p)
      BY <1>0, <2>3 DEF KeyInv, KeyAt
    <3>2. \/ files' = [in |-> b, old |-> Gone, copy |-> Gone]
          \/ files' = [in |-> a, old |-> b, copy |-> Gone]
      BY <1>5, <1>0, <1>k, <2>3, <3>1 DEF Fail, RolledBack
    <3>3. CASE files' = [in |-> b, old |-> Gone, copy |-> Gone]
      BY <1>0, <2>1, <3>1, <3>3 DEF KeyInv, KeyAt
    <3>4. CASE files' = [in |-> a, old |-> b, copy |-> Gone]
      BY <1>0, <2>1, <3>1, <3>4 DEF KeyInv, KeyAt
    <3> QED BY <3>2, <3>3, <3>4
  <2> QED BY <1>5, <2>2, <2>3 DEF Fail
<1>6. CASE Kill
  BY <1>6, <1>0 DEF Kill, KeyInv, KeyAt
<1>7. CASE Restore
  <2>1. /\ files' = [in |-> b, old |-> Gone, copy |-> c]
        /\ step = "idle" /\ a = Gone /\ step' = step /\ pass' = pass
    BY <1>7, <1>0 DEF Restore
  <2> QED BY <1>0, <1>k, <2>1 DEF KeyInv, KeyAt
<1>8. CASE UNCHANGED migrateVars
  BY <1>8, <1>0 DEF migrateVars, KeyInv, KeyAt
<1> QED BY <1>1, <1>2, <1>3, <1>4, <1>5, <1>6, <1>7, <1>8 DEF MigrateNext

(* `v2vctl migrate`: for any passphrases, any number of migrations, and a  *)
(* failure or a kill at any of their renames, the identity is on disk      *)
(* under its name or its backup's, with a passphrase of the last run.      *)
THEOREM KeyAlwaysSurvives == MigrateSpec => []KeySurvives
<1>1. MigrateInit => KeyInv
  BY KeyInit
<1>2. KeyInv /\ [MigrateNext]_migrateVars => KeyInv'
  BY KeyStep
<1>3. KeyInv => KeySurvives
  <2>1. \A p : Key(p).id = "key" /\ Key(p).pass = p
    BY DEF Key
  <2> QED BY <2>1 DEF KeyInv, KeyAt, KeySurvives
<1> QED BY <1>1, <1>2, <1>3, PTL DEF MigrateSpec

-----------------------------------------------------------------------------
(* Votes: the totals against the addresses that hold a direction.          *)
Ways == {"up", "down"}
Totals == [Ways -> Nat]
Entry == [dir : {"none", "up", "down", "withdraw"}, at : Int]
Fold == [target : Targets, total : Totals, n : Nat]

VotesTypes ==
  /\ day \in Int /\ votes \in Nat
  /\ scores \in [Targets -> Totals]
  /\ carried \in [Targets -> Totals]
  /\ dedup \in [Ips \X Targets -> Entry]
  /\ handler \in [Ips -> Seq(Fold)]
  /\ lines \in Seq(Fold)
  /\ newest \in [Targets -> Nat]

Queued(ip) == handler[ip] # <<>>
Pending(ip, t) == Queued(ip) /\ handler[ip][1].target = t

(* Every fold has a number of its own: of the handlers, of the lines, and  *)
(* of the newest line that was published.                                  *)
NumbersInv ==
  /\ \A ip \in Ips : Queued(ip) =>
       /\ handler[ip][1].n \in 1 .. votes
       /\ handler[ip][1].n # newest[handler[ip][1].target]
       /\ \A i \in DOMAIN lines : lines[i].n # handler[ip][1].n
  /\ \A ip, jp \in Ips : ip # jp /\ Queued(ip) /\ Queued(jp) => handler[ip][1].n # handler[jp][1].n
  /\ \A i \in DOMAIN lines : lines[i].n \in 1 .. votes
  /\ \A i, j \in DOMAIN lines : i # j => lines[i].n # lines[j].n
  /\ \A t \in Targets : newest[t] <= votes

(* The latest fold of a message carries its totals, whether a handler      *)
(* still holds it or it was published.                                     *)
LatestHeld(t) ==
  \A ip \in Ips :
    /\ Pending(ip, t) /\ handler[ip][1].n > newest[t]
    /\ \A jp \in Ips : Pending(jp, t) => handler[jp][1].n <= handler[ip][1].n
    => handler[ip][1].total = scores[t]

LatestPublished(t) ==
  (\A ip \in Ips : Pending(ip, t) => handler[ip][1].n < newest[t])
  => \A i \in LineOf(lines, t) : lines[i].n = newest[t] => lines[i].total = scores[t]

LatestInv == \A t \in Targets : LatestHeld(t) /\ LatestPublished(t)

VotesInv == VotesTypes /\ ScoresExact /\ NumbersInv /\ LatestInv

LEMMA ZeroTotals == Zero \in Totals /\ \A d \in Ways : Zero[d] = 0
  BY DEF Zero, Totals, Ways

LEMMA PlusIs ==
  ASSUME NEW s \in Totals, NEW d \in {"none", "up", "down", "withdraw"}
  PROVE  /\ Plus(s, d, 1) \in Totals
         /\ \A w \in Ways : Plus(s, d, 1)[w] = IF w = d THEN s[w] + 1 ELSE s[w]
  BY DEF Plus, Totals, Ways

LEMMA DecIs ==
  ASSUME NEW s \in Totals, NEW d \in {"none", "up", "down", "withdraw"}
  PROVE  /\ Dec(s, d) \in Totals
         /\ \A w \in Ways : Dec(s, d)[w] = IF w = d /\ s[w] > 0 THEN s[w] - 1 ELSE s[w]
  BY DEF Dec, Totals, Ways

(* Whose last word on message t is direction d.                            *)
Holders(t, d) == {ip \in Ips : dedup[<<ip, t>>].dir = d}

(* One address changes its direction on one message.                       *)
LEMMA MovedHolder ==
  ASSUME NEW A \in SUBSET Ips, NEW B \in SUBSET Ips, NEW ip \in Ips,
         \A x \in Ips \ {ip} : x \in A <=> x \in B
  PROVE  /\ Cardinality(A) \in Nat /\ Cardinality(B) \in Nat
         /\ ip \in A /\ ip \in B => Cardinality(A) = Cardinality(B)
         /\ ip \notin A /\ ip \notin B => Cardinality(A) = Cardinality(B)
         /\ ip \in A /\ ip \notin B => Cardinality(A) = Cardinality(B) + 1
         /\ ip \notin A /\ ip \in B => Cardinality(B) = Cardinality(A) + 1
<1>1. IsFiniteSet(A) /\ IsFiniteSet(B)
  BY VotesAssumption, FS_Subset
<1>2. Cardinality(A) \in Nat /\ Cardinality(B) \in Nat
  BY <1>1, FS_CardinalityType
<1>3. ip \notin B => Cardinality(B \cup {ip}) = Cardinality(B) + 1
  BY <1>1, FS_AddElement
<1>4. ip \notin A => Cardinality(A \cup {ip}) = Cardinality(A) + 1
  BY <1>1, FS_AddElement
<1>5. /\ (ip \in A <=> ip \in B) => A = B
      /\ ip \in A /\ ip \notin B => A = B \cup {ip}
      /\ ip \notin A /\ ip \in B => B = A \cup {ip}
  OBVIOUS
<1> QED BY <1>2, <1>3, <1>4, <1>5


LEMMA LinesAre ==
  ASSUME VotesTypes
  PROVE  \A i \in DOMAIN lines : lines[i] \in Fold /\ lines[i].target \in Targets
                                 /\ lines[i].total \in Totals /\ lines[i].n \in Nat
<1>1. lines \in Seq(Fold)
  BY DEF VotesTypes
<1>2. \A i \in DOMAIN lines : lines[i] \in Fold
  BY <1>1, ElementOfSeq
<1> QED BY <1>2 DEF Fold

LEMMA HandlersAre ==
  ASSUME VotesTypes, NEW ip \in Ips, Queued(ip)
  PROVE  handler[ip][1] \in Fold /\ handler[ip][1].target \in Targets
         /\ handler[ip][1].total \in Totals /\ handler[ip][1].n \in Nat
<1>1. handler[ip] \in Seq(Fold) /\ handler[ip] # <<>>
  BY DEF VotesTypes, Queued
<1>2. handler[ip][1] \in Fold
  BY <1>1
<1> QED BY <1>2 DEF Fold

(* applyVote: what the fold does to the totals of its message.             *)
LEMMA FoldedIs ==
  ASSUME NEW s \in Totals, NEW held \in {"none", "up", "down", "withdraw"},
         NEW d \in Directions, Changes(held, d)
  PROVE  LET new == Toggled(held, d) IN
         /\ new \in {"up", "down", "withdraw"} /\ new # held
         /\ Folded(s, held, d) \in Totals
         /\ \A w \in Ways :
              Folded(s, held, d)[w] = (IF w = held /\ s[w] > 0 THEN s[w] - 1 ELSE s[w])
                                      + (IF w = new THEN 1 ELSE 0)
<1> DEFINE new == Toggled(held, d)
<1>1. new \in {"up", "down", "withdraw"} /\ new # held
  BY DEF Toggled, Changes, Directions
<1>2. /\ Dec(s, held) \in Totals
      /\ \A w \in Ways : Dec(s, held)[w] = IF w = held /\ s[w] > 0 THEN s[w] - 1 ELSE s[w]
  BY DecIs
<1> DEFINE p == Dec(s, held)
<1> HIDE DEF p
<1>3. p \in Totals /\ \A w \in Ways : p[w] = IF w = held /\ s[w] > 0 THEN s[w] - 1 ELSE s[w]
  BY <1>2 DEF p
<1>4. Folded(s, held, d) = Plus(p, new, 1)
  BY DEF Folded, p
<1> HIDE DEF new
<1>5. /\ Plus(p, new, 1) \in Totals
      /\ \A w \in Ways : Plus(p, new, 1)[w] = IF w = new THEN p[w] + 1 ELSE p[w]
  BY <1>1, <1>3, PlusIs
<1>6. \A w \in Ways : s[w] \in Nat /\ p[w] \in Nat
  BY <1>3 DEF Totals
<1>7. \A w \in Ways :
              Folded(s, held, d)[w] = (IF w = held /\ s[w] > 0 THEN s[w] - 1 ELSE s[w])
                                      + (IF w = new THEN 1 ELSE 0)
  BY <1>3, <1>4, <1>5, <1>6
<1> QED BY <1>1, <1>4, <1>5, <1>7 DEF new

LEMMA ApplyScores ==
  ASSUME VotesInv, NEW ip \in Ips, NEW t \in Targets, NEW d \in Directions, ApplyVote(ip, t, d)
  PROVE  /\ scores' \in [Targets -> Totals] /\ carried' \in [Targets -> Totals]
         /\ dedup' \in [Ips \X Targets -> Entry]
         /\ ScoresExact'
         /\ scores' = [scores EXCEPT ![t] = scores'[t]]
         /\ scores'[t] \in Totals
<1> DEFINE held == Held(ip, t)
           old == dedup[<<ip, t>>].dir
           new == Toggled(held, d)
<1>0. /\ scores \in [Targets -> Totals] /\ carried \in [Targets -> Totals]
      /\ dedup \in [Ips \X Targets -> Entry] /\ day \in Int
  BY DEF VotesInv, VotesTypes
<1>1. dedup[<<ip, t>>] \in Entry /\ old \in {"none", "up", "down", "withdraw"}
  BY <1>0 DEF Entry
<1>2. held = old \/ held = "none"
  BY DEF Held
<1>3. Changes(held, d)
  BY DEF ApplyVote
<1>4. /\ scores' = [scores EXCEPT ![t] = Folded(@, held, d)]
      /\ dedup' = [dedup EXCEPT ![<<ip, t>>] = [dir |-> new, at |-> day]]
      /\ carried' = [carried EXCEPT ![t] = IF held = old THEN @ ELSE Plus(@, old, 1)]
  BY DEF ApplyVote
<1> HIDE DEF held, old
<1>5. held \in {"none", "up", "down", "withdraw"}
  BY <1>1, <1>2
<1>6. scores[t] \in Totals /\ carried[t] \in Totals
  BY <1>0
<1>7. /\ new \in {"up", "down", "withdraw"} /\ new # held
      /\ Folded(scores[t], held, d) \in Totals
      /\ \A w \in Ways :
           Folded(scores[t], held, d)[w] =
             (IF w = held /\ scores[t][w] > 0 THEN scores[t][w] - 1 ELSE scores[t][w])
              + (IF w = new THEN 1 ELSE 0)
  BY <1>3, <1>5, <1>6, FoldedIs
<1> HIDE DEF new
<1>8. /\ Plus(carried[t], old, 1) \in Totals
      /\ \A w \in Ways : Plus(carried[t], old, 1)[w] = IF w = old THEN carried[t][w] + 1 ELSE carried[t][w]
  BY <1>1, <1>6, PlusIs
<1>9. /\ scores' \in [Targets -> Totals] /\ scores'[t] = Folded(scores[t], held, d)
      /\ \A u \in Targets : u # t => scores'[u] = scores[u]
  BY <1>0, <1>4, <1>7
<1>10. /\ carried' \in [Targets -> Totals]
       /\ carried'[t] = IF held = old THEN carried[t] ELSE Plus(carried[t], old, 1)
       /\ \A u \in Targets : u # t => carried'[u] = carried[u]
  BY <1>0, <1>4, <1>8
<1>11. [dir |-> new, at |-> day] \in Entry
  BY <1>0, <1>7 DEF Entry
<1>12. /\ dedup' \in [Ips \X Targets -> Entry]
       /\ dedup'[<<ip, t>>].dir = new
       /\ \A jp \in Ips, u \in Targets : jp # ip \/ u # t => dedup'[<<jp, u>>] = dedup[<<jp, u>>]
  BY <1>0, <1>4, <1>11
<1>13. ASSUME NEW u \in Targets, NEW w \in Ways
       PROVE  scores'[u][w] = carried'[u][w] + Cardinality(Holders(u, w)')
  <2> DEFINE A == Holders(u, w)
             B == {jp \in Ips : dedup'[<<jp, u>>].dir = w}
  <2>1. scores[u][w] = carried[u][w] + Cardinality(A)
    BY DEF VotesInv, ScoresExact, Holders, Ways
  <2>2. B = Holders(u, w)'
    BY DEF Holders
  <2>3. CASE u # t
    <3>1. A = B
      BY <1>12, <2>3 DEF Holders
    <3> QED BY <1>9, <1>10, <2>1, <2>2, <2>3, <3>1
  <2>4. CASE u = t
    <3>1. \A x \in Ips \ {ip} : x \in A <=> x \in B
      BY <1>12, <2>4 DEF Holders
    <3>2. (ip \in A <=> old = w) /\ (ip \in B <=> new = w)
      BY <1>12, <2>4 DEF Holders, old
    <3>3. A \in SUBSET Ips /\ B \in SUBSET Ips
      BY DEF Holders
    <3> HIDE DEF A, B
    <3>4. /\ Cardinality(A) \in Nat /\ Cardinality(B) \in Nat
          /\ old = w /\ new = w => Cardinality(A) = Cardinality(B)
          /\ old # w /\ new # w => Cardinality(A) = Cardinality(B)
          /\ old = w /\ new # w => Cardinality(A) = Cardinality(B) + 1
          /\ old # w /\ new = w => Cardinality(B) = Cardinality(A) + 1
      BY <3>1, <3>2, <3>3, MovedHolder
    <3>5. scores[t][w] \in Nat /\ carried[t][w] \in Nat
      BY <1>6 DEF Totals
    <3>6. scores[t][w] = carried[t][w] + Cardinality(A)
      BY <2>1, <2>4
    <3>7. scores'[t][w] = (IF w = held /\ scores[t][w] > 0 THEN scores[t][w] - 1 ELSE scores[t][w])
                            + (IF w = new THEN 1 ELSE 0)
      BY <1>7, <1>9
    <3>8. carried'[t][w] = carried[t][w] + (IF held # old /\ w = old THEN 1 ELSE 0)
      BY <1>8, <1>10, <3>5
    <3>9. w # "none"
      BY DEF Ways
    <3>10. scores'[t][w] = carried'[t][w] + Cardinality(B)
      BY <1>2, <1>7, <3>4, <3>5, <3>6, <3>7, <3>8, <3>9
    <3> QED BY <2>2, <2>4, <3>10
  <2> QED BY <2>3, <2>4
<1>14. ScoresExact'
  BY <1>13 DEF ScoresExact, Holders, Ways
<1>15. scores' = [scores EXCEPT ![t] = scores'[t]]
  BY <1>0, <1>4, <1>9
<1> QED BY <1>7, <1>9, <1>10, <1>12, <1>14, <1>15

(* A handler's fold waits for its publication under the newest number.     *)
LEMMA ApplyBooks ==
  ASSUME VotesInv, NEW ip \in Ips, NEW t \in Targets, NEW d \in Directions, ApplyVote(ip, t, d)
  PROVE  VotesTypes' /\ NumbersInv' /\ LatestInv'
<1> DEFINE v == [target |-> t, total |-> scores'[t], n |-> votes + 1]
<1>0. /\ handler \in [Ips -> Seq(Fold)] /\ votes \in Nat /\ day \in Int
      /\ lines \in Seq(Fold) /\ newest \in [Targets -> Nat]
  BY DEF VotesInv, VotesTypes
<1>1. /\ scores' \in [Targets -> Totals] /\ carried' \in [Targets -> Totals]
      /\ dedup' \in [Ips \X Targets -> Entry]
      /\ scores' = [scores EXCEPT ![t] = scores'[t]] /\ scores'[t] \in Totals
  BY ApplyScores
<1>2. /\ handler[ip] = <<>> /\ votes' = votes + 1 /\ day' = day
      /\ lines' = lines /\ newest' = newest
      /\ handler' = [handler EXCEPT ![ip] = <<v>>]
  BY DEF ApplyVote
<1>3. v \in Fold /\ v.target = t /\ v.n = votes + 1 /\ v.total = scores'[t]
  BY <1>0, <1>1 DEF Fold
<1> HIDE DEF v
<1>4. <<v>> \in Seq(Fold) /\ <<v>>[1] = v /\ <<v>> # <<>>
  BY <1>3
<1>5. handler' \in [Ips -> Seq(Fold)]
  BY <1>0, <1>2, <1>4
<1>6. handler'[ip] = <<v>> /\ \A jp \in Ips : jp # ip => handler'[jp] = handler[jp]
  BY <1>0, <1>2
<1>7. VotesTypes'
  BY <1>0, <1>1, <1>2, <1>5 DEF VotesTypes
<1>8. /\ Queued(ip)' /\ handler'[ip][1] = v
      /\ \A jp \in Ips : jp # ip => (Queued(jp)' <=> Queued(jp)) /\ handler'[jp][1] = handler[jp][1]
      /\ ~Queued(ip)
  BY <1>2, <1>4, <1>6 DEF Queued
<1>9. VotesTypes
  BY DEF VotesInv
<1>10. \A jp \in Ips : Queued(jp) => handler[jp][1].n \in Nat /\ handler[jp][1].target \in Targets
  BY <1>9, HandlersAre
<1>11. \A i \in DOMAIN lines : lines[i].n \in Nat /\ lines[i].target \in Targets
  BY <1>9, LinesAre
<1>12. NumbersInv
  BY DEF VotesInv
<1>13. NumbersInv'
  <2>1. \A jp \in Ips : Queued(jp)' =>
          /\ handler'[jp][1].n \in 1 .. votes'
          /\ handler'[jp][1].n # newest'[handler'[jp][1].target]
          /\ \A i \in DOMAIN lines' : lines'[i].n # handler'[jp][1].n
    <3> TAKE jp \in Ips
    <3>1. CASE jp = ip
      <4>1. newest[t] <= votes /\ newest[t] \in Nat
        BY <1>0, <1>12 DEF NumbersInv
      <4>2. \A i \in DOMAIN lines : lines[i].n \in 1 .. votes
        BY <1>12 DEF NumbersInv
      <4> QED BY <1>0, <1>2, <1>3, <1>8, <3>1, <4>1, <4>2
    <3>2. CASE jp # ip
      <4>1. Queued(jp) =>
          /\ handler[jp][1].n \in 1 .. votes
          /\ handler[jp][1].n # newest[handler[jp][1].target]
          /\ \A i \in DOMAIN lines : lines[i].n # handler[jp][1].n
        BY <1>12 DEF NumbersInv
      <4> QED BY <1>0, <1>2, <1>8, <3>2, <4>1
    <3> QED BY <3>1, <3>2
  <2>2. \A xp, jp \in Ips : xp # jp /\ Queued(xp)' /\ Queued(jp)' => handler'[xp][1].n # handler'[jp][1].n
    <3> TAKE xp, jp \in Ips
    <3>1. \A y \in Ips : Queued(y) => handler[y][1].n \in 1 .. votes
      BY <1>12 DEF NumbersInv
    <3>2. xp # jp /\ Queued(xp) /\ Queued(jp) => handler[xp][1].n # handler[jp][1].n
      BY <1>12 DEF NumbersInv
    <3>3. CASE xp = ip
      BY <1>0, <1>3, <1>8, <3>1, <3>3
    <3>4. CASE jp = ip
      BY <1>0, <1>3, <1>8, <3>1, <3>4
    <3>5. CASE xp # ip /\ jp # ip
      BY <1>8, <3>2, <3>5
    <3> QED BY <3>3, <3>4, <3>5
  <2>3. \A i \in DOMAIN lines' : lines'[i].n \in 1 .. votes'
    BY <1>0, <1>2, <1>12 DEF NumbersInv
  <2>4. \A i, j \in DOMAIN lines' : i # j => lines'[i].n # lines'[j].n
    BY <1>2, <1>12 DEF NumbersInv
  <2>5. \A u \in Targets : newest'[u] <= votes'
    BY <1>0, <1>2, <1>12 DEF NumbersInv
  <2> QED BY <2>1, <2>2, <2>3, <2>4, <2>5 DEF NumbersInv
<1>14. ASSUME NEW u \in Targets PROVE LatestHeld(u)' /\ LatestPublished(u)'
  <2>0. LatestHeld(u) /\ LatestPublished(u)
    BY DEF VotesInv, LatestInv
  <2>1. CASE u = t
    <3>1. Pending(ip, u)' /\ handler'[ip][1].n = votes + 1 /\ handler'[ip][1].total = scores'[u]
      BY <1>3, <1>8, <2>1 DEF Pending
    <3>2. \A jp \in Ips : jp # ip /\ Queued(jp)' => handler'[jp][1].n <= votes /\ handler'[jp][1].n \in Nat
      BY <1>0, <1>8, <1>12 DEF NumbersInv
    <3>3. LatestHeld(u)'
      <4> SUFFICES ASSUME NEW jp \in Ips, Pending(jp, u)',
                          (\A xp \in Ips : Pending(xp, u) => handler[xp][1].n <= handler[jp][1].n)'
                   PROVE  handler'[jp][1].total = scores'[u]
        BY DEF LatestHeld
      <4>1. handler'[ip][1].n <= handler'[jp][1].n
        BY <3>1
      <4>2. jp = ip
        BY <1>0, <3>1, <3>2, <4>1 DEF Pending
      <4> QED BY <3>1, <4>2
    <3>4. newest'[u] <= votes /\ newest'[u] \in Nat
      BY <1>0, <1>2, <1>12 DEF NumbersInv
    <3>5. ~(handler'[ip][1].n < newest'[u])
      BY <1>0, <3>1, <3>4
    <3>6. LatestPublished(u)'
      BY <3>1, <3>5 DEF LatestPublished
    <3> QED BY <3>3, <3>6
  <2>2. CASE u # t
    <3>1. \A jp \in Ips : (Pending(jp, u)' <=> Pending(jp, u))
                          /\ (Pending(jp, u) => handler'[jp][1] = handler[jp][1])
      BY <1>3, <1>8, <2>2 DEF Pending
    <3>2. scores'[u] = scores[u]
      <4>1. scores \in [Targets -> Totals]
        BY DEF VotesInv, VotesTypes
      <4> QED BY <1>1, <2>2, <4>1
    <3>3. LatestHeld(u)'
      BY <1>2, <2>0, <3>1, <3>2 DEF LatestHeld
    <3>4. LatestPublished(u)'
      BY <1>2, <2>0, <3>1, <3>2 DEF LatestPublished, LineOf
    <3> QED BY <3>3, <3>4
  <2> QED BY <2>1, <2>2
<1> QED BY <1>7, <1>13, <1>14 DEF LatestInv

(* The sweep moves the expired entries to what no entry stands for.        *)
LEMMA SweepScores ==
  ASSUME VotesInv, Sweep
  PROVE  VotesTypes' /\ ScoresExact'
<1>0. /\ scores \in [Targets -> Totals] /\ carried \in [Targets -> Totals]
      /\ dedup \in [Ips \X Targets -> Entry]
  BY DEF VotesInv, VotesTypes
<1> DEFINE Expired(t, w) == {ip \in Ips : dedup[<<ip, t>>].dir = w /\ Held(ip, t) = "none"}
<1>1. NoVote \in Entry
  BY DEF NoVote, Entry
<1>2. dedup' = [p \in Ips \X Targets |-> IF Held(p[1], p[2]) = "none" THEN NoVote ELSE dedup[p]]
  BY DEF Sweep
<1>3. dedup' \in [Ips \X Targets -> Entry]
  BY <1>0, <1>1, <1>2
<1>4. \A ip \in Ips, t \in Targets :
        dedup'[<<ip, t>>] = IF Held(ip, t) = "none" THEN NoVote ELSE dedup[<<ip, t>>]
  BY <1>2
<1>5. \A t \in Targets, w \in Ways : Cardinality(Expired(t, w)) \in Nat
  <2> TAKE t \in Targets, w \in Ways
  <2>1. IsFiniteSet(Expired(t, w))
    BY VotesAssumption, FS_Subset
  <2> QED BY <2>1, FS_CardinalityType
<1>6. carried' = [t \in Targets |-> [d \in Ways |-> carried[t][d] + Cardinality(Expired(t, d))]]
  BY DEF Sweep, Ways
<1>7. \A t \in Targets, w \in Ways : carried[t][w] \in Nat /\ scores[t][w] \in Nat
  BY <1>0 DEF Totals
<1> HIDE DEF Expired
<1>8. carried' \in [Targets -> Totals]
  <2>1. \A t \in Targets : [d \in Ways |-> carried[t][d] + Cardinality(Expired(t, d))] \in Totals
    BY <1>5, <1>7 DEF Totals
  <2> QED BY <1>6, <2>1
<1>9. \A t \in Targets, w \in Ways : carried'[t][w] = carried[t][w] + Cardinality(Expired(t, w))
  BY <1>6
<1>10. /\ scores' = scores /\ handler' = handler /\ lines' = lines /\ newest' = newest
       /\ day' = day /\ votes' = votes
  BY DEF Sweep
<1>11. ASSUME NEW t \in Targets, NEW w \in Ways
       PROVE  scores'[t][w] = carried'[t][w] + Cardinality(Holders(t, w)')
  <2> DEFINE B == {ip \in Ips : dedup'[<<ip, t>>].dir = w}
             G == Expired(t, w)
  <2>1. B = Holders(t, w)'
    BY DEF Holders
  <2>2. w # "none" /\ NoVote.dir = "none"
    BY DEF Ways, NoVote
  <2>3. Holders(t, w) = B \cup G /\ B \cap G = {}
    BY <1>4, <2>2 DEF Holders, Expired
  <2>4. IsFiniteSet(B) /\ IsFiniteSet(G)
    BY VotesAssumption, FS_Subset DEF Expired
  <2>5. Cardinality(Holders(t, w)) = Cardinality(B) + Cardinality(G)
    <3> HIDE DEF B, G
    <3>1. Cardinality(B \cup G) = Cardinality(B) + Cardinality(G) - Cardinality(B \cap G)
      BY <2>4, FS_Union
    <3>2. Cardinality({}) = 0
      BY FS_EmptySet
    <3>3. Cardinality(B) \in Nat /\ Cardinality(G) \in Nat
      BY <2>4, FS_CardinalityType
    <3>4. Cardinality(B \cap G) = 0
      BY <2>3, <3>2
    <3>5. Cardinality(B \cup G) = Cardinality(B) + Cardinality(G)
      BY <3>1, <3>3, <3>4
    <3> QED BY <2>3, <3>5
  <2>6. scores[t][w] = carried[t][w] + Cardinality(Holders(t, w))
    BY DEF VotesInv, ScoresExact, Holders, Ways
  <2>7. Cardinality(B) \in Nat
    BY <2>4, FS_CardinalityType
  <2> HIDE DEF B
  <2>8. scores'[t][w] = carried'[t][w] + Cardinality(B)
    BY <1>5, <1>7, <1>9, <1>10, <2>5, <2>6, <2>7
  <2> QED BY <2>1, <2>8
<1>12. ScoresExact'
  BY <1>11 DEF ScoresExact, Holders, Ways
<1>13. VotesTypes'
  BY <1>3, <1>8, <1>10 DEF VotesInv, VotesTypes
<1> QED BY <1>12, <1>13

(* The window keeps the end of the lines.                                  *)
LEMMA SuffixOf ==
  ASSUME NEW s \in Seq(Fold), NEW r \in Seq(Fold), NEW k \in Nat, k <= Len(s),
         r = SubSeq(s, k + 1, Len(s))
  PROVE  /\ DOMAIN r = 1 .. Len(s) - k
         /\ \A i \in DOMAIN r : i + k \in DOMAIN s /\ r[i] = s[i + k]
  OBVIOUS

LEMMA RecentIs ==
  ASSUME NEW s \in Seq(Fold)
  PROVE  /\ Recent(s) \in Seq(Fold)
         /\ \E k \in Nat : \A i \in DOMAIN Recent(s) : i + k \in DOMAIN s /\ Recent(s)[i] = s[i + k]
<1>1. CASE Len(s) <= Window
  <2>1. Recent(s) = s
    BY <1>1 DEF Recent
  <2>2. \A i \in DOMAIN s : i \in Nat
    OBVIOUS
  <2>3. \A i \in DOMAIN Recent(s) : i + 0 \in DOMAIN s /\ Recent(s)[i] = s[i + 0]
    BY <2>1, <2>2
  <2> QED BY <2>1, <2>3
<1>2. CASE ~(Len(s) <= Window)
  <2> DEFINE k == Len(s) - Window
             r == SubSeq(s, k + 1, Len(s))
  <2>1. k \in Nat /\ k <= Len(s)
    BY <1>2, VotesAssumption
  <2>2. Recent(s) = r
    BY <1>2 DEF Recent
  <2> HIDE DEF k
  <2>3. r \in Seq(Fold)
    BY <2>1
  <2>4. \A i \in DOMAIN r : i + k \in DOMAIN s /\ r[i] = s[i + k]
    BY <2>1, <2>3, SuffixOf
  <2> QED BY <2>1, <2>2, <2>3, <2>4
<1> QED BY <1>1, <1>2

(* Lines that leave the window take nothing from what is known of those    *)
(* that stay.                                                              *)
LEMMA EvictBooks ==
  ASSUME VotesInv, Evict
  PROVE  VotesInv'
<1>0. /\ day' = day /\ scores' = scores /\ dedup' = dedup /\ handler' = handler
      /\ votes' = votes /\ carried' = carried /\ newest' = newest /\ lines' = Tail(lines)
  BY DEF Evict
<1>1. lines \in Seq(Fold) /\ lines # <<>>
  BY DEF VotesInv, VotesTypes, Evict
<1>2. lines' \in Seq(Fold)
  BY <1>0, <1>1
<1>3. \A i \in DOMAIN lines' : i \in Nat /\ i + 1 \in DOMAIN lines /\ lines'[i] = lines[i + 1]
  BY <1>0, <1>1
<1>4. VotesTypes' /\ ScoresExact'
  <2>1. VotesTypes'
    BY <1>0, <1>2 DEF VotesInv, VotesTypes
  <2>2. ScoresExact'
    BY <1>0 DEF VotesInv, ScoresExact
  <2> QED BY <2>1, <2>2
<1>5. NumbersInv'
  <2>0. NumbersInv /\ \A ip \in Ips : Queued(ip)' <=> Queued(ip)
    BY <1>0 DEF VotesInv, Queued
  <2>1. \A jp \in Ips : Queued(jp)' =>
          /\ handler'[jp][1].n \in 1 .. votes'
          /\ handler'[jp][1].n # newest'[handler'[jp][1].target]
    BY <1>0, <2>0 DEF NumbersInv
  <2>2. \A jp \in Ips : Queued(jp)' =>
          \A i \in DOMAIN lines' : lines'[i].n # handler'[jp][1].n
    BY <1>0, <1>3, <2>0 DEF NumbersInv
  <2>3. \A xp, jp \in Ips : xp # jp /\ Queued(xp)' /\ Queued(jp)' => handler'[xp][1].n # handler'[jp][1].n
    BY <1>0, <2>0 DEF NumbersInv
  <2>4. \A i \in DOMAIN lines' : lines'[i].n \in 1 .. votes'
    BY <1>0, <1>3, <2>0 DEF NumbersInv
  <2>5. \A i, j \in DOMAIN lines' : i # j => lines'[i].n # lines'[j].n
    <3> TAKE i, j \in DOMAIN lines'
    <3>1. i # j => i + 1 # j + 1
      BY <1>3
    <3> QED BY <1>3, <2>0, <3>1 DEF NumbersInv
  <2>6. \A t \in Targets : newest'[t] <= votes'
    BY <1>0, <2>0 DEF NumbersInv
  <2> QED BY <2>1, <2>2, <2>3, <2>4, <2>5, <2>6 DEF NumbersInv
<1>6. LatestInv'
  <2> SUFFICES ASSUME NEW t \in Targets PROVE LatestHeld(t)' /\ LatestPublished(t)'
    BY DEF LatestInv
  <2>1. LatestHeld(t) /\ LatestPublished(t)
    BY DEF VotesInv, LatestInv
  <2>2. \A ip \in Ips : Pending(ip, t)' <=> Pending(ip, t)
    BY <1>0 DEF Pending, Queued
  <2>3. LatestHeld(t)'
    BY <1>0, <2>1, <2>2 DEF LatestHeld
  <2>4. LatestPublished(t)'
    BY <1>0, <1>3, <2>1, <2>2 DEF LatestPublished, LineOf
  <2> QED BY <2>3, <2>4
<1> QED BY <1>4, <1>5, <1>6 DEF VotesInv

(* BroadcastVote: the published line is one of the old lines or the fold   *)
(* of the handler, and it is the last one of its message if the handler    *)
(* had the latest.                                                         *)
LEMMA PublishBooks ==
  ASSUME VotesInv, NEW ip \in Ips, Publish(ip)
  PROVE  VotesInv'
<1> DEFINE v == handler[ip][1]
<1>0. /\ day' = day /\ scores' = scores /\ dedup' = dedup /\ votes' = votes
      /\ carried' = carried /\ handler' = [handler EXCEPT ![ip] = <<>>]
      /\ newest' = [newest EXCEPT ![v.target] = IF v.n > @ THEN v.n ELSE @]
      /\ lines' = Recent(Append(lines, v)) /\ Queued(ip)
  BY DEF Publish, Queued
<1>1. VotesTypes /\ NumbersInv
  BY DEF VotesInv
<1>2. v \in Fold /\ v.target \in Targets /\ v.total \in Totals /\ v.n \in Nat
  BY <1>0, <1>1, HandlersAre
<1>3. /\ lines \in Seq(Fold) /\ newest \in [Targets -> Nat] /\ votes \in Nat
      /\ handler \in [Ips -> Seq(Fold)]
  BY <1>1 DEF VotesTypes
<1>4. /\ v.n \in 1 .. votes /\ v.n # newest[v.target]
      /\ \A i \in DOMAIN lines : lines[i].n # v.n
      /\ \A jp \in Ips : jp # ip /\ Queued(jp) => handler[jp][1].n # v.n
  BY <1>0, <1>1 DEF NumbersInv
<1> HIDE DEF v
<1>5. /\ \A jp \in Ips : jp # ip => handler'[jp] = handler[jp]
      /\ handler'[ip] = <<>> /\ handler' \in [Ips -> Seq(Fold)]
  BY <1>0, <1>3
<1>6. ~Queued(ip)' /\ \A jp \in Ips : jp # ip => (Queued(jp)' <=> Queued(jp))
  BY <1>5 DEF Queued
<1>7. /\ newest' \in [Targets -> Nat]
      /\ newest'[v.target] = (IF v.n > newest[v.target] THEN v.n ELSE newest[v.target])
      /\ \A t \in Targets : t # v.target => newest'[t] = newest[t]
  BY <1>0, <1>2, <1>3
<1> DEFINE s == Append(lines, v)
<1>8. s \in Seq(Fold) /\ Len(s) = Len(lines) + 1 /\ s[Len(s)] = v
      /\ \A i \in DOMAIN s : i # Len(s) => i \in DOMAIN lines /\ s[i] = lines[i]
  BY <1>2, <1>3
<1> HIDE DEF s
<1>9. lines' = Recent(s)
  BY <1>0 DEF s
<1>10. /\ lines' \in Seq(Fold)
       /\ \E k \in Nat : \A i \in DOMAIN lines' : i + k \in DOMAIN s /\ lines'[i] = s[i + k]
  BY <1>8, <1>9, RecentIs
<1>11. PICK k \in Nat : \A i \in DOMAIN lines' : i + k \in DOMAIN s /\ lines'[i] = s[i + k]
  BY <1>10
<1>12. \A i \in DOMAIN lines' :
         \/ lines'[i] = v /\ i + k = Len(s)
         \/ i + k \in DOMAIN lines /\ i + k # Len(s) /\ lines'[i] = lines[i + k]
  BY <1>8, <1>11
<1>13. \A i \in DOMAIN lines' : i \in Nat
  BY <1>10
<1>14. VotesTypes'
  BY <1>0, <1>1, <1>5, <1>7, <1>10 DEF VotesTypes
<1>15. ScoresExact'
  BY <1>0 DEF VotesInv, ScoresExact
<1>16. NumbersInv'
  <2>1. ASSUME NEW jp \in Ips, Queued(jp)'
        PROVE  /\ handler'[jp][1].n \in 1 .. votes'
               /\ handler'[jp][1].n # newest'[handler'[jp][1].target]
               /\ \A i \in DOMAIN lines' : lines'[i].n # handler'[jp][1].n
    <3>1. jp # ip /\ Queued(jp) /\ handler'[jp] = handler[jp]
      BY <1>5, <1>6, <2>1
    <3>2. /\ handler[jp][1].n \in 1 .. votes
          /\ handler[jp][1].n # newest[handler[jp][1].target]
          /\ \A i \in DOMAIN lines : lines[i].n # handler[jp][1].n
      BY <1>1, <3>1 DEF NumbersInv
    <3>3. handler[jp][1].n # v.n /\ handler[jp][1].target \in Targets
      BY <1>1, <1>4, <3>1, HandlersAre
    <3>4. handler[jp][1].n # newest'[handler[jp][1].target]
      BY <1>7, <3>2, <3>3
    <3>5. \A i \in DOMAIN lines' : lines'[i].n # handler[jp][1].n
      BY <1>12, <3>2, <3>3
    <3> QED BY <1>0, <3>1, <3>2, <3>4, <3>5
  <2>2. \A xp, jp \in Ips : xp # jp /\ Queued(xp)' /\ Queued(jp)' => handler'[xp][1].n # handler'[jp][1].n
    BY <1>1, <1>5, <1>6 DEF NumbersInv
  <2>3. \A i \in DOMAIN lines' : lines'[i].n \in 1 .. votes'
    BY <1>0, <1>1, <1>4, <1>12 DEF NumbersInv
  <2>4. \A i, j \in DOMAIN lines' : i # j => lines'[i].n # lines'[j].n
    <3> TAKE i, j \in DOMAIN lines'
    <3>1. i # j => i + k # j + k
      BY <1>13
    <3>2. \A x, y \in DOMAIN lines : x # y => lines[x].n # lines[y].n
      BY <1>1 DEF NumbersInv
    <3> QED BY <1>4, <1>12, <3>1, <3>2
  <2>5. \A t \in Targets : newest'[t] <= votes'
    BY <1>0, <1>1, <1>3, <1>4, <1>7 DEF NumbersInv
  <2> QED BY <2>1, <2>2, <2>3, <2>4, <2>5 DEF NumbersInv
<1>17. ASSUME NEW t \in Targets PROVE LatestHeld(t)' /\ LatestPublished(t)'
  <2>0. LatestHeld(t) /\ LatestPublished(t)
    BY DEF VotesInv, LatestInv
  <2>1. /\ ~Pending(ip, t)'
        /\ \A jp \in Ips : jp # ip => (Pending(jp, t)' <=> Pending(jp, t)) /\ handler'[jp] = handler[jp]
        /\ \A jp \in Ips : Pending(jp, t)' => jp # ip
    BY <1>5, <1>6 DEF Pending
  <2>2. CASE t # v.target
    <3>1. ~Pending(ip, t)
      BY <2>2 DEF Pending, v
    <3>2. \A jp \in Ips : (Pending(jp, t)' <=> Pending(jp, t)) /\ (Pending(jp, t) => handler'[jp] = handler[jp])
      BY <2>1, <3>1
    <3>3. LatestHeld(t)'
      BY <1>0, <1>7, <2>0, <2>2, <3>2 DEF LatestHeld
    <3>4. \A i \in DOMAIN lines' : lines'[i].target = t => i + k \in DOMAIN lines /\ lines'[i] = lines[i + k]
      BY <1>12, <2>2
    <3>5. LatestPublished(t)'
      BY <1>0, <1>7, <2>0, <2>2, <3>2, <3>4 DEF LatestPublished, LineOf
    <3> QED BY <3>3, <3>5
  <2>3. CASE t = v.target
    <3>1. Pending(ip, t) /\ newest[t] \in Nat
      BY <1>0, <1>3, <2>3 DEF Pending, v
    <3>2. \A jp \in Ips : Pending(jp, t) => handler[jp][1].n \in Nat
      BY <1>1, HandlersAre DEF Pending
    <3>3. v.n <= newest'[t] /\ newest[t] <= newest'[t] /\ newest'[t] \in Nat
      BY <1>2, <1>7, <2>3, <3>1
    <3>4. LatestHeld(t)'
      <4> SUFFICES ASSUME NEW jp \in Ips, Pending(jp, t)', handler'[jp][1].n > newest'[t],
                          \A xp \in Ips : Pending(xp, t)' => handler'[xp][1].n <= handler'[jp][1].n
                   PROVE  handler'[jp][1].total = scores'[t]
        BY DEF LatestHeld
      <4>1. jp # ip /\ Pending(jp, t) /\ handler'[jp] = handler[jp]
        BY <2>1
      <4>2. handler[jp][1].n > newest[t] /\ handler[jp][1].n > v.n
        BY <1>2, <3>2, <3>1, <3>3, <4>1
      <4>3. \A xp \in Ips : Pending(xp, t) => handler[xp][1].n <= handler[jp][1].n
        <5> TAKE xp \in Ips
        <5>1. CASE xp = ip
          BY <1>2, <3>2, <4>1, <4>2, <5>1 DEF v
        <5>2. CASE xp # ip
          BY <2>1, <4>1, <5>2
        <5> QED BY <5>1, <5>2
      <4> QED BY <1>0, <2>0, <4>1, <4>2, <4>3 DEF LatestHeld
    <3>5. LatestPublished(t)'
      <4> SUFFICES ASSUME \A jp \in Ips : Pending(jp, t)' => handler'[jp][1].n < newest'[t],
                          NEW i \in DOMAIN lines', lines'[i].target = t, lines'[i].n = newest'[t]
                   PROVE  lines'[i].total = scores'[t]
        BY DEF LatestPublished, LineOf
      <4>1. \A jp \in Ips : Pending(jp, t) /\ jp # ip => handler[jp][1].n < newest'[t]
        BY <2>1
      <4>2. CASE v.n > newest[t]
        <5>1. newest'[t] = v.n
          BY <1>7, <2>3, <4>2
        <5>2. lines'[i] = v
          BY <1>4, <1>12, <5>1
        <5>3. \A jp \in Ips : Pending(jp, t) => handler[jp][1].n <= handler[ip][1].n
          BY <1>2, <3>2, <4>1, <5>1 DEF v
        <5>4. handler[ip][1].total = scores[t]
          BY <2>0, <3>1, <4>2, <5>3 DEF LatestHeld, v
        <5> QED BY <1>0, <5>2, <5>4 DEF v
      <4>3. CASE ~(v.n > newest[t])
        <5>1. newest'[t] = newest[t] /\ v.n < newest[t]
          BY <1>2, <1>4, <1>7, <2>3, <3>1, <4>3
        <5>2. \A jp \in Ips : Pending(jp, t) => handler[jp][1].n < newest[t]
          BY <4>1, <5>1 DEF v
        <5>3. i + k \in DOMAIN lines /\ lines'[i] = lines[i + k]
          BY <1>2, <1>12, <3>1, <5>1
        <5> QED BY <1>0, <2>0, <5>1, <5>2, <5>3 DEF LatestPublished, LineOf
      <4> QED BY <4>2, <4>3
    <3> QED BY <3>4, <3>5
  <2> QED BY <2>2, <2>3
<1> QED BY <1>14, <1>15, <1>16, <1>17 DEF VotesInv, LatestInv

-----------------------------------------------------------------------------
Less == {ss \in Nat \X Nat : ss[1] < ss[2]}

LEMMA LessIsWellFounded == IsWellFoundedOn(Less, Nat)
<1>1. OpToRel(<, Nat) = Less
  BY Zenon DEF OpToRel, Less
<1> QED BY <1>1, NatLessThanWellFounded, Zenon

LEMMA LeastNumber == \A T \in SUBSET Nat : T # {} => \E m \in T : \A k \in T : m <= k
<1> SUFFICES ASSUME NEW T \in SUBSET Nat, T # {} PROVE \E m \in T : \A k \in T : m <= k
  OBVIOUS
<1>1. \E x \in T : \A y \in T : ~(<<y, x>> \in Less)
  BY LessIsWellFounded, WFMin, Zenon
<1>2. PICK m \in T : \A y \in T : ~(<<y, m>> \in Less)
  BY <1>1
<1>3. \A a, b \in Nat : a < b => <<a, b>> \in Less
  BY DEF Less
<1> HIDE DEF Less
<1>4. \A k \in T : ~(k < m)
  BY <1>2, <1>3
<1>5. \A k \in T : m <= k
  BY <1>4
<1> QED BY <1>5

(* The last line of a message, which a client draws and a boot starts from. *)
LEMMA LastLineIs ==
  ASSUME VotesTypes, NEW t \in Targets, LineOf(lines, t) # {}
  PROVE  /\ LastLine(lines, t) \in LineOf(lines, t)
         /\ \A j \in LineOf(lines, t) : j <= LastLine(lines, t)
<1> DEFINE S == LineOf(lines, t)
<1>1. lines \in Seq(Fold)
  BY DEF VotesTypes
<1>2. S \subseteq 1 .. Len(lines) /\ Len(lines) \in Nat /\ S # {}
  BY <1>1 DEF LineOf
<1>3. \E i \in S : \A j \in S : j <= i
  <2> DEFINE T == {n \in Nat : \A j \in S : j <= n}
  <2> HIDE DEF S
  <2>1. Len(lines) \in T
    BY <1>2
  <2>2. T \subseteq Nat
    OBVIOUS
  <2>3. PICK n \in T : \A m \in T : n <= m
    <3> HIDE DEF T
    <3> QED BY <2>1, <2>2, LeastNumber
  <2>4. n \in Nat /\ \A j \in S : j <= n
    OBVIOUS
  <2>5. n \in S
    <3>1. SUFFICES ASSUME n \notin S PROVE FALSE
      OBVIOUS
    <3>2. \A j \in S : j \in Nat /\ j >= 1 /\ j <= n - 1
      BY <1>2, <2>4, <3>1
    <3>3. PICK j \in S : TRUE
      BY <1>2
    <3>4. n - 1 \in Nat
      BY <2>4, <3>2, <3>3
    <3>5. n - 1 \in T
      BY <3>2, <3>4
    <3> QED BY <2>3, <2>4, <3>5
  <2> QED BY <2>4, <2>5
<1> QED BY <1>3 DEF LastLine

LEMMA RestartBooks ==
  ASSUME VotesInv, Restart
  PROVE  VotesInv'
<1>0. /\ scores' = [t \in Targets |-> Shown(lines, t)]
      /\ dedup' = [p \in Ips \X Targets |-> NoVote]
      /\ handler' = [ip \in Ips |-> <<>>]
      /\ carried' = scores'
      /\ newest' = [t \in Targets |-> IF LineOf(lines, t) = {} THEN 0 ELSE lines[LastLine(lines, t)].n]
      /\ day' = day /\ lines' = lines /\ votes' = votes
  BY DEF Restart
<1>1. VotesTypes /\ NumbersInv
  BY DEF VotesInv
<1>2. \A i \in DOMAIN lines : lines[i].total \in Totals /\ lines[i].n \in Nat
  BY <1>1, LinesAre
<1>3. \A t \in Targets : LineOf(lines, t) # {} => LastLine(lines, t) \in LineOf(lines, t)
  BY <1>1, LastLineIs
<1>4. \A t \in Targets : LineOf(lines, t) # {} => LastLine(lines, t) \in DOMAIN lines
  BY <1>3 DEF LineOf
<1>5. scores' \in [Targets -> Totals]
  <2>1. \A t \in Targets : Shown(lines, t) \in Totals
    BY <1>2, <1>4, ZeroTotals DEF Shown
  <2> QED BY <1>0, <2>1
<1>6. newest' \in [Targets -> Nat]
  BY <1>0, <1>2, <1>4
<1>7. NoVote \in Entry /\ NoVote.dir = "none"
  BY DEF NoVote, Entry
<1>8. dedup' \in [Ips \X Targets -> Entry] /\ handler' \in [Ips -> Seq(Fold)]
  BY <1>0, <1>7
<1>9. VotesTypes'
  BY <1>0, <1>1, <1>5, <1>6, <1>8 DEF VotesTypes
<1>10. ScoresExact'
  <2> SUFFICES ASSUME NEW t \in Targets, NEW w \in Ways
               PROVE  scores'[t][w] = carried'[t][w] + Cardinality({ip \in Ips : dedup'[<<ip, t>>].dir = w})
    BY DEF ScoresExact, Ways
  <2>1. {ip \in Ips : dedup'[<<ip, t>>].dir = w} = {}
    BY <1>0, <1>7 DEF Ways
  <2>2. scores'[t][w] \in Nat
    BY <1>5 DEF Totals
  <2>3. Cardinality({}) = 0
    BY FS_EmptySet
  <2>4. scores'[t][w] = carried'[t][w] + 0
    BY <1>0, <2>2
  <2> QED BY <2>1, <2>3, <2>4
<1>11. \A ip \in Ips : ~Queued(ip)'
  BY <1>0 DEF Queued
<1>12. \A t \in Targets : newest'[t] = IF LineOf(lines, t) = {} THEN 0 ELSE lines[LastLine(lines, t)].n
  BY <1>0
<1>13. NumbersInv'
  <2>1. \A i \in DOMAIN lines' : lines'[i].n \in 1 .. votes'
    BY <1>0, <1>1 DEF NumbersInv
  <2>2. \A i, j \in DOMAIN lines' : i # j => lines'[i].n # lines'[j].n
    BY <1>0, <1>1 DEF NumbersInv
  <2>3. votes \in Nat
    BY <1>1 DEF VotesTypes
  <2>4. \A t \in Targets : newest'[t] <= votes'
    BY <1>0, <1>1, <1>4, <1>12, <2>3 DEF NumbersInv
  <2> QED BY <1>11, <2>1, <2>2, <2>4 DEF NumbersInv
<1>14. LatestInv'
  <2> SUFFICES ASSUME NEW t \in Targets PROVE LatestHeld(t)' /\ LatestPublished(t)'
    BY DEF LatestInv
  <2>1. LatestHeld(t)'
    BY <1>11 DEF LatestHeld, Pending
  <2>2. ASSUME NEW i \in LineOf(lines', t), lines'[i].n = newest'[t]
        PROVE  lines'[i].total = scores'[t]
    <3>1. i \in LineOf(lines, t) /\ i \in DOMAIN lines /\ lines' = lines
      BY <1>0 DEF LineOf
    <3>2. newest'[t] = lines[LastLine(lines, t)].n
      BY <1>12, <3>1
    <3>3. i = LastLine(lines, t)
      BY <1>1, <1>4, <2>2, <3>1, <3>2 DEF NumbersInv
    <3>4. Shown(lines, t) = lines[LastLine(lines, t)].total
      BY <3>1 DEF Shown
    <3> QED BY <1>0, <3>1, <3>3, <3>4
  <2>3. LatestPublished(t)'
    BY <2>2 DEF LatestPublished
  <2> QED BY <2>1, <2>3
<1> QED BY <1>9, <1>10, <1>13, <1>14 DEF VotesInv

LEMMA SameBooks ==
  ASSUME VotesInv, day' \in Int,
         UNCHANGED <<scores, dedup, handler, lines, votes, carried, newest>>
  PROVE  VotesInv'
<1>1. VotesTypes'
  BY DEF VotesInv, VotesTypes
<1>2. ScoresExact'
  BY DEF VotesInv, ScoresExact
<1>3. NumbersInv'
  BY DEF VotesInv, NumbersInv, Queued
<1>4. LatestInv'
  BY DEF VotesInv, LatestInv, LatestHeld, LatestPublished, Pending, Queued, LineOf
<1> QED BY <1>1, <1>2, <1>3, <1>4 DEF VotesInv

LEMMA VotesInvInit == VotesInit => VotesInv
<1> SUFFICES ASSUME VotesInit PROVE VotesInv
  OBVIOUS
<1>0. /\ day = 0 /\ votes = 0 /\ lines = <<>>
      /\ newest = [t \in Targets |-> 0]
      /\ scores = [t \in Targets |-> Zero]
      /\ dedup = [p \in Ips \X Targets |-> NoVote]
      /\ handler = [ip \in Ips |-> <<>>]
      /\ carried = [t \in Targets |-> Zero]
  BY DEF VotesInit
<1>1. NoVote \in Entry /\ NoVote.dir = "none"
  BY DEF NoVote, Entry
<1>2. VotesTypes
  <2>1. lines \in Seq(Fold) /\ handler \in [Ips -> Seq(Fold)]
    BY <1>0
  <2> QED BY <1>0, <1>1, <2>1, ZeroTotals DEF VotesTypes
<1>3. ScoresExact
  <2> SUFFICES ASSUME NEW t \in Targets, NEW w \in Ways
               PROVE  scores[t][w] = carried[t][w] + Cardinality({ip \in Ips : dedup[<<ip, t>>].dir = w})
    BY DEF ScoresExact, Ways
  <2>1. {ip \in Ips : dedup[<<ip, t>>].dir = w} = {}
    BY <1>0, <1>1 DEF Ways
  <2>2. scores[t][w] = 0 /\ carried[t][w] = 0
    BY <1>0, ZeroTotals
  <2>3. Cardinality({}) = 0
    BY FS_EmptySet
  <2>4. scores[t][w] = carried[t][w] + 0
    BY <2>2
  <2> QED BY <2>1, <2>3, <2>4
<1>4. \A ip \in Ips : ~Queued(ip)
  BY <1>0 DEF Queued
<1>5. NumbersInv
  BY <1>0, <1>4 DEF NumbersInv
<1>6. LatestInv
  BY <1>0, <1>4 DEF LatestInv, LatestHeld, LatestPublished, Pending, LineOf
<1> QED BY <1>2, <1>3, <1>5, <1>6 DEF VotesInv

LEMMA VotesInvStep == VotesInv /\ [VotesNext]_votesVars => VotesInv'
<1> SUFFICES ASSUME VotesInv, [VotesNext]_votesVars PROVE VotesInv'
  OBVIOUS
<1>1. ASSUME NEW ip \in Ips, NEW t \in Targets, NEW d \in Directions, ApplyVote(ip, t, d)
      PROVE  VotesInv'
  BY <1>1, ApplyScores, ApplyBooks DEF VotesInv
<1>2. ASSUME NEW ip \in Ips, Publish(ip) PROVE VotesInv'
  BY <1>2, PublishBooks
<1>3. CASE Sweep
  <2>1. VotesTypes' /\ ScoresExact'
    BY <1>3, SweepScores
  <2>2. UNCHANGED <<scores, handler, lines, votes, newest>>
    BY <1>3 DEF Sweep
  <2>3. NumbersInv'
    BY <2>2 DEF VotesInv, NumbersInv, Queued
  <2>4. LatestInv'
    BY <2>2 DEF VotesInv, LatestInv, LatestHeld, LatestPublished, Pending, Queued, LineOf
  <2> QED BY <2>1, <2>3, <2>4 DEF VotesInv
<1>4. CASE Evict
  BY <1>4, EvictBooks
<1>5. CASE Restart
  BY <1>5, RestartBooks
<1>6. CASE NextDay
  <2>1. day' \in Int
    BY <1>6 DEF NextDay, VotesInv, VotesTypes
  <2> QED BY <1>6, <2>1, SameBooks DEF NextDay
<1>7. CASE UNCHANGED votesVars
  <2>1. day' \in Int
    BY <1>7 DEF votesVars, VotesInv, VotesTypes
  <2> QED BY <1>7, <2>1, SameBooks DEF votesVars
<1> QED BY <1>1, <1>2, <1>3, <1>4, <1>5, <1>6, <1>7 DEF VotesNext

(* VotesExact for any addresses, messages, window and dedup TTL: toggles,  *)
(* flips, withdrawals, sweeps and restarts in any order count a vote once, *)
(* and the last line carries the totals (applyVote, BroadcastVote).        *)
THEOREM VotesAlwaysExact == VotesSpec => []VotesExact
<1>1. VotesInv => VotesExact
  <2> SUFFICES ASSUME VotesInv PROVE LastLineIsTotal
    BY DEF VotesInv, VotesExact
  <2> SUFFICES ASSUME NEW t \in Targets,
                      \A ip \in Ips : handler[ip] = <<>> \/ handler[ip][1].target # t,
                      NEW i \in LineOf(lines, t), lines[i].n = newest[t],
                      \A j \in LineOf(lines, t) : j <= i
               PROVE  Shown(lines, t) = scores[t]
    BY DEF LastLineIsTotal
  <2>1. VotesTypes /\ LatestPublished(t)
    BY DEF VotesInv, LatestInv
  <2>2. \A ip \in Ips : ~Pending(ip, t)
    BY DEF Pending, Queued
  <2>3. lines[i].total = scores[t]
    BY <2>1, <2>2 DEF LatestPublished
  <2>4. LastLine(lines, t) \in LineOf(lines, t) /\ \A j \in LineOf(lines, t) : j <= LastLine(lines, t)
    BY <2>1, LastLineIs
  <2>5. \A j \in LineOf(lines, t) : j \in Int
    BY <2>1 DEF LineOf, VotesTypes
  <2>6. LastLine(lines, t) = i
    BY <2>4, <2>5
  <2> QED BY <2>3, <2>6 DEF Shown
<1> QED BY <1>1, VotesInvInit, VotesInvStep, PTL DEF VotesSpec

-----------------------------------------------------------------------------
(* Sums over finite sets of addresses, and the extremes of bounded sets.   *)

LEMMA HasMax ==
  ASSUME NEW S \in SUBSET Int, NEW n \in Int, S # {}, \A x \in S : x <= n
  PROVE  Max(S) \in S /\ \A y \in S : Max(S) >= y
<1> DEFINE T == {k \in Nat : n - k \in S}
<1>1. T # {}
  <2> PICK x \in S : TRUE
    OBVIOUS
  <2>1. n - x \in Nat /\ n - (n - x) = x
    OBVIOUS
  <2>2. n - x \in T
    BY <2>1
  <2> QED BY <2>2
<1>2. PICK m \in T : \A k \in T : m <= k
  <2> T \in SUBSET Nat
    OBVIOUS
  <2> QED BY <1>1, LeastNumber
<1>3. ASSUME NEW y \in S PROVE n - m >= y
  <2>1. n - y \in T
    <3>1. n - y \in Nat /\ n - (n - y) = y
      OBVIOUS
    <3> QED BY <3>1
  <2>2. m <= n - y
    <3> HIDE DEF T
    <3> QED BY <1>2, <2>1
  <2>3. m \in Int /\ y \in Int
    OBVIOUS
  <2> QED BY <2>2, <2>3
<1>4. n - m \in S
  OBVIOUS
<1> QED BY <1>3, <1>4 DEF Max

LEMMA HasMin ==
  ASSUME NEW S \in SUBSET Int, NEW n \in Int, S # {}, \A x \in S : n <= x
  PROVE  Min(S) \in S /\ \A y \in S : Min(S) <= y
<1> DEFINE T == {k \in Nat : n + k \in S}
<1>1. T # {}
  <2> PICK x \in S : TRUE
    OBVIOUS
  <2>1. x - n \in Nat /\ n + (x - n) = x
    OBVIOUS
  <2>2. x - n \in T
    BY <2>1
  <2> QED BY <2>2
<1>2. PICK m \in T : \A k \in T : m <= k
  <2> T \in SUBSET Nat
    OBVIOUS
  <2> QED BY <1>1, LeastNumber
<1>3. ASSUME NEW y \in S PROVE n + m <= y
  <2>1. y - n \in T
    <3>1. y - n \in Nat /\ n + (y - n) = y
      OBVIOUS
    <3> QED BY <3>1
  <2>2. m <= y - n
    <3> HIDE DEF T
    <3> QED BY <1>2, <2>1
  <2>3. m \in Int /\ y \in Int
    OBVIOUS
  <2> QED BY <2>2, <2>3
<1>4. n + m \in S
  OBVIOUS
<1> QED BY <1>3, <1>4 DEF Min

(* The recursion of the fold has a solution on every finite set, built up  *)
(* by the size of the subsets, and its values are numbers.                 *)
Pick1(s) == CHOOSE x \in s : TRUE
SumOf(f, S) == MapThenSumSet(LAMBDA x : f[x], S)

LEMMA SumIsNat ==
  ASSUME NEW S, IsFiniteSet(S), NEW f, \A x \in S : f[x] \in Nat
  PROVE  SumOf(f, S) \in Nat
<1> DEFINE Upto(n) == {s \in SUBSET S : Cardinality(s) <= n}
           Solves(g, D) == g = [s \in D |-> IF s = {} THEN 0 ELSE f[Pick1(s)] + g[s \ {Pick1(s)}]]
<1>1. ASSUME NEW s \in SUBSET S
      PROVE  /\ IsFiniteSet(s) /\ Cardinality(s) \in Nat /\ (Cardinality(s) = 0 <=> s = {})
             /\ s # {} => /\ Pick1(s) \in s /\ f[Pick1(s)] \in Nat /\ s \ {Pick1(s)} \in SUBSET S
                          /\ Cardinality(s \ {Pick1(s)}) = Cardinality(s) - 1
  <2>1. IsFiniteSet(s)
    BY FS_Subset
  <2>2. Cardinality(s) \in Nat /\ (Cardinality(s) = 0 <=> s = {})
    BY <2>1, FS_CardinalityType, FS_EmptySet
  <2>3. ASSUME s # {} PROVE Pick1(s) \in s
    BY <2>3 DEF Pick1
  <2>4. ASSUME s # {} PROVE Cardinality(s \ {Pick1(s)}) = Cardinality(s) - 1
    BY <2>1, <2>3, <2>4, FS_RemoveElement
  <2>5. ASSUME s # {} PROVE f[Pick1(s)] \in Nat
    BY <2>3, <2>5
  <2> QED BY <2>1, <2>2, <2>3, <2>4, <2>5
<1>2. \A n \in Nat : \E g : Solves(g, Upto(n))
  <2> DEFINE Off == {n \in Nat : ~ \E g : Solves(g, Upto(n))}
  <2> SUFFICES ASSUME Off # {} PROVE FALSE
    OBVIOUS
  <2>1. PICK m \in Off : \A k \in Off : m <= k
    <3> Off \in SUBSET Nat
      OBVIOUS
    <3> HIDE DEF Off
    <3> QED BY LeastNumber
  <2>2. m # 0
    <3>1. ASSUME NEW s \in Upto(0) PROVE s = {}
      <4>1. s \in SUBSET S /\ Cardinality(s) <= 0
        OBVIOUS
      <4>2. Cardinality(s) \in Nat /\ (Cardinality(s) = 0 <=> s = {})
        BY <1>1, <4>1
      <4> QED BY <4>1, <4>2
    <3>2. Solves([s \in Upto(0) |-> 0], Upto(0))
      <4> DEFINE g == [s \in Upto(0) |-> 0]
      <4>1. g = [s \in Upto(0) |-> IF s = {} THEN 0 ELSE f[Pick1(s)] + g[s \ {Pick1(s)}]]
        BY <3>1
      <4> QED BY <4>1
    <3> SUFFICES ASSUME m = 0 PROVE FALSE
      OBVIOUS
    <3> QED BY <3>2
  <2>3. m - 1 \in Nat /\ m - 1 \notin Off
    <3>0. m \in Nat
      BY <2>1, Zenon
    <3>1. m - 1 < m /\ m - 1 \in Int
      BY <3>0
    <3>2. m - 1 \in Nat
      BY <2>2, <3>0
    <3>3. m - 1 \in Off => m <= m - 1
      <4> HIDE DEF Off
      <4> QED BY <2>1
    <3> HIDE DEF Off
    <3> QED BY <3>0, <3>1, <3>2, <3>3
  <2>4. PICK g : Solves(g, Upto(m - 1))
    BY <2>3
  <2> DEFINE h == [s \in Upto(m) |-> IF s = {} THEN 0 ELSE f[Pick1(s)] + g[s \ {Pick1(s)}]]
  <2>5. ASSUME NEW s \in Upto(m - 1) PROVE s \in Upto(m) /\ h[s] = g[s]
    <3>1. s \in Upto(m)
      <4>1. s \in SUBSET S /\ Cardinality(s) <= m - 1 /\ m \in Nat
        BY <2>1
      <4>2. Cardinality(s) \in Nat
        BY <1>1, <4>1
      <4>3. Cardinality(s) <= m
        BY <4>1, <4>2
      <4> QED BY <4>1, <4>3
    <3>2. g[s] = IF s = {} THEN 0 ELSE f[Pick1(s)] + g[s \ {Pick1(s)}]
      BY <2>4
    <3> QED BY <3>1, <3>2
  <2>6. ASSUME NEW s \in Upto(m), s # {} PROVE s \ {Pick1(s)} \in Upto(m - 1)
    BY <1>1, <2>3, <2>6
  <2>7. h = [s \in Upto(m) |-> IF s = {} THEN 0 ELSE f[Pick1(s)] + h[s \ {Pick1(s)}]]
    <3> SUFFICES ASSUME NEW s \in Upto(m), s # {}
                 PROVE  g[s \ {Pick1(s)}] = h[s \ {Pick1(s)}]
      OBVIOUS
    <3> QED BY <2>5, <2>6
  <2> HIDE DEF h
  <2>8. Solves(h, Upto(m))
    BY <2>7
  <2> QED BY <2>8
<1>3. Upto(Cardinality(S)) = SUBSET S
  <2>1. ASSUME NEW s \in SUBSET S PROVE Cardinality(s) <= Cardinality(S)
    BY FS_Subset
  <2> QED BY <2>1
<1> DEFINE iter == CHOOSE g : Solves(g, SUBSET S)
<1>4. Solves(iter, SUBSET S)
  <2>1. Cardinality(S) \in Nat
    BY <1>1
  <2>2. \E g : Solves(g, SUBSET S)
    BY <1>2, <1>3, <2>1
  <2> QED BY <2>2
<1>5. ASSUME NEW s \in SUBSET S PROVE iter[s] = IF s = {} THEN 0 ELSE f[Pick1(s)] + iter[s \ {Pick1(s)}]
  <2> HIDE DEF iter
  <2> QED BY <1>4
<1>6. iter[S] \in Nat
  <2> HIDE DEF iter
  <2> DEFINE Off == {n \in Nat : \E s \in SUBSET S : Cardinality(s) = n /\ iter[s] \notin Nat}
  <2> SUFFICES ASSUME iter[S] \notin Nat PROVE FALSE
    OBVIOUS
  <2>1. Off # {}
    BY <1>1
  <2>2. PICK m \in Off : \A k \in Off : m <= k
    <3> Off \in SUBSET Nat
      OBVIOUS
    <3> HIDE DEF Off
    <3> QED BY <2>1, LeastNumber
  <2>3. PICK s \in SUBSET S : Cardinality(s) = m /\ iter[s] \notin Nat
    OBVIOUS
  <2>4. s # {}
    <3>1. s = {} => iter[s] = 0
      BY <1>5
    <3> QED BY <2>3, <3>1
  <2>5. /\ s \ {Pick1(s)} \in SUBSET S /\ f[Pick1(s)] \in Nat
        /\ Cardinality(s \ {Pick1(s)}) = m - 1 /\ m - 1 \in Nat
    BY <1>1, <2>3, <2>4
  <2>6. iter[s \ {Pick1(s)}] \in Nat
    <3> SUFFICES ASSUME iter[s \ {Pick1(s)}] \notin Nat PROVE FALSE
      OBVIOUS
    <3>1. m - 1 \in Off
      BY <2>5
    <3> QED BY <2>2, <2>5, <3>1
  <2>7. iter[s] = f[Pick1(s)] + iter[s \ {Pick1(s)}]
    BY <1>5, <2>4
  <2> QED BY <2>3, <2>5, <2>6, <2>7
<1> QED BY <1>6, Zenon DEF SumOf, MapThenSumSet, MapThenFoldSet, Pick1

-----------------------------------------------------------------------------
(* NextTier: the walk ends at a tier whose threshold the score has not left *)
(* and below the next one it has not entered.                               *)
Loadable == {Configs[i] : i \in DOMAIN Configs}

LEMMA ConfigFacts ==
  ASSUME NEW c \in Loadable
  PROVE  /\ c.enter \in Seq(Int) /\ c.exit \in Seq(Int) /\ c.every \in Nat /\ c.every > 0
         /\ Len(c.exit) = Len(c.enter) /\ MaxTier(c) \in Nat
         /\ \A t \in 1..MaxTier(c) : c.enter[t] \in Int /\ c.exit[t] \in Int /\ c.exit[t] <= c.enter[t]
<1>1. PICK i \in DOMAIN Configs : c = Configs[i]
  BY DEF Loadable
<1>2. c \in [enter : Seq(Int), exit : Seq(Int), keep : Seq(Nat), members : Nat, every : Nat]
  <2> DEFINE R == [enter : Seq(Int), exit : Seq(Int), keep : Seq(Nat), members : Nat, every : Nat]
  <2>1. Configs \in Seq(R)
    BY EngineAssumption, Zenon
  <2> HIDE DEF R
  <2>2. Configs[i] \in R
    BY <2>1
  <2> QED BY <1>1, <2>2 DEF R
<1>3. Len(c.exit) = Len(c.enter) /\ c.every > 0 /\ \A t \in DOMAIN c.enter : c.exit[t] <= c.enter[t]
  BY <1>1, EngineAssumption
<1> QED BY <1>2, <1>3 DEF MaxTier

LEMMA TierFound ==
  ASSUME NEW c \in Loadable, NEW s \in Int, NEW cur \in Nat
  PROVE  LET t == NextTier(s, cur, c)
         IN  /\ t \in Nat /\ t <= MaxTier(c)
             /\ t > 0 => s >= c.exit[t]
             /\ t < MaxTier(c) => s < c.enter[t + 1]
<1> DEFINE M    == MaxTier(c)
           from == IF cur > M THEN M ELSE cur
           U    == {from} \cup {t \in (from + 1)..M : \A u \in (from + 1)..t : s >= c.enter[u]}
           up   == Max(U)
           D    == {up} \cup {t \in 0..(up - 1) : \A u \in (t + 1)..up : s < c.exit[u]}
           down == Min(D)
<1>0. /\ M \in Nat /\ from \in 0..M
      /\ \A t \in 1..M : c.enter[t] \in Int /\ c.exit[t] \in Int /\ c.exit[t] <= c.enter[t]
  BY ConfigFacts
<1>1. up \in U /\ \A y \in U : up >= y
  <2>1. U \in SUBSET Int /\ U # {} /\ \A x \in U : x <= M
    BY <1>0
  <2>2. M \in Int
    BY <1>0
  <2> HIDE DEF U, M
  <2> QED BY <2>1, <2>2, HasMax, Zenon
<1>2. up \in 0..M /\ (up > from => \A u \in (from + 1)..up : s >= c.enter[u])
  <2> HIDE DEF from, M, up
  <2> QED BY <1>0, <1>1
<1>3. up < M => s < c.enter[up + 1]
  <2> HIDE DEF up, from, M
  <2> SUFFICES ASSUME up < M, s >= c.enter[up + 1] PROVE FALSE
    BY <1>0, <1>2
  <2>1. up \in from..M
    BY <1>0, <1>1
  <2>2. \A u \in (from + 1)..(up + 1) : s >= c.enter[u]
    BY <1>0, <1>2, <2>1
  <2>3. up + 1 \in U
    BY <1>0, <1>2, <2>1, <2>2
  <2> HIDE DEF U
  <2>4. up >= up + 1
    BY <1>1, <2>3
  <2> QED BY <1>2, <1>0, <2>4
<1>4. down \in D /\ \A y \in D : down <= y
  <2> HIDE DEF up, from, M
  <2>1. D \in SUBSET Int /\ D # {} /\ \A x \in D : 0 <= x
    BY <1>0, <1>2
  <2>2. 0 \in Int
    OBVIOUS
  <2> HIDE DEF D
  <2> QED BY <2>1, <2>2, HasMin, Zenon
<1>5. down \in 0..up /\ \A u \in (down + 1)..up : s < c.exit[u]
  <2> HIDE DEF up, from, M, down
  <2> QED BY <1>0, <1>2, <1>4
<1>6. down > 0 => s >= c.exit[down]
  <2> HIDE DEF up, from, M, down
  <2> SUFFICES ASSUME down > 0, s < c.exit[down] PROVE FALSE
    BY <1>0, <1>2, <1>5
  <2>1. \A u \in ((down - 1) + 1)..up : s < c.exit[u]
    BY <1>0, <1>2, <1>5
  <2>2. down - 1 \in 0..(up - 1)
    BY <1>0, <1>2, <1>5
  <2>3. down - 1 \in D
    BY <2>1, <2>2
  <2> HIDE DEF D
  <2>4. down <= down - 1
    BY <1>4, <2>3
  <2> QED BY <1>0, <1>2, <1>5, <2>4
<1>7. down < M => s < c.enter[down + 1]
  <2> HIDE DEF up, from, M, down
  <2>1. CASE down = up
    BY <1>3, <2>1
  <2>2. CASE down < up
    <3>1. s < c.exit[down + 1] /\ down + 1 \in 1..M
      BY <1>0, <1>2, <1>5, <2>2
    <3> QED BY <1>0, <3>1
  <2> QED BY <1>0, <1>2, <1>5, <2>1, <2>2
<1>8. NextTier(s, cur, c) = down
  BY DEF NextTier
<1>9. down \in Nat /\ down <= MaxTier(c)
  <2> HIDE DEF down, up
  <2> QED BY <1>0, <1>2, <1>5
<1> HIDE DEF down
<1> QED BY <1>6, <1>7, <1>8, <1>9

-----------------------------------------------------------------------------
(* The engine's invariant.                                                  *)
Profile == [seen : Nat, evidence : BOOLEAN, listed : BOOLEAN, msgs : Nat, tier : Nat]

EngineTyped ==
  /\ time \in Nat /\ config \in Loadable
  /\ DOMAIN store \subseteq IPs /\ \A x \in DOMAIN store : store[x] \in Profile
  /\ DOMAIN saved \subseteq IPs /\ \A x \in DOMAIN saved : saved[x] \in Profile
  /\ DOMAIN ipScores \subseteq IPs /\ \A x \in DOMAIN ipScores : ipScores[x] \in 0..Top
  /\ DOMAIN scoredAt = DOMAIN ipScores /\ \A x \in DOMAIN scoredAt : scoredAt[x] \in Nat
  /\ \A g \in DOMAIN members : members[g] \subseteq IPs
  /\ since \in [IPs -> Nat] /\ drops \in [IPs -> Nat] /\ judged \in [IPs -> Loadable]

(* What is left of an address whose profile is gone, the cap has dropped.   *)
DropsKnown == \A x \in DOMAIN ipScores \ DOMAIN store : drops[x] > 0

(* Below the budget of some configuration.                                  *)
Under(n) == \E c \in Loadable : n < c.every
Msgs(x) == IF x \in DOMAIN store THEN store[x].msgs ELSE 0

(* The messages since an address was scored are those its profile has       *)
(* counted since; one that is not due has not used up its budget, or, with  *)
(* its profile dropped, one budget before and one after.                    *)
TalkCounted == \A x \in IPs : drops[x] = 0 => since[x] + Baseline(x) <= Msgs(x)
TalkBounded ==
  \A x \in IPs \ due :
    /\ drops[x] = 0 => Under(since[x])
    /\ drops[x] = 1 => /\ Under(since[x] - Msgs(x))
                       /\ Msgs(x) > 0 => Baseline(x) <= 1 /\ Under(Msgs(x) - Baseline(x))

EngineInv ==
  EngineTyped /\ DropsKnown /\ TierFitsScore /\ IndexesOwned /\ TalkCounted /\ TalkBounded

LEMMA ScoreIsTyped ==
  ASSUME EngineTyped, NEW p \in Profile, NEW own \in Own(p), NEW in \in SUBSET IPs
  PROVE  Combined(own, in) \in 0..Top
<1>1. own \in 0..Top /\ Top \in Nat
  BY EngineAssumption DEF Own
<1> DEFINE scored == in \cap DOMAIN ipScores
<1>2. ASSUME scored # {} PROVE GroupAggregate(scored) \in 0..Top
  <2> DEFINE n == Cardinality(scored)
             sum == MapThenSumSet(LAMBDA x : ipScores[x], scored)
             worst == Max({ipScores[x] : x \in scored})
             mixed == (Beta[1] * (6 * worst * n + 4 * sum)) \div (Beta[2] * 10 * n)
  <2>1. IsFiniteSet(scored)
    BY EngineAssumption, FS_Subset
  <2>2. n \in Nat \ {0}
    BY <1>2, <2>1, FS_CardinalityType, FS_EmptySet
  <2>3. \A x \in scored : ipScores[x] \in 0..Top
    BY DEF EngineTyped
  <2>4. \A x \in scored : ipScores[x] \in Nat
    BY <1>1, <2>3
  <2>5. sum \in Nat
    <3>1. sum = SumOf(ipScores, scored)
      BY DEF SumOf
    <3> HIDE DEF scored, sum
    <3> QED BY <2>1, <2>4, <3>1, SumIsNat
  <2>6. worst \in 0..Top
    <3> DEFINE S == {ipScores[x] : x \in scored}
    <3>1. S \in SUBSET Int /\ S # {} /\ \A x \in S : x <= Top
      BY <1>1, <1>2, <2>3
    <3>2. S \subseteq 0..Top
      BY <2>3
    <3>3. Top \in Int
      BY <1>1
    <3> HIDE DEF S
    <3>4. Max(S) \in S
      BY <3>1, <3>3, HasMax, Zenon
    <3> QED BY <3>2, <3>4 DEF S
  <2>7. mixed \in Nat
    <3> HIDE DEF n, sum, worst
    <3>1. Beta[1] \in Nat /\ Beta[2] \in Nat \ {0}
      BY EngineAssumption
    <3>2. worst \in Nat
      BY <1>1, <2>6
    <3>3. worst * n \in Nat
      BY <2>2, <3>2
    <3>4. 6 * worst * n + 4 * sum \in Nat
      BY <2>2, <2>5, <3>2, <3>3
    <3>5. Beta[1] * (6 * worst * n + 4 * sum) \in Nat
      BY <3>1, <3>4
    <3>6. Beta[2] * n \in Nat \ {0}
      BY <2>2, <3>1
    <3>7. Beta[2] * 10 * n \in Nat \ {0}
      BY <2>2, <3>1, <3>6
    <3>8. \A a \in Nat, b \in Nat \ {0} : a \div b \in Nat
      OBVIOUS
    <3> QED BY <3>5, <3>7, <3>8
  <2>8. GroupAggregate(scored) = IF mixed > Top THEN Top ELSE mixed
    BY DEF GroupAggregate
  <2> HIDE DEF mixed
  <2> QED BY <1>1, <2>7, <2>8
<1>3. 0 \in 0..Top
  BY <1>1
<1>4. Combined(own, in) \in {own, GroupAggregate(scored), 0} /\ (scored = {} => Combined(own, in) \in {own, 0})
  BY DEF Combined
<1> QED BY <1>1, <1>2, <1>3, <1>4

LEMMA Visit ==
  ASSUME EngineTyped, NEW ip \in IPs, NEW s \in Gotten(ip)
  PROVE  /\ ip \in DOMAIN s /\ DOMAIN s \subseteq DOMAIN store \cup {ip} /\ DOMAIN s \subseteq IPs
         /\ \A x \in DOMAIN s : /\ s[x] \in Profile
                                /\ x \in DOMAIN store => s[x] = store[x]
                                /\ x \notin DOMAIN store => x = ip /\ s[x] = Fresh
         /\ ip \notin Dropped(s) /\ Dropped(s) \subseteq DOMAIN store
         /\ DOMAIN store \cup orphans \subseteq DOMAIN s \cup Orphaned(s)
<1>1. Fresh \in Profile
  BY DEF Fresh, Profile
<1>2. CASE ip \in DOMAIN store
  BY <1>2 DEF Gotten, EngineTyped, Dropped, Orphaned
<1>3. CASE ip \notin DOMAIN store
  <2>1. PICK v : s = With(store, ip, Fresh) \/ s = With(Without(store, {v}), ip, Fresh)
    BY <1>3 DEF Gotten
  <2>2. CASE s = With(store, ip, Fresh)
    BY <1>1, <1>3, <2>2 DEF With, EngineTyped, Dropped, Orphaned
  <2>3. CASE s = With(Without(store, {v}), ip, Fresh)
    BY <1>1, <1>3, <2>3 DEF With, Without, EngineTyped, Dropped, Orphaned
  <2> QED BY <2>1, <2>2, <2>3
<1> QED BY <1>2, <1>3

(* A visit of one address: what the cap's eviction leaves of the others.    *)
Aside(ip, s) ==
  /\ orphans' = Orphaned(s) /\ DOMAIN store' = DOMAIN s
  /\ \A x \in DOMAIN s \ {ip} : store'[x] = s[x]
  /\ \A x \in IPs \ {ip} :
       /\ drops'[x] = IF x \in Dropped(s) THEN drops[x] + 1 ELSE drops[x]
       /\ since'[x] = since[x]
       /\ x \in DOMAIN ipScores' <=> x \in DOMAIN ipScores
       /\ x \in DOMAIN scoredAt' <=> x \in DOMAIN scoredAt
       /\ x \in DOMAIN scoredAt => scoredAt'[x] = scoredAt[x]
       /\ x \in due' <=> x \in due

TalkHolds(x) ==
  /\ drops[x] = 0 => since[x] + Baseline(x) <= Msgs(x)
  /\ x \notin due /\ drops[x] = 0 => Under(since[x])
  /\ x \notin due /\ drops[x] = 1 =>
       /\ Under(since[x] - Msgs(x))
       /\ Msgs(x) > 0 => Baseline(x) <= 1 /\ Under(Msgs(x) - Baseline(x))

LEMMA TalkSplits == (TalkCounted /\ TalkBounded) <=> \A x \in IPs : TalkHolds(x)
BY DEF TalkCounted, TalkBounded, TalkHolds

OthersKept(ip) ==
  /\ DOMAIN store' \subseteq IPs /\ \A x \in DOMAIN store' \ {ip} : store'[x] \in Profile
  /\ DOMAIN store \cup orphans \subseteq DOMAIN store' \cup orphans'
  /\ \A x \in IPs \ {ip} :
       /\ x \in DOMAIN store' => x \in DOMAIN store /\ store'[x] = store[x] /\ drops'[x] = drops[x]
       /\ x \in DOMAIN ipScores' \ DOMAIN store' => drops'[x] > 0
       /\ TalkHolds(x)'

LEMMA VisitKeeps ==
  ASSUME EngineInv, NEW ip \in IPs, NEW s \in Gotten(ip), Aside(ip, s)
  PROVE  OthersKept(ip)
<1>1. /\ ip \in DOMAIN s /\ DOMAIN s \subseteq DOMAIN store \cup {ip} /\ DOMAIN s \subseteq IPs
      /\ \A x \in DOMAIN s : /\ s[x] \in Profile
                             /\ x \in DOMAIN store => s[x] = store[x]
                             /\ x \notin DOMAIN store => x = ip /\ s[x] = Fresh
      /\ ip \notin Dropped(s) /\ Dropped(s) \subseteq DOMAIN store
      /\ DOMAIN store \cup orphans \subseteq DOMAIN s \cup Orphaned(s)
  BY Visit DEF EngineInv
<1>2. \A x \in IPs : since[x] \in Nat /\ drops[x] \in Nat
  BY DEF EngineInv, EngineTyped
<1>3. \A x \in IPs : x \in Dropped(s) <=> x \in DOMAIN store /\ x \notin DOMAIN s
  BY DEF Dropped
<1>4. ASSUME NEW x \in IPs \ {ip}
      PROVE  /\ x \in DOMAIN store' => x \in DOMAIN store /\ store'[x] = store[x] /\ drops'[x] = drops[x]
             /\ x \in DOMAIN ipScores' \ DOMAIN store' => drops'[x] > 0
             /\ Baseline(x)' = Baseline(x)
             /\ x \in DOMAIN store' => Msgs(x)' = Msgs(x)
             /\ x \notin DOMAIN store' => Msgs(x)' = 0
             /\ x \notin DOMAIN store' /\ x \notin DOMAIN store => Msgs(x) = 0 /\ drops'[x] = drops[x]
             /\ x \notin DOMAIN store' /\ x \in DOMAIN store => drops'[x] = drops[x] + 1
  BY <1>1, <1>2, <1>3 DEF EngineInv, DropsKnown, Baseline, Msgs, Aside
<1>5. ASSUME NEW x \in IPs \ {ip} PROVE TalkHolds(x)'
  <2>0. TalkHolds(x) /\ since'[x] = since[x] /\ (x \in due' <=> x \in due)
    BY TalkSplits DEF EngineInv, Aside
  <2>1. CASE x \in DOMAIN store' \/ x \notin DOMAIN store
    <3>1. Msgs(x)' = Msgs(x) /\ drops'[x] = drops[x] /\ Baseline(x)' = Baseline(x)
      BY <1>4, <2>1
    <3> QED BY <2>0, <3>1 DEF TalkHolds
  <2>2. CASE x \notin DOMAIN store' /\ x \in DOMAIN store
    <3>1. Msgs(x)' = 0 /\ drops'[x] = drops[x] + 1 /\ since[x] \in Nat /\ drops[x] \in Nat
      BY <1>2, <1>4, <2>2
    <3>2. since'[x] - Msgs(x)' = since[x]
      BY <2>0, <3>1
    <3> QED BY <2>0, <3>1, <3>2 DEF TalkHolds
  <2> QED BY <2>1, <2>2
<1>6. DOMAIN store' \subseteq IPs /\ \A x \in DOMAIN store' \ {ip} : store'[x] \in Profile
  BY <1>1 DEF Aside
<1>7. DOMAIN store \cup orphans \subseteq DOMAIN store' \cup orphans'
  BY <1>1 DEF Aside
<1> QED BY <1>4, <1>5, <1>6, <1>7 DEF OthersKept

LEMMA BudgetsPositive == Under(0)
<1>1. 1 \in DOMAIN Configs
  <2> DEFINE R == [enter : Seq(Int), exit : Seq(Int), keep : Seq(Nat), members : Nat, every : Nat]
  <2>1. Configs \in Seq(R) /\ Len(Configs) > 0
    BY EngineAssumption, Zenon
  <2> HIDE DEF R
  <2> QED BY <2>1
<1>2. PICK i \in DOMAIN Configs : TRUE
  BY <1>1
<1>3. Configs[i] \in Loadable
  BY DEF Loadable
<1> QED BY <1>3, ConfigFacts DEF Under

LEMMA ProfileFields ==
  ASSUME EngineTyped, NEW q \in Profile
  PROVE  /\ Touched(q) \in Profile /\ Touched(q).msgs = q.msgs /\ Touched(q).tier = q.tier
         /\ [q EXCEPT !.listed = TRUE] \in Profile
         /\ [q EXCEPT !.listed = TRUE].msgs = q.msgs /\ [q EXCEPT !.listed = TRUE].tier = q.tier
         /\ [q EXCEPT !.msgs = @ + 1] \in Profile
         /\ [q EXCEPT !.msgs = @ + 1].msgs = q.msgs + 1 /\ [q EXCEPT !.msgs = @ + 1].tier = q.tier
         /\ \A t \in Nat : /\ [q EXCEPT !.tier = t] \in Profile
                           /\ [q EXCEPT !.tier = t].tier = t /\ [q EXCEPT !.tier = t].msgs = q.msgs
         /\ q.msgs \in Nat /\ q.tier \in Nat
<1>1. time \in Nat
  BY DEF EngineTyped
<1>2. q.seen \in Nat /\ q.evidence \in BOOLEAN /\ q.listed \in BOOLEAN /\ q.msgs \in Nat /\ q.tier \in Nat
  BY DEF Profile
<1>3. Touched(q) \in Profile /\ Touched(q).msgs = q.msgs /\ Touched(q).tier = q.tier
  BY <1>1, <1>2 DEF Touched, Profile
<1>4. [q EXCEPT !.listed = TRUE] \in Profile
  BY <1>2 DEF Profile
<1>5. [q EXCEPT !.listed = TRUE].msgs = q.msgs /\ [q EXCEPT !.listed = TRUE].tier = q.tier
  BY <1>2 DEF Profile
<1>6. /\ [q EXCEPT !.msgs = @ + 1] \in Profile
      /\ [q EXCEPT !.msgs = @ + 1].msgs = q.msgs + 1 /\ [q EXCEPT !.msgs = @ + 1].tier = q.tier
  BY <1>2 DEF Profile
<1>7. ASSUME NEW t \in Nat
      PROVE  /\ [q EXCEPT !.tier = t] \in Profile
             /\ [q EXCEPT !.tier = t].tier = t /\ [q EXCEPT !.tier = t].msgs = q.msgs
  BY <1>2 DEF Profile
<1> QED BY <1>2, <1>3, <1>4, <1>5, <1>6, <1>7

LEMMA ObserveMessageKeeps ==
  ASSUME EngineInv, NEW ip \in IPs, ObserveMessage(ip)
  PROVE  EngineInv'
<1>1. PICK s \in Gotten(ip) :
        LET p == [Touched(s[ip]) EXCEPT !.msgs = @ + 1]
        IN  /\ store' = [s EXCEPT ![ip] = p]
            /\ due' = IF DueForRescore(ip, p.msgs) THEN due \cup {ip} ELSE due
            /\ orphans' = Orphaned(s)
            /\ drops' = [x \in IPs |-> IF x \in Dropped(s) THEN drops[x] + 1 ELSE drops[x]]
  BY DEF ObserveMessage
<1> DEFINE p == [Touched(s[ip]) EXCEPT !.msgs = @ + 1]
<1>2. /\ since' = [since EXCEPT ![ip] = @ + 1]
      /\ UNCHANGED <<time, config, ipScores, ipGroups, names, scoredAt, members, saved, judged>>
  BY DEF ObserveMessage
<1>3. /\ ip \in DOMAIN s /\ s[ip] \in Profile /\ ip \notin Dropped(s) /\ DOMAIN s \subseteq DOMAIN store \cup {ip}
      /\ ip \in DOMAIN store => s[ip] = store[ip]
      /\ ip \notin DOMAIN store => s[ip] = Fresh
  BY Visit DEF EngineInv
<1>4. p \in Profile /\ p.msgs = s[ip].msgs + 1 /\ p.tier = s[ip].tier /\ s[ip].msgs \in Nat
  <2>1. EngineTyped
    BY DEF EngineInv
  <2> DEFINE q == Touched(s[ip])
  <2>2. q \in Profile /\ q.msgs = s[ip].msgs /\ q.tier = s[ip].tier /\ s[ip].msgs \in Nat
    BY <1>3, <2>1, ProfileFields
  <2> HIDE DEF q
  <2>3. [q EXCEPT !.msgs = @ + 1] \in Profile /\ [q EXCEPT !.msgs = @ + 1].msgs = q.msgs + 1 /\ [q EXCEPT !.msgs = @ + 1].tier = q.tier
    BY <2>1, <2>2, ProfileFields
  <2> QED BY <2>2, <2>3 DEF q
<1>5. s[ip].msgs = Msgs(ip)
  BY <1>3 DEF Msgs, Fresh
<1>6. /\ DOMAIN store' = DOMAIN s /\ store'[ip] = p /\ \A x \in DOMAIN s \ {ip} : store'[x] = s[x]
      /\ Msgs(ip)' = Msgs(ip) + 1 /\ Baseline(ip)' = Baseline(ip)
  BY <1>1, <1>2, <1>3, <1>4, <1>5 DEF Msgs, Baseline
<1> HIDE DEF p
<1>7. /\ drops'[ip] = drops[ip] /\ since'[ip] = since[ip] + 1 /\ since[ip] \in Nat /\ drops[ip] \in Nat
      /\ Msgs(ip) \in Nat /\ Baseline(ip) \in Nat
  BY <1>1, <1>2, <1>3, <1>4, <1>5 DEF EngineInv, EngineTyped, Baseline
<1>8. OthersKept(ip)
  <2>1. Aside(ip, s)
    <3>1. due' \ {ip} = due \ {ip} /\ orphans' = Orphaned(s)
      BY <1>1
    <3>2. \A x \in IPs : drops'[x] = IF x \in Dropped(s) THEN drops[x] + 1 ELSE drops[x]
      BY <1>1
    <3>3. \A x \in IPs \ {ip} : since'[x] = since[x]
      BY <1>2 DEF EngineInv, EngineTyped
    <3> QED BY <1>2, <1>6, <3>1, <3>2, <3>3 DEF Aside
  <2> QED BY <2>1, VisitKeeps
<1>9. EngineTyped'
  <2>1. since' \in [IPs -> Nat] /\ drops' \in [IPs -> Nat]
    BY <1>1, <1>2 DEF EngineInv, EngineTyped
  <2>2. DOMAIN store' \subseteq IPs /\ \A x \in DOMAIN store' : store'[x] \in Profile
    BY <1>4, <1>6, <1>8 DEF OthersKept
  <2> QED BY <1>2, <2>1, <2>2 DEF EngineInv, EngineTyped
<1>10. DropsKnown'
  BY <1>3, <1>6, <1>8, <1>9 DEF DropsKnown, EngineTyped, OthersKept
<1>11. TierFitsScore'
  <2> SUFFICES ASSUME NEW x \in DOMAIN store' \cap DOMAIN ipScores', drops'[x] = 0
               PROVE  LET c == judged'[x]
                          t == store'[x].tier
                      IN  /\ t <= MaxTier(c)
                          /\ t > 0 => ipScores'[x] >= c.exit[t]
                          /\ t < MaxTier(c) => ipScores'[x] < c.enter[t + 1]
    BY Zenon DEF TierFitsScore, MaxTier
  <2>1. x \in DOMAIN store /\ store'[x].tier = store[x].tier /\ drops[x] = 0
    <3>1. CASE x = ip
      <4>1. x \in DOMAIN store
        BY <1>7, <3>1, <1>2 DEF EngineInv, DropsKnown
      <4> QED BY <1>3, <1>4, <1>6, <1>7, <3>1, <4>1
    <3>2. CASE x # ip
      BY <1>8, <1>9, <3>2 DEF OthersKept, EngineTyped
    <3> QED BY <3>1, <3>2
  <2> QED BY <1>2, <2>1 DEF EngineInv, TierFitsScore, MaxTier
<1>12. IndexesOwned'
  BY <1>2, <1>8, Zenon DEF EngineInv, IndexesOwned, OthersKept
<1>13. TalkHolds(ip)'
  <2>1. TalkHolds(ip)
    BY TalkSplits DEF EngineInv
  <2>2. since[ip] + Baseline(ip) <= Msgs(ip) => since'[ip] + Baseline(ip)' <= Msgs(ip)'
    BY <1>6, <1>7
  <2>3. ASSUME ip \notin due'
        PROVE  /\ drops'[ip] = 0 => Under(since'[ip])
               /\ drops'[ip] = 1 => /\ Under(since'[ip] - Msgs(ip)')
                                    /\ Msgs(ip)' > 0 => Baseline(ip)' <= 1 /\ Under(Msgs(ip)' - Baseline(ip)')
    <3>1. ip \notin due /\ ~DueForRescore(ip, Msgs(ip) + 1)
      BY <1>1, <1>4, <1>5, <2>3 DEF p
    <3>2. config \in Loadable /\ config.every \in Nat
      BY ConfigFacts DEF EngineInv, EngineTyped
    <3>3. Baseline(ip) <= Msgs(ip) + 1 /\ (Msgs(ip) + 1) - Baseline(ip) < config.every
      BY <1>7, <3>1, <3>2 DEF DueForRescore
    <3>4. CASE drops'[ip] = 0
      <4>1. since[ip] + Baseline(ip) <= Msgs(ip)
        BY <1>7, <2>1, <3>4 DEF TalkHolds
      <4>2. since'[ip] < config.every
        BY <1>7, <3>2, <3>3, <4>1
      <4> QED BY <3>2, <3>4, <4>2 DEF Under
    <3>5. CASE drops'[ip] = 1
      <4>1. /\ Under(since[ip] - Msgs(ip))
            /\ Msgs(ip) > 0 => Baseline(ip) <= 1
        BY <1>7, <2>1, <3>1, <3>5 DEF TalkHolds
      <4>2. since'[ip] - Msgs(ip)' = since[ip] - Msgs(ip)
        BY <1>6, <1>7
      <4>3. Under(Msgs(ip)' - Baseline(ip)')
        BY <1>6, <3>2, <3>3 DEF Under
      <4>4. Baseline(ip) <= 1
        BY <1>7, <3>3, <4>1
      <4> QED BY <1>6, <3>5, <4>1, <4>2, <4>3, <4>4
    <3> QED BY <3>4, <3>5
  <2> QED BY <1>7, <2>1, <2>2, <2>3 DEF TalkHolds
<1>14. (TalkCounted /\ TalkBounded)'
  <2>1. \A x \in IPs : TalkHolds(x)'
    BY <1>8, <1>13 DEF OthersKept
  <2> QED BY <2>1 DEF TalkCounted, TalkBounded, TalkHolds
<1> QED BY <1>9, <1>10, <1>11, <1>12, <1>14 DEF EngineInv

LEMMA ObserveKeeps ==
  ASSUME EngineInv, NEW ip \in IPs, NEW kind \in {"connect", "blocklist"}, Observe(ip, kind)
  PROVE  EngineInv'
<1>1. PICK s \in Gotten(ip) :
        /\ store' = [s EXCEPT ![ip] =
                       IF kind = "blocklist" THEN [@ EXCEPT !.listed = TRUE] ELSE Touched(@)]
        /\ orphans' = Orphaned(s)
        /\ drops' = [x \in IPs |-> IF x \in Dropped(s) THEN drops[x] + 1 ELSE drops[x]]
  BY DEF Observe
<1> DEFINE p == IF kind = "blocklist" THEN [s[ip] EXCEPT !.listed = TRUE] ELSE Touched(s[ip])
<1>2. /\ names' \subseteq names \cup {ip} /\ due \subseteq due' /\ due' \subseteq due \cup {ip}
      /\ UNCHANGED <<time, config, ipScores, ipGroups, scoredAt, members, saved, since, judged>>
  BY DEF Observe
<1>3. /\ ip \in DOMAIN s /\ s[ip] \in Profile /\ ip \notin Dropped(s) /\ DOMAIN s \subseteq DOMAIN store \cup {ip}
      /\ ip \in DOMAIN store => s[ip] = store[ip]
      /\ ip \notin DOMAIN store => s[ip] = Fresh
  BY Visit DEF EngineInv
<1>4. p \in Profile /\ p.msgs = s[ip].msgs /\ p.tier = s[ip].tier /\ s[ip].msgs \in Nat
  <2>1. EngineTyped
    BY DEF EngineInv
  <2> QED BY <1>3, <2>1, ProfileFields
<1>5. s[ip].msgs = Msgs(ip)
  BY <1>3 DEF Msgs, Fresh
<1>6. /\ DOMAIN store' = DOMAIN s /\ store'[ip] = p /\ \A x \in DOMAIN s \ {ip} : store'[x] = s[x]
      /\ Msgs(ip)' = Msgs(ip) /\ Baseline(ip)' = Baseline(ip)
  BY <1>1, <1>2, <1>3, <1>4, <1>5 DEF Msgs, Baseline
<1> HIDE DEF p
<1>7. drops'[ip] = drops[ip]
  BY <1>1, <1>3
<1>8. OthersKept(ip)
  <2>1. Aside(ip, s)
    <3>1. due' \ {ip} = due \ {ip} /\ orphans' = Orphaned(s)
      BY <1>1, <1>2
    <3>2. \A x \in IPs : drops'[x] = IF x \in Dropped(s) THEN drops[x] + 1 ELSE drops[x]
      BY <1>1
    <3> QED BY <1>2, <1>6, <3>1, <3>2 DEF Aside
  <2> QED BY <2>1, VisitKeeps
<1>9. EngineTyped'
  <2>1. drops' \in [IPs -> Nat]
    BY <1>1 DEF EngineInv, EngineTyped
  <2>2. DOMAIN store' \subseteq IPs /\ \A x \in DOMAIN store' : store'[x] \in Profile
    BY <1>4, <1>6, <1>8 DEF OthersKept
  <2> QED BY <1>2, <2>1, <2>2 DEF EngineInv, EngineTyped
<1>10. DropsKnown'
  BY <1>3, <1>6, <1>8, <1>9 DEF DropsKnown, EngineTyped, OthersKept
<1>11. TierFitsScore'
  <2> SUFFICES ASSUME NEW x \in DOMAIN store' \cap DOMAIN ipScores', drops'[x] = 0
               PROVE  LET c == judged'[x]
                          t == store'[x].tier
                      IN  /\ t <= MaxTier(c)
                          /\ t > 0 => ipScores'[x] >= c.exit[t]
                          /\ t < MaxTier(c) => ipScores'[x] < c.enter[t + 1]
    BY Zenon DEF TierFitsScore, MaxTier
  <2>1. x \in DOMAIN store /\ store'[x].tier = store[x].tier /\ drops[x] = 0
    <3>1. CASE x = ip
      <4>1. x \in DOMAIN store
        BY <1>7, <3>1, <1>2 DEF EngineInv, DropsKnown
      <4> QED BY <1>3, <1>4, <1>6, <1>7, <3>1, <4>1
    <3>2. CASE x # ip
      BY <1>8, <1>9, <3>2 DEF OthersKept, EngineTyped
    <3> QED BY <3>1, <3>2
  <2> QED BY <1>2, <2>1 DEF EngineInv, TierFitsScore, MaxTier
<1>12. IndexesOwned'
  <2>1. names' \subseteq DOMAIN store' \cup orphans'
    BY <1>2, <1>3, <1>6, <1>8 DEF EngineInv, IndexesOwned, OthersKept
  <2>2. DOMAIN ipScores' \cup DOMAIN scoredAt' \cup names' \cup ipGroups' \subseteq DOMAIN store' \cup orphans'
    BY <1>2, <1>8, <2>1 DEF EngineInv, IndexesOwned, OthersKept
  <2>3. UNION {members'[g] : g \in DOMAIN members'} \subseteq DOMAIN store' \cup orphans'
    <3>1. UNION {members[g] : g \in DOMAIN members} \subseteq DOMAIN store \cup orphans
      BY DEF EngineInv, IndexesOwned
    <3>2. DOMAIN store \cup orphans \subseteq DOMAIN store' \cup orphans' /\ members' = members
      BY <1>2, <1>8 DEF OthersKept
    <3> QED BY <3>1, <3>2, Zenon
  <2> QED BY <2>2, <2>3 DEF IndexesOwned
<1>13. TalkHolds(ip)'
  <2>1. TalkHolds(ip)
    BY TalkSplits DEF EngineInv
  <2> QED BY <1>2, <1>6, <1>7, <2>1 DEF TalkHolds
<1>14. (TalkCounted /\ TalkBounded)'
  <2>1. \A x \in IPs : TalkHolds(x)'
    BY <1>8, <1>13 DEF OthersKept
  <2> QED BY <2>1 DEF TalkCounted, TalkBounded, TalkHolds
<1> QED BY <1>9, <1>10, <1>11, <1>12, <1>14 DEF EngineInv

LEMMA ScoreKeeps ==
  ASSUME EngineInv, NEW ip \in IPs, Score(ip)
  PROVE  EngineInv'
<1>1. PICK s \in Gotten(ip) : \E own \in Own(s[ip]) :
        LET g == Subnet(ip)
            in == (IF g \in DOMAIN members THEN members[g] ELSE {}) \cup {ip}
            sc == Combined(own, in)
            tier == NextTier(sc, s[ip].tier, config)
        IN  /\ store' = [s EXCEPT ![ip].tier = tier]
            /\ members' = With(members, g, in)
            /\ ipGroups' = ipGroups \cup {ip}
            /\ ipScores' = With(ipScores, ip, sc)
            /\ scoredAt' = With(scoredAt, ip, s[ip].msgs)
            /\ judged' = [judged EXCEPT ![ip] = config]
            /\ orphans' = Orphaned(s)
            /\ drops' = [x \in IPs |-> IF x = ip THEN 0 ELSE
                                       IF x \in Dropped(s) THEN drops[x] + 1 ELSE drops[x]]
  BY DEF Score
<1> DEFINE g == Subnet(ip)
           in == (IF g \in DOMAIN members THEN members[g] ELSE {}) \cup {ip}
<1>2. PICK own \in Own(s[ip]) :
        LET sc == Combined(own, in)
            tier == NextTier(sc, s[ip].tier, config)
        IN  /\ store' = [s EXCEPT ![ip].tier = tier]
            /\ members' = With(members, g, in)
            /\ ipGroups' = ipGroups \cup {ip}
            /\ ipScores' = With(ipScores, ip, sc)
            /\ scoredAt' = With(scoredAt, ip, s[ip].msgs)
            /\ judged' = [judged EXCEPT ![ip] = config]
            /\ orphans' = Orphaned(s)
            /\ drops' = [x \in IPs |-> IF x = ip THEN 0 ELSE
                                       IF x \in Dropped(s) THEN drops[x] + 1 ELSE drops[x]]
  BY <1>1
<1> DEFINE sc   == Combined(own, in)
           tier == NextTier(sc, s[ip].tier, config)
           p    == [s[ip] EXCEPT !.tier = tier]
<1>3. /\ due' = due \ {ip} /\ since' = [since EXCEPT ![ip] = 0]
      /\ UNCHANGED <<time, config, names, saved, events>>
  BY DEF Score
<1>4. /\ ip \in DOMAIN s /\ s[ip] \in Profile /\ ip \notin Dropped(s) /\ DOMAIN s \subseteq DOMAIN store \cup {ip}
  BY Visit DEF EngineInv
<1>5. EngineTyped /\ in \subseteq IPs
  BY DEF EngineInv, EngineTyped
<1>6. sc \in 0..Top /\ sc \in Int
  <2>1. in \in SUBSET IPs
    BY <1>5
  <2>2. sc \in 0..Top
    <3> HIDE DEF in
    <3> QED BY <1>4, <1>5, <2>1, ScoreIsTyped
  <2> QED BY <2>2
<1>7. /\ tier \in Nat /\ tier <= MaxTier(config)
      /\ tier > 0 => sc >= config.exit[tier]
      /\ tier < MaxTier(config) => sc < config.enter[tier + 1]
  <2>1. s[ip].tier \in Nat /\ config \in Loadable
    BY <1>4, <1>5, ProfileFields DEF EngineTyped
  <2> HIDE DEF sc
  <2> QED BY <1>6, <2>1, TierFound
<1>8. p \in Profile /\ p.msgs = s[ip].msgs /\ p.tier = tier /\ s[ip].msgs \in Nat
  <2> HIDE DEF tier
  <2> QED BY <1>4, <1>5, <1>7, ProfileFields
<1> HIDE DEF sc, tier
<1>9. /\ DOMAIN store' = DOMAIN s /\ store'[ip] = p /\ \A x \in DOMAIN s \ {ip} : store'[x] = s[x]
  BY <1>2, <1>4 DEF sc, tier
<1>10. /\ DOMAIN ipScores' = DOMAIN ipScores \cup {ip} /\ DOMAIN scoredAt' = DOMAIN scoredAt \cup {ip}
       /\ ipScores'[ip] = sc /\ scoredAt'[ip] = s[ip].msgs
       /\ \A x \in DOMAIN ipScores \ {ip} : ipScores'[x] = ipScores[x]
       /\ \A x \in DOMAIN scoredAt \ {ip} : scoredAt'[x] = scoredAt[x]
  BY <1>2 DEF With, sc
<1>11. /\ drops'[ip] = 0 /\ since'[ip] = 0 /\ judged'[ip] = config
       /\ \A x \in IPs \ {ip} : since'[x] = since[x] /\ judged'[x] = judged[x]
       /\ judged' \in [IPs -> Loadable] /\ since' \in [IPs -> Nat] /\ drops' \in [IPs -> Nat]
  BY <1>2, <1>3, <1>5 DEF EngineTyped
<1>12. /\ ipGroups' = ipGroups \cup {ip}
       /\ \A h \in DOMAIN members' : \A y \in members'[h] :
            y = ip \/ \E k \in DOMAIN members : y \in members[k]
  <2>1. members' = With(members, g, in) /\ ipGroups' = ipGroups \cup {ip}
    BY <1>2
  <2>2. \A y \in in : y = ip \/ \E k \in DOMAIN members : y \in members[k]
    OBVIOUS
  <2> HIDE DEF in, g
  <2> QED BY <2>1, <2>2 DEF With
<1>13. OthersKept(ip)
  <2>1. Aside(ip, s)
    <3>1. orphans' = Orphaned(s)
      BY <1>2
    <3>2. \A x \in IPs \ {ip} : drops'[x] = IF x \in Dropped(s) THEN drops[x] + 1 ELSE drops[x]
      BY <1>2
    <3> QED BY <1>3, <1>9, <1>10, <1>11, <3>1, <3>2 DEF Aside
  <2> QED BY <2>1, VisitKeeps
<1> HIDE DEF p, in, g
<1>14. EngineTyped'
  <2>1. DOMAIN store' \subseteq IPs /\ \A x \in DOMAIN store' : store'[x] \in Profile
    BY <1>8, <1>9, <1>13 DEF OthersKept
  <2>2. /\ DOMAIN ipScores' \subseteq IPs /\ \A x \in DOMAIN ipScores' : ipScores'[x] \in 0..Top
        /\ DOMAIN scoredAt' = DOMAIN ipScores' /\ \A x \in DOMAIN scoredAt' : scoredAt'[x] \in Nat
    BY <1>5, <1>6, <1>8, <1>10 DEF EngineTyped
  <2>3. \A h \in DOMAIN members' : members'[h] \subseteq IPs
    BY <1>5, <1>12 DEF EngineTyped
  <2> QED BY <1>3, <1>5, <1>11, <2>1, <2>2, <2>3 DEF EngineTyped
<1>15. DropsKnown'
  BY <1>4, <1>9, <1>13, <1>14 DEF DropsKnown, EngineTyped, OthersKept
<1>16. TierFitsScore'
  <2> SUFFICES ASSUME NEW x \in DOMAIN store' \cap DOMAIN ipScores', drops'[x] = 0
               PROVE  LET c == judged'[x]
                          t == store'[x].tier
                      IN  /\ t <= MaxTier(c)
                          /\ t > 0 => ipScores'[x] >= c.exit[t]
                          /\ t < MaxTier(c) => ipScores'[x] < c.enter[t + 1]
    BY Zenon DEF TierFitsScore, MaxTier
  <2>1. CASE x = ip
    BY <1>7, <1>8, <1>9, <1>10, <1>11, <2>1
  <2>2. CASE x # ip
    <3>1. /\ x \in DOMAIN store /\ store'[x] = store[x] /\ drops[x] = 0 /\ judged'[x] = judged[x]
          /\ x \in DOMAIN ipScores /\ ipScores'[x] = ipScores[x]
      BY <1>10, <1>11, <1>13, <1>14, <2>2 DEF OthersKept, EngineTyped
    <3> QED BY <3>1 DEF EngineInv, TierFitsScore, MaxTier
  <2> QED BY <2>1, <2>2
<1>17. IndexesOwned'
  <2>1. ip \in DOMAIN store' /\ DOMAIN store \cup orphans \subseteq DOMAIN store' \cup orphans'
    BY <1>4, <1>9, <1>13 DEF OthersKept
  <2>2. /\ DOMAIN ipScores \cup DOMAIN scoredAt \cup names \cup ipGroups \subseteq DOMAIN store \cup orphans
        /\ UNION {members[k] : k \in DOMAIN members} \subseteq DOMAIN store \cup orphans
    BY DEF EngineInv, IndexesOwned
  <2>6. \A k \in DOMAIN members : members[k] \subseteq DOMAIN store \cup orphans
    BY <2>2
  <2>3. \A h \in DOMAIN members' : members'[h] \subseteq DOMAIN store' \cup orphans'
    BY <1>12, <2>1, <2>6
  <2>4. UNION {members'[h] : h \in DOMAIN members'} \subseteq DOMAIN store' \cup orphans'
    BY <2>3
  <2>5. DOMAIN ipScores' \cup DOMAIN scoredAt' \cup names' \cup ipGroups' \subseteq DOMAIN store' \cup orphans'
    BY <1>3, <1>10, <1>12, <2>1, <2>2
  <2> QED BY <2>4, <2>5 DEF IndexesOwned
<1>18. TalkHolds(ip)'
  <2>1. Baseline(ip)' = s[ip].msgs /\ Msgs(ip)' = s[ip].msgs
    BY <1>4, <1>8, <1>9, <1>10 DEF Baseline, Msgs
  <2> QED BY <1>8, <1>11, <2>1, BudgetsPositive DEF TalkHolds
<1>19. (TalkCounted /\ TalkBounded)'
  <2>1. \A x \in IPs : TalkHolds(x)'
    BY <1>13, <1>18 DEF OthersKept
  <2> QED BY <2>1 DEF TalkCounted, TalkBounded, TalkHolds
<1> QED BY <1>14, <1>15, <1>16, <1>17, <1>19 DEF EngineInv

LEMMA PruneKeeps ==
  ASSUME EngineInv, Prune
  PROVE  EngineInv'
<1> DEFINE gone == {ip \in DOMAIN store : time - store[ip].seen > Retention(store[ip])}
<1>1. /\ store' = Without(store, gone)
      /\ ipScores' = Without(ipScores, gone) /\ scoredAt' = Without(scoredAt, gone)
      /\ names' = names \ gone /\ ipGroups' = ipGroups \ gone
      /\ members' = MembersWithout(gone)
      /\ since' = [ip \in IPs |-> IF ip \in gone THEN 0 ELSE since[ip]]
      /\ drops' = [ip \in IPs |-> IF ip \in gone THEN 0 ELSE drops[ip]]
      /\ UNCHANGED <<time, config, due, saved, events, orphans, judged>>
  BY DEF Prune
<1>2. gone \subseteq DOMAIN store
  OBVIOUS
<1> HIDE DEF gone
<1>3. /\ DOMAIN store' = DOMAIN store \ gone /\ \A x \in DOMAIN store' : store'[x] = store[x]
      /\ DOMAIN ipScores' = DOMAIN ipScores \ gone /\ \A x \in DOMAIN ipScores' : ipScores'[x] = ipScores[x]
      /\ DOMAIN scoredAt' = DOMAIN scoredAt \ gone /\ \A x \in DOMAIN scoredAt' : scoredAt'[x] = scoredAt[x]
  BY <1>1 DEF Without
<1>4. \A g \in DOMAIN members' : g \in DOMAIN members /\ members'[g] = members[g] \ gone
  BY <1>1 DEF MembersWithout
<1>5. \A x \in IPs :
        /\ x \in gone => since'[x] = 0 /\ drops'[x] = 0
        /\ x \notin gone => since'[x] = since[x] /\ drops'[x] = drops[x]
  BY <1>1
<1>6. EngineTyped'
  <2>1. since' \in [IPs -> Nat] /\ drops' \in [IPs -> Nat]
    BY <1>1 DEF EngineInv, EngineTyped
  <2>2. DOMAIN store' \subseteq IPs /\ \A x \in DOMAIN store' : store'[x] \in Profile
    BY <1>3 DEF EngineInv, EngineTyped
  <2>3. /\ DOMAIN ipScores' \subseteq IPs /\ \A x \in DOMAIN ipScores' : ipScores'[x] \in 0..Top
        /\ DOMAIN scoredAt' = DOMAIN ipScores' /\ \A x \in DOMAIN scoredAt' : scoredAt'[x] \in Nat
    BY <1>3 DEF EngineInv, EngineTyped
  <2>4. \A g \in DOMAIN members' : members'[g] \subseteq IPs
    BY <1>4 DEF EngineInv, EngineTyped
  <2> QED BY <1>1, <2>1, <2>2, <2>3, <2>4 DEF EngineInv, EngineTyped
<1>7. DropsKnown'
  BY <1>3, <1>5, <1>6 DEF EngineInv, DropsKnown, EngineTyped
<1>8. TierFitsScore'
  <2> SUFFICES ASSUME NEW x \in DOMAIN store' \cap DOMAIN ipScores', drops'[x] = 0
               PROVE  LET c == judged'[x]
                          t == store'[x].tier
                      IN  /\ t <= MaxTier(c)
                          /\ t > 0 => ipScores'[x] >= c.exit[t]
                          /\ t < MaxTier(c) => ipScores'[x] < c.enter[t + 1]
    BY Zenon DEF TierFitsScore, MaxTier
  <2>1. /\ x \in DOMAIN store /\ store'[x] = store[x] /\ drops[x] = 0 /\ judged'[x] = judged[x]
        /\ x \in DOMAIN ipScores /\ ipScores'[x] = ipScores[x]
    BY <1>1, <1>3, <1>5, <1>6 DEF EngineTyped
  <2> QED BY <2>1 DEF EngineInv, TierFitsScore, MaxTier
<1>9. IndexesOwned'
  <2>1. /\ DOMAIN ipScores \cup DOMAIN scoredAt \cup names \cup ipGroups \subseteq DOMAIN store \cup orphans
        /\ UNION {members[k] : k \in DOMAIN members} \subseteq DOMAIN store \cup orphans
    BY DEF EngineInv, IndexesOwned
  <2>2. \A k \in DOMAIN members : members[k] \subseteq DOMAIN store \cup orphans
    BY <2>1
  <2>3. \A h \in DOMAIN members' : members'[h] \subseteq DOMAIN store' \cup orphans'
    BY <1>1, <1>3, <1>4, <2>2
  <2>4. UNION {members'[h] : h \in DOMAIN members'} \subseteq DOMAIN store' \cup orphans'
    BY <2>3
  <2>5. DOMAIN ipScores' \cup DOMAIN scoredAt' \cup names' \cup ipGroups' \subseteq DOMAIN store' \cup orphans'
    BY <1>1, <1>3, <2>1
  <2> QED BY <2>4, <2>5 DEF IndexesOwned
<1>10. ASSUME NEW x \in IPs PROVE TalkHolds(x)'
  <2>1. CASE x \in gone
    <3>1. since'[x] = 0 /\ drops'[x] = 0 /\ Baseline(x)' = 0 /\ Msgs(x)' = 0
      <4>1. x \notin DOMAIN store' /\ x \notin DOMAIN scoredAt'
        BY <1>3, <2>1
      <4>2. since'[x] = 0 /\ drops'[x] = 0
        BY <1>5, <2>1
      <4> QED BY <4>1, <4>2 DEF Baseline, Msgs
    <3> QED BY <3>1, BudgetsPositive DEF TalkHolds
  <2>2. CASE x \notin gone
    <3>1. /\ since'[x] = since[x] /\ drops'[x] = drops[x] /\ due' = due
          /\ Baseline(x)' = Baseline(x) /\ Msgs(x)' = Msgs(x)
      BY <1>1, <1>3, <1>5, <2>2 DEF Baseline, Msgs
    <3>2. TalkHolds(x)
      BY TalkSplits DEF EngineInv
    <3> QED BY <3>1, <3>2 DEF TalkHolds
  <2> QED BY <2>1, <2>2
<1>11. (TalkCounted /\ TalkBounded)'
  BY <1>10 DEF TalkCounted, TalkBounded, TalkHolds
<1> QED BY <1>6, <1>7, <1>8, <1>9, <1>11 DEF EngineInv

(* A boot, the first one or the one after a crash, starts with the saved    *)
(* profiles and with nothing scored.                                        *)
LEMMA BlankKeeps ==
  ASSUME time \in Nat, config \in Loadable,
         DOMAIN store \subseteq IPs, \A x \in DOMAIN store : store[x] \in Profile,
         DOMAIN saved \subseteq IPs, \A x \in DOMAIN saved : saved[x] \in Profile,
         ipScores = [x \in {} |-> 0], scoredAt = [x \in {} |-> 0], members = [x \in {} |-> {}],
         ipGroups = {}, names = {}, since = [ip \in IPs |-> 0], drops = [ip \in IPs |-> 0],
         judged = [ip \in IPs |-> config]
  PROVE  EngineInv
<1>1. EngineTyped
  BY DEF EngineTyped
<1>2. DropsKnown /\ TierFitsScore /\ IndexesOwned
  BY DEF DropsKnown, TierFitsScore, IndexesOwned
<1>3. ASSUME NEW x \in IPs PROVE TalkHolds(x)
  <2>1. since[x] = 0 /\ drops[x] = 0 /\ Baseline(x) = 0
    BY DEF Baseline
  <2>2. Msgs(x) \in Nat
    BY DEF Msgs, Profile
  <2> QED BY <2>1, <2>2, BudgetsPositive DEF TalkHolds
<1>4. TalkCounted /\ TalkBounded
  BY <1>3, TalkSplits
<1> QED BY <1>1, <1>2, <1>4 DEF EngineInv

LEMMA EngineInitHolds == EngineInit => EngineInv
<1> SUFFICES ASSUME EngineInit PROVE EngineInv
  OBVIOUS
<1>1. Configs[1] \in Loadable
  <2> DEFINE R == [enter : Seq(Int), exit : Seq(Int), keep : Seq(Nat), members : Nat, every : Nat]
  <2>1. Configs \in Seq(R) /\ Len(Configs) > 0
    BY EngineAssumption, Zenon
  <2> HIDE DEF R
  <2> QED BY <2>1 DEF Loadable
<1>2. DOMAIN NoOne = {}
  BY DEF NoOne
<1>3. EngineInit
  OBVIOUS
<1> QED BY <1>1, <1>2, <1>3, BlankKeeps DEF EngineInit

LEMMA EngineRestartKeeps ==
  ASSUME EngineInv, EngineRestart
  PROVE  EngineInv'
<1>1. /\ time' \in Nat /\ config' \in Loadable
      /\ DOMAIN store' \subseteq IPs /\ \A x \in DOMAIN store' : store'[x] \in Profile
      /\ DOMAIN saved' \subseteq IPs /\ \A x \in DOMAIN saved' : saved'[x] \in Profile
      /\ judged' = [ip \in IPs |-> config']
  BY DEF EngineInv, EngineTyped, EngineRestart
<1>2. /\ ipScores' = [x \in {} |-> 0] /\ scoredAt' = [x \in {} |-> 0] /\ members' = [x \in {} |-> {}]
      /\ ipGroups' = {} /\ names' = {} /\ since' = [ip \in IPs |-> 0] /\ drops' = [ip \in IPs |-> 0]
  BY DEF EngineRestart
<1>3. EngineTyped'
  BY <1>1, <1>2 DEF EngineTyped
<1>4. (DropsKnown /\ TierFitsScore /\ IndexesOwned)'
  BY <1>2 DEF DropsKnown, TierFitsScore, IndexesOwned
<1>5. ASSUME NEW x \in IPs PROVE TalkHolds(x)'
  <2>1. since'[x] = 0 /\ drops'[x] = 0 /\ Baseline(x)' = 0
    BY <1>2 DEF Baseline
  <2>2. Msgs(x)' \in Nat
    BY <1>1 DEF Msgs, Profile
  <2> QED BY <2>1, <2>2, BudgetsPositive DEF TalkHolds
<1>6. (TalkCounted /\ TalkBounded)'
  BY <1>5 DEF TalkCounted, TalkBounded, TalkHolds
<1> QED BY <1>3, <1>4, <1>6 DEF EngineInv

(* Whatever leaves the store and the indexes alone.                         *)
LEMMA AsideKeeps ==
  ASSUME EngineInv, UNCHANGED <<store, ipScores, ipGroups, names, scoredAt, members, due, orphans, since, drops, judged>>,
         time' \in Nat, config' \in Loadable, DOMAIN saved' \subseteq IPs, \A x \in DOMAIN saved' : saved'[x] \in Profile
  PROVE  EngineInv'
<1>1. EngineTyped'
  BY DEF EngineInv, EngineTyped
<1>2. DropsKnown'
  BY DEF EngineInv, DropsKnown
<1>3. TierFitsScore'
  BY Zenon DEF EngineInv, TierFitsScore, MaxTier
<1>4. IndexesOwned'
  BY Zenon DEF EngineInv, IndexesOwned
<1>5. (TalkCounted /\ TalkBounded)'
  <2>1. \A x \in IPs : Baseline(x)' = Baseline(x) /\ Msgs(x)' = Msgs(x)
    BY DEF Baseline, Msgs
  <2> QED BY <2>1 DEF EngineInv, TalkCounted, TalkBounded
<1> QED BY <1>1, <1>2, <1>3, <1>4, <1>5 DEF EngineInv

LEMMA EngineStepKeeps == EngineInv /\ [EngineNext]_engineVars => EngineInv'
<1> SUFFICES ASSUME EngineInv, [EngineNext]_engineVars PROVE EngineInv'
  OBVIOUS
<1>0. /\ time \in Nat /\ config \in Loadable /\ DOMAIN saved \subseteq IPs /\ \A x \in DOMAIN saved : saved[x] \in Profile
      /\ DOMAIN store \subseteq IPs /\ \A x \in DOMAIN store : store[x] \in Profile
  BY DEF EngineInv, EngineTyped
<1>1. CASE \E ip \in IPs : ObserveMessage(ip) \/ Score(ip)
  BY <1>1, ObserveMessageKeeps, ScoreKeeps
<1>2. CASE \E ip \in IPs, kind \in {"connect", "blocklist"} : Observe(ip, kind)
  BY <1>2, ObserveKeeps
<1>3. CASE Prune
  BY <1>3, PruneKeeps
<1>4. CASE Save
  BY <1>0, <1>4, AsideKeeps DEF Save
<1>5. CASE EngineRestart
  BY <1>5, EngineRestartKeeps
<1>6. CASE ReloadTiers
  <2>1. config' \in Loadable
    <3>1. PICK i \in DOMAIN Configs : config = Configs[i] /\ config' = Configs[i + 1]
      BY <1>6 DEF ReloadTiers
    <3>2. i # Len(Configs)
      BY <1>6, <3>1 DEF ReloadTiers
    <3>3. DOMAIN Configs = 1..Len(Configs) /\ Len(Configs) \in Nat
      <4> DEFINE R == [enter : Seq(Int), exit : Seq(Int), keep : Seq(Nat), members : Nat, every : Nat]
      <4>1. Configs \in Seq(R)
        BY EngineAssumption, Zenon
      <4> HIDE DEF R
      <4> QED BY <4>1
    <3>4. i + 1 \in DOMAIN Configs
      BY <3>2, <3>3
    <3> QED BY <3>1, <3>4 DEF Loadable
  <2> QED BY <1>0, <1>6, <2>1, AsideKeeps DEF ReloadTiers
<1>7. CASE Pass
  BY <1>0, <1>7, AsideKeeps DEF Pass
<1>8. CASE UNCHANGED engineVars
  BY <1>0, <1>8, AsideKeeps DEF engineVars
<1> QED BY <1>1, <1>2, <1>3, <1>4, <1>5, <1>6, <1>7, <1>8, Zenon DEF EngineNext

LEMMA TalkIsDue == EngineInv => TalkersAreDue
<1> SUFFICES ASSUME EngineInv, NEW ip \in IPs, \A i \in DOMAIN Configs : since[ip] >= 2 * Configs[i].every,
                    drops[ip] <= 1, ip \notin due
             PROVE  FALSE
  BY DEF TalkersAreDue
<1>1. \A c \in Loadable : since[ip] >= 2 * c.every /\ c.every \in Nat /\ c.every > 0
  BY ConfigFacts DEF Loadable
<1>2. since[ip] \in Nat /\ drops[ip] \in Nat /\ Msgs(ip) \in Nat /\ Baseline(ip) \in Nat
  BY DEF EngineInv, EngineTyped, Msgs, Baseline, Profile
<1>3. TalkHolds(ip)
  BY TalkSplits DEF EngineInv
<1>4. CASE drops[ip] = 0
  <2>1. PICK c \in Loadable : since[ip] < c.every
    BY <1>3, <1>4 DEF TalkHolds, Under
  <2> QED BY <1>1, <1>2, <2>1
<1>5. CASE drops[ip] = 1
  <2>1. PICK c \in Loadable : since[ip] - Msgs(ip) < c.every
    BY <1>3, <1>5 DEF TalkHolds, Under
  <2>2. CASE Msgs(ip) = 0
    BY <1>1, <1>2, <2>1, <2>2
  <2>3. CASE Msgs(ip) > 0
    <3>1. Baseline(ip) <= 1 /\ Under(Msgs(ip) - Baseline(ip))
      BY <1>3, <1>5, <2>3 DEF TalkHolds
    <3>2. PICK d \in Loadable : Msgs(ip) - Baseline(ip) < d.every
      BY <3>1 DEF Under
    <3> QED BY <1>1, <1>2, <2>1, <3>1, <3>2
  <2> QED BY <1>2, <2>2, <2>3
<1> QED BY <1>2, <1>4, <1>5

(* Through eviction by the cap, pruning, crashes and reloads, whatever the  *)
(* addresses, thresholds and caps: the tier behaviorEngine.Score gives      *)
(* agrees with its score, Prune leaves nothing of a profile in the indexes, *)
(* and ObserveMessageAndDue finds a talker due within twice the budget,     *)
(* even when Store.Get has dropped its counter once.                        *)
THEOREM EngineAlwaysKeepsUp == EngineSpec => []EngineKeepsUp
<1>1. EngineInv => EngineKeepsUp
  BY TalkIsDue DEF EngineInv, EngineKeepsUp
<1> QED BY <1>1, EngineInitHolds, EngineStepKeeps, PTL DEF EngineSpec
=============================================================================
