---------------------------- MODULE AttackState ----------------------------
(* Attack detection: AttackState (server/underattack.go) and the goroutine   *)
(* that samples it once a second, attackSampler (server/gate.go).            *)
(*                                                                           *)
(* Time is counted in seconds.  A note uses the time at which it is made, a  *)
(* sample the time at which its tick fired: a late sampler works with an old *)
(* time on a ring that newer notes have already written to.  Of a bucket     *)
(* only the rejects that can raise the flag are kept (r503 and rGate); the   *)
(* counters and averages behind the attack's magnitude are left out.         *)
EXTENDS Integers

CONSTANTS
    AttackWindow,\* attackWindowSecs
    Buckets,     \* attackBuckets
    EnterSecs,   \* ATTACK_ENTER_SECS
    EnterRPS,    \* ATTACK_ENTER_RPS
    AttackTTL,   \* UNDER_ATTACK_TTL
    Epoch,       \* the time at which the server starts
    MaxLag,      \* how old a tick's time may be when it is sampled
    None,        \* no tick
    MaxClock, MaxRejects   \* bounds of the model: time, rejects per second

ASSUME AttackAssumption ==
    /\ {AttackWindow, Buckets, EnterSecs, AttackTTL} \subseteq Nat \ {0}
    /\ {EnterRPS, Epoch, MaxLag, MaxClock, MaxRejects} \subseteq Nat
    /\ AttackWindow <= Epoch /\ Epoch <= MaxClock
    /\ AttackWindow + MaxLag <= Buckets
    /\ None \notin Int

VARIABLES
    clock,
    buckets,     \* the ring
    under, until, run,
    force,       \* UNDER_ATTACK_FORCE, which a reload may change
    fired,       \* the time in the ticker's channel, if there is one
    rejects,     \* second -> the rejects that were noted in it
    hotRun,      \* how many samples in a row were due to see an attack
    promise,     \* the flag may not fall before this time
    pressure     \* the last second with a reject, a full server or force=on

code   == <<buckets, under, until, run>>
ghosts == <<rejects, hotRun, promise, pressure>>
attackVars == <<clock, code, force, fired, ghosts>>

Slots == 0..(Buckets - 1)
Secs  == Epoch..MaxClock

AttackInit ==
    /\ clock = Epoch
    /\ buckets = [i \in Slots |-> [sec |-> 0, n |-> 0]]
    /\ under = FALSE /\ until = 0 /\ run = 0
    /\ force = "auto" /\ fired = None
    /\ rejects = [s \in Secs |-> 0]
    /\ hotRun = 0 /\ promise = 0 /\ pressure = 0

(* Mutant: a bucket of an earlier round of the ring is not emptied. *)
Mut_BucketKept(sec) ==
    [buckets[sec % Buckets] EXCEPT !.sec = sec]

(* Mutant: the bucket is stamped with the next second. *)
Mut_BucketAhead(sec) ==
    IF buckets[sec % Buckets].sec # sec THEN [sec |-> sec + 1, n |-> 0]
    ELSE buckets[sec % Buckets]

(* AttackState.bucket *)
Bucket(sec) ==
    IF buckets[sec % Buckets].sec # sec THEN [sec |-> sec, n |-> 0]
    ELSE buckets[sec % Buckets]

(* note503 and noteGate *)
NoteReject ==
    /\ rejects[clock] < MaxRejects
    /\ buckets' = [buckets EXCEPT ![clock % Buckets] =
                     [Bucket(clock) EXCEPT !.n = @ + 1]]
    /\ rejects' = [rejects EXCEPT ![clock] = @ + 1]
    /\ pressure' = clock
    /\ UNCHANGED <<clock, under, until, run, force, fired, hotRun, promise>>

(* The first n of these counts, added up. *)
Total(n, counts) ==
    LET sum[k \in 0..n] == IF k = 0 THEN 0 ELSE sum[k - 1] + counts[k - 1] IN sum[n]

(* sample: what the ring says of the last Window seconds before now *)
Fold(now) ==
    LET live(i) == now - AttackWindow < buckets[i].sec /\ buckets[i].sec <= now
    IN  Total(Buckets, [i \in Slots |-> IF live(i) THEN buckets[i].n ELSE 0])

Hot(full, n) == full \/ n > EnterRPS * AttackWindow

(* What was really noted in that time. *)
Noted(now) ==
    Total(AttackWindow, [d \in 0..(AttackWindow - 1) |-> IF now - d \in Secs THEN rejects[now - d] ELSE 0])

(* The flag, as everyone else reads it: IsUnderAttack *)
IsUnderAttack == under /\ clock < until

(* Mutant: the exit does not look at the signal. *)
Mut_AutoNoRearm(sig, now) ==
    LET r  == IF sig THEN run + 1 ELSE 0
        in == ~under /\ r >= EnterSecs
    IN  /\ until' = IF in THEN now + AttackTTL ELSE until
        /\ IF under /\ now > until
           THEN under' = FALSE /\ run' = 0
           ELSE under' = (under \/ in) /\ run' = r

(* Mutant: every sample while the flag is up re-arms it. *)
Mut_AutoAlwaysRearm(sig, now) ==
    LET r  == IF sig THEN run + 1 ELSE 0
        in == ~under /\ r >= EnterSecs
    IN  /\ until' = IF under \/ in THEN now + AttackTTL ELSE until
        /\ IF under /\ ~sig /\ now > until
           THEN under' = FALSE /\ run' = 0
           ELSE under' = (under \/ in) /\ run' = r

(* sample, force=auto: count, enter, re-arm or leave *)
AutoSample(sig, now) ==
    LET r  == IF sig THEN run + 1 ELSE 0
        in == ~under /\ r >= EnterSecs
    IN  /\ until' = IF (under \/ in) /\ (sig \/ in) THEN now + AttackTTL ELSE until
        /\ IF under /\ ~sig /\ now > until
           THEN under' = FALSE /\ run' = 0
           ELSE under' = (under \/ in) /\ run' = r

(* What force=auto owes: enough hot samples in a row raise the flag, and     *)
(* every hot sample while it is up puts the fall off by the TTL.             *)
Owe(sig, now) ==
    /\ hotRun' = IF sig THEN hotRun + 1 ELSE 0
    /\ promise' = IF sig /\ (hotRun' >= EnterSecs \/ clock < promise)
                  THEN now + AttackTTL ELSE promise

(* attackSampler, one tick.  force=off only takes the flag down; when it is  *)
(* down already the sample goes on as with force=auto.                       *)
Sample(full) ==
    /\ fired # None
    /\ fired' = None
    /\ \/ /\ under /\ force = "off"
          /\ under' = FALSE /\ run' = 0
          /\ hotRun' = 0 /\ promise' = 0
          /\ UNCHANGED <<until, pressure>>
       \/ /\ force = "on"
          /\ under' = TRUE /\ until' = fired + AttackTTL /\ run' = 0
          /\ hotRun' = 0 /\ promise' = fired + AttackTTL /\ pressure' = clock
       \/ /\ force # "on" /\ ~(under /\ force = "off")
          /\ AutoSample(Hot(full, Fold(fired)), fired)
          /\ Owe(Hot(full, Noted(fired)), fired)
          /\ pressure' = IF full THEN clock ELSE pressure
    /\ UNCHANGED <<clock, buckets, force, rejects>>

(* A second passes.  The ticker's channel holds one tick; a second one is    *)
(* dropped.                                                                  *)
Second ==
    /\ clock < MaxClock
    /\ fired # None => clock - fired < MaxLag
    /\ clock' = clock + 1
    /\ fired' = IF fired = None THEN clock' ELSE fired
    /\ UNCHANGED <<code, force, ghosts>>

(* A reload of the configuration. *)
Reload ==
    /\ force' \in {"auto", "on", "off"} \ {force}
    /\ UNCHANGED <<clock, code, fired, ghosts>>

AttackNext ==
    \/ NoteReject \/ Second \/ Reload
    \/ \E full \in BOOLEAN : Sample(full)

AttackSpec == AttackInit /\ [][AttackNext]_attackVars

-----------------------------------------------------------------------------
(* Properties *)

(* Type invariant: the ring, the machine and the ticker keep their shapes.   *)
(* A bucket holds the second that its place in the ring stands for.          *)
AttackTypes ==
    /\ clock \in Secs
    /\ buckets \in [Slots -> [sec : 0..clock, n : 0..MaxRejects]]
    /\ \A i \in Slots : buckets[i].sec # 0 => buckets[i].sec % Buckets = i
    /\ under \in BOOLEAN /\ until \in 0..(clock + AttackTTL) /\ run \in Nat
    /\ force \in {"auto", "on", "off"}
    /\ fired \in Secs \cup {None}
    /\ fired # None => fired <= clock /\ clock <= fired + MaxLag
    /\ rejects \in [Secs -> 0..MaxRejects]
    /\ hotRun \in Nat /\ promise \in 0..(clock + AttackTTL) /\ pressure \in 0..clock

(* However late the sampler comes, within the spare buckets of the ring, the *)
(* sum it folds is exactly what was noted in the five seconds before its     *)
(* tick: no second was overwritten too early, none is counted twice.         *)
FoldIsExact == fired # None => Fold(fired) = Noted(fired)

(* The flag is held: once enough samples in a row were due to see an attack, *)
(* or one was while the flag was up, it does not fall for a full TTL, unless *)
(* the operator forces it off.                                               *)
HoldsFullTTL == clock < promise => IsUnderAttack

(* It is not held for ever: when the last reject or full server lies further *)
(* back than the window, the TTL and the sampler's delay, it has fallen.     *)
QuietEnds == IsUnderAttack => clock <= pressure + AttackWindow + AttackTTL + MaxLag

(* The flag follows the rejects: it is raised on an exact sum, held for a    *)
(* full TTL and down after quiet, however late attackSampler comes.          *)
FlagFollows == AttackTypes /\ FoldIsExact /\ HoldsFullTTL /\ QuietEnds
=============================================================================
