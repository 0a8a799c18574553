---- MODULE MCTables ----
(* What the server counts and keeps about addresses, side by side: votes,   *)
(* cooldowns, budgets and penalties, the attack flag, and the behaviour     *)
(* scores; `part` says which one moves.                                     *)
EXTENDS Votes, Limiters, AttackState, Behaviour, TLC
CONSTANTS a1, a2

VARIABLE part

(* Two addresses of one subnet with room for one profile; three tiers, then *)
(* two.  Either address alone can drag the other up through their group.    *)
OneNet(ip) == "net"
Tables == <<
  [enter |-> <<2, 4>>, exit |-> <<1, 3>>, keep |-> <<0, 1, 1>>, members |-> 2, every |-> 1],
  [enter |-> <<3>>, exit |-> <<2>>, keep |-> <<1, 1>>, members |-> 2, every |-> 1]>>
Weight == <<3, 5>>

Init ==
  /\ part \in {"votes", "cooldown", "budget", "penalty", "attack", "behaviour"}
  /\ VotesInit /\ LimitsInit /\ AttackInit /\ EngineInit

Next ==
  \/ part = "votes" /\ VotesNext /\ UNCHANGED <<part, lvars, attackVars, engineVars>>
  \/ part = "cooldown" /\ (CooldownNext \/ Tick) /\ UNCHANGED <<part, votesVars, attackVars, engineVars>>
  \/ part = "budget" /\ (BudgetNext \/ Tick) /\ UNCHANGED <<part, votesVars, attackVars, engineVars>>
  \/ part = "penalty" /\ (PenaltyNext \/ Tick) /\ UNCHANGED <<part, votesVars, attackVars, engineVars>>
  \/ part = "attack" /\ AttackNext /\ UNCHANGED <<part, votesVars, lvars, engineVars>>
  \/ part = "behaviour" /\ EngineNext /\ UNCHANGED <<part, votesVars, lvars, attackVars>>

Spec == Init /\ [][Next]_<<part, votesVars, lvars, attackVars, engineVars>>

(* Attack states that differ only in the date, or in what is too old to     *)
(* matter, behave alike: the view keeps the place in the ring and, of every *)
(* time, how far it is from now, up to that age.                            *)
Aged == 7
Ago(t) == IF t = None THEN None ELSE IF clock - t > Aged THEN Aged ELSE clock - t
UpTo(n, max) == IF n > max THEN max ELSE n
RingView ==
  <<clock % Buckets, [i \in Slots |-> <<Ago(buckets[i].sec), buckets[i].n>>],
    under, Ago(until), UpTo(run, 2), force, Ago(fired),
    [d \in 0..3 |-> IF clock - d \in Secs THEN rejects[clock - d] ELSE 0],
    UpTo(hotRun, 2), Ago(promise), Ago(pressure)>>
View == <<part, votesVars, lvars, engineVars, IF part = "attack" THEN RingView ELSE << >> >>

Symmetry == Permutations({a1, a2})
====
