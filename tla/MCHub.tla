------------------------------- MODULE MCHub -------------------------------
(* Hub for TLC: sessions s1 and s2 of one identity, s3 and s4 anonymous.   *)
(* Idle is the state in which every session has come and gone.             *)
EXTENDS Hub, TLC

CONSTANTS s1, s2, s3, s4, alice

MCIdentityOf ==
  [s \in Sessions |-> IF s \in {s1, s2} THEN alice ELSE NoOne]

Idle ==
  /\ \A s \in Sessions : at[Main(s)] \in {"ended", "panic"} /\ at[Leave(s)] = "done"
  /\ day = MaxDay
  /\ UNCHANGED vars

MCSpec == Init /\ [][Next \/ Idle]_vars
MCFairSpec == MCSpec /\ Fairness

Alike == Permutations({s3, s4})
=============================================================================
