---------------------------- MODULE MCAdmission ----------------------------
(* Admission for TLC: three sessions behind one address and one behind     *)
(* another.  Idle is the state in which every handler has returned.        *)
EXTENDS Admission, TLC

CONSTANTS s1, s2, s3, s4, ip1, ip2

MCIPOf == [s \in Sessions |-> IF s = s4 THEN ip2 ELSE ip1]

Idle ==
  /\ \A s \in Sessions : at[s] \in {"refused", "full", "left"}
  /\ tick = {}
  /\ UNCHANGED vars

MCSpec == Init /\ [][Next \/ Idle]_vars

SameAddress == Permutations({s1, s2, s3})
=============================================================================
