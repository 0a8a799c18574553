---- MODULE MCTripLedger ----
(* What becomes of a message its sender signs: the trip chain at the       *)
(* server, and the rows on the sender's screen; `part` says which moves.   *)
EXTENDS TripLedger, Placeholders, TLC
CONSTANTS s1, s2, k1, k2, none

VARIABLE part

MCInit == part \in {"trips", "screen"} /\ Init /\ ScreenInit

MCNext ==
  \/ part = "trips" /\ Next /\ UNCHANGED <<part, screenVars>>
  \/ part = "screen" /\ ScreenNext /\ UNCHANGED <<part, vars>>

MCSpec == MCInit /\ [][MCNext]_<<part, vars, screenVars>>

Symm == Permutations({s1, s2}) \cup Permutations({k1, k2})
====
