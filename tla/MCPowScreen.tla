---------------------------- MODULE MCPowScreen ----------------------------
(* PowScreen for TLC: two connections of one address.                      *)
EXTENDS PowScreen, TLC

CONSTANTS c1, c2, ip1, i1, i2, i3

MCIPOf == [c \in Conns |-> ip1]

Alike == Permutations({c1, c2}) \cup Permutations({i1, i2, i3})
=============================================================================
