----------------------------- MODULE OrderedLog -----------------------------
(***************************************************************************)
(* What the message log promises whoever pages it by seq: the stored lines *)
(* are a sequence to which lines are only ever added at the end, under the *)
(* next number, and from which lines may be lost, but never moved, changed *)
(* or brought back; a restart resumes the count at the last stored line.   *)
(* HistoryLog implements it with a queue, a file, its archive and a        *)
(* rotation that can stop at every step.                                   *)
(***************************************************************************)
EXTENDS Naturals, Sequences

VARIABLES
  log, \* the stored lines, records with a seq
  top  \* the last number handed out, or the one a restart would resume at

logVars == <<log, top>>

(* s is what is left of t, in the order of t.                              *)
Thinned(s, t) ==
  /\ \A i \in DOMAIN s : \E a \in DOMAIN t : s[i] = t[a]
  /\ \A i, j \in DOMAIN s : i < j =>
       \E a, b \in DOMAIN t : a < b /\ s[i] = t[a] /\ s[j] = t[b]

Init == log = <<>> /\ top = 0

(* A line gets the next number; a full or closed store sheds it.           *)
Store ==
  /\ top' = top + 1
  /\ \/ log' = log
     \/ /\ log' # <<>> /\ log' = Append(log, log'[Len(log')])
        /\ log'[Len(log')].seq = top'

Lose == top' = top /\ Thinned(log', log)

Restart ==
  /\ Thinned(log', log)
  /\ top' = IF log' = <<>> THEN 0 ELSE log'[Len(log')].seq

Next == Store \/ Lose \/ Restart

Spec == Init /\ [][Next]_logVars
=============================================================================
