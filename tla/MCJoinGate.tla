----------------------------- MODULE MCJoinGate -----------------------------
(* JoinGate for TLC: a native client whose clock is a second ahead and a     *)
(* browser whose clock is half a second behind.                              *)
EXTENDS JoinGate, TLC

CONSTANTS native, browser, a1, a2

MCSkew == [c \in Clients |-> IF c = native THEN 2 ELSE -1]

Alike == Permutations({a1, a2})

(* States that differ only in how long ago something ended behave alike:     *)
(* the view keeps the parity of the clock and, of every time, how far ahead  *)
(* it is, or that it has passed.                                             *)
Ahead(t) == IF t - clock < -1 THEN -1 ELSE t - clock
Held(last, d) == [a \in IPs |-> IF last[a] = None \/ last[a] + d < clock THEN -1
                                ELSE last[a] + d - clock]
Seen(x) == [x EXCEPT !.earliest = Ahead(@), !.expires = Ahead(@)]

View ==
    <<clock % 2, required, single, {Seen(x) : x \in challenges},
      {[p EXCEPT !.expires = Ahead(@)] : p \in passes},
      Held(cooldown, ChallengeCooldown), Held(statusCooldown, StatusCooldown),
      Held(lastConnect, ConnCooldown), {[e EXCEPT !.until = Ahead(@)] : e \in earned},
      [c \in Clients |-> [cl[c] EXCEPT
          !.bundle = IF @ = None THEN None ELSE Seen(@),
          !.lease = Ahead(@), !.wake = Ahead(@)]],
      starts, mishaps, excused, unearned>>
=============================================================================
