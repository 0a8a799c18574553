------------------------------- MODULE Votes --------------------------------
(***************************************************************************)
(* Votes on chained messages (server/vote.go, server/history.go,           *)
(* client/vote.go).  The server keeps totals and, per address and message, *)
(* the direction last given; every change is published as a stored line    *)
(* with the new totals, and the last line of a message is what clients     *)
(* draw and what a restart starts from.  The fold is under VoteMu, the     *)
(* publication is not.                                                     *)
(***************************************************************************)
EXTENDS Integers, Sequences, FiniteSets

CONSTANTS
  Ips,       \* addresses that vote
  Targets,   \* heights of chained messages
  TTL,       \* voteDedupTTL
  Window,    \* lines the replayed window holds
  MaxDay,    \* bound: the clock
  MaxVotes,  \* bound: votes folded
  MaxBoots   \* bound: restarts

ASSUME VotesAssumption ==
  IsFiniteSet(Ips) /\ TTL \in Nat /\ Window \in Nat /\ MaxVotes \in Nat

Directions == {"up", "down", "withdraw"}
Zero == [up |-> 0, down |-> 0]
NoVote == [dir |-> "none", at |-> 0]

VARIABLES
  day,     \* the clock
  scores,  \* VoteScores
  dedup,   \* VoteDedup
  handler, \* the totals each handler has folded and not yet published
  lines,   \* the vote lines of the window, oldest first
  votes, boots,
  carried, \* history: votes in the totals that no dedup entry stands for
  newest   \* history: the latest fold of each message that was published

votesVars == <<day, scores, dedup, handler, lines, votes, boots, carried, newest>>

Plus(s, d, n) == IF d \in {"up", "down"} THEN [s EXCEPT ![d] = @ + n] ELSE s

(* dec: a total never goes below zero. *)
Dec(s, d) == IF d \in {"up", "down"} /\ s[d] > 0 THEN [s EXCEPT ![d] = @ - 1] ELSE s

(* The direction an address holds on a message; an old one is forgotten. *)
Held(ip, t) ==
  LET e == dedup[<<ip, t>>] IN IF e.dir # "none" /\ day - e.at <= TTL THEN e.dir ELSE "none"

(* applyVote: the same direction again takes the vote back, another one    *)
(* replaces it; there is nothing to withdraw twice.                        *)
Toggled(held, d) == IF held = d THEN "withdraw" ELSE d

Changes(held, d) == d # "withdraw" \/ held \in {"up", "down"}

Mut_FlipKeepsOld(s, held, d) ==
  IF held = d THEN Dec(s, d) ELSE Plus(s, d, 1)

Folded(s, held, d) == Plus(Dec(s, held), Toggled(held, d), 1)

(* handleVote up to the publication. *)
ApplyVote(ip, t, d) ==
  LET held == Held(ip, t)
      old  == dedup[<<ip, t>>].dir
  IN
  /\ votes < MaxVotes /\ handler[ip] = <<>> /\ Changes(held, d)
  /\ votes' = votes + 1
  /\ scores' = [scores EXCEPT ![t] = Folded(@, held, d)]
  /\ dedup' = [dedup EXCEPT ![<<ip, t>>] = [dir |-> Toggled(held, d), at |-> day]]
  /\ handler' = [handler EXCEPT ![ip] = <<[target |-> t, total |-> scores'[t], n |-> votes']>>]
  /\ carried' = [carried EXCEPT ![t] = IF held = old THEN @ ELSE Plus(@, old, 1)]
  /\ UNCHANGED <<day, lines, boots, newest>>

(* applyVote sweeps the table once it is over its limit. *)
Sweep ==
  /\ \E ip \in Ips, t \in Targets : dedup[<<ip, t>>].dir # "none" /\ Held(ip, t) = "none"
  /\ dedup' = [p \in Ips \X Targets |-> IF Held(p[1], p[2]) = "none" THEN NoVote ELSE dedup[p]]
  /\ carried' = [t \in Targets |->
       [d \in {"up", "down"} |-> carried[t][d] +
          Cardinality({ip \in Ips : dedup[<<ip, t>>].dir = d /\ Held(ip, t) = "none"})]]
  /\ UNCHANGED <<day, scores, handler, lines, votes, boots, newest>>

Recent(s) == IF Len(s) <= Window THEN s ELSE SubSeq(s, Len(s) - Window + 1, Len(s))

(* BroadcastVote: the line is stored and sent to every client. *)
Publish(ip) ==
  LET v == handler[ip][1] IN
  /\ handler[ip] # <<>>
  /\ lines' = Recent(Append(lines, v))
  /\ handler' = [handler EXCEPT ![ip] = <<>>]
  /\ newest' = [newest EXCEPT ![v.target] = IF v.n > @ THEN v.n ELSE @]
  /\ UNCHANGED <<day, scores, dedup, votes, boots, carried>>

(* Other lines push the oldest vote line out of the window. *)
Evict ==
  /\ lines # <<>>
  /\ lines' = Tail(lines)
  /\ UNCHANGED <<day, scores, dedup, handler, votes, boots, carried, newest>>

LineOf(s, t) == {i \in DOMAIN s : s[i].target = t}

Mut_FirstLine(s, t) == CHOOSE i \in LineOf(s, t) : \A j \in LineOf(s, t) : i <= j

(* rebuildVoteScores, and applyVoteLocked of a client: the last line of a  *)
(* message stands, a message without one has no votes.                     *)
LastLine(s, t) == CHOOSE i \in LineOf(s, t) : \A j \in LineOf(s, t) : j <= i

Shown(s, t) == IF LineOf(s, t) = {} THEN Zero ELSE s[LastLine(s, t)].total

Restart ==
  /\ boots < MaxBoots /\ boots' = boots + 1
  /\ scores' = [t \in Targets |-> Shown(lines, t)]
  /\ dedup' = [p \in Ips \X Targets |-> NoVote]
  /\ handler' = [ip \in Ips |-> <<>>]
  /\ carried' = scores'
  /\ newest' = [t \in Targets |-> IF LineOf(lines, t) = {} THEN 0 ELSE lines[LastLine(lines, t)].n]
  /\ UNCHANGED <<day, lines, votes>>

NextDay == day < MaxDay /\ day' = day + 1
        /\ UNCHANGED <<scores, dedup, handler, lines, votes, boots, carried, newest>>

VotesInit ==
  /\ day = 0 /\ votes = 0 /\ boots = 0 /\ lines = <<>>
  /\ newest = [t \in Targets |-> 0]
  /\ scores = [t \in Targets |-> Zero]
  /\ dedup = [p \in Ips \X Targets |-> NoVote]
  /\ handler = [ip \in Ips |-> <<>>]
  /\ carried = [t \in Targets |-> Zero]

VotesNext ==
  \/ \E ip \in Ips, t \in Targets, d \in Directions : ApplyVote(ip, t, d)
  \/ \E ip \in Ips : Publish(ip)
  \/ Sweep \/ Evict \/ Restart \/ NextDay

VotesSpec == VotesInit /\ [][VotesNext]_votesVars

-----------------------------------------------------------------------------
(* The total of a message counts every address that holds that direction   *)
(* exactly once, plus the votes whose dedup entry is gone: toggles, flips  *)
(* and withdrawals in any order, of any address, never lose or double one. *)
ScoresExact ==
  \A t \in Targets, d \in {"up", "down"} :
    scores[t][d] = carried[t][d] + Cardinality({ip \in Ips : dedup[<<ip, t>>].dir = d})

(* Once every handler has published, the line clients draw from and the    *)
(* next boot rebuilds from carries the totals of the server, unless a fold *)
(* was published after a later one, or the line left the window.           *)
LastLineIsTotal ==
  \A t \in Targets :
    /\ \A ip \in Ips : handler[ip] = <<>> \/ handler[ip][1].target # t
    /\ \E i \in LineOf(lines, t) :
         lines[i].n = newest[t] /\ \A j \in LineOf(lines, t) : j <= i
    => Shown(lines, t) = scores[t]

(* applyVote and BroadcastVote: a vote counts once, in the totals and in   *)
(* the line they are drawn and rebuilt from.                               *)
VotesExact == ScoresExact /\ LastLineIsTotal
=============================================================================
