----------------------------- MODULE TripLedger -----------------------------
(***************************************************************************)
(* Signed chat: every tripcode key has a chain of messages, each one       *)
(* naming its number and the hash of the one before.  The client signs     *)
(* (client/send.go), the server keeps the tip of every chain and refuses   *)
(* what does not continue it (server/clientHandler.go), prunes idle tips   *)
(* (server/auth.go) and rebuilds them from the stored log at boot          *)
(* (server/history.go).  A key whose owner published its seed is kept in a *)
(* registry and its lines carry a flag (server/trip_reveal.go).            *)
(*                                                                         *)
(* A signature is as good as its key: only a session that holds the key    *)
(* produces frames for it, and the hash of a message is named by the       *)
(* message, 0 standing for the 32 zero bytes a chain starts from.          *)
(***************************************************************************)
EXTENDS Integers, Sequences, FiniteSets

CONSTANTS
  Sessions,  \* connections; one may be used again once its last frame is read
  Keys,      \* tripcode public keys
  NoKey,     \* a session that has not logged in yet
  TTL,       \* tripChainsTTL and exposedTripsTTL, in clock units
  Cap,       \* maxTripChains and maxExposedTrips
  MaxSent,   \* bound: messages signed and seeds revealed
  MaxNow,    \* bound: the clock
  MaxLost,   \* bound: records that had not reached the disk at a restart
  MaxBoots,  \* bound: restarts
  MaxFaults  \* bound: failed sends, refused messages and sessions that end

ASSUME LedgerAssumption ==
  /\ MaxNow \in Nat /\ MaxSent \in Nat /\ MaxBoots \in Nat /\ MaxFaults \in Nat /\ TTL \in Nat

NoTip == [seq |-> 0, prev |-> 0, seen |-> 0, known |-> FALSE]
Off   == [on |-> FALSE, key |-> NoKey, seq |-> 0, prev |-> 0]

VARIABLES
  now,      \* the server's clock
  chains,   \* TripChains: the tip of every key
  exposed,  \* ExposedTrips: when each key was last seen, -1 if not there
  client,   \* the client side of every session: TripSeq and TripPrev
  up,       \* frames written by the client, not yet read by ReadPump
  pump,     \* where each ReadPump is, and the frame in its hands
  disk,     \* the stored log
  window,   \* the log as it is replayed to clients
  sent,     \* messages signed so far
  boots,    \* restarts so far
  reveals,  \* reveal requests so far
  faults,   \* failed sends, refused messages and ended sessions so far
  hist      \* history: what was accepted, refused, forgotten

vars == <<now, chains, exposed, client, up, pump, disk, window, sent, boots, reveals, faults, hist>>

Idle == [at |-> "read", frame |-> [kind |-> "none"], loaded |-> -1]

Set(s) == {s[i] : i \in DOMAIN s}

Fault == faults < MaxFaults /\ faults' = faults + 1

-----------------------------------------------------------------------------
(* The client.                                                             *)

(* The other sessions of a key that may still have a message accepted. *)
Rivals(c, k) == {d \in Sessions \ {c} : client[d].key = k
                   /\ (client[d].on \/ up[d] # <<>> \/ pump[d].at # "read")}

(* connect, authenticate: the session takes over the server's tip. *)
Login(c, k) ==
  /\ ~client[c].on /\ up[c] = <<>> /\ pump[c].at = "read"
  /\ client' = [client EXCEPT ![c] = 
       [on |-> TRUE, key |-> k, seq |-> chains[k].seq, prev |-> chains[k].prev]]
  /\ hist' = [hist EXCEPT
       !.excused = IF Rivals(c, k) = {} THEN @ \ {c} ELSE @ \cup {c} \cup Rivals(c, k),
       !.refused = @ \ {c}]
  /\ UNCHANGED <<now, chains, exposed, up, pump, disk, window, sent, boots, reveals, faults>>

(* sendMessage: the frame names the next number and the last hash. *)
Signed(c) == [kind |-> "chat", key |-> client[c].key, id |-> sent + 1,
              seq |-> client[c].seq + 1, prev |-> client[c].prev]

SendMessage(c) ==
  /\ client[c].on /\ sent + reveals < MaxSent
  /\ sent' = sent + 1
  /\ up' = [up EXCEPT ![c] = Append(@, Signed(c))]
  /\ client' = [client EXCEPT ![c].seq = @ + 1, ![c].prev = sent + 1]
  /\ UNCHANGED <<now, chains, exposed, pump, disk, window, boots, reveals, faults, hist>>

(* sendMessage when sendJSON fails: number and hash are put back, and      *)
(* runInputLoop returns, so the session signs nothing more.                *)
SendFails(c) ==
  /\ Fault
  /\ client[c].on /\ sent + reveals < MaxSent
  /\ sent' = sent + 1
  /\ client' = [client EXCEPT ![c].on = FALSE]
  /\ UNCHANGED <<now, chains, exposed, up, pump, disk, window, boots, reveals, hist>>

(* cmdBurn: /burn confirm publishes the seed of the session's own key. *)
Burn(c) ==
  /\ client[c].on /\ sent + reveals < MaxSent
  /\ reveals' = reveals + 1
  /\ up' = [up EXCEPT ![c] = Append(@, [kind |-> "reveal", key |-> client[c].key])]
  /\ UNCHANGED <<now, chains, exposed, client, pump, disk, window, sent, boots, faults, hist>>

(* The client leaves; the server still reads what is in the socket, or the *)
(* connection breaks and the frames are gone.                              *)
Leave(c) ==
  /\ Fault
  /\ client[c].on
  /\ client' = [client EXCEPT ![c].on = FALSE]
  /\ up' \in {up, [up EXCEPT ![c] = <<>>]}
  /\ UNCHANGED <<now, chains, exposed, pump, disk, window, sent, boots, reveals, hist>>

-----------------------------------------------------------------------------
(* The registry of published seeds.                                        *)

(* pruneExposedTrips, pruneTripChains: idle entries go, then the oldest    *)
(* ones over the cap.  Entries seen at the same time go in either order.   *)
Oldest(seen, K) == {V \in SUBSET K : /\ Cardinality(V) = Cardinality(K) - Cap
                                     /\ \A v \in V, k \in K \ V : seen[v] <= seen[k]}

Evicted(seen, K) ==
  LET idle == {k \in K : now - seen[k] > TTL}
      kept == K \ idle
  IN IF Cardinality(kept) <= Cap THEN {idle} ELSE {idle \cup V : V \in Oldest(seen, kept)}

Registered(e) == {k \in Keys : e[k] >= 0}

(* markTripExposed *)
Mark(e, k) == [e EXCEPT ![k] = now]

PruneExposed(e) == {[k \in Keys |-> IF k \in V THEN -1 ELSE e[k]] : V \in Evicted(e, Registered(e))}

(* loadExposedEntry after its Load returned `at`: an expired entry is      *)
(* deleted, a live one is touched, whatever the registry holds by now.     *)
Touch(e, k, at) ==
  IF at < 0 THEN e
  ELSE IF now - at > TTL THEN [e EXCEPT ![k] = -1]
  ELSE IF now > at THEN [e EXCEPT ![k] = now]
  ELSE e

Live(at) == at >= 0 /\ now - at <= TTL

-----------------------------------------------------------------------------
(* ReadPump.                                                               *)

Head1(c) == Head(up[c])
Reads(c, kind) == pump[c].at = "read" /\ up[c] # <<>> /\ Head1(c).kind = kind
Pop(c) == up' = [up EXCEPT ![c] = Tail(@)]

(* Continues: the number and the hash the chain expects. *)
Continues(tip, f) ==
  f.seq = (IF tip.known THEN tip.seq + 1 ELSE 1) /\ f.prev = (IF tip.known THEN tip.prev ELSE 0)

(* The checks before the chain: the mute gate, a quote of a message that   *)
(* does not exist, the content filter.  The client is not told to step     *)
(* back, so what it signs from now on does not continue the chain.         *)
DropBefore(c) ==
  /\ Fault
  /\ Reads(c, "chat") /\ Pop(c)
  /\ hist' = [hist EXCEPT !.excused = @ \cup {c}]
  /\ UNCHANGED <<now, chains, exposed, client, pump, disk, window, sent, boots, reveals>>

(* The chain check, under TripChainsMu. *)
Accept(c) ==
  LET f == Head1(c)
      ok == Continues(chains[f.key], f)
  IN
  /\ Reads(c, "chat") /\ Pop(c)
  /\ IF ok
     THEN /\ chains' = [chains EXCEPT ![f.key] =
                          [seq |-> f.seq, prev |-> f.id, seen |-> now, known |-> TRUE]]
          /\ pump' = [pump EXCEPT ![c] = [at |-> "linked", frame |-> f, loaded |-> -1]]
          /\ hist' = [hist EXCEPT !.accepted = @ \cup {f}]
     ELSE /\ UNCHANGED <<chains, pump>>
          /\ hist' = [hist EXCEPT !.refused = @ \cup {c}]
  /\ UNCHANGED <<now, exposed, client, disk, window, sent, boots, reveals, faults>>

Mut_TipTakenBack(c) ==
  /\ Fault
  /\ pump[c].at = "linked"
  /\ chains' = [chains EXCEPT ![pump[c].frame.key].seq = pump[c].frame.seq - 1,
                              ![pump[c].frame.key].prev = pump[c].frame.prev]
  /\ pump' = [pump EXCEPT ![c] = Idle]
  /\ UNCHANGED <<now, exposed, client, up, disk, window, sent, boots, reveals, hist>>

(* Too long, too fast or slow mode: refused with the tip already moved. *)
DropAfter(c) ==
  /\ Fault
  /\ pump[c].at = "linked"
  /\ pump' = [pump EXCEPT ![c] = Idle]
  /\ UNCHANGED <<now, chains, exposed, client, up, disk, window, sent, boots, reveals, hist>>

(* isTripExposed, its Load. *)
LoadFlag(c) ==
  /\ pump[c].at = "linked"
  /\ pump' = [pump EXCEPT ![c].at = "loaded", ![c].loaded = exposed[pump[c].frame.key]]
  /\ UNCHANGED <<now, chains, exposed, client, up, disk, window, sent, boots, reveals, faults, hist>>

(* An expired entry that was loaded before and stored anew since. *)
StaleDelete(c) ==
  LET at == pump[c].loaded IN at >= 0 /\ ~Live(at) /\ exposed[pump[c].frame.key] # at

ChatLine(f, flag) == [kind |-> "chat", key |-> f.key, seq |-> f.seq, prev |-> f.prev, id |-> f.id,
                      flag |-> flag, at |-> now]
Notice(k) == [kind |-> "notice", key |-> k, at |-> now]

Mut_WindowOnly(r) == UNCHANGED disk /\ window' = Append(window, r)

Store(r) == disk' = Append(disk, r) /\ window' = Append(window, r)

(* isTripExposed, the rest, then BroadcastWire: the flag is settled by the *)
(* entry that was loaded, so the two are one step.                         *)
Post(c) ==
  LET at == pump[c].loaded
      f  == pump[c].frame
  IN
  /\ pump[c].at = "loaded"
  /\ exposed' = Touch(exposed, f.key, at)
  /\ Store(ChatLine(f, Live(at)))
  /\ pump' = [pump EXCEPT ![c] = Idle]
  /\ hist' = [hist EXCEPT !.lost = IF StaleDelete(c) THEN @ \cup {f.key} ELSE @]
  /\ UNCHANGED <<now, chains, client, up, sent, boots, reveals, faults>>

(* handleTripReveal up to its lookup; muted and throttled requests end here. *)
Reveal(c) ==
  LET k == Head1(c).key IN
  /\ Reads(c, "reveal") /\ Pop(c)
  /\ \/ /\ pump' = [pump EXCEPT ![c].at = "reveal", ![c].frame = Head1(c), ![c].loaded = exposed[k]]
     \/ /\ ~Live(exposed[k]) /\ UNCHANGED pump
  /\ UNCHANGED <<now, chains, exposed, client, disk, window, sent, boots, reveals, faults, hist>>

(* handleTripReveal: a key already registered is only touched; else it is *)
(* registered, and announced in the next step.                            *)
MarkExposed(c) ==
  LET k == pump[c].frame.key
      e == Touch(exposed, k, pump[c].loaded)
  IN
  /\ pump[c].at = "reveal"
  /\ IF Live(pump[c].loaded)
     THEN /\ exposed' = e
          /\ pump' = [pump EXCEPT ![c] = Idle]
          /\ UNCHANGED hist
     ELSE /\ exposed' \in PruneExposed(Mark(e, k))
          /\ pump' = [pump EXCEPT ![c].at = "announce"]
          /\ hist' = [hist EXCEPT !.lost = (@ \ {k}) \cup
                        {d \in Registered(Mark(e, k)) : exposed'[d] < 0 /\ Live(Mark(e, k)[d])}]
  /\ UNCHANGED <<now, chains, client, up, disk, window, sent, boots, reveals, faults>>

(* BroadcastTripReveal *)
Announce(c) ==
  /\ pump[c].at = "announce"
  /\ Store(Notice(pump[c].frame.key))
  /\ pump' = [pump EXCEPT ![c] = Idle]
  /\ UNCHANGED <<now, chains, exposed, client, up, sent, boots, reveals, faults, hist>>

-----------------------------------------------------------------------------
(* The server's housekeeping, and its boot.                                *)

(* A unit of the clock is hours, a handler is done within one. *)
Tick ==
  /\ now < MaxNow /\ \A c \in Sessions : pump[c].at = "read"
  /\ now' = now + 1
  /\ UNCHANGED <<chains, exposed, client, up, pump, disk, window, sent, boots, reveals, faults, hist>>

(* The cleanup loop of main: pruneTripChains, then pruneExposedTrips. *)
Prune ==
  \E V \in Evicted([k \in Keys |-> chains[k].seen], {k \in Keys : chains[k].known}) :
    /\ chains' = [k \in Keys |-> IF k \in V THEN NoTip ELSE chains[k]]
    /\ exposed' \in PruneExposed(exposed)
    /\ V # {} \/ exposed' # exposed
    /\ hist' = [hist EXCEPT
         !.excused = @ \cup {c \in Sessions : client[c].key \in V},
         !.pruned = @ \cup V,
         !.lost = @ \cup {k \in Registered(exposed) : exposed'[k] < 0 /\ Live(exposed[k])}]
    /\ UNCHANGED <<now, client, up, pump, disk, window, sent, boots, reveals, faults>>

Mut_LastWins(tip, r) == [seq |-> r.seq, prev |-> r.id, seen |-> now, known |-> TRUE]
Mut_OwnPrev(tip, r) ==
  IF tip.known /\ r.seq <= tip.seq THEN tip
  ELSE [seq |-> r.seq, prev |-> r.prev, seen |-> now, known |-> TRUE]

(* applyTripChain: the higher number wins, gap or fork. *)
ApplyTripChain(tip, r) ==
  IF tip.known /\ r.seq <= tip.seq THEN tip
  ELSE [seq |-> r.seq, prev |-> r.id, seen |-> now, known |-> TRUE]

(* InitHistoryStore: one record after the other, oldest first. *)
BootState == [chains |-> [k \in Keys |-> NoTip], exposed |-> [k \in Keys |-> -1],
              told |-> {}, window |-> <<>>]

Mut_RegistryOnly(s, r) ==
  IF r.kind = "notice"
  THEN [s EXCEPT !.exposed[r.key] = IF now - r.at > TTL THEN @ ELSE r.at, !.window = Append(@, r)]
  ELSE [s EXCEPT !.chains[r.key] = ApplyTripChain(@, r),
                 !.window = Append(@, [r EXCEPT !.flag = r.flag \/ Live(s.exposed[r.key])])]

Rebuilt(s, r) ==
  IF r.kind = "notice"
  THEN [s EXCEPT !.told = @ \cup {r.key},
                 !.exposed[r.key] = IF now - r.at > TTL THEN @ ELSE r.at,
                 !.window = Append(@, r)]
  ELSE LET live == Live(s.exposed[r.key])
           flag == r.key \in s.told \/ live
       IN [s EXCEPT !.chains[r.key] = ApplyTripChain(@, r),
                    !.exposed[r.key] = IF r.key \notin s.told /\ live /\ r.at > @ THEN r.at ELSE @,
                    !.window = Append(@, [r EXCEPT !.flag = r.flag \/ flag])]

BootFold(log) ==
  LET fold[i \in 0 .. Len(log)] ==
        IF i = 0 THEN BootState ELSE Rebuilt(fold[i - 1], log[i])
  IN fold[Len(log)]

(* The process stops and starts again: every session is gone, and so are   *)
(* the records that had not been written.                                  *)
Restart(kept) ==
  LET b == BootFold(SubSeq(disk, 1, kept)) IN
  /\ boots < MaxBoots /\ boots' = boots + 1
  /\ disk' = SubSeq(disk, 1, kept)
  /\ chains' = b.chains
  /\ exposed' \in PruneExposed(b.exposed)
  /\ window' = b.window
  /\ client' = [c \in Sessions |-> Off]
  /\ up' = [c \in Sessions |-> <<>>]
  /\ pump' = [c \in Sessions |-> Idle]
  /\ hist' = [hist EXCEPT !.excused = {}, !.refused = {}, !.booted = kept,
                          !.lost = {k \in Registered(b.exposed) : exposed'[k] < 0}]
  /\ UNCHANGED <<now, sent, reveals, faults>>

-----------------------------------------------------------------------------
Init ==
  /\ now = 0
  /\ chains = [k \in Keys |-> NoTip]
  /\ exposed = [k \in Keys |-> -1]
  /\ client = [c \in Sessions |-> Off]
  /\ up = [c \in Sessions |-> <<>>]
  /\ pump = [c \in Sessions |-> Idle]
  /\ disk = <<>> /\ window = <<>>
  /\ sent = 0 /\ boots = 0 /\ reveals = 0 /\ faults = 0
  /\ hist = [accepted |-> {}, refused |-> {}, excused |-> {}, pruned |-> {}, lost |-> {}, booted |-> 0]

Next ==
  \/ \E c \in Sessions :
       \/ \E k \in Keys : Login(c, k)
       \/ SendMessage(c) \/ SendFails(c) \/ Burn(c) \/ Leave(c)
       \/ DropBefore(c) \/ Accept(c) \/ DropAfter(c) \/ LoadFlag(c) \/ Post(c)
       \/ Reveal(c) \/ MarkExposed(c) \/ Announce(c)
  \/ Tick \/ Prune
  \/ \E kept \in 0 .. Len(disk) : kept + MaxLost >= Len(disk) /\ Restart(kept)

Spec == Init /\ [][Next]_vars

-----------------------------------------------------------------------------
Frame == [kind : {"chat"}, key : Keys, id : 1 .. MaxSent, seq : 1 .. MaxSent, prev : 0 .. MaxSent]
         \cup [kind : {"reveal"}, key : Keys]

(* Every value has its type; a chain number never exceeds the messages signed. *)
TypeOK ==
  /\ now \in 0 .. MaxNow /\ sent \in 0 .. MaxSent /\ boots \in 0 .. MaxBoots
  /\ reveals \in 0 .. MaxSent /\ faults \in 0 .. MaxFaults
  /\ chains \in [Keys -> [seq : 0 .. MaxSent, prev : 0 .. MaxSent, seen : 0 .. MaxNow, known : BOOLEAN]]
  /\ exposed \in [Keys -> -1 .. MaxNow]
  /\ client \in [Sessions -> [on : BOOLEAN, key : Keys \cup {NoKey}, seq : 0 .. MaxSent, prev : 0 .. MaxSent]]
  /\ \A c \in Sessions : Set(up[c]) \subseteq Frame
  /\ \A c \in Sessions : pump[c].at \in {"read", "linked", "loaded", "reveal", "announce"}
  /\ Len(window) = Len(disk)

(* A signed message is refused for its number or its hash only when the    *)
(* server forgot the chain, dropped an earlier message of the session      *)
(* before the chain check, or a second session of the key was there: what  *)
(* is refused for its length or rate, with the tip already moved, and what *)
(* a restart forgets leave client and server in step.                      *)
RefusedIsExcused == hist.refused \subseteq hist.excused

(* Every stored signed line continues a line the server accepted from the  *)
(* same key, or starts a chain, also across restarts that lost records and *)
(* adopted tips over a gap (applyTripChain).                               *)
StoredContinues ==
  \A r \in Set(disk) : r.kind = "chat" =>
    \/ r.seq = 1 /\ r.prev = 0
    \/ \E f \in hist.accepted : f.key = r.key /\ f.id = r.prev /\ f.seq = r.seq - 1

(* Two stored lines of a key never carry the same number, unless the key's *)
(* tip was pruned: two handlers may store in another order than they were  *)
(* accepted, and the boot must not rewind to the lower number.             *)
NoSeqReuse ==
  \A i, j \in DOMAIN disk :
    i # j /\ disk[i].kind = "chat" /\ disk[j].kind = "chat" /\ disk[i].key = disk[j].key
    /\ disk[i].seq = disk[j].seq => disk[i].key \in hist.pruned

(* A published seed sticks: while its stored announcement is younger than  *)
(* the TTL the key is registered, across restarts too, unless the cap      *)
(* evicted it or a lookup that began on an expired entry deleted it; and   *)
(* every line loaded at boot behind the announcement carries the flag.     *)
ExposureSticks ==
  /\ \A r \in Set(disk) : r.kind = "notice" /\ now - r.at <= TTL /\ r.key \notin hist.lost
                          => exposed[r.key] >= 0
  /\ \A i \in 1 .. hist.booted, j \in 1 .. hist.booted :
       i < j /\ window[i].kind = "notice" /\ window[j].kind = "chat" /\ window[i].key = window[j].key
       => window[j].flag

(* The stored lines of a key form one chain, whatever order its handlers   *)
(* stored them in and whatever a restart lost.                             *)
ChainsContinue == TypeOK /\ StoredContinues /\ NoSeqReuse
=============================================================================
