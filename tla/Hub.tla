-------------------------------- MODULE Hub --------------------------------
(***************************************************************************)
(* Presence and delivery: server/clientHandler.go (registerClient,         *)
(* unregisterClient, WritePump, ReadPump's chat and history paths) and the *)
(* broadcast half of server/history.go.  A session has a main thread       *)
(* (register, then ReadPump) and a leave thread (unregisterClient, run by  *)
(* whichever of ReadPump or behaviorTick removed it from Clients).         *)
(*                                                                         *)
(* BroadcastMu and LastMessageDateMu are lock variables; a critical        *)
(* section of the leaf locks Chain.Mu and ClientsMu is one step.  A fanout *)
(* is one step: ClientsMu keeps the client set still while it runs.        *)
(* WritePump and the peer drain Send at any speed, so any send may find    *)
(* it full; a frame refused, after sendWithRetry's one retry for a system  *)
(* line or at once for a chat line, is dropped and counted.                *)
(***************************************************************************)
EXTENDS Naturals, Sequences, FiniteSets

CONSTANTS
  Sessions,        \* websocket sessions, each connecting once
  IdentityOf,      \* IdentityPub of a session, or NoOne
  NoOne,           \* no session, thread or identity
  BehaviorEnabled, \* BEHAVIOR_ENABLED: behaviorTick may kick
  Requests,        \* history requests: "page", or "far" (before above the tip)
  MaxChats,        \* bound: chat lines ever linked
  MaxRequests,     \* bound: history requests ever made
  MaxDrops,        \* bound: frames dropped on a full Send channel
  MaxDay           \* bound: calendar days

ASSUME HubAssumption ==
  /\ NoOne \notin Sessions \cup (Sessions \X {"main", "leave"})
  /\ DOMAIN IdentityOf = Sessions
  /\ BehaviorEnabled \in BOOLEAN
  /\ Requests \subseteq {"page", "far"}
  /\ MaxChats \in Nat /\ MaxRequests \in Nat /\ MaxDrops \in Nat /\ MaxDay \in Nat

VARIABLES
  clients,  \* Hub.Clients
  slot,     \* Hub.ActiveIdentities
  closed,   \* sessions whose Send channel is closed
  frames,   \* every frame a Send channel accepted, in order
  missed,   \* the frames a full Send channel refused
  log,      \* lines stored under Chain.Mu; the position is the seq
  height,   \* ChainService.height
  bmu,      \* the thread holding BroadcastMu
  dmu,      \* the thread holding LastMessageDateMu
  lastDay,  \* Hub.LastMessageDate
  at, job,  \* where each thread is, and in which procedure
  now,      \* the time a thread read before taking its locks
  pend,     \* the log position a thread has stored and not yet fanned out
  tick,     \* the session behaviorTick is kicking
  day,      \* the calendar
  requests  \* history requests so far

locks == <<bmu, dmu>>
queues == <<frames, missed>>
vars == <<clients, slot, closed, queues, log, height, locks, lastDay,
          at, job, now, pend, tick, day, requests>>

Main(s)  == <<s, "main">>
Leave(s) == <<s, "leave">>
Owner(t) == t[1]
Threads  == Sessions \X {"main", "leave"}
Ids      == {IdentityOf[s] : s \in Sessions} \ {NoOne}

Goto(t, l) == at' = [at EXCEPT ![t] = l]

(* Back in ReadPump's loop. *)
Resume(t) == Goto(t, "live") /\ job' = [job EXCEPT ![t] = "read"]

-----------------------------------------------------------------------------
(* Frames and fanout.                                                      *)

Info(h)  == [kind |-> "info", n |-> h]
LineF(p) == [kind |-> "line", n |-> p]
Reply    == [kind |-> "reply", n |-> 0]
Alert    == [kind |-> "alert", n |-> 0]

Drops == Cardinality(UNION {{s} \X missed[s] : s \in Sessions})

(* One non-blocking send to every session of S; those of F find Send full. *)
SendTo(S, frame) ==
  \E F \in SUBSET S :
    /\ Drops + Cardinality(F) <= MaxDrops
    /\ frames' = [s \in Sessions |-> IF s \in S \ F THEN Append(frames[s], frame) ELSE frames[s]]
    /\ missed' = [s \in Sessions |-> IF s \in F THEN missed[s] \cup {frame} ELSE missed[s]]

Mut_NoEcho(sender, echo) == clients \ {sender}
(* fanout: everyone but the sender, who gets the echo while registered. *)
Recipients(sender, echo) == (clients \ {sender}) \cup (IF echo THEN clients \cap {sender} ELSE {})

Fanout(t, S) == SendTo(S, LineF(pend[t])) /\ pend' = [pend EXCEPT ![t] = 0]

(* Chain.Mu: the next seq, the chain link if any, the append. *)
Store(t, line) ==
  /\ log' = Append(log, line)
  /\ pend' = [pend EXCEPT ![t] = Len(log) + 1]

-----------------------------------------------------------------------------
(* registerClient.                                                         *)

InsertClient(s) ==
  /\ at[Main(s)] = "out"
  /\ clients' = clients \cup {s}
  /\ Goto(Main(s), IF IdentityOf[s] = NoOne THEN "slotted" ELSE "inserted")
  /\ UNCHANGED <<slot, closed, queues, log, height, locks, lastDay, job, now, pend, tick, day, requests>>

(* ActiveIdentities.LoadOrStore *)
ClaimSlot(s) ==
  /\ at[Main(s)] = "inserted"
  /\ LET id == IdentityOf[s] IN
     IF slot[id] = NoOne
     THEN slot' = [slot EXCEPT ![id] = s] /\ Goto(Main(s), "slotted")
     ELSE UNCHANGED slot /\ Goto(Main(s), "rival")
  /\ UNCHANGED <<clients, closed, queues, log, height, locks, lastDay, job, now, pend, tick, day, requests>>

(* alertConcurrentIdentity: loads the holder again, and sends while it is  *)
(* registered, under ClientsMu.                                            *)
AlertHolder(s) ==
  /\ at[Main(s)] = "rival"
  /\ SendTo({slot[IdentityOf[s]]} \cap clients, Alert)
  /\ Goto(Main(s), "takeover")
  /\ UNCHANGED <<clients, slot, closed, log, height, locks, lastDay, job, now, pend, tick, day, requests>>

TakeSlot(s) ==
  /\ at[Main(s)] = "takeover"
  /\ slot' = [slot EXCEPT ![IdentityOf[s]] = s]
  /\ Goto(Main(s), "slotted")
  /\ UNCHANGED <<clients, closed, queues, log, height, locks, lastDay, job, now, pend, tick, day, requests>>

Mut_AnnounceUnlocked(s) ==
  /\ at[Main(s)] = "slotted"
  /\ UNCHANGED bmu
  /\ SendTo({s}, Info(height))
  /\ now' = [now EXCEPT ![Main(s)] = day]
  /\ Goto(Main(s), "date")
  /\ UNCHANGED <<clients, slot, closed, log, height, dmu, lastDay, job, pend, tick, day, requests>>

(* BroadcastMu is held from the history-info frame to the own join. *)
Announce(s) ==
  /\ at[Main(s)] = "slotted"
  /\ bmu = NoOne /\ bmu' = Main(s)
  /\ SendTo({s}, Info(height))
  /\ now' = [now EXCEPT ![Main(s)] = day]
  /\ Goto(Main(s), "date")
  /\ UNCHANGED <<clients, slot, closed, log, height, dmu, lastDay, job, pend, tick, day, requests>>

-----------------------------------------------------------------------------
(* CheckAndBroadcastDate and the notice that follows it.                   *)

Mut_CheckDateNoMark(t) ==
  /\ at[t] = "date" /\ dmu = NoOne
  /\ IF lastDay = now[t]
     THEN Goto(t, "store") /\ UNCHANGED <<dmu, log, pend>>
     ELSE /\ dmu' = t
          /\ Store(t, [kind |-> "banner", n |-> now[t], who |-> NoOne])
          /\ Goto(t, "banner")
  /\ now' = [now EXCEPT ![t] = 0]
  /\ UNCHANGED <<clients, slot, closed, queues, height, bmu, lastDay, job, tick, day, requests>>

CheckDate(t) ==
  /\ at[t] = "date" /\ dmu = NoOne
  /\ IF lastDay = now[t]
     THEN Goto(t, "store") /\ UNCHANGED <<dmu, lastDay, log, pend>>
     ELSE /\ dmu' = t
          /\ lastDay' = now[t]
          /\ Store(t, [kind |-> "banner", n |-> now[t], who |-> NoOne])
          /\ Goto(t, "banner")
  /\ now' = [now EXCEPT ![t] = 0]
  /\ UNCHANGED <<clients, slot, closed, queues, height, bmu, job, tick, day, requests>>

Mut_SendBannerKeepsLock(t) ==
  /\ at[t] = "banner"
  /\ Fanout(t, Recipients(NoOne, FALSE))
  /\ Goto(t, "store")
  /\ UNCHANGED <<clients, slot, closed, log, height, locks, lastDay, job, now, tick, day, requests>>

SendBanner(t) ==
  /\ at[t] = "banner"
  /\ Fanout(t, Recipients(NoOne, FALSE))
  /\ dmu' = NoOne
  /\ Goto(t, "store")
  /\ UNCHANGED <<clients, slot, closed, log, height, bmu, lastDay, job, now, tick, day, requests>>

(* storeSystem, the locked half: a join or leave line is never chained. *)
StoreNotice(t) ==
  /\ at[t] = "store" /\ job[t] \in {"join", "leave"}
  /\ Store(t, [kind |-> job[t], n |-> 0, who |-> Owner(t)])
  /\ Goto(t, "fan")
  /\ UNCHANGED <<clients, slot, closed, queues, height, locks, lastDay, job, now, tick, day, requests>>

(* Its fanout; the joiner hears its own join and then enters ReadPump. *)
SendNotice(t) ==
  /\ at[t] = "fan" /\ job[t] \in {"join", "leave"}
  /\ Fanout(t, Recipients(NoOne, FALSE))
  /\ IF job[t] = "join"
     THEN bmu' = NoOne /\ Resume(t) /\ UNCHANGED tick
     ELSE /\ Goto(t, "done") /\ UNCHANGED <<bmu, job>>
          /\ tick' = IF tick = Owner(t) THEN NoOne ELSE tick
  /\ UNCHANGED <<clients, slot, closed, log, height, dmu, lastDay, now, day, requests>>

-----------------------------------------------------------------------------
(* ReadPump: a chat message, a history request.                            *)

BeginChat(s) ==
  /\ at[Main(s)] = "live"
  /\ height + Cardinality({t \in Threads : job[t] = "chat" /\ at[t] \in {"date", "banner", "store"}})
       < MaxChats
  /\ now' = [now EXCEPT ![Main(s)] = day]
  /\ job' = [job EXCEPT ![Main(s)] = "chat"]
  /\ Goto(Main(s), "date")
  /\ UNCHANGED <<clients, slot, closed, queues, log, height, locks, lastDay, pend, tick, day, requests>>

Mut_LinkUnlocked(t) ==
  /\ at[t] = "store" /\ job[t] = "chat"
  /\ UNCHANGED bmu
  /\ height' = height + 1
  /\ Store(t, [kind |-> "chat", n |-> height + 1, who |-> Owner(t)])
  /\ Goto(t, "fan")
  /\ UNCHANGED <<clients, slot, closed, queues, dmu, lastDay, job, now, tick, day, requests>>

(* BroadcastWire: link and store, then fan out, under BroadcastMu. *)
LinkChat(t) ==
  /\ at[t] = "store" /\ job[t] = "chat"
  /\ bmu = NoOne /\ bmu' = t
  /\ height' = height + 1
  /\ Store(t, [kind |-> "chat", n |-> height + 1, who |-> Owner(t)])
  /\ Goto(t, "fan")
  /\ UNCHANGED <<clients, slot, closed, queues, dmu, lastDay, job, now, tick, day, requests>>

SendChat(t) ==
  /\ at[t] = "fan" /\ job[t] = "chat"
  /\ Fanout(t, Recipients(Owner(t), TRUE))
  /\ bmu' = NoOne
  /\ Resume(t)
  /\ UNCHANGED <<clients, slot, closed, log, height, dmu, lastDay, now, tick, day, requests>>

(* The page is collected outside BroadcastMu. *)
BeginRequest(s, r) ==
  /\ at[Main(s)] = "live" /\ requests < MaxRequests
  /\ requests' = requests + 1
  /\ job' = [job EXCEPT ![Main(s)] = r]
  /\ Goto(Main(s), "reply")
  /\ UNCHANGED <<clients, slot, closed, queues, log, height, locks, lastDay, now, pend, tick, day>>

(* sendReplayPage writes to Send without looking at Clients.  On a closed  *)
(* channel the send panics: the deferred Unlock of serveHistorySeq,        *)
(* -Ranges and -Segment runs, the plain Unlock of the far-cursor path does *)
(* not.  net/http recovers the panic; ReadPump's deferred calls run.       *)
SendReply(s) ==
  /\ at[Main(s)] = "reply" /\ bmu = NoOne
  /\ IF s \in closed
     THEN /\ bmu' = IF job[Main(s)] = "far" THEN Main(s) ELSE NoOne
          /\ Goto(Main(s), "panic")
          /\ UNCHANGED <<queues, job>>
     ELSE /\ SendTo({s}, Reply)
          /\ Resume(Main(s))
          /\ UNCHANGED bmu
  /\ UNCHANGED <<clients, slot, closed, log, height, dmu, lastDay, now, pend, tick, day, requests>>

-----------------------------------------------------------------------------
(* unregisterClient.                                                       *)

Mut_RemoveKeepsClient(s, a) ==
  /\ UNCHANGED clients
  /\ at' = [a EXCEPT ![Leave(s)] = IF @ = "out" THEN "slot" ELSE @]

(* Only the caller that finds the session in Clients removes it and goes on. *)
RemoveClient(s, a) ==
  /\ clients' = clients \ {s}
  /\ at' = [a EXCEPT ![Leave(s)] = IF s \in clients THEN "slot" ELSE @]

(* The connection ends while ReadPump waits for a message (or, right after *)
(* registration, serveAuthenticated's re-check finds the server full).     *)
Disconnect(s) ==
  /\ at[Main(s)] = "live"
  /\ RemoveClient(s, [at EXCEPT ![Main(s)] = "ended"])
  /\ UNCHANGED <<slot, closed, queues, log, height, locks, lastDay, job, now, pend, tick, day, requests>>

(* behaviorTick, one goroutine, kicks a session whose challenge expired    *)
(* during an attack; ReadPump may be in the middle of a message.           *)
Kick(s) ==
  /\ BehaviorEnabled /\ tick = NoOne
  /\ s \in clients
  /\ job[Main(s)] # "join"
  /\ RemoveClient(s, at)
  /\ tick' = s
  /\ UNCHANGED <<slot, closed, queues, log, height, locks, lastDay, job, now, pend, day, requests>>

Mut_KeepSlot(s) ==
  /\ at[Leave(s)] = "slot"
  /\ Goto(Leave(s), "close")
  /\ UNCHANGED <<clients, slot, closed, queues, log, height, locks, lastDay, job, now, pend, tick, day, requests>>

(* ActiveIdentities.Load, compared with this session ... *)
LoadSlot(s) ==
  /\ at[Leave(s)] = "slot"
  /\ Goto(Leave(s), IF IdentityOf[s] # NoOne /\ slot[IdentityOf[s]] = s THEN "owned" ELSE "close")
  /\ UNCHANGED <<clients, slot, closed, queues, log, height, locks, lastDay, job, now, pend, tick, day, requests>>

(* ... and ActiveIdentities.Delete, whatever the slot holds by now. *)
DeleteSlot(s) ==
  /\ at[Leave(s)] = "owned"
  /\ slot' = [slot EXCEPT ![IdentityOf[s]] = NoOne]
  /\ Goto(Leave(s), "close")
  /\ UNCHANGED <<clients, closed, queues, log, height, locks, lastDay, job, now, pend, tick, day, requests>>

(* releaseDisplayName, then close(session.Send): the channel and what it   *)
(* carried are gone.                                                       *)
CloseSend(s) ==
  /\ at[Leave(s)] = "close"
  /\ closed' = closed \cup {s}
  /\ frames' = [frames EXCEPT ![s] = <<>>]
  /\ missed' = [missed EXCEPT ![s] = {}]
  /\ now' = [now EXCEPT ![Leave(s)] = day]
  /\ Goto(Leave(s), "date")
  /\ UNCHANGED <<clients, slot, log, height, locks, lastDay, job, pend, tick, day, requests>>

NewDay ==
  /\ day < MaxDay
  /\ day' = day + 1
  /\ UNCHANGED <<clients, slot, closed, queues, log, height, locks, lastDay, at, job, now, pend, tick, requests>>

-----------------------------------------------------------------------------
Init ==
  /\ clients = {} /\ closed = {}
  /\ slot = [i \in Ids |-> NoOne]
  /\ frames = [s \in Sessions |-> <<>>]
  /\ missed = [s \in Sessions |-> {}]
  /\ log = <<>> /\ height = 0
  /\ bmu = NoOne /\ dmu = NoOne
  /\ lastDay = NoOne
  /\ at = [t \in Threads |-> "out"]
  /\ job = [t \in Threads |-> IF t[2] = "main" THEN "join" ELSE "leave"]
  /\ now = [t \in Threads |-> 0]
  /\ pend = [t \in Threads |-> 0]
  /\ tick = NoOne /\ day = 0 /\ requests = 0

Register(s) == InsertClient(s) \/ ClaimSlot(s) \/ AlertHolder(s) \/ TakeSlot(s) \/ Announce(s)
Unregister(s) == LoadSlot(s) \/ DeleteSlot(s) \/ CloseSend(s)
Broadcast(t) ==
  CheckDate(t) \/ SendBanner(t) \/ StoreNotice(t) \/ SendNotice(t) \/ LinkChat(t) \/ SendChat(t)

Next ==
  \/ \E s \in Sessions :
       \/ Register(s) \/ Unregister(s)
       \/ BeginChat(s) \/ (\E r \in Requests : BeginRequest(s, r)) \/ SendReply(s)
       \/ Disconnect(s) \/ Kick(s)
  \/ \E t \in Threads : Broadcast(t)
  \/ NewDay

Spec == Init /\ [][Next]_vars

(* A goroutine that can run does run, and sync.Mutex does not starve one   *)
(* that waits for it.  Peers need not send, leave or be kicked.            *)
Procedure(t) ==
  LET s == Owner(t) IN
  \/ Broadcast(t)
  \/ t = Main(s) /\ (ClaimSlot(s) \/ AlertHolder(s) \/ TakeSlot(s) \/ Announce(s) \/ SendReply(s))
  \/ t = Leave(s) /\ Unregister(s)

Fairness == \A t \in Threads : SF_vars(Procedure(t))

FairSpec == Spec /\ Fairness

-----------------------------------------------------------------------------
(* Properties.                                                             *)

IsChat(f) == f.kind = "line" /\ log[f.n].kind = "chat"
Delivered(s, f) == \E i \in DOMAIN frames[s] : frames[s][i] = f
InFlight(p) == \E t \in Threads : at[t] = "fan" /\ pend[t] = p

(* unregisterClient removes a session from Clients before it closes Send,  *)
(* so a fanout, an alert or a unicast that finds a session in Clients      *)
(* never sends on a closed channel.                                        *)
ClientsAreOpen == clients \cap closed = {}

(* "every client receives messages in chain order": the chat frames a Send *)
(* channel accepted are in chain order, for every client.                  *)
ChainOrder ==
  \A s \in Sessions : \A i, j \in DOMAIN frames[s] :
    (i < j /\ IsChat(frames[s][i]) /\ IsChat(frames[s][j])) => frames[s][i].n < frames[s][j].n

(* Between the window a joiner is told about and the live lines it gets    *)
(* there is no hole: every chained line above the announced height has     *)
(* reached its channel, or was counted as dropped there, or is still being *)
(* fanned out.                                                             *)
NoGapAfterInfo ==
  \A s \in clients : \A i \in DOMAIN frames[s] : frames[s][i].kind = "info" =>
    \A p \in DOMAIN log :
      (log[p].kind = "chat" /\ log[p].n > frames[s][i].n)
        => Delivered(s, LineF(p)) \/ LineF(p) \in missed[s] \/ InFlight(p)

(* registerClient: "no live chat interleaves before the peer starts        *)
(* paging": none comes between the info frame and the joiner's own join.   *)
QuietJoin ==
  \A s \in Sessions : \A i, j, k \in DOMAIN frames[s] :
    (/\ i < j /\ j < k
     /\ frames[s][i].kind = "info"
     /\ frames[s][k].kind = "line"
     /\ log[frames[s][k].n].kind = "join" /\ log[frames[s][k].n].who = s)
    => ~IsChat(frames[s][j])

(* CheckAndBroadcastDate tests and sets LastMessageDate under one lock, so *)
(* two banners in a row never announce the same day.                       *)
NoRepeatedBanner ==
  \A p, q \in DOMAIN log :
    (/\ p < q /\ log[p].kind = "banner" /\ log[q].kind = "banner"
     /\ \A m \in p + 1 .. q - 1 : log[m].kind # "banner")
    => log[p].n # log[q].n

(* A session that has left no longer holds its identity's slot, or the     *)
(* next login would be announced as concurrent with a ghost.               *)
NoGhostHolder ==
  \A id \in Ids : slot[id] # NoOne => at[Leave(slot[id])] \in {"out", "slot", "owned"}

(* Every registration, broadcast, reply and leave that has begun ends: no  *)
(* order of the locks leaves two threads waiting for each other.           *)
ProceduresFinish ==
  \A t \in Threads :
    at[t] \notin {"out", "live", "ended", "panic", "done"} ~> at[t] \in {"live", "done"}

(* sendReplayPage: it "runs under BroadcastMu, so blocking here would      *)
(* stall every broadcast": a message that waits for BroadcastMu gets it.   *)
BroadcastNeverStalls ==
  \A s \in Sessions :
    (at[Main(s)] = "store" /\ job[Main(s)] = "chat") ~> at[Main(s)] = "live"

(* A join is seamless: registerClient's info frame, the joiner's own join  *)
(* and the live lines follow one another without a hole or an overlap.     *)
SeamlessJoin == NoGapAfterInfo /\ QuietJoin
=============================================================================
