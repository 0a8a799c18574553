----------------------------- MODULE HubProofs -----------------------------
(***************************************************************************)
(* Theorems about Hub, for any sessions, identities and bounds: nothing is *)
(* sent on a closed channel, no identity is held by a session that left,   *)
(* chat arrives in chain order, without a hole after the announced window  *)
(* and not before the own join, and no day is announced twice in a row.    *)
(* The argument: what each thread holds and has pending at each of its     *)
(* steps (Control, Pending), and that only a holder of BroadcastMu fans    *)
(* out chat.                                                               *)
(*                                                                         *)
(* And about Placeholders, for any caps: the sender's screen is true, what *)
(* the hub delivers at its other end.                                      *)
(***************************************************************************)
EXTENDS Hub, Placeholders, SequenceTheorems, FiniteSetTheorems,
        WellFoundedInduction, TLAPS

Labels == {"out", "inserted", "rival", "takeover", "slotted", "date", "banner", "store", "fan",
           "live", "reply", "panic", "ended", "slot", "owned", "close", "done"}
Jobs == {"join", "leave", "read", "chat", "page", "far"}
Frame == [kind : {"info", "line", "reply", "alert"}, n : Nat]
Line == [kind : {"banner", "join", "leave", "chat"}, n : Nat, who : Sessions \cup {NoOne}]

(* Registering, up to the own join; announcing something.                  *)
Entering == {"out", "inserted", "rival", "takeover", "slotted"}
Notifying == {"date", "banner", "store", "fan"}

Types ==
  /\ clients \subseteq Sessions /\ closed \subseteq Sessions
  /\ slot \in [Ids -> Sessions \cup {NoOne}]
  /\ frames \in [Sessions -> Seq(Frame)]
  /\ missed \in [Sessions -> SUBSET Frame]
  /\ log \in Seq(Line) /\ height \in Nat
  /\ at \in [Threads -> Labels] /\ job \in [Threads -> Jobs]
  /\ now \in [Threads -> Nat] /\ pend \in [Threads -> Nat]
  /\ day \in Nat

LEMMA AppendFacts ==
  ASSUME NEW T, NEW q \in Seq(T), NEW e \in T
  PROVE  /\ Append(q, e) \in Seq(T)
         /\ Len(Append(q, e)) = Len(q) + 1
         /\ DOMAIN Append(q, e) = 1 .. (Len(q) + 1)
         /\ DOMAIN q = 1 .. Len(q) /\ Len(q) \in Nat
         /\ \A i \in 1 .. Len(q) : Append(q, e)[i] = q[i]
         /\ Append(q, e)[Len(q) + 1] = e
  OBVIOUS

LEMMA ThreadFacts ==
  /\ \A s \in Sessions : Main(s) \in Threads /\ Leave(s) \in Threads
  /\ \A s \in Sessions : Owner(Main(s)) = s /\ Owner(Leave(s)) = s
  /\ \A s, r \in Sessions : Main(s) # Leave(r)
  /\ \A s, r \in Sessions : (Main(s) = Main(r) => s = r) /\ (Leave(s) = Leave(r) => s = r)
  /\ \A t \in Threads : Owner(t) \in Sessions /\ (t = Main(Owner(t)) \/ t = Leave(Owner(t)))
  /\ NoOne \notin Sessions
  /\ \A s \in Sessions : IdentityOf[s] # NoOne => IdentityOf[s] \in Ids
  /\ \A t \in Threads : t # NoOne
<1>1. /\ \A s \in Sessions : Main(s) \in Threads /\ Leave(s) \in Threads
      /\ \A s \in Sessions : Owner(Main(s)) = s /\ Owner(Leave(s)) = s
      /\ \A s, r \in Sessions : Main(s) # Leave(r)
      /\ \A s, r \in Sessions : (Main(s) = Main(r) => s = r) /\ (Leave(s) = Leave(r) => s = r)
  BY DEF Main, Leave, Owner, Threads
<1>2. \A t \in Threads : Owner(t) \in Sessions /\ (t = Main(Owner(t)) \/ t = Leave(Owner(t)))
  BY DEF Main, Leave, Owner, Threads
<1>3. NoOne \notin Sessions /\ \A t \in Threads : t # NoOne
  BY HubAssumption DEF Threads
<1>4. \A s \in Sessions : IdentityOf[s] # NoOne => IdentityOf[s] \in Ids
  BY DEF Ids
<1> QED BY <1>1, <1>2, <1>3, <1>4

LEMMA TypesInit == Init => Types
  BY ThreadFacts DEF Init, Types, Ids, Threads, Labels, Jobs

LEMMA SendToTypes ==
  ASSUME Types, NEW S, NEW f \in Frame, SendTo(S, f)
  PROVE  frames' \in [Sessions -> Seq(Frame)] /\ missed' \in [Sessions -> SUBSET Frame]
<1>1. PICK F \in SUBSET S :
        /\ frames' = [s \in Sessions |-> IF s \in S \ F THEN Append(frames[s], f) ELSE frames[s]]
        /\ missed' = [s \in Sessions |-> IF s \in F THEN missed[s] \cup {f} ELSE missed[s]]
  BY DEF SendTo
<1>2. \A s \in Sessions : frames[s] \in Seq(Frame) /\ Append(frames[s], f) \in Seq(Frame)
  BY AppendFacts DEF Types
<1>3. frames' \in [Sessions -> Seq(Frame)]
  BY <1>1, <1>2
<1>4. missed' \in [Sessions -> SUBSET Frame]
  BY <1>1 DEF Types
<1> QED BY <1>3, <1>4

LEMMA StoreTypes ==
  ASSUME Types, NEW t \in Threads, NEW x \in Line, Store(t, x)
  PROVE  /\ log' \in Seq(Line) /\ pend' \in [Threads -> Nat]
         /\ log' = Append(log, x) /\ pend'[t] = Len(log) + 1
         /\ \A u \in Threads : u # t => pend'[u] = pend[u]
<1>1. log' = Append(log, x) /\ log' \in Seq(Line) /\ Len(log) \in Nat
  BY AppendFacts DEF Store, Types
<1>2. pend' = [pend EXCEPT ![t] = Len(log) + 1]
  BY DEF Store
<1> QED BY <1>1, <1>2 DEF Types

LEMMA FrameFacts ==
  /\ Alert \in Frame /\ Reply \in Frame /\ \A n \in Nat : Info(n) \in Frame /\ LineF(n) \in Frame
  /\ \A n \in Nat, w \in Sessions \cup {NoOne}, k \in {"banner", "join", "leave", "chat"} :
        [kind |-> k, n |-> n, who |-> w] \in Line
  BY DEF Frame, Line, Alert, Reply, Info, LineF

LEMMA TypesStep == Types /\ [Next]_vars => Types'
<1> SUFFICES ASSUME Types, [Next]_vars PROVE Types'
  OBVIOUS
<1>1. ASSUME NEW s \in Sessions, InsertClient(s) PROVE Types'
  BY <1>1 DEF InsertClient, Goto, locks, queues, Types, Labels, Jobs
<1>2. ASSUME NEW s \in Sessions, ClaimSlot(s) PROVE Types'
  <2>1. CASE slot[IdentityOf[s]] = NoOne
    <3>1. slot' = [slot EXCEPT ![IdentityOf[s]] = s] /\ at' = [at EXCEPT ![Main(s)] = "slotted"]
      BY <1>2, <2>1 DEF ClaimSlot, Goto
    <3> QED BY <1>2, <3>1 DEF ClaimSlot, locks, queues, Types, Labels
  <2>2. CASE slot[IdentityOf[s]] # NoOne
    <3>1. slot' = slot /\ at' = [at EXCEPT ![Main(s)] = "rival"]
      BY <1>2, <2>2 DEF ClaimSlot, Goto
    <3> QED BY <1>2, <3>1 DEF ClaimSlot, locks, queues, Types, Labels
  <2> QED BY <2>1, <2>2
<1>3. ASSUME NEW s \in Sessions, AlertHolder(s) PROVE Types'
  BY <1>3, SendToTypes, FrameFacts DEF AlertHolder, Goto, locks, queues, Types, Labels, Jobs
<1>4. ASSUME NEW s \in Sessions, TakeSlot(s) PROVE Types'
  BY <1>4 DEF TakeSlot, Goto, locks, queues, Types, Labels, Jobs
<1>5. ASSUME NEW s \in Sessions, Announce(s) PROVE Types'
  BY <1>5, SendToTypes, FrameFacts DEF Announce, Goto, locks, queues, Types, Labels, Jobs
<1>6. ASSUME NEW s \in Sessions, LoadSlot(s) PROVE Types'
  BY <1>6 DEF LoadSlot, Goto, locks, queues, Types, Labels, Jobs
<1>7. ASSUME NEW s \in Sessions, DeleteSlot(s) PROVE Types'
  <2>1. slot' \in [Ids -> Sessions \cup {NoOne}] /\ at' \in [Threads -> Labels]
    BY <1>7 DEF DeleteSlot, Goto, Types, Labels
  <2> QED BY <1>7, <2>1 DEF DeleteSlot, locks, queues, Types
<1>8. ASSUME NEW s \in Sessions, CloseSend(s) PROVE Types'
  <2>1. at' \in [Threads -> Labels] /\ now' \in [Threads -> Nat]
    BY <1>8 DEF CloseSend, Goto, Types, Labels
  <2>2. frames' \in [Sessions -> Seq(Frame)] /\ missed' \in [Sessions -> SUBSET Frame]
    BY <1>8 DEF CloseSend, Types
  <2> QED BY <1>8, <2>1, <2>2 DEF CloseSend, locks, Types
<1>9. ASSUME NEW s \in Sessions, BeginChat(s) PROVE Types'
  BY <1>9 DEF BeginChat, Goto, locks, queues, Types, Labels, Jobs
<1>10. ASSUME NEW s \in Sessions, NEW r \in Requests, BeginRequest(s, r) PROVE Types'
  BY <1>10, HubAssumption DEF BeginRequest, Goto, locks, queues, Types, Labels, Jobs
<1>11. ASSUME NEW s \in Sessions, SendReply(s) PROVE Types'
  BY <1>11, SendToTypes, FrameFacts DEF SendReply, Goto, Resume, locks, queues, Types, Labels, Jobs
<1>12. ASSUME NEW s \in Sessions, Disconnect(s) PROVE Types'
  BY <1>12 DEF Disconnect, RemoveClient, locks, queues, Types, Labels, Jobs
<1>13. ASSUME NEW s \in Sessions, Kick(s) PROVE Types'
  BY <1>13 DEF Kick, RemoveClient, locks, queues, Types, Labels, Jobs
<1>14. ASSUME NEW t \in Threads, CheckDate(t) PROVE Types'
  BY <1>14, StoreTypes, FrameFacts DEF CheckDate, Goto, locks, queues, Types, Labels, Jobs
<1>15. ASSUME NEW t \in Threads, SendBanner(t) PROVE Types'
  BY <1>15, SendToTypes, FrameFacts DEF SendBanner, Goto, Fanout, locks, queues, Types, Labels, Jobs
<1>16. ASSUME NEW t \in Threads, StoreNotice(t) PROVE Types'
  BY <1>16, StoreTypes, FrameFacts, ThreadFacts DEF StoreNotice, Goto, locks, queues, Types, Labels, Jobs
<1>17. ASSUME NEW t \in Threads, SendNotice(t) PROVE Types'
  BY <1>17, SendToTypes, FrameFacts DEF SendNotice, Goto, Fanout, Resume, locks, queues, Types, Labels, Jobs
<1>18. ASSUME NEW t \in Threads, LinkChat(t) PROVE Types'
  <2>1. height + 1 \in Nat /\ Owner(t) \in Sessions \cup {NoOne}
    BY ThreadFacts DEF Types
  <2>2. [kind |-> "chat", n |-> height + 1, who |-> Owner(t)] \in Line
    BY <2>1, FrameFacts
  <2>3. log' \in Seq(Line) /\ pend' \in [Threads -> Nat]
    BY <1>18, <2>2, StoreTypes, FrameFacts DEF LinkChat
  <2> QED BY <1>18, <2>1, <2>3 DEF LinkChat, Goto, locks, queues, Types, Labels, Jobs
<1>19. ASSUME NEW t \in Threads, SendChat(t) PROVE Types'
  BY <1>19, SendToTypes, FrameFacts DEF SendChat, Goto, Resume, Fanout, locks, queues, Types, Labels, Jobs
<1>20. CASE NewDay
  BY <1>20 DEF NewDay, locks, queues, Types, Labels, Jobs
<1>21. CASE UNCHANGED vars
  BY <1>21 DEF vars, queues, locks, locks, queues, Types, Labels, Jobs
<1> QED
  BY <1>1, <1>2, <1>3, <1>4, <1>5, <1>6, <1>7, <1>8, <1>9, <1>10, <1>11, <1>12, <1>13, <1>14, <1>15, <1>16, <1>17, <1>18, <1>19, <1>20, <1>21
     DEF Next, Register, Unregister, Broadcast

-----------------------------------------------------------------------------
(* Where the threads are, and what they hold there.                        *)

Jobwise ==
  /\ \A s \in Sessions :
       /\ job[Leave(s)] = "leave" /\ job[Main(s)] # "leave"
       /\ at[Main(s)] \in Entering => job[Main(s)] = "join"
       /\ at[Main(s)] = "live" => job[Main(s)] = "read"
  /\ \A t \in Threads : at[t] \in Notifying => job[t] \in {"join", "chat", "leave"}

(* BroadcastMu: held by a joiner that announces, and by a chat fanout.     *)
Locked ==
  \A t \in Threads :
    /\ at[t] \in Notifying /\ job[t] = "join" => bmu = t
    /\ at[t] = "fan" /\ job[t] = "chat" => bmu = t

(* A session leaves Clients once, and closes its channel after that.       *)
Presence ==
  \A s \in Sessions :
    /\ job[Main(s)] = "join" => at[Leave(s)] = "out"
    /\ s \in clients => at[Main(s)] # "out" /\ at[Leave(s)] = "out"
    /\ s \in closed => at[Leave(s)] \in Notifying \cup {"done"}

Identified ==
  /\ \A s \in Sessions :
       /\ at[Main(s)] \in {"inserted", "rival", "takeover"} => IdentityOf[s] # NoOne
       /\ at[Leave(s)] = "owned" => IdentityOf[s] # NoOne
  /\ \A id \in Ids : slot[id] # NoOne =>
       /\ IdentityOf[slot[id]] = id
       /\ at[Leave(slot[id])] \in {"out", "slot", "owned"}

Control == Types /\ Jobwise /\ Locked /\ Presence /\ Identified

LEMMA ControlInit == Init => Control
<1> SUFFICES ASSUME Init PROVE Control
  OBVIOUS
<1>1. /\ \A s \in Sessions : job[Leave(s)] = "leave" /\ job[Main(s)] = "join"
      /\ \A t \in Threads : at[t] = "out"
  BY DEF Init, Threads, Main, Leave
<1>2. Jobwise /\ Locked /\ Presence
  BY <1>1, ThreadFacts DEF Init, Jobwise, Locked, Presence, Notifying, Entering
<1>3. Identified
  BY <1>1, ThreadFacts DEF Init, Identified
<1> QED BY <1>2, <1>3, TypesInit DEF Control

(* The steps that choose between two outcomes. *)
Others(t) == \A u \in Threads : u # t => at'[u] = at[u] /\ job'[u] = job[u]

CheckDateMove(t) ==
  /\ at[t] = "date" /\ at'[t] \in {"store", "banner"} /\ job'[t] = job[t]
  /\ Others(t)
  /\ clients' = clients /\ slot' = slot /\ closed' = closed /\ bmu' = bmu
  /\ frames' = frames /\ missed' = missed /\ height' = height

LEMMA CheckDateMoves ==
  ASSUME Types, NEW t \in Threads, CheckDate(t)
  PROVE  CheckDateMove(t)
<1>1. CASE lastDay = now[t]
  BY <1>1 DEF CheckDateMove, CheckDate, Goto, queues, Types, Others
<1>2. CASE lastDay # now[t]
  BY <1>2 DEF CheckDateMove, CheckDate, Goto, queues, Types, Others
<1> QED BY <1>1, <1>2

SendNoticeMove(t) ==
  /\ at[t] = "fan" /\ Others(t)
  /\ \/ job[t] = "join" /\ bmu' = NoOne /\ at'[t] = "live" /\ job'[t] = "read"
     \/ job[t] = "leave" /\ bmu' = bmu /\ at'[t] = "done" /\ job'[t] = "leave"
  /\ clients' = clients /\ slot' = slot /\ closed' = closed
  /\ log' = log /\ height' = height

LEMMA SendNoticeMoves ==
  ASSUME Types, NEW t \in Threads, SendNotice(t)
  PROVE  SendNoticeMove(t)
<1>1. CASE job[t] = "join"
  BY <1>1 DEF SendNoticeMove, SendNotice, Goto, Resume, Types, Others
<1>2. CASE job[t] # "join"
  BY <1>2 DEF SendNoticeMove, SendNotice, Goto, Types, Others
<1> QED BY <1>1, <1>2

SendReplyMove(s) ==
  /\ at[Main(s)] = "reply" /\ bmu = NoOne /\ Others(Main(s))
  /\ \/ /\ bmu' \in {NoOne, Main(s)} /\ frames' = frames /\ missed' = missed
        /\ at'[Main(s)] = "panic" /\ job'[Main(s)] = job[Main(s)]
     \/ /\ s \notin closed /\ SendTo({s}, Reply) /\ bmu' = bmu
        /\ at'[Main(s)] = "live" /\ job'[Main(s)] = "read"
  /\ clients' = clients /\ slot' = slot /\ closed' = closed
  /\ log' = log /\ height' = height /\ pend' = pend

LEMMA SendReplyMoves ==
  ASSUME Types, NEW s \in Sessions, SendReply(s)
  PROVE  SendReplyMove(s)
<1>1. Main(s) \in Threads
  BY ThreadFacts
<1>2. CASE s \in closed
  BY <1>1, <1>2 DEF SendReplyMove, SendReply, Goto, queues, Types, Others
<1>3. CASE s \notin closed
  BY <1>1, <1>3 DEF SendReplyMove, SendReply, Goto, Resume, Types, Others
<1> QED BY <1>2, <1>3

LoadSlotMove(s) ==
  /\ at[Leave(s)] = "slot" /\ Others(Leave(s)) /\ job' = job
  /\ \/ IdentityOf[s] # NoOne /\ slot[IdentityOf[s]] = s /\ at'[Leave(s)] = "owned"
     \/ (IdentityOf[s] = NoOne \/ slot[IdentityOf[s]] # s) /\ at'[Leave(s)] = "close"
  /\ clients' = clients /\ slot' = slot /\ closed' = closed

LEMMA LoadSlotMoves ==
  ASSUME Types, NEW s \in Sessions, LoadSlot(s)
  PROVE  LoadSlotMove(s)
<1>1. Leave(s) \in Threads
  BY ThreadFacts
<1>2. CASE IdentityOf[s] # NoOne /\ slot[IdentityOf[s]] = s
  BY <1>1, <1>2 DEF LoadSlotMove, LoadSlot, Goto, Types, Others
<1>3. CASE ~(IdentityOf[s] # NoOne /\ slot[IdentityOf[s]] = s)
  BY <1>1, <1>3 DEF LoadSlotMove, LoadSlot, Goto, Types, Others
<1> QED BY <1>2, <1>3

ClaimSlotMove(s) ==
  /\ at[Main(s)] = "inserted" /\ Others(Main(s)) /\ job' = job
  /\ \/ slot' = [slot EXCEPT ![IdentityOf[s]] = s] /\ at'[Main(s)] = "slotted"
     \/ slot' = slot /\ at'[Main(s)] = "rival"
  /\ clients' = clients /\ closed' = closed

LEMMA ClaimSlotMoves ==
  ASSUME Types, NEW s \in Sessions, ClaimSlot(s)
  PROVE  ClaimSlotMove(s)
<1>1. Main(s) \in Threads
  BY ThreadFacts
<1>2. CASE slot[IdentityOf[s]] = NoOne
  BY <1>1, <1>2 DEF ClaimSlotMove, ClaimSlot, Goto, Types, Others
<1>3. CASE slot[IdentityOf[s]] # NoOne
  BY <1>1, <1>3 DEF ClaimSlotMove, ClaimSlot, Goto, Types, Others
<1> QED BY <1>2, <1>3

LEMMA JobwiseStep == Control /\ [Next]_vars => Jobwise'
<1> SUFFICES ASSUME Control, [Next]_vars PROVE Jobwise'
  OBVIOUS
<1> USE ThreadFacts, HubAssumption DEF Control
<1>a. at \in [Threads -> Labels] /\ job \in [Threads -> Jobs] /\ clients \subseteq Sessions
  BY DEF Types
<1>1. ASSUME NEW s \in Sessions, InsertClient(s) PROVE Jobwise'
  BY <1>1, <1>a DEF InsertClient, Goto, Jobwise, Notifying, Entering
<1>2. ASSUME NEW s \in Sessions, ClaimSlot(s) PROVE Jobwise'
  BY <1>2, <1>a DEF ClaimSlot, Goto, Jobwise, Notifying, Entering
<1>3. ASSUME NEW s \in Sessions, AlertHolder(s) PROVE Jobwise'
  BY <1>3, <1>a DEF AlertHolder, Goto, Jobwise, Notifying, Entering
<1>4. ASSUME NEW s \in Sessions, TakeSlot(s) PROVE Jobwise'
  BY <1>4, <1>a DEF TakeSlot, Goto, Jobwise, Notifying, Entering
<1>5. ASSUME NEW s \in Sessions, Announce(s) PROVE Jobwise'
  BY <1>5, <1>a DEF Announce, Goto, Jobwise, Notifying, Entering
<1>6. ASSUME NEW s \in Sessions, LoadSlot(s) PROVE Jobwise'
  BY <1>6, <1>a DEF LoadSlot, Goto, Jobwise, Notifying, Entering
<1>7. ASSUME NEW s \in Sessions, DeleteSlot(s) PROVE Jobwise'
  BY <1>7, <1>a DEF DeleteSlot, Goto, Jobwise, Notifying, Entering
<1>8. ASSUME NEW s \in Sessions, CloseSend(s) PROVE Jobwise'
  BY <1>8, <1>a DEF CloseSend, Goto, Jobwise, Notifying, Entering
<1>9. ASSUME NEW s \in Sessions, BeginChat(s) PROVE Jobwise'
  BY <1>9, <1>a DEF BeginChat, Goto, Jobwise, Notifying, Entering
<1>10. ASSUME NEW s \in Sessions, NEW r \in Requests, BeginRequest(s, r) PROVE Jobwise'
  BY <1>10, <1>a DEF BeginRequest, Goto, Jobwise, Notifying, Entering
<1>11. ASSUME NEW s \in Sessions, SendReply(s) PROVE Jobwise'
  <2>1. SendReplyMove(s)
    BY <1>11, SendReplyMoves
  <2> QED BY <2>1 DEF SendReplyMove, Others, Jobwise, Notifying, Entering
<1>12. ASSUME NEW s \in Sessions, Disconnect(s) PROVE Jobwise'
  BY <1>12, <1>a DEF Disconnect, RemoveClient, Jobwise, Notifying, Entering
<1>13. ASSUME NEW s \in Sessions, Kick(s) PROVE Jobwise'
  BY <1>13, <1>a DEF Kick, RemoveClient, Jobwise, Notifying, Entering
<1>14. ASSUME NEW t \in Threads, CheckDate(t) PROVE Jobwise'
  <2>1. CheckDateMove(t)
    BY <1>14, CheckDateMoves
  <2> QED BY <2>1 DEF CheckDateMove, Others, Jobwise, Notifying, Entering
<1>15. ASSUME NEW t \in Threads, SendBanner(t) PROVE Jobwise'
  BY <1>15, <1>a DEF SendBanner, Goto, Fanout, Jobwise, Notifying, Entering
<1>16. ASSUME NEW t \in Threads, StoreNotice(t) PROVE Jobwise'
  BY <1>16, <1>a DEF StoreNotice, Goto, Jobwise, Notifying, Entering
<1>17. ASSUME NEW t \in Threads, SendNotice(t) PROVE Jobwise'
  <2>1. SendNoticeMove(t)
    BY <1>17, SendNoticeMoves
  <2> QED BY <2>1 DEF SendNoticeMove, Others, Jobwise, Notifying, Entering
<1>18. ASSUME NEW t \in Threads, LinkChat(t) PROVE Jobwise'
  BY <1>18, <1>a DEF LinkChat, Goto, Jobwise, Notifying, Entering
<1>19. ASSUME NEW t \in Threads, SendChat(t) PROVE Jobwise'
  BY <1>19, <1>a DEF SendChat, Goto, Resume, Fanout, Jobwise, Notifying, Entering
<1>20. CASE NewDay
  BY <1>20, <1>a DEF NewDay, Jobwise, Notifying, Entering
<1>21. CASE UNCHANGED vars
  BY <1>21, <1>a DEF vars, queues, locks, Jobwise, Notifying, Entering
<1> QED
  BY <1>1, <1>2, <1>3, <1>4, <1>5, <1>6, <1>7, <1>8, <1>9, <1>10, <1>11, <1>12, <1>13, <1>14, <1>15, <1>16, <1>17, <1>18, <1>19, <1>20, <1>21
     DEF Next, Register, Unregister, Broadcast

LEMMA LockedStep == Control /\ [Next]_vars => Locked'
<1> SUFFICES ASSUME Control, [Next]_vars PROVE Locked'
  OBVIOUS
<1> USE ThreadFacts, HubAssumption DEF Control
<1>a. at \in [Threads -> Labels] /\ job \in [Threads -> Jobs] /\ clients \subseteq Sessions
  BY DEF Types
<1>1. ASSUME NEW s \in Sessions, InsertClient(s) PROVE Locked'
  BY <1>1, <1>a DEF InsertClient, Goto, Jobwise, Locked, Notifying, Entering, locks
<1>2. ASSUME NEW s \in Sessions, ClaimSlot(s) PROVE Locked'
  BY <1>2, <1>a DEF ClaimSlot, Goto, Jobwise, Locked, Notifying, Entering, locks
<1>3. ASSUME NEW s \in Sessions, AlertHolder(s) PROVE Locked'
  BY <1>3, <1>a DEF AlertHolder, Goto, Jobwise, Locked, Notifying, Entering, locks
<1>4. ASSUME NEW s \in Sessions, TakeSlot(s) PROVE Locked'
  BY <1>4, <1>a DEF TakeSlot, Goto, Jobwise, Locked, Notifying, Entering, locks
<1>5. ASSUME NEW s \in Sessions, Announce(s) PROVE Locked'
  BY <1>5, <1>a DEF Announce, Goto, Jobwise, Locked, Notifying, Entering, locks
<1>6. ASSUME NEW s \in Sessions, LoadSlot(s) PROVE Locked'
  BY <1>6, <1>a DEF LoadSlot, Goto, Jobwise, Locked, Notifying, Entering, locks
<1>7. ASSUME NEW s \in Sessions, DeleteSlot(s) PROVE Locked'
  BY <1>7, <1>a DEF DeleteSlot, Goto, Jobwise, Locked, Notifying, Entering, locks
<1>8. ASSUME NEW s \in Sessions, CloseSend(s) PROVE Locked'
  BY <1>8, <1>a DEF CloseSend, Goto, Jobwise, Locked, Notifying, Entering, locks
<1>9. ASSUME NEW s \in Sessions, BeginChat(s) PROVE Locked'
  BY <1>9, <1>a DEF BeginChat, Goto, Jobwise, Locked, Notifying, Entering, locks
<1>10. ASSUME NEW s \in Sessions, NEW r \in Requests, BeginRequest(s, r) PROVE Locked'
  BY <1>10, <1>a DEF BeginRequest, Goto, Jobwise, Locked, Notifying, Entering, locks
<1>11. ASSUME NEW s \in Sessions, SendReply(s) PROVE Locked'
  <2>1. SendReplyMove(s)
    BY <1>11, SendReplyMoves
  <2> QED BY <2>1 DEF SendReplyMove, Others, Jobwise, Locked, Notifying, Entering, locks
<1>12. ASSUME NEW s \in Sessions, Disconnect(s) PROVE Locked'
  BY <1>12, <1>a DEF Disconnect, RemoveClient, Jobwise, Locked, Notifying, Entering, locks
<1>13. ASSUME NEW s \in Sessions, Kick(s) PROVE Locked'
  BY <1>13, <1>a DEF Kick, RemoveClient, Jobwise, Locked, Notifying, Entering, locks
<1>14. ASSUME NEW t \in Threads, CheckDate(t) PROVE Locked'
  <2>1. CheckDateMove(t)
    BY <1>14, CheckDateMoves
  <2> QED BY <2>1 DEF CheckDateMove, Others, Jobwise, Locked, Notifying, Entering, locks
<1>15. ASSUME NEW t \in Threads, SendBanner(t) PROVE Locked'
  <2>1. Others(t) /\ at[t] = "banner" /\ at'[t] = "store" /\ job'[t] = job[t] /\ bmu' = bmu
    BY <1>15, <1>a DEF SendBanner, Goto, Others, Types
  <2> QED BY <2>1 DEF Others, Locked, Notifying
<1>16. ASSUME NEW t \in Threads, StoreNotice(t) PROVE Locked'
  BY <1>16, <1>a DEF StoreNotice, Goto, Jobwise, Locked, Notifying, Entering, locks
<1>17. ASSUME NEW t \in Threads, SendNotice(t) PROVE Locked'
  <2>1. SendNoticeMove(t)
    BY <1>17, SendNoticeMoves
  <2> QED BY <2>1 DEF SendNoticeMove, Others, Jobwise, Locked, Notifying, Entering, locks
<1>18. ASSUME NEW t \in Threads, LinkChat(t) PROVE Locked'
  <2>1. Others(t) /\ at'[t] = "fan" /\ job'[t] = "chat" /\ job[t] = "chat" /\ bmu = NoOne /\ bmu' = t
    BY <1>18, <1>a DEF LinkChat, Goto, Others, Types
  <2> QED BY <2>1 DEF Others, Locked, Notifying
<1>19. ASSUME NEW t \in Threads, SendChat(t) PROVE Locked'
  BY <1>19, <1>a DEF SendChat, Goto, Resume, Fanout, Jobwise, Locked, Notifying, Entering, locks
<1>20. CASE NewDay
  BY <1>20, <1>a DEF NewDay, Jobwise, Locked, Notifying, Entering, locks
<1>21. CASE UNCHANGED vars
  BY <1>21, <1>a DEF vars, queues, locks, Jobwise, Locked, Notifying, Entering, locks
<1> QED
  BY <1>1, <1>2, <1>3, <1>4, <1>5, <1>6, <1>7, <1>8, <1>9, <1>10, <1>11, <1>12, <1>13, <1>14, <1>15, <1>16, <1>17, <1>18, <1>19, <1>20, <1>21
     DEF Next, Register, Unregister, Broadcast

LEMMA PresenceStep == Control /\ [Next]_vars => Presence'
<1> SUFFICES ASSUME Control, [Next]_vars PROVE Presence'
  OBVIOUS
<1> USE ThreadFacts, HubAssumption DEF Control
<1>a. at \in [Threads -> Labels] /\ job \in [Threads -> Jobs] /\ clients \subseteq Sessions
  BY DEF Types
<1>1. ASSUME NEW s \in Sessions, InsertClient(s) PROVE Presence'
  BY <1>1, <1>a DEF InsertClient, Goto, Jobwise, Presence, Notifying, Entering
<1>2. ASSUME NEW s \in Sessions, ClaimSlot(s) PROVE Presence'
  BY <1>2, <1>a DEF ClaimSlot, Goto, Jobwise, Presence, Notifying, Entering
<1>3. ASSUME NEW s \in Sessions, AlertHolder(s) PROVE Presence'
  BY <1>3, <1>a DEF AlertHolder, Goto, Jobwise, Presence, Notifying, Entering
<1>4. ASSUME NEW s \in Sessions, TakeSlot(s) PROVE Presence'
  BY <1>4, <1>a DEF TakeSlot, Goto, Jobwise, Presence, Notifying, Entering
<1>5. ASSUME NEW s \in Sessions, Announce(s) PROVE Presence'
  BY <1>5, <1>a DEF Announce, Goto, Jobwise, Presence, Notifying, Entering
<1>6. ASSUME NEW s \in Sessions, LoadSlot(s) PROVE Presence'
  BY <1>6, <1>a DEF LoadSlot, Goto, Jobwise, Presence, Notifying, Entering
<1>7. ASSUME NEW s \in Sessions, DeleteSlot(s) PROVE Presence'
  BY <1>7, <1>a DEF DeleteSlot, Goto, Jobwise, Presence, Notifying, Entering
<1>8. ASSUME NEW s \in Sessions, CloseSend(s) PROVE Presence'
  BY <1>8, <1>a DEF CloseSend, Goto, Jobwise, Presence, Notifying, Entering
<1>9. ASSUME NEW s \in Sessions, BeginChat(s) PROVE Presence'
  BY <1>9, <1>a DEF BeginChat, Goto, Jobwise, Presence, Notifying, Entering
<1>10. ASSUME NEW s \in Sessions, NEW r \in Requests, BeginRequest(s, r) PROVE Presence'
  BY <1>10, <1>a DEF BeginRequest, Goto, Jobwise, Presence, Notifying, Entering
<1>11. ASSUME NEW s \in Sessions, SendReply(s) PROVE Presence'
  <2>1. SendReplyMove(s)
    BY <1>11, SendReplyMoves
  <2> QED BY <2>1 DEF SendReplyMove, Others, Jobwise, Presence, Notifying, Entering
<1>12. ASSUME NEW s \in Sessions, Disconnect(s) PROVE Presence'
  BY <1>12, <1>a DEF Disconnect, RemoveClient, Jobwise, Presence, Notifying, Entering
<1>13. ASSUME NEW s \in Sessions, Kick(s) PROVE Presence'
  BY <1>13, <1>a DEF Kick, RemoveClient, Jobwise, Presence, Notifying, Entering
<1>14. ASSUME NEW t \in Threads, CheckDate(t) PROVE Presence'
  <2>1. CheckDateMove(t)
    BY <1>14, CheckDateMoves
  <2> QED BY <2>1 DEF CheckDateMove, Others, Jobwise, Presence, Notifying, Entering
<1>15. ASSUME NEW t \in Threads, SendBanner(t) PROVE Presence'
  BY <1>15, <1>a DEF SendBanner, Goto, Fanout, Jobwise, Presence, Notifying, Entering
<1>16. ASSUME NEW t \in Threads, StoreNotice(t) PROVE Presence'
  BY <1>16, <1>a DEF StoreNotice, Goto, Jobwise, Presence, Notifying, Entering
<1>17. ASSUME NEW t \in Threads, SendNotice(t) PROVE Presence'
  <2>1. SendNoticeMove(t)
    BY <1>17, SendNoticeMoves
  <2> QED BY <2>1 DEF SendNoticeMove, Others, Jobwise, Presence, Notifying, Entering
<1>18. ASSUME NEW t \in Threads, LinkChat(t) PROVE Presence'
  BY <1>18, <1>a DEF LinkChat, Goto, Jobwise, Presence, Notifying, Entering
<1>19. ASSUME NEW t \in Threads, SendChat(t) PROVE Presence'
  BY <1>19, <1>a DEF SendChat, Goto, Resume, Fanout, Jobwise, Presence, Notifying, Entering
<1>20. CASE NewDay
  BY <1>20, <1>a DEF NewDay, Jobwise, Presence, Notifying, Entering
<1>21. CASE UNCHANGED vars
  BY <1>21, <1>a DEF vars, queues, locks, Jobwise, Presence, Notifying, Entering
<1> QED
  BY <1>1, <1>2, <1>3, <1>4, <1>5, <1>6, <1>7, <1>8, <1>9, <1>10, <1>11, <1>12, <1>13, <1>14, <1>15, <1>16, <1>17, <1>18, <1>19, <1>20, <1>21
     DEF Next, Register, Unregister, Broadcast

LEMMA IdentifiedStep == Control /\ [Next]_vars => Identified'
<1> SUFFICES ASSUME Control, [Next]_vars PROVE Identified'
  OBVIOUS
<1> USE ThreadFacts, HubAssumption DEF Control
<1>a. at \in [Threads -> Labels] /\ job \in [Threads -> Jobs] /\ slot \in [Ids -> Sessions \cup {NoOne}]
  BY DEF Types
<1>0. \A id \in Ids : slot[id] \in Sessions \cup {NoOne}
  BY DEF Types
<1>1. ASSUME NEW s \in Sessions, InsertClient(s) PROVE Identified'
  BY <1>1, <1>a DEF InsertClient, Goto, Jobwise, Presence, Identified, Entering
<1>2. ASSUME NEW s \in Sessions, ClaimSlot(s) PROVE Identified'
  <2>1. ClaimSlotMove(s)
    BY <1>2, ClaimSlotMoves
  <2>2. \A id \in Ids : slot'[id] = slot[id] \/ (slot'[id] = s /\ id = IdentityOf[s])
    BY <2>1 DEF ClaimSlotMove, Types
  <2>3. at[Leave(s)] = "out" /\ IdentityOf[s] # NoOne
    BY <2>1 DEF ClaimSlotMove, Jobwise, Presence, Identified, Entering
  <2> QED BY <1>0, <2>1, <2>2, <2>3 DEF ClaimSlotMove, Others, Identified
<1>3. ASSUME NEW s \in Sessions, AlertHolder(s) PROVE Identified'
  BY <1>3, <1>a DEF AlertHolder, Goto, Jobwise, Presence, Identified, Entering
<1>4. ASSUME NEW s \in Sessions, TakeSlot(s) PROVE Identified'
  BY <1>4, <1>a DEF TakeSlot, Goto, Jobwise, Presence, Identified, Entering
<1>5. ASSUME NEW s \in Sessions, Announce(s) PROVE Identified'
  BY <1>5, <1>a DEF Announce, Goto, Jobwise, Presence, Identified, Entering
<1>6. ASSUME NEW s \in Sessions, LoadSlot(s) PROVE Identified'
  <2>1. LoadSlotMove(s)
    BY <1>6, LoadSlotMoves
  <2> QED BY <1>0, <2>1 DEF LoadSlotMove, Others, Identified, Ids
<1>7. ASSUME NEW s \in Sessions, DeleteSlot(s) PROVE Identified'
  BY <1>7, <1>a DEF DeleteSlot, Goto, Jobwise, Presence, Identified, Entering
<1>8. ASSUME NEW s \in Sessions, CloseSend(s) PROVE Identified'
  BY <1>8, <1>a DEF CloseSend, Goto, Jobwise, Presence, Identified, Entering
<1>9. ASSUME NEW s \in Sessions, BeginChat(s) PROVE Identified'
  BY <1>9, <1>a DEF BeginChat, Goto, Jobwise, Presence, Identified, Entering
<1>10. ASSUME NEW s \in Sessions, NEW r \in Requests, BeginRequest(s, r) PROVE Identified'
  BY <1>10, <1>a DEF BeginRequest, Goto, Jobwise, Presence, Identified, Entering
<1>11. ASSUME NEW s \in Sessions, SendReply(s) PROVE Identified'
  <2>1. SendReplyMove(s)
    BY <1>11, SendReplyMoves
  <2> QED BY <1>0, <2>1 DEF SendReplyMove, Others, Jobwise, Presence, Identified, Entering
<1>12. ASSUME NEW s \in Sessions, Disconnect(s) PROVE Identified'
  BY <1>12, <1>a DEF Disconnect, RemoveClient, Jobwise, Presence, Identified, Entering
<1>13. ASSUME NEW s \in Sessions, Kick(s) PROVE Identified'
  BY <1>13, <1>a DEF Kick, RemoveClient, Jobwise, Presence, Identified, Entering
<1>14. ASSUME NEW t \in Threads, CheckDate(t) PROVE Identified'
  <2>1. CheckDateMove(t)
    BY <1>14, CheckDateMoves
  <2> QED BY <1>0, <2>1 DEF CheckDateMove, Others, Jobwise, Presence, Identified, Entering
<1>15. ASSUME NEW t \in Threads, SendBanner(t) PROVE Identified'
  BY <1>15, <1>a DEF SendBanner, Goto, Fanout, Jobwise, Presence, Identified, Entering
<1>16. ASSUME NEW t \in Threads, StoreNotice(t) PROVE Identified'
  BY <1>16, <1>a DEF StoreNotice, Goto, Jobwise, Presence, Identified, Entering
<1>17. ASSUME NEW t \in Threads, SendNotice(t) PROVE Identified'
  <2>1. SendNoticeMove(t)
    BY <1>17, SendNoticeMoves
  <2> QED BY <1>0, <2>1 DEF SendNoticeMove, Others, Jobwise, Presence, Identified, Entering
<1>18. ASSUME NEW t \in Threads, LinkChat(t) PROVE Identified'
  BY <1>18, <1>a DEF LinkChat, Goto, Jobwise, Presence, Identified, Entering
<1>19. ASSUME NEW t \in Threads, SendChat(t) PROVE Identified'
  BY <1>19, <1>a DEF SendChat, Goto, Resume, Fanout, Jobwise, Presence, Identified, Entering
<1>20. CASE NewDay
  BY <1>20, <1>a DEF NewDay, Jobwise, Presence, Identified, Entering
<1>21. CASE UNCHANGED vars
  BY <1>21, <1>a DEF vars, queues, locks, Jobwise, Presence, Identified, Entering
<1> QED
  BY <1>1, <1>2, <1>3, <1>4, <1>5, <1>6, <1>7, <1>8, <1>9, <1>10, <1>11, <1>12, <1>13, <1>14, <1>15, <1>16, <1>17, <1>18, <1>19, <1>20, <1>21
     DEF Next, Register, Unregister, Broadcast


LEMMA ControlStep == Control /\ [Next]_vars => Control'
  BY TypesStep, JobwiseStep, LockedStep, PresenceStep, IdentifiedStep DEF Control

-----------------------------------------------------------------------------
(* What a thread has stored and not yet fanned out.                        *)
Pending ==
  \A t \in Threads :
    /\ at[t] = "banner" => pend[t] \in DOMAIN log /\ log[pend[t]].kind = "banner"
    /\ at[t] = "fan" => /\ pend[t] \in DOMAIN log
                       /\ log[pend[t]].kind = job[t] /\ log[pend[t]].who = Owner(t)

(* A channel is empty until its session is in Clients.                     *)
Fresh == \A s \in Sessions : at[Main(s)] = "out" => frames[s] = <<>>

(* To the channels and the log, a step is one of five kinds: a line is     *)
(* stored, a stored line is fanned out, something else is told to some, a  *)
(* channel is closed, or nothing happens.                                  *)
Keep(u) ==
  /\ at[u] = "fan" => at'[u] = "fan"
  /\ at'[u] \in {"banner", "fan"} => at'[u] = at[u] /\ job'[u] = job[u] /\ pend'[u] = pend[u]

Storing(t, x) ==
  /\ t \in Threads /\ x \in Line
  /\ log' = Append(log, x) /\ pend'[t] = Len(log) + 1
  /\ frames' = frames /\ missed' = missed /\ clients' = clients
  /\ at[t] # "fan" /\ \A u \in Threads : u # t => Keep(u)
  /\ \/ at'[t] = "banner" /\ x.kind = "banner"
     \/ at'[t] = "fan" /\ x.kind = job'[t] /\ x.who = Owner(t)
  /\ IF x.kind = "chat" THEN x.n = height + 1 /\ height' = height + 1 ELSE height' = height

Fanning(t) ==
  /\ t \in Threads /\ at[t] \in {"banner", "fan"} /\ at'[t] \notin {"banner", "fan"}
  /\ SendTo(clients, LineF(pend[t]))
  /\ log' = log /\ height' = height /\ clients' = clients
  /\ \A u \in Threads : u # t => Keep(u)

Telling(S, f) ==
  /\ S \subseteq Sessions /\ f \in Frame /\ f.kind # "line"
  /\ \A s \in S : at[Main(s)] # "out"
  /\ f.kind = "info" => f.n = height /\ \A s \in S : at[Main(s)] = "slotted" /\ at'[Main(s)] = "date"
  /\ SendTo(S, f)
  /\ log' = log /\ height' = height /\ clients' = clients
  /\ \A u \in Threads : Keep(u)

Closing(s) ==
  /\ s \in Sessions /\ s \notin clients
  /\ frames' = [frames EXCEPT ![s] = <<>>] /\ missed' = [missed EXCEPT ![s] = {}]
  /\ log' = log /\ height' = height /\ clients' = clients
  /\ \A u \in Threads : Keep(u)

Silent ==
  /\ frames' = frames /\ missed' = missed /\ log' = log /\ height' = height
  /\ \A s \in clients' : s \in clients \/ at[Main(s)] = "out"
  /\ \A u \in Threads : Keep(u)

Kinds ==
  \/ \E t \in Threads, x \in Line : Storing(t, x)
  \/ \E t \in Threads : Fanning(t)
  \/ \E S \in SUBSET Sessions, f \in Frame : Telling(S, f)
  \/ \E s \in Sessions : Closing(s)
  \/ Silent

LEMMA StepKinds == Control /\ [Next]_vars => Kinds
<1> SUFFICES ASSUME Control, [Next]_vars PROVE Kinds
  OBVIOUS
<1> USE DEF Control
<1>1. ASSUME NEW s \in Sessions, InsertClient(s) PROVE Kinds
  <2>1. Silent
    BY <1>1, ThreadFacts DEF InsertClient, Goto, Silent, Keep, Types, Jobwise, queues
  <2> QED BY <2>1 DEF Kinds
<1>2. ASSUME NEW s \in Sessions, ClaimSlot(s) PROVE Kinds
  <2>1. ClaimSlotMove(s)
    BY <1>2, ClaimSlotMoves
  <2>2. frames' = frames /\ missed' = missed /\ log' = log /\ height' = height /\ pend' = pend
    BY <1>2 DEF ClaimSlot, queues
  <2>3. Silent
    BY <2>1, <2>2 DEF ClaimSlotMove, Others, Silent, Keep
  <2> QED BY <2>3 DEF Kinds
<1>3. ASSUME NEW s \in Sessions, AlertHolder(s) PROVE Kinds
  <2>1. Telling({slot[IdentityOf[s]]} \cap clients, Alert)
    <3>1. \A u \in Threads : Keep(u)
      BY <1>3, ThreadFacts DEF AlertHolder, Goto, Keep, Types
    <3> QED BY <1>3, <3>1, FrameFacts DEF AlertHolder, Telling, Alert, Types, Presence
  <2> QED BY <2>1 DEF Kinds, Telling
<1>4. ASSUME NEW s \in Sessions, TakeSlot(s) PROVE Kinds
  <2>1. Silent
    BY <1>4, ThreadFacts DEF TakeSlot, Goto, Silent, Keep, Types, Jobwise, queues
  <2> QED BY <2>1 DEF Kinds
<1>5. ASSUME NEW s \in Sessions, Announce(s) PROVE Kinds
  <2>1. Telling({s}, Info(height))
    <3>1. \A u \in Threads : Keep(u)
      BY <1>5, ThreadFacts DEF Announce, Goto, Keep, Types
    <3>2. Main(s) \in Threads /\ at'[Main(s)] = "date"
      BY <1>5, ThreadFacts DEF Announce, Goto, Types
    <3> QED BY <1>5, <3>1, <3>2, FrameFacts DEF Announce, Telling, Info, Types
  <2> QED BY <2>1 DEF Kinds, Telling
<1>6. ASSUME NEW s \in Sessions, LoadSlot(s) PROVE Kinds
  <2>1. LoadSlotMove(s)
    BY <1>6, LoadSlotMoves
  <2>2. frames' = frames /\ missed' = missed /\ log' = log /\ height' = height /\ pend' = pend
    BY <1>6 DEF LoadSlot, queues
  <2>3. Silent
    BY <2>1, <2>2 DEF LoadSlotMove, Others, Silent, Keep
  <2> QED BY <2>3 DEF Kinds
<1>7. ASSUME NEW s \in Sessions, DeleteSlot(s) PROVE Kinds
  <2>1. Silent
    BY <1>7, ThreadFacts DEF DeleteSlot, Goto, Silent, Keep, Types, Jobwise, queues
  <2> QED BY <2>1 DEF Kinds
<1>8. ASSUME NEW s \in Sessions, CloseSend(s) PROVE Kinds
  <2>1. Closing(s)
    <3>1. \A u \in Threads : Keep(u)
      BY <1>8, ThreadFacts DEF CloseSend, Goto, Keep, Types
    <3> QED BY <1>8, <3>1 DEF CloseSend, Closing, Presence
  <2> QED BY <2>1 DEF Kinds
<1>9. ASSUME NEW s \in Sessions, BeginChat(s) PROVE Kinds
  <2>1. Silent
    BY <1>9, ThreadFacts DEF BeginChat, Goto, Silent, Keep, Types, Jobwise, queues
  <2> QED BY <2>1 DEF Kinds
<1>10. ASSUME NEW s \in Sessions, NEW r \in Requests, BeginRequest(s, r) PROVE Kinds
  <2>1. Silent
    BY <1>10, ThreadFacts DEF BeginRequest, Goto, Silent, Keep, Types, Jobwise, queues
  <2> QED BY <2>1 DEF Kinds
<1>11. ASSUME NEW s \in Sessions, SendReply(s) PROVE Kinds
  <2>1. SendReplyMove(s)
    BY <1>11, SendReplyMoves
  <2>2. \A u \in Threads : Keep(u)
    BY <2>1, ThreadFacts DEF SendReplyMove, Others, Keep
  <2>3. CASE frames' = frames /\ missed' = missed
    BY <2>1, <2>2, <2>3 DEF SendReplyMove, Silent, Kinds
  <2>4. CASE SendTo({s}, Reply)
    <3>1. Telling({s}, Reply)
      BY <2>1, <2>2, <2>4, FrameFacts DEF SendReplyMove, Telling, Reply
    <3> QED BY <3>1 DEF Kinds, Telling
  <2> QED BY <2>1, <2>3, <2>4 DEF SendReplyMove
<1>12. ASSUME NEW s \in Sessions, Disconnect(s) PROVE Kinds
  <2>1. Silent
    BY <1>12, ThreadFacts DEF Disconnect, RemoveClient, Presence, Silent, Keep, Types, Jobwise, queues
  <2> QED BY <2>1 DEF Kinds
<1>13. ASSUME NEW s \in Sessions, Kick(s) PROVE Kinds
  <2>1. Silent
    BY <1>13, ThreadFacts DEF Kick, RemoveClient, Presence, Silent, Keep, Types, Jobwise, queues
  <2> QED BY <2>1 DEF Kinds
<1>14. ASSUME NEW t \in Threads, CheckDate(t) PROVE Kinds
  <2>1. CheckDateMove(t)
    BY <1>14, CheckDateMoves
  <2>2. CASE lastDay = now[t]
    <3>1. at'[t] = "store" /\ log' = log /\ pend' = pend
      BY <1>14, <2>2 DEF CheckDate, Goto, Types
    <3>2. Silent
      BY <2>1, <3>1 DEF CheckDateMove, Others, Silent, Keep
    <3> QED BY <3>2 DEF Kinds
  <2>3. CASE lastDay # now[t]
    <3> DEFINE x == [kind |-> "banner", n |-> now[t], who |-> NoOne]
    <3>1. x \in Line
      BY FrameFacts DEF Types
    <3>2. Store(t, x)
      BY <1>14, <2>3 DEF CheckDate
    <3> HIDE DEF x
    <3>3. log' = Append(log, x) /\ pend'[t] = Len(log) + 1 /\ \A u \in Threads : u # t => pend'[u] = pend[u]
      BY <3>1, <3>2, StoreTypes
    <3>4. x.kind = "banner" /\ at'[t] = "banner"
      BY <1>14, <2>3 DEF x, CheckDate, Goto, Types
    <3>5. Storing(t, x)
      BY <2>1, <3>1, <3>3, <3>4 DEF CheckDateMove, Others, Storing, Keep
    <3> QED BY <3>1, <3>5 DEF Kinds
  <2> QED BY <2>2, <2>3
<1>15. ASSUME NEW t \in Threads, SendBanner(t) PROVE Kinds
  <2>1. Recipients(NoOne, FALSE) = clients
    BY ThreadFacts DEF Recipients, Types
  <2>2. SendTo(clients, LineF(pend[t])) /\ \A u \in Threads : u # t => pend'[u] = pend[u]
    BY <1>15, <2>1 DEF SendBanner, Fanout, Types
  <2>3. Others(t) /\ at[t] = "banner" /\ at'[t] = "store"
    BY <1>15 DEF SendBanner, Goto, Types, Others
  <2>4. Fanning(t)
    BY <1>15, <2>2, <2>3 DEF SendBanner, Fanning, Others, Keep
  <2> QED BY <2>4 DEF Kinds
<1>16. ASSUME NEW t \in Threads, StoreNotice(t) PROVE Kinds
  <2> DEFINE x == [kind |-> job[t], n |-> 0, who |-> Owner(t)]
  <2>1. x \in Line /\ x.kind # "chat" /\ x.kind = job[t] /\ x.who = Owner(t)
    BY <1>16, FrameFacts, ThreadFacts DEF StoreNotice
  <2>2. Store(t, x)
    BY <1>16 DEF StoreNotice
  <2> HIDE DEF x
  <2>3. log' = Append(log, x) /\ pend'[t] = Len(log) + 1 /\ \A u \in Threads : u # t => pend'[u] = pend[u]
    BY <2>1, <2>2, StoreTypes
  <2>4. Others(t) /\ at[t] = "store" /\ at'[t] = "fan" /\ job'[t] = job[t]
    BY <1>16 DEF StoreNotice, Goto, Types, Others
  <2>5. Storing(t, x)
    BY <1>16, <2>1, <2>3, <2>4 DEF StoreNotice, queues, Others, Storing, Keep
  <2> QED BY <2>1, <2>5 DEF Kinds
<1>17. ASSUME NEW t \in Threads, SendNotice(t) PROVE Kinds
  <2>1. Recipients(NoOne, FALSE) = clients
    BY ThreadFacts DEF Recipients, Types
  <2>2. SendTo(clients, LineF(pend[t])) /\ \A u \in Threads : u # t => pend'[u] = pend[u]
    BY <1>17, <2>1 DEF SendNotice, Fanout, Types
  <2>3. SendNoticeMove(t)
    BY <1>17, SendNoticeMoves
  <2>4. Fanning(t)
    BY <2>2, <2>3 DEF SendNoticeMove, Fanning, Others, Keep
  <2> QED BY <2>4 DEF Kinds
<1>18. ASSUME NEW t \in Threads, LinkChat(t) PROVE Kinds
  <2> DEFINE x == [kind |-> "chat", n |-> height + 1, who |-> Owner(t)]
  <2>1. x \in Line /\ x.kind = "chat" /\ x.n = height + 1 /\ x.who = Owner(t)
    <3>1. height + 1 \in Nat /\ Owner(t) \in Sessions \cup {NoOne}
      BY ThreadFacts DEF Types
    <3> QED BY <3>1, FrameFacts
  <2>2. Store(t, x)
    BY <1>18 DEF LinkChat
  <2> HIDE DEF x
  <2>3. log' = Append(log, x) /\ pend'[t] = Len(log) + 1 /\ \A u \in Threads : u # t => pend'[u] = pend[u]
    BY <2>1, <2>2, StoreTypes
  <2>4. Others(t) /\ at[t] = "store" /\ at'[t] = "fan" /\ job'[t] = "chat"
    BY <1>18 DEF LinkChat, Goto, Types, Others
  <2>5. Storing(t, x)
    BY <1>18, <2>1, <2>3, <2>4 DEF LinkChat, queues, Others, Storing, Keep
  <2> QED BY <2>1, <2>5 DEF Kinds
<1>19. ASSUME NEW t \in Threads, SendChat(t) PROVE Kinds
  <2>1. Recipients(Owner(t), TRUE) = clients
    BY ThreadFacts DEF Recipients, Types
  <2>2. SendTo(clients, LineF(pend[t])) /\ \A u \in Threads : u # t => pend'[u] = pend[u]
    BY <1>19, <2>1 DEF SendChat, Fanout, Types
  <2>3. Others(t) /\ at[t] = "fan" /\ at'[t] = "live"
    BY <1>19 DEF SendChat, Goto, Resume, Types, Others
  <2>4. Fanning(t)
    BY <1>19, <2>2, <2>3 DEF SendChat, Fanning, Others, Keep
  <2> QED BY <2>4 DEF Kinds
<1>20. CASE NewDay
  <2>1. Silent
    BY <1>20 DEF NewDay, Silent, Keep, queues
  <2> QED BY <2>1 DEF Kinds
<1>21. CASE UNCHANGED vars
  <2>1. Silent
    BY <1>21 DEF vars, Silent, Keep, queues
  <2> QED BY <2>1 DEF Kinds
<1> QED
  BY <1>1, <1>2, <1>3, <1>4, <1>5, <1>6, <1>7, <1>8, <1>9, <1>10, <1>11, <1>12, <1>13, <1>14, <1>15, <1>16, <1>17, <1>18, <1>19, <1>20, <1>21
     DEF Next, Register, Unregister, Broadcast

LEMMA LogKeeps ==
  ASSUME Types, Kinds
  PROVE  \A p \in DOMAIN log : p \in DOMAIN log' /\ log'[p] = log[p]
<1>1. ASSUME NEW t \in Threads, NEW x \in Line, Storing(t, x)
      PROVE  \A p \in DOMAIN log : p \in DOMAIN log' /\ log'[p] = log[p]
  <2>1. log \in Seq(Line) /\ log' = Append(log, x)
    BY <1>1 DEF Types, Storing
  <2> QED BY <2>1, AppendFacts
<1>2. CASE log' = log
  BY <1>2
<1> QED BY <1>1, <1>2 DEF Kinds, Fanning, Telling, Closing, Silent

LEMMA PendingStep == Control /\ Pending /\ Kinds => Pending'
<1> SUFFICES ASSUME Control, Pending, Kinds PROVE Pending'
  OBVIOUS
<1>1. \A p \in DOMAIN log : p \in DOMAIN log' /\ log'[p] = log[p]
  BY LogKeeps DEF Control
<1>2. \A u \in Threads : Keep(u) =>
        /\ at'[u] = "banner" => pend'[u] \in DOMAIN log' /\ log'[pend'[u]].kind = "banner"
        /\ at'[u] = "fan" => /\ pend'[u] \in DOMAIN log'
                            /\ log'[pend'[u]].kind = job'[u] /\ log'[pend'[u]].who = Owner(u)
  BY <1>1 DEF Keep, Pending
<1>3. ASSUME NEW t \in Threads, NEW x \in Line, Storing(t, x) PROVE Pending'
  <2>1. pend'[t] \in DOMAIN log' /\ log'[pend'[t]] = x
    BY <1>3, AppendFacts DEF Storing, Types, Control
  <2> QED BY <1>2, <1>3, <2>1 DEF Storing, Pending
<1>4. ASSUME NEW t \in Threads, Fanning(t) PROVE Pending'
  BY <1>2, <1>4 DEF Fanning, Pending
<1>5. CASE \A u \in Threads : Keep(u)
  BY <1>2, <1>5 DEF Pending
<1> QED BY <1>3, <1>4, <1>5 DEF Kinds, Telling, Closing, Silent

-----------------------------------------------------------------------------
(* How the channels grow.                                                  *)

(* The channel of s accepted f, or stayed as it was.                       *)
Accepted(s, f) ==
  /\ Len(frames[s]) \in Nat /\ DOMAIN frames[s] = 1 .. Len(frames[s])
  /\ DOMAIN frames'[s] = 1 .. (Len(frames[s]) + 1)
  /\ \A i \in DOMAIN frames[s] : frames'[s][i] = frames[s][i]
  /\ frames'[s][Len(frames[s]) + 1] = f

LEMMA SendToGrows ==
  ASSUME Types, NEW S, NEW f \in Frame, SendTo(S, f), NEW s \in Sessions
  PROVE  /\ \/ frames'[s] = frames[s] /\ (s \in S => f \in missed'[s])
            \/ s \in S /\ Accepted(s, f)
         /\ missed[s] \subseteq missed'[s]
<1>1. PICK F \in SUBSET S :
        /\ frames' = [r \in Sessions |-> IF r \in S \ F THEN Append(frames[r], f) ELSE frames[r]]
        /\ missed' = [r \in Sessions |-> IF r \in F THEN missed[r] \cup {f} ELSE missed[r]]
  BY DEF SendTo
<1>2. missed'[s] = IF s \in F THEN missed[s] \cup {f} ELSE missed[s]
  BY <1>1
<1>3. CASE s \in S \ F
  <2>1. frames'[s] = Append(frames[s], f) /\ frames[s] \in Seq(Frame)
    BY <1>1, <1>3 DEF Types
  <2>2. Accepted(s, f)
    BY <2>1, AppendFacts DEF Accepted
  <2> QED BY <1>2, <1>3, <2>2
<1>4. CASE s \notin S \ F
  <2>1. frames'[s] = frames[s]
    BY <1>1, <1>4
  <2> QED BY <1>2, <1>4, <2>1
<1> QED BY <1>3, <1>4

Told(s, f) ==
  /\ Accepted(s, f) /\ f.kind # "line"
  /\ f.kind = "info" => at[Main(s)] = "slotted" /\ at'[Main(s)] = "date"

(* Every step lets a channel grow by at most one frame, or empties it.     *)
Growth(s) ==
  \/ frames'[s] = frames[s]
  \/ frames'[s] = <<>>
  \/ \E f \in Frame : Told(s, f)
  \/ \E t \in Threads : Fanning(t) /\ s \in clients /\ Accepted(s, LineF(pend[t]))

LEMMA Grows ==
  ASSUME Types, Kinds, NEW s \in Sessions
  PROVE  Growth(s)
<1>1. ASSUME NEW t \in Threads, Fanning(t) PROVE Growth(s)
  <2>1. LineF(pend[t]) \in Frame /\ SendTo(clients, LineF(pend[t]))
    BY <1>1, FrameFacts DEF Types, Fanning
  <2> QED BY <1>1, <2>1, SendToGrows DEF Growth
<1>2. ASSUME NEW S \in SUBSET Sessions, NEW f \in Frame, Telling(S, f) PROVE Growth(s)
  BY <1>2, SendToGrows DEF Growth, Told, Telling
<1>3. ASSUME NEW r \in Sessions, Closing(r) PROVE Growth(s)
  BY <1>3 DEF Growth, Closing, Types
<1>4. CASE frames' = frames
  BY <1>4 DEF Growth
<1> QED BY <1>1, <1>2, <1>3, <1>4 DEF Kinds, Storing, Silent

(* Every line in a channel is in the log.                                  *)
Known ==
  \A s \in Sessions : \A i \in DOMAIN frames[s] : frames[s][i].kind = "line" => frames[s][i].n \in DOMAIN log

LEMMA KnownStep == Control /\ Pending /\ Known /\ Kinds => Known'
<1> SUFFICES ASSUME Control, Pending, Known, Kinds,
                    NEW s \in Sessions, NEW i \in DOMAIN frames'[s], frames'[s][i].kind = "line"
             PROVE  frames'[s][i].n \in DOMAIN log'
  BY DEF Known
<1>1. Growth(s) /\ \A p \in DOMAIN log : p \in DOMAIN log'
  BY Grows, LogKeeps DEF Control
<1>2. CASE frames'[s] = frames[s]
  BY <1>1, <1>2 DEF Known
<1>3. CASE frames'[s] = <<>>
  BY <1>3
<1>4. ASSUME NEW f \in Frame, Told(s, f) PROVE frames'[s][i].n \in DOMAIN log'
  BY <1>1, <1>4 DEF Told, Accepted, Known
<1>5. ASSUME NEW t \in Threads, Fanning(t), Accepted(s, LineF(pend[t])) PROVE frames'[s][i].n \in DOMAIN log'
  <2>1. pend[t] \in DOMAIN log /\ LineF(pend[t]).n = pend[t]
    BY <1>5 DEF Pending, Fanning, LineF
  <2> QED BY <1>1, <1>5, <2>1 DEF Accepted, Known
<1> QED BY <1>1, <1>2, <1>3, <1>4, <1>5 DEF Growth

(* What an old frame is does not change as the log grows.                  *)
LEMMA SameChat ==
  ASSUME Types, Known, Kinds, NEW s \in Sessions, NEW i \in DOMAIN frames[s]
  PROVE  frames[s][i].kind = "line" => log'[frames[s][i].n] = log[frames[s][i].n]
  BY LogKeeps DEF Known

-----------------------------------------------------------------------------
(* Chat in chain order: a chat line that is being fanned out is newer than *)
(* any in any channel, because only the holder of BroadcastMu does that.   *)

Behind ==
  \A t \in Threads : at[t] = "fan" /\ job[t] = "chat" =>
    \A s \in Sessions : \A i \in DOMAIN frames[s] : IsChat(frames[s][i]) => frames[s][i].n < pend[t]

(* A fanout of a chat line is the one of the holder.                       *)
LEMMA ChatFanout ==
  ASSUME Control, Pending, NEW t \in Threads, Fanning(t), log[pend[t]].kind = "chat"
  PROVE  at[t] = "fan" /\ job[t] = "chat" /\ bmu = t
<1>1. at[t] = "fan" /\ job[t] = "chat"
  BY DEF Fanning, Pending
<1> QED BY <1>1 DEF Control, Locked

LEMMA BehindStep == Control /\ Pending /\ Known /\ Behind /\ Kinds => Behind'
<1> SUFFICES ASSUME Control, Pending, Known, Behind, Kinds,
                    NEW t \in Threads, at'[t] = "fan", job'[t] = "chat",
                    NEW s \in Sessions, NEW i \in DOMAIN frames'[s],
                    frames'[s][i].kind = "line", log'[frames'[s][i].n].kind = "chat"
             PROVE  frames'[s][i].n < pend'[t]
  BY DEF Behind, IsChat
<1>1. ASSUME Keep(t), i \in DOMAIN frames[s], frames'[s][i] = frames[s][i]
      PROVE  frames'[s][i].n < pend'[t]
  <2>1. log[frames[s][i].n].kind = "chat" /\ frames[s][i].kind = "line"
    BY <1>1, SameChat DEF Control
  <2> QED BY <1>1, <2>1 DEF Keep, Behind, IsChat
<1>2. ASSUME NEW u \in Threads, NEW x \in Line, Storing(u, x) PROVE frames'[s][i].n < pend'[t]
  <2>1. CASE u = t
    <3>1. frames'[s][i].n \in DOMAIN log /\ pend'[t] = Len(log) + 1
      BY <1>2, <2>1 DEF Storing, Known
    <3> QED BY <3>1 DEF Control, Types
  <2>2. CASE u # t
    BY <1>1, <1>2, <2>2 DEF Storing
  <2> QED BY <2>1, <2>2
<1>3. ASSUME NEW u \in Threads, Fanning(u) PROVE frames'[s][i].n < pend'[t]
  <2>1. u # t /\ Keep(t) /\ bmu = t
    BY <1>3 DEF Fanning, Keep, Control, Locked
  <2>2. log[pend[u]].kind # "chat"
    BY <1>3, <2>1, ChatFanout
  <2>3. LineF(pend[u]) \in Frame /\ LineF(pend[u]).n = pend[u]
    BY FrameFacts DEF LineF, Control, Types
  <2>4. frames'[s] = frames[s] \/ Accepted(s, LineF(pend[u]))
    BY <1>3, <2>3, SendToGrows DEF Fanning, Control
  <2>5. log' = log
    BY <1>3 DEF Fanning
  <2> QED BY <1>1, <2>1, <2>2, <2>3, <2>4, <2>5 DEF Accepted
<1>4. ASSUME NEW S \in SUBSET Sessions, NEW f \in Frame, Telling(S, f) PROVE frames'[s][i].n < pend'[t]
  <2>1. frames'[s] = frames[s] \/ Accepted(s, f)
    BY <1>4, SendToGrows DEF Telling, Control
  <2> QED BY <1>1, <1>4, <2>1 DEF Accepted, Telling
<1>5. ASSUME NEW r \in Sessions, Closing(r) PROVE frames'[s][i].n < pend'[t]
  <2>1. frames'[s] = frames[s] \/ frames'[s] = <<>>
    BY <1>5 DEF Closing, Control, Types
  <2> QED BY <1>1, <1>5, <2>1 DEF Closing
<1>6. CASE Silent
  BY <1>1, <1>6 DEF Silent
<1> QED BY <1>2, <1>3, <1>4, <1>5, <1>6 DEF Kinds

LEMMA ChainOrderStep == Control /\ Pending /\ Known /\ Behind /\ ChainOrder /\ Kinds => ChainOrder'
<1> SUFFICES ASSUME Control, Pending, Known, Behind, ChainOrder, Kinds, NEW s \in Sessions,
                    NEW i \in DOMAIN frames'[s], NEW j \in DOMAIN frames'[s], i < j,
                    frames'[s][i].kind = "line", log'[frames'[s][i].n].kind = "chat",
                    frames'[s][j].kind = "line", log'[frames'[s][j].n].kind = "chat"
             PROVE  frames'[s][i].n < frames'[s][j].n
  BY DEF ChainOrder, IsChat
<1>1. ASSUME i \in DOMAIN frames[s], j \in DOMAIN frames[s],
             frames'[s][i] = frames[s][i], frames'[s][j] = frames[s][j]
      PROVE  frames'[s][i].n < frames'[s][j].n
  <2>1. IsChat(frames[s][i]) /\ IsChat(frames[s][j])
    BY <1>1, SameChat DEF Control, IsChat
  <2> QED BY <1>1, <2>1 DEF ChainOrder
<1>2. Growth(s)
  BY Grows DEF Control
<1>3. CASE frames'[s] = frames[s] \/ frames'[s] = <<>>
  BY <1>1, <1>3
<1>4. ASSUME NEW f \in Frame, Told(s, f) PROVE frames'[s][i].n < frames'[s][j].n
  <2>1. i # Len(frames[s]) + 1 /\ j # Len(frames[s]) + 1
    BY <1>4 DEF Told, Accepted
  <2> QED BY <1>1, <1>4, <2>1 DEF Told, Accepted
<1>5. ASSUME NEW t \in Threads, Fanning(t), Accepted(s, LineF(pend[t])) PROVE frames'[s][i].n < frames'[s][j].n
  <2>1. i \in DOMAIN frames[s] /\ frames'[s][i] = frames[s][i]
    BY <1>5 DEF Accepted
  <2>2. CASE j = Len(frames[s]) + 1
    <3>1. frames'[s][j].n = pend[t] /\ log' = log
      BY <1>5, <2>2 DEF Accepted, LineF, Fanning
    <3>2. at[t] = "fan" /\ job[t] = "chat"
      BY <1>5, <3>1, ChatFanout
    <3>3. IsChat(frames[s][i])
      BY <2>1, <3>1 DEF IsChat
    <3> QED BY <2>1, <3>1, <3>2, <3>3 DEF Behind
  <2>3. CASE j # Len(frames[s]) + 1
    BY <1>1, <1>5, <2>1, <2>3 DEF Accepted
  <2> QED BY <2>2, <2>3
<1> QED BY <1>2, <1>3, <1>4, <1>5 DEF Growth

-----------------------------------------------------------------------------
(* Joining: from the history-info frame to the own join.                   *)
Joining(s) == at[Main(s)] \in Notifying /\ job[Main(s)] = "join"

Entries ==
  \A s \in Sessions :
    /\ at'[Main(s)] = "out" => at[Main(s)] = "out"
    /\ at'[Main(s)] \in Entering => at[Main(s)] \in Entering
    /\ at'[Main(s)] \in Notifying /\ job'[Main(s)] = "join" => Joining(s) \/ at[Main(s)] = "slotted"

LEMMA EntriesStep == Control /\ [Next]_vars => Entries
<1> SUFFICES ASSUME Control, [Next]_vars PROVE Entries
  OBVIOUS
<1> USE ThreadFacts, HubAssumption DEF Control
<1>a. at \in [Threads -> Labels] /\ job \in [Threads -> Jobs] /\ clients \subseteq Sessions
  BY DEF Types
<1>1. ASSUME NEW s \in Sessions, InsertClient(s) PROVE Entries
  BY <1>1, <1>a DEF InsertClient, Goto, Jobwise, Entries, Joining, Notifying, Entering
<1>2. ASSUME NEW s \in Sessions, ClaimSlot(s) PROVE Entries
  <2>1. ClaimSlotMove(s)
    BY <1>2, ClaimSlotMoves
  <2> QED BY <2>1 DEF ClaimSlotMove, Others, Entries, Joining, Jobwise, Entering, Notifying
<1>3. ASSUME NEW s \in Sessions, AlertHolder(s) PROVE Entries
  BY <1>3, <1>a DEF AlertHolder, Goto, Jobwise, Entries, Joining, Notifying, Entering
<1>4. ASSUME NEW s \in Sessions, TakeSlot(s) PROVE Entries
  BY <1>4, <1>a DEF TakeSlot, Goto, Jobwise, Entries, Joining, Notifying, Entering
<1>5. ASSUME NEW s \in Sessions, Announce(s) PROVE Entries
  BY <1>5, <1>a DEF Announce, Goto, Jobwise, Entries, Joining, Notifying, Entering
<1>6. ASSUME NEW s \in Sessions, LoadSlot(s) PROVE Entries
  <2>1. LoadSlotMove(s)
    BY <1>6, LoadSlotMoves
  <2> QED BY <2>1 DEF LoadSlotMove, Others, Entries, Joining, Jobwise, Entering, Notifying
<1>7. ASSUME NEW s \in Sessions, DeleteSlot(s) PROVE Entries
  BY <1>7, <1>a DEF DeleteSlot, Goto, Jobwise, Entries, Joining, Notifying, Entering
<1>8. ASSUME NEW s \in Sessions, CloseSend(s) PROVE Entries
  BY <1>8, <1>a DEF CloseSend, Goto, Jobwise, Entries, Joining, Notifying, Entering
<1>9. ASSUME NEW s \in Sessions, BeginChat(s) PROVE Entries
  BY <1>9, <1>a DEF BeginChat, Goto, Jobwise, Entries, Joining, Notifying, Entering
<1>10. ASSUME NEW s \in Sessions, NEW r \in Requests, BeginRequest(s, r) PROVE Entries
  BY <1>10, <1>a DEF BeginRequest, Goto, Jobwise, Entries, Joining, Notifying, Entering
<1>11. ASSUME NEW s \in Sessions, SendReply(s) PROVE Entries
  <2>1. SendReplyMove(s)
    BY <1>11, SendReplyMoves
  <2> QED BY <2>1 DEF SendReplyMove, Others, Entries, Joining, Jobwise, Entering, Notifying
<1>12. ASSUME NEW s \in Sessions, Disconnect(s) PROVE Entries
  BY <1>12, <1>a DEF Disconnect, RemoveClient, Jobwise, Entries, Joining, Notifying, Entering
<1>13. ASSUME NEW s \in Sessions, Kick(s) PROVE Entries
  BY <1>13, <1>a DEF Kick, RemoveClient, Jobwise, Entries, Joining, Notifying, Entering
<1>14. ASSUME NEW t \in Threads, CheckDate(t) PROVE Entries
  <2>1. CheckDateMove(t)
    BY <1>14, CheckDateMoves
  <2> QED BY <2>1 DEF CheckDateMove, Others, Entries, Joining, Jobwise, Entering, Notifying
<1>15. ASSUME NEW t \in Threads, SendBanner(t) PROVE Entries
  BY <1>15, <1>a DEF SendBanner, Goto, Jobwise, Entries, Joining, Notifying, Entering
<1>16. ASSUME NEW t \in Threads, StoreNotice(t) PROVE Entries
  BY <1>16, <1>a DEF StoreNotice, Goto, Jobwise, Entries, Joining, Notifying, Entering
<1>17. ASSUME NEW t \in Threads, SendNotice(t) PROVE Entries
  <2>1. SendNoticeMove(t)
    BY <1>17, SendNoticeMoves
  <2> QED BY <2>1 DEF SendNoticeMove, Others, Entries, Joining, Jobwise, Entering, Notifying
<1>18. ASSUME NEW t \in Threads, LinkChat(t) PROVE Entries
  BY <1>18, <1>a DEF LinkChat, Goto, Jobwise, Entries, Joining, Notifying, Entering
<1>19. ASSUME NEW t \in Threads, SendChat(t) PROVE Entries
  BY <1>19, <1>a DEF SendChat, Goto, Resume, Jobwise, Entries, Joining, Notifying, Entering
<1>20. CASE NewDay
  BY <1>20, <1>a DEF NewDay, Jobwise, Entries, Joining, Notifying, Entering
<1>21. CASE UNCHANGED vars
  BY <1>21, <1>a DEF vars, queues, locks, Jobwise, Entries, Joining, Notifying, Entering
<1> QED
  BY <1>1, <1>2, <1>3, <1>4, <1>5, <1>6, <1>7, <1>8, <1>9, <1>10, <1>11, <1>12, <1>13, <1>14, <1>15, <1>16, <1>17, <1>18, <1>19, <1>20, <1>21
     DEF Next, Register, Unregister, Broadcast

LEMMA FreshStep == Control /\ Fresh /\ Kinds /\ Entries => Fresh'
<1> SUFFICES ASSUME Control, Fresh, Kinds, Entries, NEW s \in Sessions, at'[Main(s)] = "out"
             PROVE  frames'[s] = <<>>
  BY DEF Fresh
<1>1. at[Main(s)] = "out" /\ frames[s] = <<>> /\ s \notin clients
  BY DEF Entries, Fresh, Control, Presence
<1>2. ASSUME NEW t \in Threads, Fanning(t) PROVE frames'[s] = <<>>
  <2>1. LineF(pend[t]) \in Frame
    BY FrameFacts DEF Control, Types
  <2> QED BY <1>1, <1>2, <2>1, SendToGrows DEF Fanning, Control
<1>3. ASSUME NEW S \in SUBSET Sessions, NEW f \in Frame, Telling(S, f) PROVE frames'[s] = <<>>
  BY <1>1, <1>3, SendToGrows DEF Telling, Control
<1>4. ASSUME NEW r \in Sessions, Closing(r) PROVE frames'[s] = <<>>
  BY <1>1, <1>4 DEF Closing, Control, Types
<1> QED BY <1>1, <1>2, <1>3, <1>4 DEF Kinds, Storing, Silent

(* No hole above the announced height.                                     *)
Heights == \A p \in DOMAIN log : log[p].kind = "chat" => log[p].n <= height

LEMMA LogTypes ==
  ASSUME Types
  PROVE  \A p \in DOMAIN log : log[p] \in Line /\ log[p].n \in Nat
<1>1. \A p \in DOMAIN log : log[p] \in Line
  BY DEF Types
<1>2. \A x \in Line : x.n \in Nat
  BY DEF Line
<1> QED BY <1>1, <1>2

LEMMA HeightsStep == Types /\ Heights /\ Kinds => Heights'
<1> SUFFICES ASSUME Types, Heights, Kinds PROVE Heights'
  OBVIOUS
<1>1. ASSUME NEW t \in Threads, NEW x \in Line, Storing(t, x) PROVE Heights'
  <2> SUFFICES ASSUME NEW p \in DOMAIN log', log'[p].kind = "chat" PROVE log'[p].n <= height'
    BY DEF Heights
  <2>1. /\ DOMAIN log' = 1 .. (Len(log) + 1) /\ DOMAIN log = 1 .. Len(log) /\ Len(log) \in Nat
        /\ log'[Len(log) + 1] = x /\ \A q \in 1 .. Len(log) : log'[q] = log[q]
    BY <1>1, AppendFacts DEF Types, Storing
  <2>2. CASE p = Len(log) + 1
    BY <1>1, <2>1, <2>2 DEF Storing, Types
  <2>3. CASE p # Len(log) + 1
    <3>1. p \in DOMAIN log /\ log'[p] = log[p]
      BY <2>1, <2>3
    <3>2. log[p] \in Line /\ log[p].n \in Nat
      BY <3>1, LogTypes
    <3>3. height' \in {height, height + 1} /\ height \in Nat
      BY <1>1 DEF Storing, Types
    <3> QED BY <3>1, <3>2, <3>3 DEF Heights
  <2> QED BY <2>2, <2>3
<1>2. CASE log' = log /\ height' = height
  BY <1>2 DEF Heights
<1> QED BY <1>1, <1>2 DEF Kinds, Fanning, Telling, Closing, Silent

LEMMA NoGapStep ==
  Control /\ Types' /\ Pending /\ Fresh /\ Heights /\ NoGapAfterInfo /\ Kinds => NoGapAfterInfo'
<1> SUFFICES ASSUME Control, Types', Pending, Fresh, Heights, NoGapAfterInfo, Kinds,
                    NEW s \in clients', NEW i \in DOMAIN frames'[s], frames'[s][i].kind = "info",
                    NEW p \in DOMAIN log', log'[p].kind = "chat", log'[p].n > frames'[s][i].n
             PROVE  Delivered(s, LineF(p))' \/ LineF(p) \in missed'[s] \/ InFlight(p)'
  BY DEF NoGapAfterInfo, LineF, Delivered
<1> USE DEF Control
<1>1. ASSUME s \in clients, i \in DOMAIN frames[s], frames'[s][i] = frames[s][i],
             p \in DOMAIN log, log'[p] = log[p]
      PROVE  Delivered(s, LineF(p)) \/ LineF(p) \in missed[s] \/ InFlight(p)
  BY <1>1 DEF NoGapAfterInfo
<1>2. ASSUME InFlight(p), \A u \in Threads : at[u] = "fan" /\ pend[u] = p => Keep(u)
      PROVE  InFlight(p)'
  <2>1. PICK u \in Threads : at[u] = "fan" /\ pend[u] = p
    BY <1>2 DEF InFlight
  <2>2. at'[u] = "fan" /\ pend'[u] = p
    BY <1>2, <2>1 DEF Keep
  <2> QED BY <2>2 DEF InFlight
<1>3. ASSUME NEW t \in Threads, NEW x \in Line, Storing(t, x)
      PROVE  Delivered(s, LineF(p))' \/ LineF(p) \in missed'[s] \/ InFlight(p)'
  <2>1. /\ DOMAIN log' = 1 .. (Len(log) + 1) /\ DOMAIN log = 1 .. Len(log) /\ Len(log) \in Nat
        /\ log'[Len(log) + 1] = x /\ \A q \in 1 .. Len(log) : log'[q] = log[q]
    BY <1>3, AppendFacts DEF Types, Storing
  <2>2. CASE p = Len(log) + 1
    <3>1. at'[t] = "fan" /\ pend'[t] = p
      BY <1>3, <2>1, <2>2 DEF Storing
    <3> QED BY <3>1 DEF InFlight
  <2>3. CASE p # Len(log) + 1
    <3>1. Delivered(s, LineF(p)) \/ LineF(p) \in missed[s] \/ InFlight(p)
      BY <1>1, <1>3, <2>1, <2>3 DEF Storing
    <3>2. Delivered(s, LineF(p)) => Delivered(s, LineF(p))'
      BY <1>3 DEF Delivered, Storing, LineF
    <3>3. InFlight(p) => InFlight(p)'
      BY <1>2, <1>3 DEF Storing
    <3> QED BY <1>3, <3>1, <3>2, <3>3 DEF Storing
  <2> QED BY <2>2, <2>3
<1>4. ASSUME NEW t \in Threads, Fanning(t)
      PROVE  Delivered(s, LineF(p))' \/ LineF(p) \in missed'[s] \/ InFlight(p)'
  <2>1. s \in clients /\ s \in Sessions /\ log' = log
    BY <1>4 DEF Fanning, Types
  <2>2. LineF(pend[t]) \in Frame /\ LineF(pend[t]).kind = "line"
    BY FrameFacts DEF LineF, Types
  <2>3. /\ (frames'[s] = frames[s] /\ LineF(pend[t]) \in missed'[s]) \/ Accepted(s, LineF(pend[t]))
        /\ missed[s] \subseteq missed'[s]
    BY <1>4, <2>1, <2>2, SendToGrows DEF Fanning
  <2>4. i \in DOMAIN frames[s] /\ frames'[s][i] = frames[s][i]
    BY <2>2, <2>3 DEF Accepted
  <2>5. Delivered(s, LineF(p)) \/ LineF(p) \in missed[s] \/ InFlight(p)
    BY <1>1, <2>1, <2>4
  <2>6. Delivered(s, LineF(p)) => Delivered(s, LineF(p))'
    BY <2>3 DEF Delivered, Accepted, LineF
  <2>7. CASE pend[t] = p
    <3>1. CASE Accepted(s, LineF(pend[t]))
      <4>1. Len(frames[s]) + 1 \in DOMAIN frames'[s] /\ frames'[s][Len(frames[s]) + 1] = LineF(p)
        BY <2>7, <3>1 DEF Accepted
      <4> QED BY <4>1 DEF Delivered, LineF
    <3> QED BY <2>3, <2>7, <3>1
  <2>8. CASE pend[t] # p
    <3>1. InFlight(p) => InFlight(p)'
      BY <1>2, <1>4, <2>8 DEF Fanning
    <3> QED BY <2>3, <2>5, <2>6, <3>1
  <2> QED BY <2>7, <2>8
<1>5. ASSUME NEW S \in SUBSET Sessions, NEW f \in Frame, Telling(S, f)
      PROVE  Delivered(s, LineF(p))' \/ LineF(p) \in missed'[s] \/ InFlight(p)'
  <2>1. s \in clients /\ s \in Sessions /\ log' = log
    BY <1>5 DEF Telling, Types
  <2>2. frames'[s] = frames[s] \/ (s \in S /\ Accepted(s, f))
    BY <1>5, <2>1, SendToGrows DEF Telling
  <2>3. missed[s] \subseteq missed'[s]
    BY <1>5, <2>1, SendToGrows DEF Telling
  <2>4. i \in DOMAIN frames[s] /\ frames'[s][i] = frames[s][i]
    <3>1. CASE Accepted(s, f) /\ i = Len(frames[s]) + 1
      <4>1. frames'[s][i].n = height /\ log[p].n <= height
        BY <1>5, <2>1, <3>1 DEF Accepted, Telling, Heights
      <4>2. log[p] \in Line /\ log[p].n \in Nat /\ height \in Nat
        BY <2>1, LogTypes DEF Types
      <4> QED BY <2>1, <4>1, <4>2
    <3> QED BY <2>2, <3>1 DEF Accepted
  <2>5. Delivered(s, LineF(p)) \/ LineF(p) \in missed[s] \/ InFlight(p)
    BY <1>1, <2>1, <2>4
  <2>6. Delivered(s, LineF(p)) => Delivered(s, LineF(p))'
    BY <2>2 DEF Delivered, Accepted, LineF
  <2>7. InFlight(p) => InFlight(p)'
    BY <1>2, <1>5 DEF Telling
  <2> QED BY <2>3, <2>5, <2>6, <2>7
<1>6. CASE frames'[s] = frames[s] /\ missed'[s] = missed[s] /\ log' = log /\ s \in clients /\ \A u \in Threads : Keep(u)
  <2>1. Delivered(s, LineF(p)) \/ LineF(p) \in missed[s] \/ InFlight(p)
    BY <1>1, <1>6
  <2>2. Delivered(s, LineF(p)) => Delivered(s, LineF(p))'
    BY <1>6 DEF Delivered, LineF
  <2>3. InFlight(p) => InFlight(p)'
    BY <1>2, <1>6
  <2> QED BY <1>6, <2>1, <2>2, <2>3
<1>7. ASSUME NEW r \in Sessions, Closing(r)
      PROVE  Delivered(s, LineF(p))' \/ LineF(p) \in missed'[s] \/ InFlight(p)'
  BY <1>6, <1>7 DEF Closing, Types
<1>8. CASE Silent
  <2>1. CASE s \in clients
    BY <1>6, <1>8, <2>1 DEF Silent
  <2>2. CASE s \notin clients
    <3>1. s \in Sessions => frames[s] = <<>>
      BY <1>8, <2>2 DEF Silent, Fresh
    <3>2. frames' = frames
      BY <1>8 DEF Silent
    <3> QED BY <3>1, <3>2 DEF Types
  <2> QED BY <2>1, <2>2
<1> QED BY <1>3, <1>4, <1>5, <1>7, <1>8 DEF Kinds

-----------------------------------------------------------------------------
(* No chat between the info frame and the own join: the joiner holds       *)
(* BroadcastMu.                                                            *)
QuietSoFar ==
  \A s \in Sessions :
    /\ at[Main(s)] \in Entering => \A i \in DOMAIN frames[s] : frames[s][i].kind # "info"
    /\ Joining(s) => \A i, j \in DOMAIN frames[s] :
         i < j /\ frames[s][i].kind = "info" => ~IsChat(frames[s][j])

LEMMA QuietSoFarStep ==
  Control /\ Pending /\ Known /\ QuietSoFar /\ Kinds /\ Entries => QuietSoFar'
<1> SUFFICES ASSUME Control, Pending, Known, QuietSoFar, Kinds, Entries, NEW s \in Sessions
             PROVE  /\ at'[Main(s)] \in Entering => \A i \in DOMAIN frames'[s] : frames'[s][i].kind # "info"
                    /\ at'[Main(s)] \in Notifying /\ job'[Main(s)] = "join" =>
                         \A i, j \in DOMAIN frames'[s] : i < j /\ frames'[s][i].kind = "info" =>
                            ~(frames'[s][j].kind = "line" /\ log'[frames'[s][j].n].kind = "chat")
  BY DEF QuietSoFar, Joining, IsChat
<1> USE DEF Control
<1>1. Growth(s)
  BY Grows
<1>2. ASSUME at'[Main(s)] \in Entering, NEW i \in DOMAIN frames'[s] PROVE frames'[s][i].kind # "info"
  <2>1. \A k \in DOMAIN frames[s] : frames[s][k].kind # "info"
    BY <1>2 DEF Entries, QuietSoFar
  <2>2. ASSUME NEW f \in Frame, Told(s, f) PROVE frames'[s][i].kind # "info"
    BY <1>2, <2>1, <2>2 DEF Told, Accepted, Entering
  <2>3. ASSUME NEW t \in Threads, Accepted(s, LineF(pend[t])) PROVE frames'[s][i].kind # "info"
    BY <2>1, <2>3 DEF Accepted, LineF
  <2>4. CASE frames'[s] = frames[s] \/ frames'[s] = <<>>
    BY <2>1, <2>4
  <2> QED BY <1>1, <2>2, <2>3, <2>4 DEF Growth
<1>3. ASSUME at'[Main(s)] \in Notifying, job'[Main(s)] = "join",
             NEW i \in DOMAIN frames'[s], NEW j \in DOMAIN frames'[s], i < j,
             frames'[s][i].kind = "info",
             frames'[s][j].kind = "line", log'[frames'[s][j].n].kind = "chat"
      PROVE  FALSE
  <2>1. Joining(s) \/ \A k \in DOMAIN frames[s] : frames[s][k].kind # "info"
    BY <1>3 DEF Entries, QuietSoFar, Entering
  <2>2. ASSUME i \in DOMAIN frames[s], j \in DOMAIN frames[s],
               frames'[s][i] = frames[s][i], frames'[s][j] = frames[s][j]
        PROVE  FALSE
    <3>1. IsChat(frames[s][j])
      BY <1>3, <2>2, SameChat DEF IsChat
    <3> QED BY <1>3, <2>1, <2>2, <3>1 DEF QuietSoFar
  <2>3. CASE frames'[s] = frames[s] \/ frames'[s] = <<>>
    BY <1>3, <2>2, <2>3
  <2>4. ASSUME NEW f \in Frame, Told(s, f) PROVE FALSE
    <3>1. j # Len(frames[s]) + 1
      BY <1>3, <2>4 DEF Told, Accepted
    <3> QED BY <1>3, <2>2, <2>4, <3>1 DEF Told, Accepted
  <2>5. ASSUME NEW t \in Threads, Fanning(t), Accepted(s, LineF(pend[t])) PROVE FALSE
    <3>1. i \in DOMAIN frames[s] /\ frames'[s][i] = frames[s][i]
      BY <1>3, <2>5 DEF Accepted
    <3>2. CASE j = Len(frames[s]) + 1
      <4>1. log[pend[t]].kind = "chat"
        BY <1>3, <2>5, <3>2 DEF Accepted, LineF, Fanning
      <4>2. bmu = t /\ job[t] = "chat"
        BY <2>5, <4>1, ChatFanout
      <4>3. Joining(s)
        BY <1>3, <2>1, <3>1
      <4>4. bmu = Main(s) /\ job[Main(s)] = "join"
        BY <4>3, ThreadFacts DEF Joining, Locked
      <4> QED BY <4>2, <4>4
    <3> QED BY <1>3, <2>2, <2>5, <3>1, <3>2 DEF Accepted
  <2> QED BY <1>1, <2>3, <2>4, <2>5 DEF Growth
<1> QED BY <1>2, <1>3

LEMMA QuietJoinStep ==
  Control /\ Pending /\ Known /\ QuietSoFar /\ QuietJoin /\ Kinds => QuietJoin'
<1> SUFFICES ASSUME Control, Pending, Known, QuietSoFar, QuietJoin, Kinds, NEW s \in Sessions,
                    NEW i \in DOMAIN frames'[s], NEW j \in DOMAIN frames'[s], NEW k \in DOMAIN frames'[s],
                    i < j, j < k, frames'[s][i].kind = "info", frames'[s][k].kind = "line",
                    log'[frames'[s][k].n].kind = "join", log'[frames'[s][k].n].who = s,
                    frames'[s][j].kind = "line", log'[frames'[s][j].n].kind = "chat"
             PROVE  FALSE
  BY DEF QuietJoin, IsChat
<1> USE DEF Control
<1>1. ASSUME i \in DOMAIN frames[s], j \in DOMAIN frames[s], k \in DOMAIN frames[s],
             frames'[s][i] = frames[s][i], frames'[s][j] = frames[s][j], frames'[s][k] = frames[s][k]
      PROVE  FALSE
  <2>1. IsChat(frames[s][j]) /\ log'[frames[s][k].n] = log[frames[s][k].n]
    BY <1>1, SameChat DEF IsChat
  <2> QED BY <1>1, <2>1 DEF QuietJoin
<1>2. Growth(s)
  BY Grows
<1>3. CASE frames'[s] = frames[s] \/ frames'[s] = <<>>
  BY <1>1, <1>3
<1>4. ASSUME NEW f \in Frame, Told(s, f) PROVE FALSE
  <2>1. k # Len(frames[s]) + 1
    BY <1>4 DEF Told, Accepted
  <2> QED BY <1>1, <1>4, <2>1 DEF Told, Accepted
<1>5. ASSUME NEW t \in Threads, Fanning(t), Accepted(s, LineF(pend[t])) PROVE FALSE
  <2>1. /\ i \in DOMAIN frames[s] /\ frames'[s][i] = frames[s][i]
        /\ j \in DOMAIN frames[s] /\ frames'[s][j] = frames[s][j]
    BY <1>5 DEF Accepted
  <2>2. CASE k = Len(frames[s]) + 1
    <3>1. log[pend[t]].kind = "join" /\ log[pend[t]].who = s /\ log' = log
      BY <1>5, <2>2 DEF Accepted, LineF, Fanning
    <3>2. at[t] = "fan" /\ job[t] = "join" /\ Owner(t) = s
      BY <1>5, <3>1 DEF Fanning, Pending
    <3>3. t = Main(s)
      BY <3>2, ThreadFacts DEF Jobwise
    <3>4. Joining(s) /\ IsChat(frames[s][j])
      BY <2>1, <3>1, <3>2, <3>3 DEF Joining, Notifying, IsChat
    <3> QED BY <2>1, <3>4 DEF QuietSoFar
  <2> QED BY <1>1, <1>5, <2>1, <2>2 DEF Accepted
<1> QED BY <1>2, <1>3, <1>4, <1>5 DEF Growth

-----------------------------------------------------------------------------
(* The date banner: LastMessageDate is what the last banner said.          *)
LastBanner ==
  \A p \in DOMAIN log :
    (log[p].kind = "banner" /\ \A q \in p + 1 .. Len(log) : log[q].kind # "banner") => log[p].n = lastDay

BannerMoves ==
  \/ log' = log /\ lastDay' = lastDay
  \/ \E x \in Line : /\ log' = Append(log, x)
                     /\ \/ x.kind # "banner" /\ lastDay' = lastDay
                        \/ x.kind = "banner" /\ x.n = lastDay' /\ lastDay' # lastDay

LEMMA BannerSteps == Control /\ [Next]_vars => BannerMoves
<1> SUFFICES ASSUME Control, [Next]_vars PROVE BannerMoves
  OBVIOUS
<1> USE DEF Control
<1>1. ASSUME NEW s \in Sessions, InsertClient(s) PROVE BannerMoves
  BY <1>1 DEF InsertClient, BannerMoves, queues
<1>2. ASSUME NEW s \in Sessions, ClaimSlot(s) PROVE BannerMoves
  BY <1>2 DEF ClaimSlot, BannerMoves, queues
<1>3. ASSUME NEW s \in Sessions, AlertHolder(s) PROVE BannerMoves
  BY <1>3 DEF AlertHolder, BannerMoves, queues
<1>4. ASSUME NEW s \in Sessions, TakeSlot(s) PROVE BannerMoves
  BY <1>4 DEF TakeSlot, BannerMoves, queues
<1>5. ASSUME NEW s \in Sessions, Announce(s) PROVE BannerMoves
  BY <1>5 DEF Announce, BannerMoves, queues
<1>6. ASSUME NEW s \in Sessions, LoadSlot(s) PROVE BannerMoves
  BY <1>6 DEF LoadSlot, BannerMoves, queues
<1>7. ASSUME NEW s \in Sessions, DeleteSlot(s) PROVE BannerMoves
  BY <1>7 DEF DeleteSlot, BannerMoves, queues
<1>8. ASSUME NEW s \in Sessions, CloseSend(s) PROVE BannerMoves
  BY <1>8 DEF CloseSend, BannerMoves, queues
<1>9. ASSUME NEW s \in Sessions, BeginChat(s) PROVE BannerMoves
  BY <1>9 DEF BeginChat, BannerMoves, queues
<1>10. ASSUME NEW s \in Sessions, NEW r \in Requests, BeginRequest(s, r) PROVE BannerMoves
  BY <1>10 DEF BeginRequest, BannerMoves, queues
<1>11. ASSUME NEW s \in Sessions, SendReply(s) PROVE BannerMoves
  BY <1>11 DEF SendReply, BannerMoves, queues
<1>12. ASSUME NEW s \in Sessions, Disconnect(s) PROVE BannerMoves
  BY <1>12 DEF Disconnect, BannerMoves, queues
<1>13. ASSUME NEW s \in Sessions, Kick(s) PROVE BannerMoves
  BY <1>13 DEF Kick, BannerMoves, queues
<1>14. ASSUME NEW t \in Threads, CheckDate(t) PROVE BannerMoves
  <2> DEFINE x == [kind |-> "banner", n |-> now[t], who |-> NoOne]
  <2>1. x \in Line /\ x.kind = "banner" /\ x.n = now[t]
    BY FrameFacts DEF Types
  <2>2. CASE lastDay = now[t]
    BY <1>14, <2>2 DEF CheckDate, BannerMoves
  <2>3. CASE lastDay # now[t]
    <3>1. log' = Append(log, x) /\ lastDay' = now[t]
      BY <1>14, <2>3 DEF CheckDate, Store
    <3> HIDE DEF x
    <3> QED BY <2>1, <2>3, <3>1 DEF BannerMoves
  <2> QED BY <2>2, <2>3
<1>15. ASSUME NEW t \in Threads, SendBanner(t) PROVE BannerMoves
  BY <1>15 DEF SendBanner, BannerMoves, queues
<1>16. ASSUME NEW t \in Threads, StoreNotice(t) PROVE BannerMoves
  <2> DEFINE x == [kind |-> job[t], n |-> 0, who |-> Owner(t)]
  <2>1. x \in Line /\ x.kind # "banner"
    BY <1>16, FrameFacts, ThreadFacts DEF StoreNotice
  <2>2. log' = Append(log, x) /\ lastDay' = lastDay
    BY <1>16 DEF StoreNotice, Store
  <2> HIDE DEF x
  <2> QED BY <2>1, <2>2 DEF BannerMoves
<1>17. ASSUME NEW t \in Threads, SendNotice(t) PROVE BannerMoves
  BY <1>17 DEF SendNotice, BannerMoves, queues
<1>18. ASSUME NEW t \in Threads, LinkChat(t) PROVE BannerMoves
  <2> DEFINE x == [kind |-> "chat", n |-> height + 1, who |-> Owner(t)]
  <2>1. x \in Line /\ x.kind # "banner"
    <3>1. height + 1 \in Nat /\ Owner(t) \in Sessions \cup {NoOne}
      BY ThreadFacts DEF Types
    <3> QED BY <3>1, FrameFacts
  <2>2. log' = Append(log, x) /\ lastDay' = lastDay
    BY <1>18 DEF LinkChat, Store
  <2> HIDE DEF x
  <2> QED BY <2>1, <2>2 DEF BannerMoves
<1>19. ASSUME NEW t \in Threads, SendChat(t) PROVE BannerMoves
  BY <1>19 DEF SendChat, BannerMoves, queues
<1>20. CASE NewDay
  BY <1>20 DEF NewDay, BannerMoves, queues
<1>21. CASE UNCHANGED vars
  BY <1>21 DEF vars, BannerMoves
<1> QED
  BY <1>1, <1>2, <1>3, <1>4, <1>5, <1>6, <1>7, <1>8, <1>9, <1>10, <1>11, <1>12, <1>13, <1>14, <1>15, <1>16, <1>17, <1>18, <1>19, <1>20, <1>21
     DEF Next, Register, Unregister, Broadcast

LEMMA BannerStep ==
  Types /\ LastBanner /\ NoRepeatedBanner /\ BannerMoves => LastBanner' /\ NoRepeatedBanner'
<1> SUFFICES ASSUME Types, LastBanner, NoRepeatedBanner, BannerMoves PROVE LastBanner' /\ NoRepeatedBanner'
  OBVIOUS
<1>1. CASE log' = log /\ lastDay' = lastDay
  BY <1>1 DEF LastBanner, NoRepeatedBanner
<1>2. ASSUME NEW x \in Line, log' = Append(log, x),
             \/ x.kind # "banner" /\ lastDay' = lastDay
             \/ x.kind = "banner" /\ x.n = lastDay' /\ lastDay' # lastDay
      PROVE  LastBanner' /\ NoRepeatedBanner'
  <2>1. /\ DOMAIN log' = 1 .. (Len(log) + 1) /\ Len(log') = Len(log) + 1
        /\ DOMAIN log = 1 .. Len(log) /\ Len(log) \in Nat
        /\ log'[Len(log) + 1] = x /\ \A q \in 1 .. Len(log) : log'[q] = log[q]
    BY <1>2, AppendFacts DEF Types
  <2>2. LastBanner'
    BY <1>2, <2>1 DEF LastBanner
  <2>3. NoRepeatedBanner'
    <3> SUFFICES ASSUME NEW p \in DOMAIN log', NEW q \in DOMAIN log', p < q,
                        log'[p].kind = "banner", log'[q].kind = "banner",
                        \A m \in p + 1 .. q - 1 : log'[m].kind # "banner"
                 PROVE  log'[p].n # log'[q].n
      BY DEF NoRepeatedBanner
    <3>1. p \in DOMAIN log /\ log'[p] = log[p]
      BY <2>1
    <3>2. CASE q = Len(log) + 1
      <4>1. \A m \in p + 1 .. Len(log) : log[m].kind # "banner"
        BY <2>1, <3>1, <3>2
      <4>2. log[p].n = lastDay
        BY <3>1, <4>1 DEF LastBanner
      <4> QED BY <1>2, <2>1, <3>1, <3>2, <4>2
    <3>3. CASE q # Len(log) + 1
      <4>1. q \in DOMAIN log /\ log'[q] = log[q]
        BY <2>1, <3>3
      <4>2. \A m \in p + 1 .. q - 1 : log[m].kind # "banner"
        BY <2>1, <3>1, <4>1
      <4> QED BY <3>1, <4>1, <4>2 DEF NoRepeatedBanner
    <3> QED BY <3>2, <3>3
  <2> QED BY <2>2, <2>3
<1> QED BY <1>1, <1>2 DEF BannerMoves

-----------------------------------------------------------------------------
HubInv ==
  /\ Control /\ Pending /\ Fresh /\ Known /\ Heights
  /\ Behind /\ ChainOrder /\ NoGapAfterInfo
  /\ QuietSoFar /\ QuietJoin
  /\ LastBanner /\ NoRepeatedBanner

LEMMA HubInit == Init => HubInv
<1> SUFFICES ASSUME Init PROVE HubInv
  OBVIOUS
<1>1. Control
  BY ControlInit
<1>2. /\ \A t \in Threads : at[t] = "out"
      /\ \A s \in Sessions : frames[s] = <<>> /\ at[Main(s)] = "out"
      /\ log = <<>> /\ clients = {}
  BY ThreadFacts DEF Init
<1>3. Pending /\ Fresh /\ Known /\ Heights /\ Behind /\ LastBanner /\ NoRepeatedBanner
  BY <1>2 DEF Pending, Fresh, Known, Heights, Behind, LastBanner, NoRepeatedBanner
<1>4. ChainOrder /\ NoGapAfterInfo /\ QuietJoin
  BY <1>2 DEF ChainOrder, NoGapAfterInfo, QuietJoin
<1>5. QuietSoFar
  BY <1>2 DEF QuietSoFar, Joining, Notifying
<1> QED BY <1>1, <1>3, <1>4, <1>5 DEF HubInv

LEMMA HubStep == HubInv /\ [Next]_vars => HubInv'
<1> SUFFICES ASSUME HubInv, [Next]_vars PROVE HubInv'
  OBVIOUS
<1>1. Control /\ Types /\ Control' /\ Types'
  BY ControlStep DEF HubInv, Control
<1>2. Kinds /\ Entries /\ BannerMoves
  BY <1>1, StepKinds, EntriesStep, BannerSteps
<1>3. Pending' /\ Fresh' /\ Known' /\ Heights'
  BY <1>1, <1>2, PendingStep, FreshStep, KnownStep, HeightsStep DEF HubInv
<1>4. Behind' /\ ChainOrder' /\ NoGapAfterInfo'
  BY <1>1, <1>2, BehindStep, ChainOrderStep, NoGapStep DEF HubInv
<1>5. QuietSoFar' /\ QuietJoin' /\ LastBanner' /\ NoRepeatedBanner'
  BY <1>1, <1>2, QuietSoFarStep, QuietJoinStep, BannerStep DEF HubInv
<1> QED BY <1>1, <1>3, <1>4, <1>5 DEF HubInv

THEOREM HubInvariant == Spec => []HubInv
  BY HubInit, HubStep, PTL DEF Spec

(* registerClient, unregisterClient and the fanouts never meet on a closed *)
(* channel: no session in Clients has had its Send closed, whoever removed *)
(* it and in whatever order the two halves of a leave ran.                 *)
THEOREM NeverSendsClosed == Spec => []ClientsAreOpen
<1>1. HubInv => ClientsAreOpen
  BY DEF HubInv, Control, Presence, Types, ClientsAreOpen, Notifying
<1> QED BY <1>1, HubInvariant, PTL

(* An identity's slot is never left with a session that has gone, although *)
(* unregisterClient loads and deletes it in two steps.                     *)
THEOREM SlotsAreAlive == Spec => []NoGhostHolder
<1>1. HubInv => NoGhostHolder
  BY DEF HubInv, Control, Identified, NoGhostHolder
<1> QED BY <1>1, HubInvariant, PTL

(* BroadcastWire's lock makes every client receive chat in chain order,    *)
(* for any number of sessions that join, chat, leave and are kicked.       *)
THEOREM ChatInOrder == Spec => []ChainOrder
<1>1. HubInv => ChainOrder
  BY DEF HubInv
<1> QED BY <1>1, HubInvariant, PTL

(* registerClient announces a height and holds BroadcastMu up to the own   *)
(* join: no chat comes between the two, and every chained line above the   *)
(* announced height was sent, counted as dropped or is on its way.         *)
THEOREM JoinIsSeamless == Spec => []SeamlessJoin
<1>1. HubInv => SeamlessJoin
  BY DEF HubInv, SeamlessJoin
<1> QED BY <1>1, HubInvariant, PTL

(* CheckAndBroadcastDate never announces one day twice in a row.           *)
THEOREM BannersDiffer == Spec => []NoRepeatedBanner
<1>1. HubInv => NoRepeatedBanner
  BY DEF HubInv
<1> QED BY <1>1, HubInvariant, PTL

-----------------------------------------------------------------------------
(* The sender's screen.                                                     *)
Words == Texts \cup {""} \cup Nat
Rows  == [kind : {"notice", "line", "typed", "pending"}, text : Words, quote : BOOLEAN, of : Nat]
Slots == [index : Nat, row : Rows]
Sents == [id : Nat, quote : BOOLEAN]
Waits == [id : Nat, slot : Slots, quote : BOOLEAN]
Echoes == [id : Nat, old : BOOLEAN]
Mine  == {"typed", "pending"}

Pasts == [gone : SUBSET Nat, moved : SUBSET Nat, confirmed : SUBSET Nat, answered : SUBSET Nat,
          warned : SUBSET Nat, forgotten : SUBSET Nat, cancelled : SUBSET Nat]

Hands == [at : {"idle", "typed", "drawn", "sent", "ended"}, text : Words, id : Nat, slot : Slots]

IdsOf(q) == {q[i].id : i \in 1 .. Len(q)}
Distinct(q) == \A i, j \in 1 .. Len(q) : q[i].id = q[j].id => i = j

ScreenTyped ==
  /\ buf \in Seq(Rows) /\ older \in Nat /\ typed \in Nat /\ lines \in Nat /\ quoted \in BOOLEAN
  /\ loop \in Hands
  /\ waiting \in Seq(Waits) /\ stash \in Seq(Echoes) /\ seen \in Seq(Nat)
  /\ wire \in Seq(Sents) /\ held \in Seq(Sents)
  /\ past \in Pasts

(* No remembered row is one of the server's.                                *)
SlotsOwn ==
  /\ loop.slot.row.kind # "line"
  /\ \A i \in 1 .. Len(waiting) : waiting[i].slot.row.kind # "line"

Active == loop.at \in {"typed", "drawn", "sent"}

(* The message in hand, and the ones that wait, are not confirmed.          *)
Unconfirmed ==
  /\ past.confirmed \subseteq 1 .. typed
  /\ Active => loop.id = typed /\ typed > 0 /\ typed \notin past.confirmed \cup IdsOf(waiting)
  /\ IdsOf(waiting) \subseteq (1 .. typed) \ past.confirmed /\ Distinct(waiting)

(* The row of a message that was not moved is the one at its slot, unless   *)
(* the echo of another message with the same text took it; below that of    *)
(* the message in hand there is none of the sender's.                       *)
Fixed(b, spot, id) ==
  /\ spot.index \in 1 .. Len(b) /\ spot.row.of = id /\ spot.row.kind \in Mine
  /\ \/ b[spot.index] = spot.row
     \/ b[spot.index].kind = "line" /\ \A j \in 1 .. Len(b) : b[j].kind \in Mine => b[j].of # id
RowsInPlace ==
  /\ past.moved \subseteq 1 .. typed /\ (typed \in past.moved => 1 .. typed \subseteq past.moved)
  /\ \A i \in 1 .. Len(buf) : buf[i].kind \in Mine => buf[i].of \in 1 .. typed
  /\ \A i \in 1 .. Len(buf) : buf[i].kind \in Mine /\ buf[i].of \notin past.moved =>
       /\ buf[i].of \notin past.confirmed
       /\ \A j \in 1 .. Len(buf) : buf[j].kind \in Mine /\ buf[j].of = buf[i].of => i = j
  /\ Active /\ typed \notin past.moved =>
       /\ Fixed(buf, loop.slot, typed)
       /\ \A j \in loop.slot.index + 1 .. Len(buf) : buf[j].kind \notin Mine
  /\ \A i \in 1 .. Len(waiting) :
       waiting[i].id \notin past.moved =>
         /\ Fixed(buf, waiting[i].slot, waiting[i].id)
         /\ Active => waiting[i].slot.index < loop.slot.index

(* Where the other half of an echo that is still to come is.                *)
Expected(m) ==
  \/ loop.at = "sent" /\ m.id = typed /\ (m.quote = quoted \/ m.id \in past.cancelled)
  \/ \E i \in 1 .. Len(waiting) : waiting[i].id = m.id /\ (waiting[i].quote = m.quote \/ m.id \in past.cancelled)
  \/ m.id \in past.forgotten \cup Range(seen)

(* A message is confirmed, answered and on its way at most once.            *)
EchoIds ==
  /\ Range(seen) \subseteq past.confirmed /\ past.answered \subseteq 1 .. typed
  /\ IdsOf(wire) \cup IdsOf(held) \subseteq (1 .. typed) \ past.answered
  /\ Distinct(wire) /\ Distinct(held) /\ IdsOf(wire) \cap IdsOf(held) = {}
  /\ IdsOf(stash) \subseteq past.answered /\ Distinct(stash)
  /\ loop.at \in {"typed", "drawn"} => typed \notin IdsOf(wire) \cup IdsOf(held) \cup past.answered

EchoesMeet ==
  /\ \A i \in 1 .. Len(wire) : Expected(wire[i])
  /\ \A i \in 1 .. Len(held) : Expected(held[i])

(* An early echo waits for the message in hand, and is not stale before it. *)
StashMeets ==
  /\ loop.at = "sent" /\ typed \in past.answered => typed \in past.forgotten \cup IdsOf(stash)
  /\ \A i \in 1 .. Len(stash) :
       /\ stash[i].id \in past.forgotten \cup past.cancelled \/ (loop.at = "sent" /\ stash[i].id = typed)
       /\ loop.at = "sent" /\ stash[i].id = typed => ~stash[i].old

EchoInv == Unconfirmed /\ EchoIds /\ EchoesMeet /\ StashMeets /\ NoneWaitsInVain /\ WarningsAreEarned

ScreenInv == ScreenTyped /\ SlotsOwn /\ EchoInv /\ RowsInPlace /\ EveryLineShown

-----------------------------------------------------------------------------
(* The operations on sequences.                                             *)
Less == {ss \in Nat \X Nat : ss[1] < ss[2]}

LEMMA LessIsWellFounded == IsWellFoundedOn(Less, Nat)
<1>1. OpToRel(<, Nat) = Less
  BY Zenon DEF OpToRel, Less
<1> QED BY <1>1, NatLessThanWellFounded, Zenon

LEMMA LeastNumber == \A T \in SUBSET Nat : T # {} => \E m \in T : \A k \in T : m <= k
<1> SUFFICES ASSUME NEW T \in SUBSET Nat, T # {} PROVE \E m \in T : \A k \in T : m <= k
  OBVIOUS
<1>1. \E x \in T : \A y \in T : ~(<<y, x>> \in Less)
  BY LessIsWellFounded, WFMin, Zenon
<1>2. PICK m \in T : \A y \in T : ~(<<y, m>> \in Less)
  BY <1>1
<1>3. \A a, b \in Nat : a < b => <<a, b>> \in Less
  BY DEF Less
<1> HIDE DEF Less
<1>4. \A k \in T : ~(k < m)
  BY <1>2, <1>3
<1>5. \A k \in T : m <= k
  BY <1>4
<1> QED BY <1>5

LEMMA CutFacts ==
  ASSUME NEW S, NEW s \in Seq(S), NEW m \in 1 .. Len(s) + 1, NEW n \in m - 1 .. Len(s)
  PROVE  /\ SubSeq(s, m, n) \in Seq(S) /\ Len(SubSeq(s, m, n)) = n - m + 1
         /\ \A i \in 1 .. n - m + 1 : SubSeq(s, m, n)[i] = s[i + (m - 1)]
<1>1. m \in Int /\ n \in Int /\ Len(s) \in Nat
  OBVIOUS
<1>2. \A i \in m .. n : s[i] \in S
  BY <1>1
<1>3. /\ SubSeq(s, m, n) \in Seq(S) /\ Len(SubSeq(s, m, n)) = IF m <= n THEN n - m + 1 ELSE 0
      /\ \A i \in 1 .. n - m + 1 : SubSeq(s, m, n)[i] = s[m + i - 1]
  BY <1>1, <1>2, SubSeqProperties
<1>4. \A i \in 1 .. n - m + 1 : m + i - 1 = i + (m - 1)
  BY <1>1
<1> QED BY <1>1, <1>3, <1>4

LEMMA RemoveFacts ==
  ASSUME NEW S, NEW s \in Seq(S), NEW k \in 1 .. Len(s)
  PROVE  /\ RemoveAt(s, k) \in Seq(S) /\ Len(RemoveAt(s, k)) = Len(s) - 1
         /\ \A j \in 1 .. Len(s) - 1 : RemoveAt(s, k)[j] = IF j < k THEN s[j] ELSE s[j + 1]
<1> DEFINE a == SubSeq(s, 1, k - 1)
           c == SubSeq(s, k + 1, Len(s))
<1>0. /\ Len(s) \in Nat /\ 1 \in 1 .. Len(s) + 1 /\ k - 1 \in 1 - 1 .. Len(s)
      /\ k + 1 \in 1 .. Len(s) + 1 /\ Len(s) \in (k + 1) - 1 .. Len(s)
  OBVIOUS
<1>1. a \in Seq(S) /\ Len(a) = k - 1 /\ \A j \in 1 .. k - 1 : a[j] = s[j]
  <2>1. /\ a \in Seq(S) /\ Len(a) = (k - 1) - 1 + 1
        /\ \A j \in 1 .. (k - 1) - 1 + 1 : a[j] = s[j + (1 - 1)]
    BY <1>0, CutFacts
  <2> HIDE DEF a
  <2> QED BY <2>1
<1>2. c \in Seq(S) /\ Len(c) = Len(s) - k /\ \A j \in 1 .. Len(s) - k : c[j] = s[j + k]
  <2>1. /\ c \in Seq(S) /\ Len(c) = Len(s) - (k + 1) + 1
        /\ \A j \in 1 .. Len(s) - (k + 1) + 1 : c[j] = s[j + ((k + 1) - 1)]
    BY <1>0, CutFacts
  <2> HIDE DEF c
  <2>2. Len(s) - (k + 1) + 1 = Len(s) - k /\ (k + 1) - 1 = k
    BY <1>0
  <2> QED BY <2>1, <2>2
<1> HIDE DEF a, c
<1>3. /\ a \o c \in Seq(S) /\ Len(a \o c) = Len(s) - 1
      /\ \A i \in 1 .. Len(s) - 1 : (a \o c)[i] = IF i <= k - 1 THEN a[i] ELSE c[i - (k - 1)]
  <2>1. /\ a \o c \in Seq(S) /\ Len(a \o c) = Len(a) + Len(c)
        /\ \A i \in 1 .. Len(a) + Len(c) : (a \o c)[i] = IF i <= Len(a) THEN a[i] ELSE c[i - Len(a)]
    BY <1>1, <1>2, ConcatProperties
  <2>2. Len(a) + Len(c) = Len(s) - 1
    BY <1>0, <1>1, <1>2
  <2> QED BY <1>1, <2>1, <2>2
<1>4. ASSUME NEW j \in 1 .. Len(s) - 1 PROVE (a \o c)[j] = IF j < k THEN s[j] ELSE s[j + 1]
  <2>1. CASE j < k
    BY <1>0, <1>1, <1>3, <2>1
  <2>2. CASE j >= k
    <3>1. (a \o c)[j] = c[j - (k - 1)]
      BY <1>0, <1>3, <2>2
    <3>2. c[j - (k - 1)] = s[(j - (k - 1)) + k]
      BY <1>2, <2>2
    <3>3. (j - (k - 1)) + k = j + 1 /\ ~(j < k)
      BY <1>0, <2>2
    <3> QED BY <3>1, <3>2, <3>3, Zenon
  <2>3. j < k \/ j >= k
    BY <1>0
  <2> QED BY <2>1, <2>2, <2>3, Zenon
<1> QED BY <1>3, <1>4 DEF RemoveAt, a, c

LEMMA InsertFacts ==
  ASSUME NEW S, NEW s \in Seq(S), NEW k \in 1 .. Len(s) + 1, NEW e \in S
  PROVE  /\ InsertAt(s, k, e) \in Seq(S) /\ Len(InsertAt(s, k, e)) = Len(s) + 1
         /\ \A j \in 1 .. Len(s) + 1 :
              InsertAt(s, k, e)[j] = IF j < k THEN s[j] ELSE IF j = k THEN e ELSE s[j - 1]
<1> DEFINE a == SubSeq(s, 1, k - 1)
           c == SubSeq(s, k, Len(s))
           d == a \o <<e>>
<1>0. /\ Len(s) \in Nat /\ 1 \in 1 .. Len(s) + 1 /\ k - 1 \in 1 - 1 .. Len(s)
      /\ Len(s) \in k - 1 .. Len(s)
  OBVIOUS
<1>1. a \in Seq(S) /\ Len(a) = k - 1 /\ \A j \in 1 .. k - 1 : a[j] = s[j]
  <2>1. /\ a \in Seq(S) /\ Len(a) = (k - 1) - 1 + 1
        /\ \A j \in 1 .. (k - 1) - 1 + 1 : a[j] = s[j + (1 - 1)]
    BY <1>0, CutFacts
  <2> HIDE DEF a
  <2> QED BY <2>1
<1>2. c \in Seq(S) /\ Len(c) = Len(s) - (k - 1) /\ \A j \in 1 .. Len(c) : c[j] = s[j + (k - 1)]
  <2>1. /\ c \in Seq(S) /\ Len(c) = Len(s) - k + 1
        /\ \A j \in 1 .. Len(s) - k + 1 : c[j] = s[j + (k - 1)]
    BY <1>0, CutFacts
  <2> HIDE DEF c
  <2> QED BY <1>0, <2>1
<1> HIDE DEF a, c
<1>3. d \in Seq(S) /\ Len(d) = k /\ d[k] = e /\ \A j \in 1 .. k - 1 : d[j] = s[j]
  BY <1>1
<1> HIDE DEF d
<1>4. /\ d \o c \in Seq(S) /\ Len(d \o c) = Len(s) + 1
      /\ \A i \in 1 .. Len(s) + 1 : (d \o c)[i] = IF i <= k THEN d[i] ELSE c[i - k]
  <2>1. /\ d \o c \in Seq(S) /\ Len(d \o c) = Len(d) + Len(c)
        /\ \A i \in 1 .. Len(d) + Len(c) : (d \o c)[i] = IF i <= Len(d) THEN d[i] ELSE c[i - Len(d)]
    BY <1>2, <1>3, ConcatProperties
  <2>2. Len(d) + Len(c) = Len(s) + 1
    BY <1>0, <1>2, <1>3
  <2> QED BY <1>3, <2>1, <2>2
<1>5. ASSUME NEW j \in 1 .. Len(s) + 1
      PROVE  (d \o c)[j] = IF j < k THEN s[j] ELSE IF j = k THEN e ELSE s[j - 1]
  <2>1. CASE j <= k
    BY <1>0, <1>3, <1>4, <2>1
  <2>2. CASE j > k
    <3>1. (d \o c)[j] = c[j - k]
      BY <1>0, <1>4, <2>2
    <3>2. c[j - k] = s[(j - k) + (k - 1)]
      BY <1>2, <2>2
    <3>3. (j - k) + (k - 1) = j - 1 /\ ~(j < k) /\ j # k
      BY <1>0, <2>2
    <3> QED BY <3>1, <3>2, <3>3, Zenon
  <2>3. j <= k \/ j > k
    BY <1>0
  <2> QED BY <2>1, <2>2, <2>3, Zenon
<1> QED BY <1>4, <1>5 DEF InsertAt, a, c, d

LEMMA ReplaceFacts ==
  ASSUME NEW S, NEW s \in Seq(S), NEW k \in 1 .. Len(s), NEW e \in S
  PROVE  /\ ReplaceAt(s, k, e) \in Seq(S) /\ Len(ReplaceAt(s, k, e)) = Len(s)
         /\ \A j \in 1 .. Len(s) : ReplaceAt(s, k, e)[j] = IF j = k THEN e ELSE s[j]
BY DEF ReplaceAt

LEMMA AppendedFacts ==
  ASSUME NEW S, NEW s \in Seq(S), NEW e \in S
  PROVE  /\ Append(s, e) \in Seq(S) /\ Len(Append(s, e)) = Len(s) + 1
         /\ \A j \in 1 .. Len(s) + 1 : Append(s, e)[j] = IF j = Len(s) + 1 THEN e ELSE s[j]
OBVIOUS

LEMMA TailFacts ==
  ASSUME NEW S, NEW s \in Seq(S), s # <<>>
  PROVE  /\ Tail(s) \in Seq(S) /\ Len(Tail(s)) = Len(s) - 1 /\ Len(s) > 0
         /\ \A j \in 1 .. Len(s) - 1 : Tail(s)[j] = s[j + 1]
         /\ Head(s) = s[1] /\ Head(s) \in S
OBVIOUS

(* What is left of a queue when entries leave it.                           *)
Left(q, s) ==
  /\ \A i \in 1 .. Len(q) : \E j \in 1 .. Len(s) : q[i] = s[j]
  /\ Distinct(s) => Distinct(q)

LEMMA TailLeft ==
  ASSUME NEW S, NEW s \in Seq(S), s # <<>>
  PROVE  /\ Left(Tail(s), s)
         /\ \A j \in 1 .. Len(s) : j = 1 \/ \E i \in 1 .. Len(Tail(s)) : Tail(s)[i] = s[j]
         /\ Distinct(s) => \A i \in 1 .. Len(Tail(s)) : Tail(s)[i].id # s[1].id
<1>1. /\ Len(Tail(s)) = Len(s) - 1 /\ Len(s) > 0 /\ Len(s) \in Nat
      /\ \A j \in 1 .. Len(s) - 1 : Tail(s)[j] = s[j + 1]
  BY TailFacts
<1>2. \A i \in 1 .. Len(Tail(s)) : i + 1 \in 1 .. Len(s) /\ Tail(s)[i] = s[i + 1]
  BY <1>1
<1>3. ASSUME Distinct(s) PROVE Distinct(Tail(s)) /\ \A i \in 1 .. Len(Tail(s)) : Tail(s)[i].id # s[1].id
  <2>1. 1 \in 1 .. Len(s)
    BY <1>1
  <2> QED BY <1>2, <1>3, <2>1 DEF Distinct
<1>4. ASSUME NEW j \in 1 .. Len(s), j # 1 PROVE \E i \in 1 .. Len(Tail(s)) : Tail(s)[i] = s[j]
  <2>1. j - 1 \in 1 .. Len(Tail(s)) /\ Tail(s)[j - 1] = s[(j - 1) + 1] /\ (j - 1) + 1 = j
    BY <1>1, <1>4
  <2> QED BY <2>1
<1> QED BY <1>2, <1>3, <1>4 DEF Left

LEMMA RemoveLeft ==
  ASSUME NEW S, NEW s \in Seq(S), NEW k \in 1 .. Len(s)
  PROVE  /\ Left(RemoveAt(s, k), s)
         /\ \A j \in 1 .. Len(s) : j = k \/ \E i \in 1 .. Len(RemoveAt(s, k)) : RemoveAt(s, k)[i] = s[j]
         /\ Distinct(s) => \A i \in 1 .. Len(RemoveAt(s, k)) : RemoveAt(s, k)[i].id # s[k].id
<1> DEFINE q == RemoveAt(s, k)
<1>1. Len(q) = Len(s) - 1 /\ Len(s) \in Nat /\ \A j \in 1 .. Len(s) - 1 : q[j] = IF j < k THEN s[j] ELSE s[j + 1]
  <2>1. Len(s) \in Nat
    OBVIOUS
  <2> HIDE DEF q
  <2>2. /\ Len(RemoveAt(s, k)) = Len(s) - 1
        /\ \A j \in 1 .. Len(s) - 1 : RemoveAt(s, k)[j] = IF j < k THEN s[j] ELSE s[j + 1]
    BY RemoveFacts, Zenon
  <2> QED BY <2>1, <2>2, Zenon DEF q
<1> HIDE DEF q
<1>2. ASSUME NEW i \in 1 .. Len(q)
      PROVE  LET j == IF i < k THEN i ELSE i + 1 IN j \in 1 .. Len(s) /\ j # k /\ q[i] = s[j]
  BY <1>1
<1>3. ASSUME Distinct(s) PROVE Distinct(q) /\ \A i \in 1 .. Len(q) : q[i].id # s[k].id
  <2>1. ASSUME NEW i \in 1 .. Len(q), NEW j \in 1 .. Len(q), q[i].id = q[j].id PROVE i = j
    <3> DEFINE a == IF i < k THEN i ELSE i + 1
               b == IF j < k THEN j ELSE j + 1
    <3>1. a \in 1 .. Len(s) /\ b \in 1 .. Len(s) /\ s[a].id = s[b].id
      BY <1>2, <2>1
    <3>2. a = b
      BY <1>3, <3>1 DEF Distinct
    <3> QED BY <1>1, <3>2
  <2>2. \A i \in 1 .. Len(q) : q[i].id # s[k].id
    BY <1>2, <1>3 DEF Distinct
  <2> QED BY <2>1, <2>2 DEF Distinct
<1>4. ASSUME NEW j \in 1 .. Len(s), j # k PROVE \E i \in 1 .. Len(q) : q[i] = s[j]
  <2>1. CASE j < k
    BY <1>1, <2>1
  <2>2. CASE j > k
    <3>1. j - 1 \in 1 .. Len(q) /\ q[j - 1] = s[(j - 1) + 1] /\ (j - 1) + 1 = j
      BY <1>1, <2>2
    <3> QED BY <3>1
  <2> QED BY <1>4, <2>1, <2>2
<1>5. Left(q, s)
  BY <1>2, <1>3 DEF Left
<1> QED BY <1>3, <1>4, <1>5 DEF q

LEMMA TakeLeft ==
  ASSUME NEW S, NEW s \in Seq(S), NEW id
  PROVE  /\ Take(s, id) \in Seq(S) /\ Left(Take(s, id), s)
         /\ \A j \in 1 .. Len(s) : s[j].id # id => \E i \in 1 .. Len(Take(s, id)) : Take(s, id)[i] = s[j]
         /\ Distinct(s) => \A i \in 1 .. Len(Take(s, id)) : Take(s, id)[i].id # id
<1> DEFINE hits == {i \in 1 .. Len(s) : s[i].id = id}
           k == CHOOSE i \in hits : \A j \in hits : i <= j
<1>1. CASE hits = {}
  <2>1. Take(s, id) = s
    BY <1>1 DEF Take
  <2> QED BY <1>1, <2>1 DEF Left
<1>2. CASE hits # {}
  <2>1. hits \in SUBSET Nat
    OBVIOUS
  <2>2. \E i \in hits : \A j \in hits : i <= j
    <3> HIDE DEF hits
    <3> QED BY <1>2, <2>1, LeastNumber
  <2>3. k \in hits
    <3> HIDE DEF hits
    <3> QED BY <2>2
  <2>4. k \in 1 .. Len(s) /\ s[k].id = id
    BY <2>3
  <2>5. Take(s, id) = RemoveAt(s, k)
    BY <1>2 DEF Take
  <2> HIDE DEF k
  <2>6. RemoveAt(s, k) \in Seq(S)
    BY <2>4, RemoveFacts
  <2>7. /\ Left(RemoveAt(s, k), s)
        /\ \A j \in 1 .. Len(s) : j = k \/ \E i \in 1 .. Len(RemoveAt(s, k)) : RemoveAt(s, k)[i] = s[j]
        /\ Distinct(s) => \A i \in 1 .. Len(RemoveAt(s, k)) : RemoveAt(s, k)[i].id # s[k].id
    BY <2>4, RemoveLeft
  <2> QED BY <2>4, <2>5, <2>6, <2>7
<1> QED BY <1>1, <1>2

(* The loop of reapStaleEchoes: what it computes, for every prefix.         *)
LEMMA ReapLeft ==
  ASSUME NEW q \in Seq(Echoes), NEW old \in BOOLEAN
  PROVE  /\ Reap(q, old) \in Seq(Echoes) /\ Left(Reap(q, old), q)
         /\ \A i \in 1 .. Len(Reap(q, old)) : Reap(q, old)[i].old = old
         /\ \A j \in 1 .. Len(q) : q[j].old = old => \E i \in 1 .. Len(Reap(q, old)) : Reap(q, old)[i] = q[j]
<1> DEFINE Run(g, n) == [i \in 0 .. n |-> IF i = 0 THEN <<>> ELSE IF q[i].old = old THEN Append(g[i - 1], q[i]) ELSE g[i - 1]]
<1>1. \A n \in Nat : \E g : g = Run(g, n)
  <2> DEFINE Off == {n \in Nat : ~ \E g : g = Run(g, n)}
  <2> SUFFICES ASSUME Off # {} PROVE FALSE
    OBVIOUS
  <2>1. PICK m \in Off : \A k \in Off : m <= k
    <3> Off \in SUBSET Nat
      OBVIOUS
    <3> HIDE DEF Off
    <3> QED BY LeastNumber
  <2>2. m # 0
    <3> DEFINE g == [i \in 0 .. 0 |-> <<>>]
    <3>1. g = Run(g, 0)
      OBVIOUS
    <3> HIDE DEF g
    <3> SUFFICES ASSUME m = 0 PROVE FALSE
      OBVIOUS
    <3> QED BY <3>1
  <2>3. m \in Nat /\ m - 1 \in Nat /\ m - 1 \notin Off
    <3>1. m \in Nat
      BY <2>1, Zenon
    <3>2. m - 1 \in Nat
      BY <2>2, <3>1
    <3>3. m - 1 \in Off => m <= m - 1
      <4> HIDE DEF Off
      <4> QED BY <2>1
    <3> HIDE DEF Off
    <3> QED BY <3>1, <3>2, <3>3
  <2>4. PICK g : g = Run(g, m - 1)
    BY <2>3
  <2> DEFINE h == Run(g, m)
  <2>5. ASSUME NEW i \in 0 .. m - 1 PROVE h[i] = g[i]
    <3>1. i \in 0 .. m /\ i \in Nat
      BY <2>3
    <3>2. g[i] = IF i = 0 THEN <<>> ELSE IF q[i].old = old THEN Append(g[i - 1], q[i]) ELSE g[i - 1]
      BY <2>4
    <3> QED BY <3>1, <3>2
  <2>6. h = Run(h, m)
    <3> SUFFICES ASSUME NEW i \in 0 .. m, i # 0 PROVE g[i - 1] = h[i - 1]
      OBVIOUS
    <3>1. i - 1 \in 0 .. m - 1
      BY <2>3
    <3> HIDE DEF h
    <3> QED BY <2>5, <3>1
  <2> HIDE DEF h
  <2> QED BY <2>1, <2>6
<1> DEFINE N == Len(q)
           f == CHOOSE g : g = Run(g, N)
<1>2. N \in Nat /\ f = Run(f, N)
  <2>1. N \in Nat
    OBVIOUS
  <2> HIDE DEF Run, N
  <2> QED BY <1>1, <2>1
<1>3. Reap(q, old) = f[N]
  BY Zenon DEF Reap
<1> HIDE DEF f
<1>4. ASSUME NEW i \in 0 .. N
      PROVE  f[i] = IF i = 0 THEN <<>> ELSE IF q[i].old = old THEN Append(f[i - 1], q[i]) ELSE f[i - 1]
  BY <1>2
<1> HIDE DEF Run
<1> DEFINE Good(n) ==
      /\ f[n] \in Seq(Echoes)
      /\ \A i \in 1 .. Len(f[n]) : \E j \in 1 .. n : f[n][i] = q[j] /\ q[j].old = old
      /\ \A j \in 1 .. n : q[j].old = old => \E i \in 1 .. Len(f[n]) : f[n][i] = q[j]
      /\ Distinct(q) => Distinct(f[n])
<1>5. Good(0)
  <2>1. f[0] = <<>>
    BY <1>2, <1>4
  <2> QED BY <2>1 DEF Distinct
<1>6. ASSUME NEW n \in 1 .. N, Good(n - 1) PROVE Good(n)
  <2>0. n \in Nat /\ n - 1 \in Nat /\ n \in 0 .. N /\ n # 0 /\ q[n] \in Echoes /\ N = Len(q)
    BY <1>2
  <2> DEFINE g == f[n - 1]
  <2>1. /\ g \in Seq(Echoes)
        /\ \A i \in 1 .. Len(g) : \E j \in 1 .. n - 1 : g[i] = q[j] /\ q[j].old = old
        /\ \A j \in 1 .. n - 1 : q[j].old = old => \E i \in 1 .. Len(g) : g[i] = q[j]
        /\ Distinct(q) => Distinct(g)
    BY <1>6
  <2>2. f[n] = IF q[n].old = old THEN Append(g, q[n]) ELSE g
    BY <1>4, <2>0
  <2> HIDE DEF g, N
  <2>3. CASE q[n].old # old
    BY <2>0, <2>1, <2>2, <2>3
  <2>4. CASE q[n].old = old
    <3>1. /\ f[n] \in Seq(Echoes) /\ Len(f[n]) = Len(g) + 1 /\ Len(g) \in Nat
          /\ \A i \in 1 .. Len(g) + 1 : f[n][i] = IF i = Len(g) + 1 THEN q[n] ELSE g[i]
      BY <2>0, <2>1, <2>2, <2>4
    <3>2. \A i \in 1 .. Len(f[n]) : \E j \in 1 .. n : f[n][i] = q[j] /\ q[j].old = old
      <4> TAKE i \in 1 .. Len(f[n])
      <4>1. CASE i = Len(g) + 1
        BY <2>0, <2>4, <3>1, <4>1
      <4>2. CASE i # Len(g) + 1
        <5>1. i \in 1 .. Len(g) /\ f[n][i] = g[i]
          BY <3>1, <4>2
        <5>2. PICK j \in 1 .. n - 1 : g[i] = q[j] /\ q[j].old = old
          BY <2>1, <5>1
        <5>3. j \in 1 .. n
          BY <2>0
        <5> QED BY <5>1, <5>2, <5>3
      <4> QED BY <4>1, <4>2
    <3>3. \A j \in 1 .. n : q[j].old = old => \E i \in 1 .. Len(f[n]) : f[n][i] = q[j]
      <4> SUFFICES ASSUME NEW j \in 1 .. n, q[j].old = old PROVE \E i \in 1 .. Len(f[n]) : f[n][i] = q[j]
        OBVIOUS
      <4>1. CASE j = n
        <5>1. Len(g) + 1 \in 1 .. Len(f[n]) /\ f[n][Len(g) + 1] = q[j]
          BY <3>1, <4>1
        <5> QED BY <5>1
      <4>2. CASE j # n
        <5>1. j \in 1 .. n - 1
          BY <2>0, <4>2
        <5>2. PICK i \in 1 .. Len(g) : g[i] = q[j]
          BY <2>1, <5>1
        <5>3. i \in 1 .. Len(f[n]) /\ f[n][i] = g[i]
          BY <3>1
        <5> QED BY <5>2, <5>3
      <4> QED BY <4>1, <4>2
    <3>4. ASSUME Distinct(q), NEW i \in 1 .. Len(f[n]), NEW k \in 1 .. Len(f[n]), f[n][i].id = f[n][k].id
          PROVE  i = k
      <4>1. ASSUME NEW x \in 1 .. Len(g) PROVE g[x].id # q[n].id
        <5>1. PICK j \in 1 .. n - 1 : g[x] = q[j]
          BY <2>1
        <5>2. j \in 1 .. Len(q) /\ n \in 1 .. Len(q) /\ j # n
          BY <2>0
        <5> QED BY <3>4, <5>1, <5>2 DEF Distinct
      <4>2. Distinct(g)
        BY <2>1, <3>4
      <4>3. i \in 1 .. Len(g) + 1 /\ k \in 1 .. Len(g) + 1
        BY <3>1
      <4>4. i \in 1 .. Len(g) /\ k \in 1 .. Len(g) => i = k
        BY <3>1, <3>4, <4>2, SMTT(30) DEF Distinct
      <4>5. ~(i \in 1 .. Len(g) /\ k = Len(g) + 1) /\ ~(k \in 1 .. Len(g) /\ i = Len(g) + 1)
        BY <3>1, <3>4, <4>1, <4>3
      <4> QED BY <3>1, <4>3, <4>4, <4>5
    <3> QED BY <3>1, <3>2, <3>3, <3>4 DEF Distinct
  <2> QED BY <2>3, <2>4
<1> HIDE DEF Good
<1>7. Good(N)
  <2> DEFINE Off == {n \in 0 .. N : ~Good(n)}
  <2> SUFFICES ASSUME Off # {} PROVE FALSE
    BY <1>2
  <2>1. PICK m \in Off : \A k \in Off : m <= k
    <3> Off \in SUBSET Nat
      OBVIOUS
    <3> HIDE DEF Off
    <3> QED BY LeastNumber
  <2>2. m \in 0 .. N /\ ~Good(m)
    BY <2>1
  <2>3. m \in 1 .. N /\ m - 1 \in 0 .. N /\ ~(m <= m - 1)
    BY <1>2, <1>5, <2>2
  <2>4. Good(m - 1)
    <3> SUFFICES ASSUME ~Good(m - 1) PROVE FALSE
      OBVIOUS
    <3>1. m - 1 \in Off
      BY <2>3
    <3> HIDE DEF Off
    <3> QED BY <2>1, <2>3, <3>1
  <2> QED BY <1>6, <2>2, <2>3, <2>4
<1> QED BY <1>3, <1>7 DEF Good, Left

-----------------------------------------------------------------------------
(* The buffer.                                                              *)
Has(b, r) == \E i \in 1 .. Len(b) : b[i] = r

LEMMA RowTypes ==
  /\ Feedback \in Rows /\ Feedback.kind = "notice" /\ Nowhere \in Slots /\ Nowhere.row.kind = "notice" /\ Nowhere.index = 0
  /\ \A n \in Nat : LineRow(n) \in Rows /\ LineRow(n).kind = "line" /\ LineRow(n).of = n
  /\ \A k \in {"notice", "line", "typed", "pending"}, w \in Words, c \in BOOLEAN, n \in Nat :
       Row(k, w, c, n) \in Rows /\ Row(k, w, c, n).kind = k /\ Row(k, w, c, n).of = n
  /\ \A r \in Rows : r.kind \in {"notice", "line", "typed", "pending"} /\ r.of \in Nat
  /\ \A i \in Nat, r \in Rows : Slot(i, r) \in Slots /\ Slot(i, r).index = i /\ Slot(i, r).row = r
BY DEF Feedback, Row, Rows, Words, LineRow, Nowhere, Slot, Slots

LEMMA EvictFacts ==
  ASSUME NEW b \in Seq(Rows)
  PROVE  /\ Evict(b) \in Seq(Rows) /\ Dropped(b) \subseteq Nat
         /\ \A r : Has(Evict(b), r) => Has(b, r)
         /\ Len(b) <= Scrollback => Evict(b) = b /\ Dropped(b) = {}
         /\ \A r : Has(b, r) /\ r.kind = "line" => r.of \in Dropped(b) \/ Has(Evict(b), r)
         /\ Len(b) > 0 => Len(Evict(b)) > 0 /\ Evict(b)[Len(Evict(b))] = b[Len(b)]
<1>0. Scrollback \in Nat /\ Scrollback > 0 /\ Len(b) \in Nat
  BY ScreenAssumption
<1>1. CASE Len(b) <= Scrollback
  <2>1. Evict(b) = SubSeq(b, 1, Len(b))
    <3>1. 1 + (IF Len(b) > Scrollback THEN Len(b) - Scrollback ELSE 0) = 1
      BY <1>0, <1>1
    <3> QED BY <3>1, Zenon DEF Evict
  <2>2. Evict(b) = b
    BY <2>1, SubSeqFull
  <2>3. Dropped(b) = {}
    BY <1>0, <1>1 DEF Dropped
  <2> QED BY <1>0, <2>2, <2>3
<1>2. CASE Len(b) > Scrollback
  <2> DEFINE d == Len(b) - Scrollback
  <2>1. d \in Nat /\ d > 0 /\ 1 + d \in 1 .. Len(b) + 1 /\ Len(b) \in (1 + d) - 1 .. Len(b)
    BY <1>0, <1>2
  <2>2. Evict(b) = SubSeq(b, 1 + d, Len(b))
    BY <1>2 DEF Evict
  <2>3. /\ Evict(b) \in Seq(Rows) /\ Len(Evict(b)) = Len(b) - (1 + d) + 1
        /\ \A i \in 1 .. Len(b) - (1 + d) + 1 : Evict(b)[i] = b[i + ((1 + d) - 1)]
    BY <2>1, <2>2, CutFacts
  <2>4. Len(Evict(b)) = Scrollback /\ \A i \in 1 .. Scrollback : Evict(b)[i] = b[i + d] /\ i + d \in 1 .. Len(b)
    <3>1. Len(b) - (1 + d) + 1 = Scrollback /\ (1 + d) - 1 = d
      BY <1>0
    <3>2. \A i \in 1 .. Scrollback : i + d \in 1 .. Len(b)
      BY <1>0, <2>1
    <3> HIDE DEF d
    <3> QED BY <2>3, <3>1, <3>2
  <2>5. \A j \in d + 1 .. Len(b) : j - d \in 1 .. Scrollback /\ Evict(b)[j - d] = b[j]
    <3> TAKE j \in d + 1 .. Len(b)
    <3>1. j - d \in 1 .. Scrollback /\ (j - d) + d = j
      BY <1>0, <2>1
    <3> QED BY <2>4, <3>1
  <2>6. Dropped(b) = {b[i].of : i \in {j \in 1 .. d : b[j].kind = "line"}}
    BY DEF Dropped
  <2>7. \A j \in 1 .. d : j \in 1 .. Len(b) /\ b[j].of \in Nat
    <3> TAKE j \in 1 .. d
    <3>1. j \in 1 .. Len(b)
      BY <1>0, <2>1
    <3>2. b[j] \in Rows
      BY <3>1
    <3> QED BY <3>1, <3>2, RowTypes
  <2> HIDE DEF d
  <2>8. Dropped(b) \subseteq Nat
    BY <2>6, <2>7
  <2>9. \A r : Has(Evict(b), r) => Has(b, r)
    BY <2>4 DEF Has
  <2>10. ASSUME NEW r, Has(b, r), r.kind = "line" PROVE r.of \in Dropped(b) \/ Has(Evict(b), r)
    <3>1. PICK j \in 1 .. Len(b) : b[j] = r
      BY <2>10 DEF Has
    <3>2. CASE j <= d
      <4>1. j \in 1 .. d
        BY <2>1, <3>2
      <4> QED BY <2>6, <2>10, <3>1, <4>1
    <3>3. CASE j > d
      <4>1. j \in d + 1 .. Len(b)
        BY <1>0, <2>1, <3>3
      <4> QED BY <2>4, <2>5, <3>1, <4>1 DEF Has
    <3> QED BY <2>1, <3>2, <3>3
  <2>11. Len(Evict(b)) > 0 /\ Evict(b)[Len(Evict(b))] = b[Len(b)]
    <3>1. Scrollback + d = Len(b)
      BY <1>0 DEF d
    <3>2. Scrollback \in 1 .. Scrollback
      BY <1>0
    <3> QED BY <1>0, <2>4, <3>1, <3>2
  <2> QED BY <1>2, <1>0, <2>3, <2>8, <2>9, <2>10, <2>11
<1> QED BY <1>0, <1>1, <1>2

LEMMA PlaceFacts ==
  ASSUME ScreenTyped, NEW r \in Rows
  PROVE  /\ Place(r) \in Seq(Rows) /\ Len(Place(r)) = Len(buf) + 1
         /\ \A x : Has(Place(r), x) <=> x = r \/ Has(buf, x)
         /\ older = 0 => Place(r) = Append(buf, r)
<1>1. buf \in Seq(Rows) /\ older \in Nat /\ Len(buf) \in Nat
  BY DEF ScreenTyped
<1>2. PICK k \in 1 .. Len(buf) + 1 :
        /\ Place(r) \in Seq(Rows) /\ Len(Place(r)) = Len(buf) + 1
        /\ \A j \in 1 .. Len(buf) + 1 :
             Place(r)[j] = IF j < k THEN buf[j] ELSE IF j = k THEN r ELSE buf[j - 1]
  <2>1. CASE older = 0
    <3>1. Place(r) = Append(buf, r)
      BY <2>1 DEF Place
    <3>2. /\ Append(buf, r) \in Seq(Rows) /\ Len(Append(buf, r)) = Len(buf) + 1
          /\ \A j \in 1 .. Len(buf) + 1 : Append(buf, r)[j] = IF j = Len(buf) + 1 THEN r ELSE buf[j]
      BY <1>1, AppendedFacts
    <3>3. WITNESS Len(buf) + 1 \in 1 .. Len(buf) + 1
    <3> QED BY <1>1, <3>1, <3>2
  <2>2. CASE older # 0
    <3>1. PICK i \in 1 .. Len(buf) + 1 : Place(r) = InsertAt(buf, i, r)
      <4> DEFINE k == IF older > Len(buf) THEN Len(buf) + 1 ELSE older
      <4>1. k \in 1 .. Len(buf) + 1 /\ Place(r) = InsertAt(buf, k, r)
        BY <1>1, <2>2 DEF Place
      <4> QED BY <4>1
    <3>2. /\ InsertAt(buf, i, r) \in Seq(Rows) /\ Len(InsertAt(buf, i, r)) = Len(buf) + 1
          /\ \A j \in 1 .. Len(buf) + 1 :
               InsertAt(buf, i, r)[j] = IF j < i THEN buf[j] ELSE IF j = i THEN r ELSE buf[j - 1]
      BY <1>1, InsertFacts
    <3> QED BY <3>1, <3>2
  <2> QED BY <2>1, <2>2
<1>3. ASSUME NEW x, Has(Place(r), x) PROVE x = r \/ Has(buf, x)
  BY <1>1, <1>2, <1>3 DEF Has
<1>4. ASSUME NEW j \in 1 .. Len(buf) PROVE Has(Place(r), buf[j])
  <2>1. CASE j < k
    BY <1>1, <1>2, <2>1 DEF Has
  <2>2. CASE j >= k
    <3>1. j + 1 \in 1 .. Len(buf) + 1 /\ ~(j + 1 < k) /\ j + 1 # k /\ (j + 1) - 1 = j
      BY <1>1, <2>2
    <3>2. Place(r)[j + 1] = buf[j]
      BY <1>2, <3>1
    <3> QED BY <1>2, <3>1, <3>2 DEF Has
  <2> QED BY <1>1, <2>1, <2>2
<1>5. Has(Place(r), r)
  BY <1>1, <1>2 DEF Has
<1>6. \A x : Has(buf, x) => Has(Place(r), x)
  BY <1>4 DEF Has
<1>7. older = 0 => Place(r) = Append(buf, r)
  BY DEF Place
<1> QED BY <1>2, <1>3, <1>5, <1>6, <1>7

(* A buffer whose rows stay where they are, unless a line of the server     *)
(* takes the place of one.                                                  *)
Overlays(b, a) ==
  /\ Len(b) >= Len(a)
  /\ \A i \in 1 .. Len(a) : b[i] = a[i] \/ b[i].kind = "line"
  /\ \A i \in Len(a) + 1 .. Len(b) : b[i].kind \notin Mine

LEMMA DrawnFacts ==
  ASSUME ScreenTyped, NEW spot \in Slots, spot.row.kind # "line"
  PROVE  /\ Drawn(spot).rows \in Seq(Rows) /\ Drawn(spot).gone \subseteq Nat
         /\ \A x : Has(Drawn(spot).rows, x) => Has(buf, x) \/ x = Feedback \/ x = LineRow(lines + 1)
         /\ \A x : (Has(buf, x) /\ x.kind = "line") \/ x = LineRow(lines + 1)
                   => x.of \in Drawn(spot).gone \/ Has(Drawn(spot).rows, x)
         /\ \/ Drawn(spot).moved = 1 .. typed
            \/ /\ Drawn(spot).moved = {} /\ Overlays(Drawn(spot).rows, buf)
               /\ Holds(buf, spot) => Drawn(spot).rows[spot.index].kind = "line"
<1> DEFINE n == Len(Stale)
           t == [i \in 1 .. n |-> Feedback]
           b == buf \o t
           r == LineRow(lines + 1)
           e == Evict(b)
           c == IF Holds(e, spot) THEN ReplaceAt(e, spot.index, r) ELSE Append(e, r)
<1>0. /\ buf \in Seq(Rows) /\ Len(buf) \in Nat /\ lines + 1 \in Nat /\ n \in Nat /\ stash \in Seq(Echoes)
      /\ r \in Rows /\ r.kind = "line" /\ r.of = lines + 1 /\ Feedback \in Rows /\ Feedback.kind = "notice"
  <2>1. Stale \in Seq(Echoes)
    BY ReapLeft DEF Stale, ScreenTyped
  <2>2. buf \in Seq(Rows) /\ lines \in Nat /\ stash \in Seq(Echoes)
    BY DEF ScreenTyped
  <2>3. lines + 1 \in Nat /\ Len(buf) \in Nat /\ n \in Nat
    BY <2>1, <2>2
  <2> QED BY <2>2, <2>3, RowTypes
<1>1. /\ Drawn(spot).rows = Evict(c) /\ Drawn(spot).gone = Dropped(b) \cup Dropped(c)
      /\ Drawn(spot).moved = IF Len(b) > Scrollback \/ Len(c) > Scrollback THEN 1 .. typed ELSE {}
  BY DEF Drawn
<1> HIDE DEF r, n
<1>2. t \in Seq(Rows) /\ Len(t) = n /\ \A i \in 1 .. n : t[i] = Feedback
  BY <1>0
<1> HIDE DEF t
<1>3. /\ b \in Seq(Rows) /\ Len(b) = Len(buf) + n
      /\ \A i \in 1 .. Len(buf) + n : b[i] = IF i <= Len(buf) THEN buf[i] ELSE t[i - Len(buf)]
  BY <1>0, <1>2, ConcatProperties
<1>4. /\ \A i \in 1 .. Len(buf) : i \in 1 .. Len(b) /\ b[i] = buf[i]
      /\ \A i \in Len(buf) + 1 .. Len(b) : b[i] = Feedback
  <2>1. \A i \in 1 .. Len(buf) : i \in 1 .. Len(b) /\ b[i] = buf[i]
    BY <1>0, <1>3
  <2>2. ASSUME NEW i \in Len(buf) + 1 .. Len(b) PROVE b[i] = Feedback
    <3>1. i \in 1 .. Len(buf) + n /\ ~(i <= Len(buf)) /\ i - Len(buf) \in 1 .. n
      BY <1>0, <1>3
    <3> QED BY <1>2, <1>3, <3>1
  <2> QED BY <2>1, <2>2
<1> HIDE DEF b
<1>5. /\ e \in Seq(Rows) /\ Dropped(b) \subseteq Nat
      /\ \A x : Has(e, x) => Has(b, x)
      /\ Len(b) <= Scrollback => e = b
      /\ \A x : Has(b, x) /\ x.kind = "line" => x.of \in Dropped(b) \/ Has(e, x)
  BY <1>3, EvictFacts
<1> HIDE DEF e
<1>6. Len(e) \in Nat /\ Len(b) \in Nat
  BY <1>3, <1>5
<1>7. /\ c \in Seq(Rows) /\ Has(c, r)
      /\ \A x : Has(c, x) => Has(e, x) \/ x = r
      /\ \A x : Has(e, x) /\ x.kind = "line" => Has(c, x)
      /\ Overlays(c, e) /\ (Holds(e, spot) => c[spot.index].kind = "line")
  <2>1. CASE Holds(e, spot)
    <3>1. spot.index \in 1 .. Len(e) /\ e[spot.index].kind # "line"
      BY <2>1 DEF Holds, Same
    <3>2. /\ c \in Seq(Rows) /\ Len(c) = Len(e)
          /\ \A j \in 1 .. Len(e) : c[j] = IF j = spot.index THEN r ELSE e[j]
      <4>1. c = ReplaceAt(e, spot.index, r)
        BY <2>1
      <4>2. e \in Seq(Rows) /\ r \in Rows /\ spot.index \in 1 .. Len(e)
        BY <1>0, <1>5, <3>1
      <4> HIDE DEF c
      <4> QED BY <4>1, <4>2 DEF ReplaceAt
    <3> HIDE DEF c
    <3>3. Has(c, r) /\ \A x : Has(c, x) => Has(e, x) \/ x = r
      BY <3>1, <3>2 DEF Has
    <3>4. \A x : Has(e, x) /\ x.kind = "line" => Has(c, x)
      BY <3>1, <3>2 DEF Has
    <3>5. Overlays(c, e)
      BY <1>0, <1>6, <3>2 DEF Overlays
    <3> QED BY <1>0, <3>1, <3>2, <3>3, <3>4, <3>5
  <2>2. CASE ~Holds(e, spot)
    <3>1. /\ c \in Seq(Rows) /\ Len(c) = Len(e) + 1
          /\ \A j \in 1 .. Len(e) + 1 : c[j] = IF j = Len(e) + 1 THEN r ELSE e[j]
      <4>1. c = Append(e, r)
        BY <2>2
      <4>2. e \in Seq(Rows) /\ r \in Rows
        BY <1>0, <1>5
      <4> HIDE DEF c
      <4> QED BY <4>1, <4>2, AppendedFacts
    <3> HIDE DEF c
    <3>2. \A j \in 1 .. Len(e) : j \in 1 .. Len(c) /\ c[j] = e[j]
      BY <1>6, <3>1
    <3>3. Len(c) \in 1 .. Len(c) /\ c[Len(c)] = r
      BY <1>6, <3>1
    <3>4. Has(c, r) /\ \A x : Has(c, x) => Has(e, x) \/ x = r
      BY <1>6, <3>1, <3>3 DEF Has
    <3>5. \A x : Has(e, x) => Has(c, x)
      BY <3>2 DEF Has
    <3>6. Overlays(c, e)
      BY <1>0, <1>6, <3>1 DEF Overlays, Mine
    <3> QED BY <2>2, <3>1, <3>4, <3>5, <3>6
  <2> QED BY <2>1, <2>2
<1> HIDE DEF c
<1>8. /\ Evict(c) \in Seq(Rows) /\ Dropped(c) \subseteq Nat
      /\ \A x : Has(Evict(c), x) => Has(c, x)
      /\ Len(c) <= Scrollback => Evict(c) = c
      /\ \A x : Has(c, x) /\ x.kind = "line" => x.of \in Dropped(c) \/ Has(Evict(c), x)
  BY <1>7, EvictFacts
<1>9. \A x : Has(b, x) => Has(buf, x) \/ x = Feedback
  BY <1>0, <1>3, <1>4 DEF Has
<1>10. \A x : Has(buf, x) => Has(b, x)
  BY <1>4 DEF Has
<1>11. \A x : Has(Drawn(spot).rows, x) => Has(buf, x) \/ x = Feedback \/ x = r
  BY <1>1, <1>5, <1>7, <1>8, <1>9
<1>12. \A x : (Has(buf, x) /\ x.kind = "line") \/ x = r => x.of \in Drawn(spot).gone \/ Has(Drawn(spot).rows, x)
  BY <1>0, <1>1, <1>5, <1>7, <1>8, <1>10
<1>13. CASE Len(b) > Scrollback \/ Len(c) > Scrollback
  BY <1>1, <1>5, <1>8, <1>11, <1>12, <1>13 DEF r
<1>14. CASE ~(Len(b) > Scrollback \/ Len(c) > Scrollback)
  <2>0. Len(c) \in Nat /\ Scrollback \in Nat
    BY <1>7, ScreenAssumption
  <2>1. e = b /\ Drawn(spot).rows = c /\ Drawn(spot).moved = {}
    BY <1>1, <1>5, <1>6, <1>8, <1>14, <2>0
  <2>2. Overlays(b, buf)
    BY <1>0, <1>3, <1>4 DEF Overlays, Mine
  <2>3. Overlays(c, buf)
    <3>1. Overlays(c, b)
      BY <1>7, <2>1
    <3>2. Len(c) >= Len(buf) /\ Len(b) >= Len(buf) /\ Len(c) >= Len(b)
      BY <1>0, <1>6, <2>0, <2>2, <3>1 DEF Overlays
    <3>3. \A i \in 1 .. Len(buf) : c[i] = buf[i] \/ c[i].kind = "line"
      BY <1>4, <3>1 DEF Overlays
    <3>4. ASSUME NEW i \in Len(buf) + 1 .. Len(c) PROVE c[i].kind \notin Mine
      <4>1. CASE i <= Len(b)
        <5>1. i \in 1 .. Len(b) /\ i \in Len(buf) + 1 .. Len(b)
          BY <1>0, <1>6, <2>0, <4>1
        <5>2. c[i] = b[i] \/ c[i].kind = "line"
          BY <3>1, <5>1 DEF Overlays
        <5> QED BY <1>0, <1>4, <5>1, <5>2 DEF Mine
      <4>2. CASE i > Len(b)
        <5>1. i \in Len(b) + 1 .. Len(c)
          BY <1>0, <1>6, <2>0, <4>2
        <5> QED BY <3>1, <5>1 DEF Overlays
      <4> QED BY <1>0, <1>6, <2>0, <4>1, <4>2
    <3> QED BY <3>2, <3>3, <3>4 DEF Overlays
  <2>4. ASSUME Holds(buf, spot) PROVE c[spot.index].kind = "line"
    <3>1. spot.index \in 1 .. Len(buf) /\ Same(buf[spot.index], spot.row)
      BY <2>4 DEF Holds
    <3>2. Holds(b, spot)
      BY <1>4, <3>1 DEF Holds
    <3> QED BY <1>7, <2>1, <3>2
  <2> QED BY <1>5, <1>8, <1>1, <1>11, <1>12, <2>1, <2>3, <2>4 DEF r
<1> QED BY <1>13, <1>14

-----------------------------------------------------------------------------
(* Rows: what keeps them in place, and what every line needs to be shown.   *)
LEMMA ShiftKeeps ==
  ASSUME ScreenTyped', Unconfirmed', past'.moved = 1 .. typed',
         \A x : Has(buf', x) => (x.kind \in Mine => x.of \in 1 .. typed')
  PROVE  RowsInPlace'
<1>1. \A i \in 1 .. Len(buf') : buf'[i].kind \in Mine => buf'[i].of \in 1 .. typed'
  BY DEF Has
<1>2. Active' => typed' \in past'.moved
  BY DEF Unconfirmed, ScreenTyped
<1>3. \A i \in 1 .. Len(waiting') : waiting'[i].id \in 1 .. typed'
  BY DEF Unconfirmed, IdsOf
<1> QED BY <1>1, <1>2, <1>3 DEF RowsInPlace

LEMMA OverlayKeeps ==
  ASSUME ScreenTyped, Unconfirmed, RowsInPlace, ScreenTyped', Unconfirmed', Overlays(buf', buf),
         typed' = typed, past'.moved = past.moved,
         \A id \in past'.confirmed \ (past.confirmed \cup past.moved) :
           \A i \in 1 .. Len(buf') : buf'[i].kind \in Mine => buf'[i].of # id,
         Active' => Active /\ loop'.slot = loop.slot,
         \A i \in 1 .. Len(waiting') :
           \/ \E j \in 1 .. Len(waiting) : waiting'[i] = waiting[j]
           \/ Active /\ ~Active' /\ waiting'[i].id = typed /\ waiting'[i].slot = loop.slot
  PROVE  RowsInPlace'
<1>0. /\ Len(buf) \in Nat /\ Len(buf') \in Nat /\ Len(buf') >= Len(buf)
      /\ loop.slot.index \in Nat
  BY SMTT(30) DEF ScreenTyped, Overlays, Slots, Hands
<1>1. ASSUME NEW i \in 1 .. Len(buf'), buf'[i].kind \in Mine
      PROVE  i \in 1 .. Len(buf) /\ buf'[i] = buf[i]
  BY <1>0, <1>1 DEF Overlays, Mine
<1>2. \A i \in 1 .. Len(buf') : buf'[i].kind \in Mine => buf'[i].of \in 1 .. typed'
  BY <1>1 DEF RowsInPlace
<1>3. ASSUME NEW i \in 1 .. Len(buf'), buf'[i].kind \in Mine, buf'[i].of \notin past'.moved
      PROVE  /\ buf'[i].of \notin past'.confirmed
             /\ \A j \in 1 .. Len(buf') : buf'[j].kind \in Mine /\ buf'[j].of = buf'[i].of => i = j
  <2>1. i \in 1 .. Len(buf) /\ buf'[i] = buf[i]
    BY <1>1, <1>3
  <2>2. /\ buf[i].of \notin past.confirmed
        /\ \A j \in 1 .. Len(buf) : buf[j].kind \in Mine /\ buf[j].of = buf[i].of => i = j
    BY <1>3, <2>1 DEF RowsInPlace
  <2>3. buf'[i].of \notin past'.confirmed
    BY <1>3, <2>1, <2>2
  <2> QED BY <1>1, <2>1, <2>2, <2>3
<1>4. ASSUME NEW spot, NEW id, id \notin past.moved, Fixed(buf, spot, id) PROVE Fixed(buf', spot, id)
  <2>1. spot.index \in 1 .. Len(buf) /\ spot.index \in 1 .. Len(buf') /\ spot.row.of = id /\ spot.row.kind \in Mine
    BY <1>0, <1>4 DEF Fixed
  <2>2. CASE buf[spot.index] = spot.row /\ buf'[spot.index] = buf[spot.index]
    BY <2>1, <2>2 DEF Fixed
  <2>3. CASE buf[spot.index] = spot.row /\ buf'[spot.index].kind = "line"
    <3>1. ASSUME NEW j \in 1 .. Len(buf'), buf'[j].kind \in Mine, buf'[j].of = id PROVE FALSE
      <4>1. j \in 1 .. Len(buf) /\ buf'[j] = buf[j]
        BY <1>1, <3>1
      <4>2. j = spot.index
        BY <1>4, <2>1, <2>3, <3>1, <4>1 DEF RowsInPlace
      <4> QED BY <2>3, <3>1, <4>2 DEF Mine
    <3> QED BY <2>1, <2>3, <3>1 DEF Fixed
  <2>4. CASE buf[spot.index].kind = "line" /\ \A j \in 1 .. Len(buf) : buf[j].kind \in Mine => buf[j].of # id
    <3>1. buf'[spot.index].kind = "line"
      BY <2>1, <2>4 DEF Overlays
    <3>2. \A j \in 1 .. Len(buf') : buf'[j].kind \in Mine => buf'[j].of # id
      BY <1>1, <2>4
    <3> QED BY <2>1, <3>1, <3>2 DEF Fixed
  <2>5. buf'[spot.index] = buf[spot.index] \/ buf'[spot.index].kind = "line"
    BY <2>1 DEF Overlays
  <2>6. \/ buf[spot.index] = spot.row
        \/ buf[spot.index].kind = "line" /\ \A j \in 1 .. Len(buf) : buf[j].kind \in Mine => buf[j].of # id
    BY <1>4 DEF Fixed
  <2> QED BY <2>2, <2>3, <2>4, <2>5, <2>6
<1>5. ASSUME Active', typed' \notin past'.moved
      PROVE  /\ Fixed(buf', loop'.slot, typed') /\ \A j \in loop'.slot.index + 1 .. Len(buf') : buf'[j].kind \notin Mine
  <2>1. Fixed(buf, loop.slot, typed) /\ \A j \in loop.slot.index + 1 .. Len(buf) : buf[j].kind \notin Mine
    BY <1>5 DEF RowsInPlace
  <2>2. Fixed(buf', loop'.slot, typed')
    BY <1>4, <1>5, <2>1
  <2>3. ASSUME NEW j \in loop'.slot.index + 1 .. Len(buf') PROVE buf'[j].kind \notin Mine
    <3>1. CASE j \in 1 .. Len(buf)
      <4>1. j \in loop.slot.index + 1 .. Len(buf)
        BY <1>0, <1>5, <3>1
      <4> QED BY <1>1, <2>1, <4>1, <3>1 DEF Overlays, Mine
    <3>2. CASE j \notin 1 .. Len(buf)
      <4>1. j \in Len(buf) + 1 .. Len(buf')
        BY <1>0, <1>5, <3>2
      <4> QED BY <4>1 DEF Overlays
    <3> QED BY <3>1, <3>2
  <2> QED BY <2>2, <2>3
<1>6. ASSUME NEW i \in 1 .. Len(waiting'), waiting'[i].id \notin past'.moved
      PROVE  /\ Fixed(buf', waiting'[i].slot, waiting'[i].id)
             /\ Active' => waiting'[i].slot.index < loop'.slot.index
  <2>1. CASE \E j \in 1 .. Len(waiting) : waiting'[i] = waiting[j]
    BY <1>4, <1>6, <2>1 DEF RowsInPlace
  <2>2. CASE Active /\ ~Active' /\ waiting'[i].id = typed /\ waiting'[i].slot = loop.slot
    BY <1>4, <1>6, <2>2 DEF RowsInPlace
  <2> QED BY <2>1, <2>2
<1>7. past'.moved \subseteq 1 .. typed' /\ (typed' \in past'.moved => 1 .. typed' \subseteq past'.moved)
  BY DEF RowsInPlace
<1> QED BY <1>2, <1>3, <1>5, <1>6, <1>7 DEF RowsInPlace

LEMMA ShownKept ==
  ASSUME ScreenTyped, EveryLineShown, past.gone \subseteq past'.gone,
         \A x : Has(buf, x) /\ x.kind = "line" => x.of \in past'.gone \/ Has(buf', x),
         \/ lines' = lines
         \/ lines' = lines + 1 /\ (lines + 1 \in past'.gone \/ Has(buf', LineRow(lines + 1)))
  PROVE  EveryLineShown'
<1> SUFFICES ASSUME NEW n \in 1 .. lines', n \notin past'.gone
             PROVE  \E i \in 1 .. Len(buf') : buf'[i].kind = "line" /\ buf'[i].of = n
  BY DEF EveryLineShown
<1>1. lines \in Nat /\ (n \in 1 .. lines \/ n = lines + 1)
  BY DEF ScreenTyped
<1>2. CASE n \in 1 .. lines
  <2>1. PICK i \in 1 .. Len(buf) : buf[i].kind = "line" /\ buf[i].of = n
    BY <1>2 DEF EveryLineShown
  <2>2. Has(buf, buf[i])
    BY DEF Has
  <2>3. Has(buf', buf[i])
    BY <2>1, <2>2
  <2> QED BY <2>1, <2>3 DEF Has
<1>3. CASE n = lines + 1
  <2>1. Has(buf', LineRow(n)) /\ n \in Nat
    BY <1>1, <1>3
  <2>2. LineRow(n).kind = "line" /\ LineRow(n).of = n
    BY <2>1, RowTypes
  <2> QED BY <2>1, <2>2 DEF Has
<1> QED BY <1>1, <1>2, <1>3

-----------------------------------------------------------------------------
(* The queues.                                                              *)

(* A queue over its cap loses its first entry.                              *)
Trim(s, cap) == IF Len(s) > cap THEN Tail(s) ELSE s

LEMMA TrimLeft ==
  ASSUME NEW S, NEW s \in Seq(S), NEW cap \in Nat
  PROVE  /\ Trim(s, cap) \in Seq(S) /\ Left(Trim(s, cap), s)
         /\ \A j \in 1 .. Len(s) : \/ \E i \in 1 .. Len(Trim(s, cap)) : Trim(s, cap)[i] = s[j]
                                   \/ j \in 1 .. Len(s) - cap
<1>1. CASE Len(s) > cap
  <2>1. s # <<>> /\ 1 \in 1 .. Len(s) - cap /\ Trim(s, cap) = Tail(s)
    BY <1>1 DEF Trim
  <2>2. Tail(s) \in Seq(S)
    BY <2>1
  <2> QED BY <2>1, <2>2, TailLeft
<1>2. CASE ~(Len(s) > cap)
  <2>1. Trim(s, cap) = s
    BY <1>2 DEF Trim
  <2> QED BY <2>1 DEF Left
<1> QED BY <1>1, <1>2

LEMMA RangeFacts ==
  ASSUME NEW S, NEW s \in Seq(S)
  PROVE  /\ \A i \in 1 .. Len(s) : s[i] \in Range(s)
         /\ \A x \in Range(s) : x \in S /\ \E i \in 1 .. Len(s) : s[i] = x
BY DEF Range

LEMMA NoteFacts ==
  ASSUME ScreenTyped, NEW id \in Nat, id \notin Range(seen)
  PROVE  /\ NoteConsumed(id) \in Seq(Nat) /\ id \in Range(NoteConsumed(id))
         /\ Range(NoteConsumed(id)) \subseteq Range(seen) \cup {id}
<1> DEFINE s == Append(seen, id)
<1>1. seen \in Seq(Nat) /\ Len(seen) \in Nat /\ SeenCap \in Nat /\ SeenCap > 0
  BY ScreenAssumption DEF ScreenTyped
<1>2. s \in Seq(Nat) /\ Len(s) = Len(seen) + 1 /\ \A j \in 1 .. Len(seen) + 1 : s[j] = IF j = Len(seen) + 1 THEN id ELSE seen[j]
  BY <1>1, AppendedFacts
<1>3. NoteConsumed(id) = IF Len(s) > SeenCap THEN Tail(s) ELSE s
  BY DEF NoteConsumed
<1> HIDE DEF s
<1>4. \A j \in 1 .. Len(s) : s[j] \in Range(seen) \cup {id}
  BY <1>1, <1>2 DEF Range
<1>5. CASE Len(s) > SeenCap
  <2>1. s # <<>> /\ Len(s) > 1
    BY <1>1, <1>2, <1>5
  <2>2. /\ Tail(s) \in Seq(Nat) /\ Len(Tail(s)) = Len(s) - 1
        /\ \A j \in 1 .. Len(s) - 1 : Tail(s)[j] = s[j + 1]
    BY <1>2, <2>1, TailFacts
  <2>3. Len(s) - 1 \in 1 .. Len(Tail(s)) /\ Tail(s)[Len(s) - 1] = id
    <3>1. Len(s) - 1 \in 1 .. Len(s) - 1 /\ (Len(s) - 1) + 1 = Len(s) /\ Len(s) \in 1 .. Len(seen) + 1
      BY <1>1, <1>2, <2>1
    <3> QED BY <1>2, <2>2, <3>1
  <2>4. \A j \in 1 .. Len(Tail(s)) : Tail(s)[j] \in Range(seen) \cup {id}
    BY <1>1, <1>2, <1>4, <2>2
  <2>5. NoteConsumed(id) = Tail(s)
    BY <1>3, <1>5
  <2> DEFINE q == Tail(s)
  <2> HIDE DEF q
  <2>6. q \in Seq(Nat) /\ Len(s) - 1 \in 1 .. Len(q) /\ q[Len(s) - 1] = id /\ \A j \in 1 .. Len(q) : q[j] \in Range(seen) \cup {id}
    BY <2>2, <2>3, <2>4 DEF q
  <2>7. id \in Range(q) /\ \A x \in Range(q) : x \in Range(seen) \cup {id}
    BY <2>6, RangeFacts
  <2> QED BY <2>5, <2>6, <2>7 DEF q
<1>6. CASE ~(Len(s) > SeenCap)
  <2>1. Len(s) \in 1 .. Len(s) /\ s[Len(s)] = id
    BY <1>1, <1>2
  <2> QED BY <1>2, <1>3, <1>4, <1>6, <2>1 DEF Range
<1> QED BY <1>5, <1>6

(* Nothing that echoes and messages have to do with each other changes.     *)
SameEchoes(p) ==
  /\ p.confirmed = past.confirmed /\ p.answered = past.answered /\ p.warned = past.warned
  /\ p.forgotten = past.forgotten /\ p.cancelled = past.cancelled

LEMMA QuietEchoes ==
  ASSUME ScreenTyped, EchoInv, UNCHANGED <<typed, waiting, stash, seen, wire, held>>, SameEchoes(past'),
         \/ loop' = loop /\ quoted' = quoted
         \/ /\ loop.at # "sent" /\ loop'.at # "sent"
            /\ loop'.at \in {"typed", "drawn"} => loop.at \in {"typed", "drawn"} /\ loop'.id = loop.id
  PROVE  EchoInv'
<1>1. Unconfirmed'
  BY DEF EchoInv, Unconfirmed, SameEchoes, Active, IdsOf, Distinct
<1>2. NoneWaitsInVain' /\ WarningsAreEarned'
  BY DEF EchoInv, NoneWaitsInVain, WarningsAreEarned, SameEchoes
<1>3. EchoesMeet'
  BY DEF EchoInv, EchoesMeet, SameEchoes, Expected
<1>4. EchoIds'
  BY DEF EchoInv, EchoIds, SameEchoes
<1>5. StashMeets'
  <2>1. loop'.at = "sent" => loop.at = "sent"
    OBVIOUS
  <2>2. loop.at = "sent" => loop'.at = "sent"
    OBVIOUS
  <2> QED BY <2>1, <2>2 DEF EchoInv, StashMeets, SameEchoes, IdsOf
<1> QED BY <1>1, <1>2, <1>3, <1>4, <1>5 DEF EchoInv

LEMMA PastFacts ==
  ASSUME ScreenTyped, NEW X \in SUBSET Nat, NEW Y \in SUBSET Nat
  PROVE  LET p == [past EXCEPT !.gone = @ \cup X, !.moved = @ \cup Y]
         IN  p \in Pasts /\ SameEchoes(p) /\ p.gone = past.gone \cup X /\ p.moved = past.moved \cup Y
<1>1. past \in Pasts
  BY DEF ScreenTyped
<1> QED BY <1>1 DEF Pasts, SameEchoes

LEMMA NotedFacts ==
  ASSUME ScreenTyped, NEW b \in Seq(Rows), NEW Y \in SUBSET Nat
  PROVE  /\ Noted(b, Y) \in Pasts /\ SameEchoes(Noted(b, Y))
         /\ Noted(b, Y).gone = past.gone \cup Dropped(b)
         /\ Noted(b, Y).moved = past.moved \cup (Y \cup (IF Len(b) > Scrollback THEN 1 .. typed ELSE {}))
<1> DEFINE Z == Y \cup (IF Len(b) > Scrollback THEN 1 .. typed ELSE {})
<1>1. Dropped(b) \in SUBSET Nat /\ Z \in SUBSET Nat
  <2>1. Dropped(b) \in SUBSET Nat
    BY EvictFacts
  <2>2. typed \in Nat
    BY DEF ScreenTyped
  <2>3. 1 .. typed \in SUBSET Nat
    BY <2>2
  <2>4. Z \in SUBSET Nat
    BY <2>3, Zenon
  <2> QED BY <2>1, <2>4
<1>2. Noted(b, Y) = [past EXCEPT !.gone = @ \cup Dropped(b), !.moved = @ \cup Z]
  <2>1. past.moved \cup Y \cup (IF Len(b) > Scrollback THEN 1 .. typed ELSE {}) = past.moved \cup Z
    BY Zenon
  <2> QED BY <2>1 DEF Noted
<1> HIDE DEF Z
<1>3. LET p == [past EXCEPT !.gone = @ \cup Dropped(b), !.moved = @ \cup Z]
      IN  p \in Pasts /\ SameEchoes(p) /\ p.gone = past.gone \cup Dropped(b) /\ p.moved = past.moved \cup Z
  BY <1>1, PastFacts
<1> QED BY <1>2, <1>3 DEF Z

-----------------------------------------------------------------------------
(* A row that joins the buffer.                                             *)
LEMMA AppendHas ==
  ASSUME NEW b \in Seq(Rows), NEW r \in Rows
  PROVE  /\ Append(b, r) \in Seq(Rows) /\ Len(Append(b, r)) = Len(b) + 1
         /\ \A x : Has(Append(b, r), x) <=> x = r \/ Has(b, x)
         /\ r.kind \notin Mine => Overlays(Append(b, r), b)
<1> DEFINE c == Append(b, r)
<1>1. c \in Seq(Rows) /\ Len(c) = Len(b) + 1 /\ \A j \in 1 .. Len(b) + 1 : c[j] = IF j = Len(b) + 1 THEN r ELSE b[j]
  BY AppendedFacts
<1>2. Len(b) \in Nat
  OBVIOUS
<1> HIDE DEF c
<1>3. ASSUME NEW x, Has(c, x) PROVE x = r \/ Has(b, x)
  BY <1>1, <1>2, <1>3 DEF Has
<1>4. \A j \in 1 .. Len(b) : j \in 1 .. Len(c) /\ c[j] = b[j]
  BY <1>1, <1>2
<1>5. \A x : Has(b, x) => Has(c, x)
  BY <1>4 DEF Has
<1>6. Len(c) \in 1 .. Len(c) /\ c[Len(c)] = r
  BY <1>1, <1>2
<1>7. Has(c, r)
  BY <1>6 DEF Has
<1>8. r.kind \notin Mine => Overlays(c, b)
  BY <1>1, <1>2 DEF Overlays
<1> QED BY <1>1, <1>3, <1>5, <1>7, <1>8 DEF c

LEMMA InsertHas ==
  ASSUME NEW b \in Seq(Rows), NEW k \in 1 .. Len(b) + 1, NEW r \in Rows
  PROVE  /\ InsertAt(b, k, r) \in Seq(Rows) /\ Len(InsertAt(b, k, r)) = Len(b) + 1
         /\ \A x : Has(InsertAt(b, k, r), x) <=> x = r \/ Has(b, x)
         /\ r.kind \notin Mine /\ k = Len(b) + 1 => Overlays(InsertAt(b, k, r), b)
<1> DEFINE c == InsertAt(b, k, r)
<1>1. /\ c \in Seq(Rows) /\ Len(c) = Len(b) + 1
      /\ \A j \in 1 .. Len(b) + 1 : c[j] = IF j < k THEN b[j] ELSE IF j = k THEN r ELSE b[j - 1]
  BY InsertFacts
<1>2. Len(b) \in Nat
  OBVIOUS
<1> HIDE DEF c
<1>3. ASSUME NEW x, Has(c, x) PROVE x = r \/ Has(b, x)
  BY <1>1, <1>2, <1>3 DEF Has
<1>4. ASSUME NEW j \in 1 .. Len(b) PROVE Has(c, b[j])
  <2>1. CASE j < k
    <3>1. j \in 1 .. Len(b) + 1 /\ c[j] = b[j]
      BY <1>1, <1>2, <2>1
    <3> QED BY <1>1, <3>1 DEF Has
  <2>2. CASE j >= k
    <3>1. j + 1 \in 1 .. Len(b) + 1 /\ ~(j + 1 < k) /\ j + 1 # k /\ (j + 1) - 1 = j
      BY <1>2, <2>2
    <3>2. c[j + 1] = b[j]
      BY <1>1, <3>1
    <3> QED BY <1>1, <3>1, <3>2 DEF Has
  <2> QED BY <1>2, <2>1, <2>2
<1>5. \A x : Has(b, x) => Has(c, x)
  BY <1>4 DEF Has
<1>6. Has(c, r)
  BY <1>1, <1>2 DEF Has
<1>7. r.kind \notin Mine /\ k = Len(b) + 1 => Overlays(c, b)
  BY <1>1, <1>2 DEF Overlays
<1> QED BY <1>1, <1>3, <1>5, <1>6, <1>7 DEF c

LEMMA GrownShown ==
  ASSUME ScreenTyped, EveryLineShown, NEW b \in Seq(Rows), NEW r \in Rows,
         \A x : Has(b, x) <=> x = r \/ Has(buf, x),
         buf' = Evict(b), past'.gone = past.gone \cup Dropped(b),
         lines' = lines \/ (lines' = lines + 1 /\ r = LineRow(lines + 1))
  PROVE  EveryLineShown' /\ buf' \in Seq(Rows) /\ \A x : Has(buf', x) => x = r \/ Has(buf, x)
<1>1. /\ Evict(b) \in Seq(Rows) /\ \A x : Has(Evict(b), x) => Has(b, x)
      /\ \A x : Has(b, x) /\ x.kind = "line" => x.of \in Dropped(b) \/ Has(Evict(b), x)
  BY EvictFacts
<1>2. \A x : Has(buf, x) /\ x.kind = "line" => x.of \in past'.gone \/ Has(buf', x)
  BY <1>1
<1>3. ASSUME lines' = lines + 1, r = LineRow(lines + 1)
      PROVE  lines + 1 \in past'.gone \/ Has(buf', LineRow(lines + 1))
  <2>1. r.kind = "line" /\ r.of = lines + 1 /\ Has(b, r)
    <3>1. lines + 1 \in Nat
      BY DEF ScreenTyped
    <3> QED BY <1>3, <3>1, RowTypes
  <2> QED BY <1>1, <1>3, <2>1
<1>4. EveryLineShown'
  BY <1>2, <1>3, ShownKept
<1> QED BY <1>1, <1>4

LEMMA RestFacts == AtRest \in Hands /\ AtRest.at = "idle" /\ AtRest.slot = Nowhere
BY RowTypes DEF AtRest, Hands, Words

(* Every row of the sender's is somebody's; after a shift no slot counts.   *)
LEMMA OwnRows ==
  ASSUME RowsInPlace, NEW x, Has(buf, x), x.kind \in Mine
  PROVE  x.of \in 1 .. typed
BY DEF RowsInPlace, Has

LEMMA RefuseKeeps ==
  ASSUME ScreenInv, Refuse
  PROVE  ScreenInv'
<1> DEFINE b == Append(buf, Feedback)
<1>0. /\ ScreenTyped /\ SlotsOwn /\ EchoInv /\ Unconfirmed /\ RowsInPlace /\ EveryLineShown
      /\ buf' = Evict(b) /\ past' = Noted(b, {}) /\ loop' = AtRest /\ quoted' = FALSE
      /\ UNCHANGED <<older, typed, waiting, stash, seen, wire, held, lines>> /\ loop.at = "typed"
  BY DEF ScreenInv, EchoInv, Refuse, queue, net
<1>1. /\ b \in Seq(Rows) /\ Len(b) = Len(buf) + 1 /\ Feedback \in Rows /\ Feedback.kind \notin Mine
      /\ \A x : Has(b, x) <=> x = Feedback \/ Has(buf, x)
      /\ Overlays(b, buf)
  BY <1>0, AppendHas, RowTypes, ZenonT(30) DEF ScreenTyped, Mine
<1> HIDE DEF b
<1>2. /\ past' \in Pasts /\ SameEchoes(past') /\ past'.gone = past.gone \cup Dropped(b)
      /\ past'.moved = past.moved \cup ({} \cup (IF Len(b) > Scrollback THEN 1 .. typed ELSE {}))
  BY <1>0, <1>1, NotedFacts
<1>3. EveryLineShown' /\ buf' \in Seq(Rows) /\ \A x : Has(buf', x) => x = Feedback \/ Has(buf, x)
  BY <1>0, <1>1, <1>2, GrownShown
<1>4. AtRest \in Hands /\ AtRest.at = "idle" /\ AtRest.slot = Nowhere
  BY RestFacts
<1>5. ScreenTyped'
  BY <1>0, <1>2, <1>3, <1>4 DEF ScreenTyped
<1>6. SlotsOwn'
  BY <1>0, <1>4, RowTypes DEF SlotsOwn
<1>7. EchoInv'
  BY <1>0, <1>2, <1>4, QuietEchoes
<1>8. RowsInPlace'
  <2>1. Unconfirmed' /\ ~Active'
    BY <1>0, <1>4, <1>7 DEF EchoInv, Active
  <2>2. CASE Len(b) > Scrollback
    <3>1. past'.moved = 1 .. typed'
      BY <1>0, <1>2, <2>2 DEF RowsInPlace
    <3> QED BY <1>0, <1>1, <1>3, <1>5, <2>1, <3>1, OwnRows, ShiftKeeps
  <2>3. CASE ~(Len(b) > Scrollback)
    <3>1. past'.moved = past.moved /\ buf' = b
      <4>1. Len(b) <= Scrollback
        BY <1>1, <2>3, ScreenAssumption
      <4> QED BY <1>0, <1>1, <1>2, <2>3, <4>1, EvictFacts
    <3> QED BY <1>0, <1>1, <1>2, <1>5, <2>1, <3>1, OverlayKeeps DEF SameEchoes
  <2> QED BY <2>2, <2>3
<1> QED BY <1>3, <1>5, <1>6, <1>7, <1>8 DEF ScreenInv

LEMMA CmdClearKeeps ==
  ASSUME ScreenInv, CmdClear
  PROVE  ScreenInv'
<1> DEFINE X == {r.of : r \in {x \in Range(buf) : x.kind = "line"}}
<1>0. /\ ScreenTyped /\ SlotsOwn /\ EchoInv /\ RowsInPlace /\ EveryLineShown /\ buf \in Seq(Rows) /\ typed \in Nat
      /\ buf' = <<Feedback>> /\ past' = [past EXCEPT !.gone = @ \cup X, !.moved = @ \cup 1 .. typed]
      /\ loop' = AtRest /\ quoted' = FALSE
      /\ UNCHANGED <<older, typed, waiting, stash, seen, wire, held, lines>> /\ loop.at = "typed"
  BY DEF ScreenInv, CmdClear, queue, net, ScreenTyped
<1>1. \A x : Has(buf, x) /\ x.kind = "line" => x.of \in X
  <2>1. \A i \in 1 .. Len(buf) : buf[i] \in Range(buf)
    BY <1>0, RangeFacts
  <2> QED BY <2>1 DEF Has
<1>2. X \in SUBSET Nat /\ 1 .. typed \in SUBSET Nat
  <2>1. \A x \in Range(buf) : x \in Rows
    BY <1>0, RangeFacts
  <2> QED BY <1>0, <2>1 DEF Rows
<1> HIDE DEF X
<1>3. past' \in Pasts /\ SameEchoes(past') /\ past'.gone = past.gone \cup X /\ past'.moved = past.moved \cup 1 .. typed
  BY <1>0, <1>2, PastFacts
<1>4. buf' \in Seq(Rows) /\ \A x : Has(buf', x) => x.kind \notin Mine
  BY <1>0, RowTypes DEF Has, Mine
<1>5. AtRest \in Hands /\ AtRest.at = "idle" /\ AtRest.slot = Nowhere
  BY RestFacts
<1>6. ScreenTyped'
  BY <1>0, <1>3, <1>4, <1>5 DEF ScreenTyped
<1>7. SlotsOwn'
  BY <1>0, <1>5, RowTypes DEF SlotsOwn
<1>8. EchoInv'
  BY <1>0, <1>3, <1>5, QuietEchoes
<1>9. RowsInPlace'
  <2>1. past'.moved = 1 .. typed'
    BY <1>0, <1>3 DEF RowsInPlace
  <2> QED BY <1>4, <1>6, <1>8, <2>1, ShiftKeeps DEF EchoInv
<1>10. EveryLineShown'
  BY <1>0, <1>1, <1>3, ShownKept
<1> QED BY <1>6, <1>7, <1>8, <1>9, <1>10 DEF ScreenInv

(* The steps that leave the buffer alone.                                   *)
LEMMA StillRows ==
  ASSUME ScreenInv, ScreenTyped', EchoInv', UNCHANGED <<buf, lines, typed>>,
         past'.moved = past.moved, past'.gone = past.gone, past'.confirmed = past.confirmed,
         Active' => Active /\ loop'.slot = loop.slot,
         \A i \in 1 .. Len(waiting') :
           \/ \E j \in 1 .. Len(waiting) : waiting'[i] = waiting[j]
           \/ Active /\ ~Active' /\ waiting'[i].id = typed /\ waiting'[i].slot = loop.slot
  PROVE  RowsInPlace' /\ EveryLineShown'
<1>1. Overlays(buf', buf)
  <2>1. Len(buf) \in Nat
    BY DEF ScreenInv, ScreenTyped
  <2> QED BY <2>1 DEF Overlays
<1>2. ScreenTyped /\ Unconfirmed /\ RowsInPlace /\ Unconfirmed'
  BY DEF ScreenInv, EchoInv
<1> QED BY <1>1, <1>2, OverlayKeeps DEF ScreenInv, EveryLineShown

LEMMA WindowKeeps ==
  ASSUME ScreenInv, RequestOlder \/ OlderTrailer
  PROVE  ScreenInv'
<1>0. UNCHANGED <<buf, typed, loop, quoted, waiting, stash, seen, wire, held, lines, past>>
  BY DEF RequestOlder, OlderTrailer, queue, net
<1>1. older' \in Nat
  BY DEF RequestOlder, OlderTrailer
<1>2. ScreenTyped' /\ SlotsOwn'
  BY <1>0, <1>1 DEF ScreenInv, ScreenTyped, SlotsOwn
<1>3. EchoInv'
  BY <1>0, QuietEchoes DEF ScreenInv, SameEchoes
<1>4. RowsInPlace' /\ EveryLineShown'
  BY <1>0, <1>2, <1>3, StillRows DEF Active
<1> QED BY <1>2, <1>3, <1>4 DEF ScreenInv

LEMMA OlderLineKeeps ==
  ASSUME ScreenInv, OlderLine
  PROVE  ScreenInv'
<1> DEFINE r == LineRow(lines + 1)
           b == Place(r)
<1>0. /\ ScreenTyped /\ SlotsOwn /\ EchoInv /\ RowsInPlace /\ EveryLineShown /\ typed \in Nat /\ lines \in Nat /\ older \in Nat
      /\ buf' = Evict(b) /\ past' = Noted(b, 1 .. typed) /\ older' = NextAnchor /\ lines' = lines + 1
      /\ UNCHANGED <<loop, quoted, typed, waiting, stash, seen, wire, held>>
  BY DEF ScreenInv, OlderLine, queue, net, ScreenTyped
<1>1. r \in Rows /\ r.kind \notin Mine
  <2>1. lines + 1 \in Nat
    BY <1>0
  <2> QED BY <2>1, RowTypes DEF Mine
<1>2. b \in Seq(Rows) /\ \A x : Has(b, x) <=> x = r \/ Has(buf, x)
  BY <1>0, <1>1, PlaceFacts
<1> HIDE DEF b
<1>3. /\ past' \in Pasts /\ SameEchoes(past') /\ past'.gone = past.gone \cup Dropped(b)
      /\ past'.moved = past.moved \cup (1 .. typed \cup (IF Len(b) > Scrollback THEN 1 .. typed ELSE {}))
  <2>1. 1 .. typed \in SUBSET Nat
    BY <1>0
  <2> QED BY <1>0, <1>2, <2>1, NotedFacts
<1>4. EveryLineShown' /\ buf' \in Seq(Rows) /\ \A x : Has(buf', x) => x = r \/ Has(buf, x)
  BY <1>0, <1>1, <1>2, <1>3, GrownShown
<1> HIDE DEF r
<1>5. older' \in Nat /\ lines' \in Nat
  BY <1>0 DEF NextAnchor
<1>6. ScreenTyped' /\ SlotsOwn'
  BY <1>0, <1>3, <1>4, <1>5 DEF ScreenTyped, SlotsOwn
<1>7. EchoInv'
  BY <1>0, <1>3, QuietEchoes
<1>8. RowsInPlace'
  <2>1. past'.moved = 1 .. typed'
    BY <1>0, <1>3 DEF RowsInPlace
  <2> QED BY <1>0, <1>1, <1>4, <1>6, <1>7, <2>1, OwnRows, ShiftKeeps DEF EchoInv
<1> QED BY <1>4, <1>6, <1>7, <1>8 DEF ScreenInv

LEMMA RenderKeeps ==
  ASSUME ScreenInv, RenderPlaceholder
  PROVE  ScreenInv'
<1> DEFINE r == Row("pending", loop.text, quoted, loop.id)
<1>0. /\ ScreenTyped /\ SlotsOwn /\ EchoInv /\ RowsInPlace /\ EveryLineShown /\ Unconfirmed
      /\ loop.at = "typed" /\ Active /\ UNCHANGED <<typed, quoted, waiting, stash, seen, wire, held, lines>>
  BY DEF ScreenInv, EchoInv, RenderPlaceholder, queue, net, Active
<1>1. /\ typed \in Nat /\ typed > 0 /\ loop \in Hands /\ loop.slot \in Slots /\ loop.slot.index \in Nat /\ loop.id = typed
      /\ buf \in Seq(Rows) /\ Len(buf) \in Nat /\ past \in Pasts /\ loop.text \in Words /\ quoted \in BOOLEAN
      /\ loop.slot.row.kind # "line" /\ older \in Nat
  BY <1>0 DEF ScreenTyped, Unconfirmed, SlotsOwn, Hands, Slots
<1>2. r \in Rows /\ r.kind = "pending" /\ r.of = typed
  <2>1. loop.id \in Nat
    BY <1>1
  <2> QED BY <1>1, <2>1 DEF Row, Rows
<1> HIDE DEF r
<1>3. CASE Holds(buf, loop.slot)
  <2> DEFINE k == loop.slot.index
  <2>1. /\ buf' = ReplaceAt(buf, k, r) /\ loop' = [loop EXCEPT !.at = "drawn", !.slot = Slot(k, r)]
        /\ UNCHANGED <<older, past>> /\ k \in 1 .. Len(buf) /\ Same(buf[k], loop.slot.row)
    BY <1>3 DEF RenderPlaceholder, Holds, r
  <2>2. buf[k].kind # "line"
    BY <1>1, <2>1 DEF Same
  <2>3. /\ buf' \in Seq(Rows) /\ Len(buf') = Len(buf)
        /\ \A j \in 1 .. Len(buf) : buf'[j] = IF j = k THEN r ELSE buf[j]
    <3>1. /\ ReplaceAt(buf, k, r) \in Seq(Rows) /\ Len(ReplaceAt(buf, k, r)) = Len(buf)
          /\ \A j \in 1 .. Len(buf) : ReplaceAt(buf, k, r)[j] = IF j = k THEN r ELSE buf[j]
      BY <1>1, <1>2, <2>1 DEF ReplaceAt
    <3> QED BY <2>1, <3>1
  <2>4. /\ loop' \in Hands /\ loop'.at = "drawn" /\ loop'.id = loop.id
        /\ loop'.slot.index = k /\ loop'.slot.row = r
    <3>1. Slot(k, r) \in Slots /\ Slot(k, r).index = k /\ Slot(k, r).row = r
      BY <1>1, <1>2, RowTypes
    <3> QED BY <1>1, <2>1, <3>1 DEF Hands
  <2> HIDE DEF k
  <2>5. ScreenTyped' /\ SlotsOwn'
    BY <1>0, <1>2, <2>1, <2>3, <2>4 DEF ScreenTyped, SlotsOwn
  <2>6. EchoInv'
    BY <1>0, <2>1, <2>4, QuietEchoes DEF SameEchoes
  <2>7. EveryLineShown'
    <3>1. \A x : Has(buf, x) /\ x.kind = "line" => Has(buf', x)
      BY <2>2, <2>3 DEF Has
    <3> QED BY <1>0, <2>1, <3>1, ShownKept
  <2>8. RowsInPlace'
    <3>1. CASE typed \in past.moved
      <4>1. past'.moved = 1 .. typed'
        BY <1>0, <2>1, <3>1 DEF RowsInPlace
      <4>2. \A x : Has(buf', x) => (x.kind \in Mine => x.of \in 1 .. typed')
        <5>1. \A x : Has(buf', x) => x = r \/ Has(buf, x)
          BY <2>1, <2>3 DEF Has
        <5>2. typed \in 1 .. typed
          BY <1>1
        <5> QED BY <1>0, <1>2, <5>1, <5>2, OwnRows
      <4> QED BY <2>5, <2>6, <4>1, <4>2, ShiftKeeps DEF EchoInv
    <3>2. CASE typed \notin past.moved
      <4>1. /\ buf[k] = loop.slot.row /\ loop.slot.row.of = typed /\ loop.slot.row.kind \in Mine
            /\ \A j \in k + 1 .. Len(buf) : buf[j].kind \notin Mine
        <5>1. Fixed(buf, loop.slot, typed) /\ \A j \in k + 1 .. Len(buf) : buf[j].kind \notin Mine
          BY <1>0, <3>2 DEF RowsInPlace, k
        <5> QED BY <2>2, <5>1 DEF Fixed, k
      <4>2. \A j \in 1 .. Len(buf) : buf'[j].kind \in Mine <=> buf[j].kind \in Mine
        BY <1>2, <2>3, <4>1 DEF Mine
      <4>3. \A j \in 1 .. Len(buf) : buf'[j].of = buf[j].of
        BY <1>2, <2>3, <4>1
      <4>4. \A i \in 1 .. Len(buf') : buf'[i].kind \in Mine => buf'[i].of \in 1 .. typed'
        BY <1>0, <2>3, <4>2, <4>3 DEF RowsInPlace
      <4>5. \A i \in 1 .. Len(buf') : buf'[i].kind \in Mine /\ buf'[i].of \notin past'.moved =>
              /\ buf'[i].of \notin past'.confirmed
              /\ \A j \in 1 .. Len(buf') : buf'[j].kind \in Mine /\ buf'[j].of = buf'[i].of => i = j
        BY <1>0, <2>1, <2>3, <4>2, <4>3 DEF RowsInPlace
      <4>6. Fixed(buf', loop'.slot, typed') /\ \A j \in loop'.slot.index + 1 .. Len(buf') : buf'[j].kind \notin Mine
        <5>1. Fixed(buf', loop'.slot, typed')
          BY <1>0, <1>2, <2>1, <2>3, <2>4 DEF Fixed, Mine
        <5>2. ASSUME NEW j \in loop'.slot.index + 1 .. Len(buf') PROVE buf'[j].kind \notin Mine
          <6>1. j \in 1 .. Len(buf) /\ j \in k + 1 .. Len(buf)
            BY <1>1, <2>1, <2>3, <2>4
          <6> QED BY <4>1, <4>2, <6>1
        <5> QED BY <5>1, <5>2
      <4>7. ASSUME NEW i \in 1 .. Len(waiting'), waiting'[i].id \notin past'.moved
            PROVE  Fixed(buf', waiting'[i].slot, waiting'[i].id) /\ waiting'[i].slot.index < loop'.slot.index
        <5> DEFINE spot == waiting[i].slot
                   id == waiting[i].id
        <5>1. /\ waiting' = waiting /\ i \in 1 .. Len(waiting) /\ id # typed
              /\ Fixed(buf, spot, id) /\ spot.index < k
          BY <1>0, <2>1, <4>7 DEF RowsInPlace, Unconfirmed, IdsOf, k
        <5> HIDE DEF spot, id
        <5>2. spot.index \in 1 .. Len(buf) /\ spot.row.of = id /\ spot.row.kind \in Mine
          BY <5>1 DEF Fixed
        <5>3. spot.index # k /\ buf'[spot.index] = buf[spot.index]
          BY <1>1, <2>1, <2>3, <5>1, <5>2 DEF k
        <5>4. Fixed(buf', spot, id)
          BY <2>3, <4>2, <4>3, <5>1, <5>2, <5>3 DEF Fixed
        <5> QED BY <2>4, <5>1, <5>4 DEF spot, id
      <4>8. past'.moved \subseteq 1 .. typed' /\ (typed' \in past'.moved => 1 .. typed' \subseteq past'.moved)
        BY <1>0, <2>1 DEF RowsInPlace
      <4> QED BY <4>4, <4>5, <4>6, <4>7, <4>8 DEF RowsInPlace
    <3> QED BY <3>1, <3>2
  <2> QED BY <2>5, <2>6, <2>7, <2>8 DEF ScreenInv
<1>4. CASE ~Holds(buf, loop.slot)
  <2> DEFINE b == Place(r)
  <2>1. /\ buf' = Evict(b) /\ older' = NextAnchor /\ past' = Noted(b, 1 .. typed)
        /\ loop' = [loop EXCEPT !.at = "drawn", !.slot = Slot(Len(buf'), r)]
    BY <1>4 DEF RenderPlaceholder, r
  <2>2. b \in Seq(Rows) /\ \A x : Has(b, x) <=> x = r \/ Has(buf, x)
    BY <1>0, <1>2, PlaceFacts
  <2> HIDE DEF b
  <2>3. /\ past' \in Pasts /\ SameEchoes(past') /\ past'.gone = past.gone \cup Dropped(b)
        /\ past'.moved = past.moved \cup (1 .. typed \cup (IF Len(b) > Scrollback THEN 1 .. typed ELSE {}))
    <3>1. 1 .. typed \in SUBSET Nat
      BY <1>1
    <3> QED BY <1>0, <2>1, <2>2, <3>1, NotedFacts
  <2>4. EveryLineShown' /\ buf' \in Seq(Rows) /\ \A x : Has(buf', x) => x = r \/ Has(buf, x)
    BY <1>0, <1>2, <2>1, <2>2, <2>3, GrownShown
  <2>5. loop' \in Hands /\ loop'.at = "drawn" /\ loop'.id = loop.id /\ loop'.slot.row = r
    <3>1. Len(buf') \in Nat
      BY <2>4
    <3>2. Slot(Len(buf'), r) \in Slots /\ Slot(Len(buf'), r).row = r
      BY <1>2, <3>1, RowTypes
    <3> QED BY <1>1, <2>1, <3>2 DEF Hands
  <2>6. ScreenTyped' /\ SlotsOwn'
    <3>1. older' \in Nat
      BY <1>1, <2>1 DEF NextAnchor
    <3> QED BY <1>0, <1>2, <2>3, <2>4, <2>5, <3>1 DEF ScreenTyped, SlotsOwn
  <2>7. EchoInv'
    BY <1>0, <2>3, <2>5, QuietEchoes
  <2>8. RowsInPlace'
    <3>1. past'.moved = 1 .. typed'
      BY <1>0, <2>3 DEF RowsInPlace
    <3>2. typed \in 1 .. typed
      BY <1>1
    <3> QED BY <1>0, <1>2, <2>4, <2>6, <2>7, <3>1, <3>2, OwnRows, ShiftKeeps DEF EchoInv
  <2> QED BY <2>4, <2>6, <2>7, <2>8 DEF ScreenInv
<1> QED BY <1>3, <1>4

LEMMA EvictShift ==
  ASSUME NEW b \in Seq(Rows)
  PROVE  \E d \in Nat : /\ Len(Evict(b)) = Len(b) - d
                        /\ \A i \in 1 .. Len(b) - d : i + d \in 1 .. Len(b) /\ Evict(b)[i] = b[i + d]
<1>0. Scrollback \in Nat /\ Scrollback > 0 /\ Len(b) \in Nat
  BY ScreenAssumption
<1> DEFINE d == IF Len(b) > Scrollback THEN Len(b) - Scrollback ELSE 0
<1>1. d \in Nat /\ 1 + d \in 1 .. Len(b) + 1 /\ Len(b) \in (1 + d) - 1 .. Len(b)
  BY <1>0
<1>2. Evict(b) = SubSeq(b, 1 + d, Len(b))
  BY DEF Evict
<1> HIDE DEF d
<1>3. /\ Len(Evict(b)) = Len(b) - (1 + d) + 1
      /\ \A i \in 1 .. Len(b) - (1 + d) + 1 : Evict(b)[i] = b[i + ((1 + d) - 1)]
  BY <1>1, <1>2, CutFacts
<1>4. Len(b) - (1 + d) + 1 = Len(b) - d /\ (1 + d) - 1 = d
  BY <1>0, <1>1
<1>5. \A i \in 1 .. Len(b) - d : i + d \in 1 .. Len(b)
  BY <1>0, <1>1
<1> QED BY <1>1, <1>3, <1>4, <1>5

(* A new line: everybody else's row is above it.                            *)
LEMMA SubmitKeeps ==
  ASSUME ScreenInv, NEW t \in Texts, NEW q \in BOOLEAN, EchoInputLine(t, q)
  PROVE  ScreenInv'
<1> DEFINE r == Row("typed", t, FALSE, typed')
           b == Place(r)
<1>0. /\ ScreenTyped /\ SlotsOwn /\ EchoInv /\ RowsInPlace /\ EveryLineShown /\ Unconfirmed
      /\ typed \in Nat /\ older \in Nat /\ buf \in Seq(Rows) /\ Len(buf) \in Nat
      /\ loop.at = "idle" /\ ~Active /\ typed' = typed + 1 /\ quoted' = q /\ buf' = Evict(b) /\ older' = NextAnchor
      /\ loop' = [AtRest EXCEPT !.at = "typed", !.text = t, !.id = typed', !.slot = Slot(Len(buf'), r)]
      /\ past' = Noted(b, IF older = 0 THEN {} ELSE 1 .. typed + 1)
      /\ UNCHANGED <<waiting, stash, seen, wire, held, lines>>
  BY DEF ScreenInv, EchoInv, ScreenTyped, EchoInputLine, Active, queue, net
<1>1. r \in Rows /\ r.kind = "typed" /\ r.of = typed'
  <2>1. typed' \in Nat
    BY <1>0
  <2>2. t \in Words
    BY Zenon DEF Words
  <2> QED BY <2>1, <2>2 DEF Row, Rows
<1> HIDE DEF r
<1>2. /\ b \in Seq(Rows) /\ Len(b) = Len(buf) + 1 /\ \A x : Has(b, x) <=> x = r \/ Has(buf, x)
      /\ older = 0 => b = Append(buf, r)
  BY <1>0, <1>1, PlaceFacts
<1> HIDE DEF b
<1> DEFINE Y == IF older = 0 THEN {} ELSE 1 .. typed + 1
<1>3. /\ past' \in Pasts /\ SameEchoes(past') /\ past'.gone = past.gone \cup Dropped(b)
      /\ past'.moved = past.moved \cup (Y \cup (IF Len(b) > Scrollback THEN 1 .. typed ELSE {}))
  <2>1. Y \in SUBSET Nat /\ past' = Noted(b, Y)
    BY <1>0
  <2> HIDE DEF Y
  <2> QED BY <1>0, <1>2, <2>1, NotedFacts
<1>4. EveryLineShown' /\ buf' \in Seq(Rows) /\ \A x : Has(buf', x) => x = r \/ Has(buf, x)
  BY <1>0, <1>1, <1>2, <1>3, GrownShown
<1>5. /\ loop' \in Hands /\ loop'.at = "typed" /\ loop'.id = typed'
      /\ loop'.slot.row = r /\ loop'.slot.index = Len(buf')
  <2>1. Len(buf') \in Nat /\ typed' \in Nat
    BY <1>0, <1>4
  <2>2. Slot(Len(buf'), r) \in Slots /\ Slot(Len(buf'), r).row = r /\ Slot(Len(buf'), r).index = Len(buf')
    BY <1>1, <2>1, RowTypes
  <2>3. t \in Words
    BY Zenon DEF Words
  <2> QED BY <1>0, <2>1, <2>2, <2>3, RestFacts DEF Hands
<1>6. ScreenTyped' /\ SlotsOwn'
  <2>1. older' \in Nat /\ typed' \in Nat
    BY <1>0 DEF NextAnchor
  <2> QED BY <1>0, <1>1, <1>3, <1>4, <1>5, <2>1 DEF ScreenTyped, SlotsOwn
<1>7. EchoInv'
  <2>0. \A n \in 1 .. typed : n \in 1 .. typed' /\ n # typed'
    BY <1>0
  <2>1. Unconfirmed'
    <3>1. past'.confirmed = past.confirmed /\ typed' > 0
      BY <1>0, <1>3 DEF SameEchoes
    <3> QED BY <1>0, <1>5, <2>0, <3>1 DEF Unconfirmed
  <2>2. EchoIds'
    BY <1>0, <1>3, <1>5, <2>0 DEF EchoInv, EchoIds, SameEchoes
  <2>3. EchoesMeet'
    BY <1>0, <1>3, <1>5 DEF EchoInv, EchoesMeet, Expected, SameEchoes
  <2>4. StashMeets'
    BY <1>0, <1>3, <1>5 DEF EchoInv, StashMeets, SameEchoes
  <2>5. NoneWaitsInVain' /\ WarningsAreEarned'
    BY <1>0, <1>3 DEF EchoInv, NoneWaitsInVain, WarningsAreEarned, SameEchoes
  <2> QED BY <2>1, <2>2, <2>3, <2>4, <2>5 DEF EchoInv
<1>8. \A x : Has(buf', x) => (x.kind \in Mine => x = r \/ x.of \in 1 .. typed)
  BY <1>0, <1>4, OwnRows
<1>9. CASE older # 0
  <2>1. past'.moved = 1 .. typed'
    <3>1. past.moved \subseteq 1 .. typed + 1 /\ 1 .. typed \subseteq 1 .. typed + 1
      BY <1>0 DEF RowsInPlace
    <3>2. Y = 1 .. typed + 1
      BY <1>9
    <3> HIDE DEF Y
    <3> QED BY <1>0, <1>3, <3>1, <3>2
  <2>2. typed' \in 1 .. typed' /\ 1 .. typed \subseteq 1 .. typed'
    BY <1>0
  <2>3. RowsInPlace'
    BY <1>1, <1>6, <1>7, <1>8, <2>1, <2>2, ShiftKeeps DEF EchoInv
  <2> QED BY <1>4, <1>6, <1>7, <2>3 DEF ScreenInv
<1>10. CASE older = 0
  <2>0. /\ Len(b) = Len(buf) + 1 /\ b[Len(buf) + 1] = r /\ \A j \in 1 .. Len(buf) : b[j] = buf[j]
    BY <1>0, <1>1, <1>2, <1>10, AppendedFacts
  <2>1. PICK d \in Nat : /\ Len(buf') = Len(b) - d
                         /\ \A i \in 1 .. Len(b) - d : i + d \in 1 .. Len(b) /\ buf'[i] = b[i + d]
    BY <1>0, <1>2, EvictShift
  <2>2. Len(buf') > 0 /\ buf'[Len(buf')] = r
    <3>1. Len(b) > 0
      BY <1>0, <2>0
    <3> QED BY <1>0, <1>2, <2>0, <3>1, EvictFacts
  <2>3. ASSUME NEW i \in 1 .. Len(buf'), i # Len(buf'), buf'[i].kind \in Mine
        PROVE  buf'[i].of \in 1 .. typed /\ buf'[i].of # typed'
    <3>1. i + d \in 1 .. Len(buf) /\ buf'[i] = buf[i + d]
      BY <1>0, <2>0, <2>1, <2>3
    <3>2. buf'[i].of \in 1 .. typed
      BY <1>0, <2>3, <3>1 DEF RowsInPlace
    <3> QED BY <1>0, <3>2
  <2>4. typed' \notin past'.moved /\ past'.moved \subseteq 1 .. typed'
    <3>1. past'.moved \subseteq 1 .. typed
      BY <1>0, <1>3, <1>10 DEF RowsInPlace
    <3> QED BY <1>0, <3>1
  <2>5. \A i \in 1 .. Len(buf') : buf'[i].kind \in Mine => buf'[i].of \in 1 .. typed'
    BY <1>0, <1>1, <2>2, <2>3
  <2>6. typed' \notin past'.confirmed
    BY <1>5, <1>7 DEF EchoInv, Unconfirmed, Active
  <2>7. Fixed(buf', loop'.slot, typed') /\ \A j \in loop'.slot.index + 1 .. Len(buf') : buf'[j].kind \notin Mine
    <3>1. Len(buf') \in 1 .. Len(buf')
      BY <1>4, <2>2
    <3>2. \A j \in loop'.slot.index + 1 .. Len(buf') : FALSE
      BY <1>4, <1>5
    <3> QED BY <1>1, <1>5, <2>2, <3>1, <3>2 DEF Fixed, Mine
  <2>8. CASE Len(b) > Scrollback
    <3>1. past'.moved = 1 .. typed
      BY <1>0, <1>3, <1>10, <2>8 DEF RowsInPlace
    <3>2. \A i \in 1 .. Len(buf') : buf'[i].kind \in Mine /\ buf'[i].of \notin past'.moved => i = Len(buf')
      BY <2>3, <3>1
    <3>3. \A i \in 1 .. Len(buf') : buf'[i].kind \in Mine /\ buf'[i].of \notin past'.moved =>
            /\ buf'[i].of \notin past'.confirmed
            /\ \A j \in 1 .. Len(buf') : buf'[j].kind \in Mine /\ buf'[j].of = buf'[i].of => i = j
      BY <1>1, <2>2, <2>3, <2>6, <3>2
    <3>4. \A i \in 1 .. Len(waiting') : waiting'[i].id \in past'.moved
      BY <1>0, <3>1 DEF Unconfirmed, IdsOf
    <3>5. RowsInPlace'
      BY <2>4, <2>5, <2>7, <3>3, <3>4 DEF RowsInPlace
    <3> QED BY <1>4, <1>6, <1>7, <3>5 DEF ScreenInv
  <2>9. CASE ~(Len(b) > Scrollback)
    <3>1. past'.moved = past.moved /\ buf' = b
      <4>1. Len(b) <= Scrollback
        BY <1>0, <1>2, <2>9, ScreenAssumption
      <4> QED BY <1>0, <1>2, <1>3, <1>10, <2>9, <4>1, EvictFacts
    <3>2. \A j \in 1 .. Len(buf) : j \in 1 .. Len(buf') /\ j # Len(buf') /\ buf'[j] = buf[j]
      BY <1>0, <2>0, <3>1
    <3>3. \A j \in 1 .. Len(buf') : j # Len(buf') => j \in 1 .. Len(buf)
      BY <1>0, <2>0, <3>1
    <3>4. ASSUME NEW i \in 1 .. Len(buf'), buf'[i].kind \in Mine, buf'[i].of \notin past'.moved
          PROVE  /\ buf'[i].of \notin past'.confirmed
                 /\ \A j \in 1 .. Len(buf') : buf'[j].kind \in Mine /\ buf'[j].of = buf'[i].of => i = j
      <4>1. CASE i = Len(buf')
        BY <1>1, <2>2, <2>3, <2>6, <4>1
      <4>2. CASE i # Len(buf')
        <5>1. i \in 1 .. Len(buf) /\ buf'[i] = buf[i] /\ buf[i].of # typed'
          BY <2>3, <3>2, <3>3, <3>4, <4>2
        <5>2. /\ buf[i].of \notin past.confirmed
              /\ \A j \in 1 .. Len(buf) : buf[j].kind \in Mine /\ buf[j].of = buf[i].of => i = j
          BY <1>0, <3>1, <3>4, <5>1 DEF RowsInPlace
        <5>3. \A j \in 1 .. Len(buf') : buf'[j].kind \in Mine /\ buf'[j].of = buf'[i].of => j # Len(buf')
          BY <1>1, <2>2, <5>1
        <5> QED BY <1>3, <3>2, <3>3, <5>1, <5>2, <5>3 DEF SameEchoes
      <4> QED BY <4>1, <4>2
    <3>5. ASSUME NEW i \in 1 .. Len(waiting'), waiting'[i].id \notin past'.moved
          PROVE  Fixed(buf', waiting'[i].slot, waiting'[i].id) /\ waiting'[i].slot.index < loop'.slot.index
      <4> DEFINE spot == waiting[i].slot
                 id == waiting[i].id
      <4>1. waiting' = waiting /\ i \in 1 .. Len(waiting) /\ id \in 1 .. typed /\ Fixed(buf, spot, id)
        BY <1>0, <3>1, <3>5 DEF RowsInPlace, Unconfirmed, IdsOf
      <4> HIDE DEF spot, id
      <4>2. spot.index \in 1 .. Len(buf) /\ id # typed' /\ buf'[spot.index] = buf[spot.index] /\ spot.index \in 1 .. Len(buf')
        BY <1>0, <3>2, <4>1 DEF Fixed
      <4>3. spot.index < Len(buf')
        BY <1>0, <2>0, <3>1, <4>2
      <4>4. ASSUME \A j \in 1 .. Len(buf) : buf[j].kind \in Mine => buf[j].of # id
            PROVE  \A j \in 1 .. Len(buf') : buf'[j].kind \in Mine => buf'[j].of # id
        BY <1>1, <2>2, <3>2, <3>3, <4>2, <4>4
      <4>5. Fixed(buf', spot, id)
        BY <4>1, <4>2, <4>4 DEF Fixed
      <4> QED BY <1>5, <4>1, <4>3, <4>5 DEF spot, id
    <3>6. RowsInPlace'
      BY <2>4, <2>5, <2>7, <3>4, <3>5 DEF RowsInPlace
    <3> QED BY <1>4, <1>6, <1>7, <3>6 DEF ScreenInv
  <2> QED BY <2>8, <2>9
<1> QED BY <1>0, <1>9, <1>10

LEMMA SendKeeps ==
  ASSUME ScreenInv, Send
  PROVE  ScreenInv'
<1>0. /\ ScreenTyped /\ SlotsOwn /\ EchoInv /\ Unconfirmed /\ loop \in Hands /\ loop.id \in Nat /\ quoted \in BOOLEAN
      /\ loop.at = "drawn" /\ Active /\ loop.id = typed /\ typed \in Nat /\ typed > 0 /\ wire \in Seq(Sents)
      /\ UNCHANGED <<buf, older, lines, typed, quoted, waiting, stash, seen, held, past>>
  BY DEF ScreenInv, EchoInv, ScreenTyped, Unconfirmed, Send, Active, view, queue, Hands
<1>1. CASE loop' = [AtRest EXCEPT !.at = "ended"] /\ UNCHANGED wire
  <2>1. loop' \in Hands /\ loop'.at = "ended" /\ loop'.slot = Nowhere
    BY <1>1, RestFacts DEF Hands
  <2>2. ScreenTyped' /\ SlotsOwn'
    BY <1>0, <1>1, <2>1, RowTypes DEF ScreenTyped, SlotsOwn
  <2>3. EchoInv'
    BY <1>0, <1>1, <2>1, QuietEchoes DEF SameEchoes
  <2>4. RowsInPlace' /\ EveryLineShown'
    BY <1>0, <2>1, <2>2, <2>3, StillRows DEF Active
  <2> QED BY <2>2, <2>3, <2>4 DEF ScreenInv
<1>2. CASE loop' = [loop EXCEPT !.at = "sent"] /\ wire' = Append(wire, Sent)
  <2>1. loop' \in Hands /\ loop'.at = "sent" /\ loop'.id = typed /\ loop'.slot = loop.slot
    BY <1>0, <1>2 DEF Hands
  <2>2. Sent \in Sents /\ Sent.id = typed /\ Sent.quote = quoted
    BY <1>0 DEF Sent, Sents
  <2>3. /\ wire' \in Seq(Sents) /\ Len(wire') = Len(wire) + 1 /\ Len(wire) \in Nat
        /\ \A j \in 1 .. Len(wire) + 1 : wire'[j] = IF j = Len(wire) + 1 THEN Sent ELSE wire[j]
    BY <1>0, <1>2, <2>2, AppendedFacts
  <2>4. ScreenTyped' /\ SlotsOwn'
    BY <1>0, <2>1, <2>3 DEF ScreenInv, ScreenTyped, SlotsOwn
  <2>5. Unconfirmed'
    BY <1>0, <2>1 DEF Unconfirmed, Active
  <2>6. NoneWaitsInVain' /\ WarningsAreEarned'
    BY <1>0 DEF EchoInv, NoneWaitsInVain, WarningsAreEarned
  <2>7. typed \notin IdsOf(wire) \cup IdsOf(held) \cup past.answered /\ typed \in 1 .. typed
    BY <1>0 DEF EchoInv, EchoIds
  <2>8. \A j \in 1 .. Len(wire) : wire[j].id # typed /\ j # Len(wire) + 1 /\ j \in 1 .. Len(wire) + 1 /\ wire'[j] = wire[j]
    BY <2>3, <2>7 DEF IdsOf
  <2>9. \A j \in 1 .. Len(wire') : j \in 1 .. Len(wire) \/ (j = Len(wire) + 1 /\ wire'[j] = Sent)
    BY <2>3
  <2>10. IdsOf(wire') = IdsOf(wire) \cup {typed}
    <3>1. ASSUME NEW x \in IdsOf(wire') PROVE x \in IdsOf(wire) \cup {typed}
      BY <2>2, <2>8, <2>9, <3>1 DEF IdsOf
    <3>2. ASSUME NEW x \in IdsOf(wire) PROVE x \in IdsOf(wire')
      BY <2>3, <2>8 DEF IdsOf
    <3>3. typed \in IdsOf(wire')
      <4>1. Len(wire) + 1 \in 1 .. Len(wire') /\ wire'[Len(wire) + 1].id = typed
        BY <2>2, <2>3
      <4> QED BY <4>1 DEF IdsOf
    <3> QED BY <3>1, <3>2, <3>3
  <2>11. Distinct(wire')
    BY <1>0, <2>2, <2>8, <2>9 DEF EchoInv, EchoIds, Distinct
  <2>12. EchoIds'
    BY <1>0, <2>1, <2>7, <2>10, <2>11 DEF EchoInv, EchoIds
  <2>13. EchoesMeet'
    <3>1. ASSUME NEW i \in 1 .. Len(wire') PROVE Expected(wire[i])'
      <4>1. CASE i \in 1 .. Len(wire)
        <5>1. Expected(wire[i]) /\ wire'[i] = wire[i]
          BY <1>0, <2>8, <4>1 DEF EchoInv, EchoesMeet
        <5> QED BY <1>0, <5>1 DEF Expected
      <4>2. CASE wire'[i] = Sent
        BY <1>0, <2>1, <2>2, <4>2 DEF Expected
      <4> QED BY <2>9, <4>1, <4>2
    <3>2. \A i \in 1 .. Len(held') : Expected(held[i])'
      BY <1>0 DEF EchoInv, EchoesMeet, Expected
    <3> QED BY <3>1, <3>2 DEF EchoesMeet
  <2>14. StashMeets'
    <3>1. \A i \in 1 .. Len(stash) : stash[i].id # typed
      BY <1>0, <2>7 DEF EchoInv, EchoIds, IdsOf
    <3> QED BY <1>0, <2>1, <2>7, <3>1 DEF EchoInv, StashMeets
  <2>15. EchoInv'
    BY <2>5, <2>6, <2>12, <2>13, <2>14 DEF EchoInv
  <2>16. RowsInPlace' /\ EveryLineShown'
    BY <1>0, <2>1, <2>4, <2>15, StillRows DEF Active
  <2> QED BY <2>4, <2>15, <2>16 DEF ScreenInv
<1> QED BY <1>1, <1>2 DEF Send

LEMMA CancelKeeps ==
  ASSUME ScreenInv, CancelReply
  PROVE  ScreenInv'
<1>0. /\ ScreenTyped /\ SlotsOwn /\ EchoInv /\ Unconfirmed /\ past \in Pasts /\ loop \in Hands /\ loop.id \in Nat
      /\ UNCHANGED <<buf, older, lines, typed, loop, waiting, stash, seen, wire, held>> /\ quoted' = FALSE
      /\ past' = IF loop.at = "sent" THEN [past EXCEPT !.cancelled = @ \cup {loop.id}] ELSE past
  BY DEF ScreenInv, EchoInv, ScreenTyped, CancelReply, view, queue, net, Hands
<1>1. /\ past' \in Pasts /\ past'.gone = past.gone /\ past'.moved = past.moved /\ past'.confirmed = past.confirmed
      /\ past'.answered = past.answered /\ past'.warned = past.warned /\ past'.forgotten = past.forgotten
      /\ past.cancelled \subseteq past'.cancelled
      /\ loop.at = "sent" => typed \in past'.cancelled
  <2>1. CASE loop.at = "sent"
    <3>1. loop.id = typed
      BY <1>0, <2>1 DEF Unconfirmed, Active
    <3> QED BY <1>0, <2>1, <3>1 DEF Pasts
  <2>2. CASE loop.at # "sent"
    BY <1>0, <2>2
  <2> QED BY <2>1, <2>2
<1>2. ScreenTyped' /\ SlotsOwn'
  BY <1>0, <1>1 DEF ScreenTyped, SlotsOwn
<1>3. Unconfirmed'
  BY <1>0, <1>1 DEF Unconfirmed, Active
<1>4. EchoIds'
  BY <1>0, <1>1 DEF EchoInv, EchoIds
<1>5. EchoesMeet'
  BY <1>0, <1>1 DEF EchoInv, EchoesMeet, Expected
<1>6. StashMeets'
  BY <1>0, <1>1 DEF EchoInv, StashMeets
<1>7. NoneWaitsInVain' /\ WarningsAreEarned'
  BY <1>0, <1>1 DEF EchoInv, NoneWaitsInVain, WarningsAreEarned
<1>8. EchoInv'
  BY <1>3, <1>4, <1>5, <1>6, <1>7 DEF EchoInv
<1>9. RowsInPlace' /\ EveryLineShown'
  BY <1>0, <1>1, <1>2, <1>8, StillRows DEF Active
<1> QED BY <1>2, <1>8, <1>9 DEF ScreenInv

LEMMA TimeKeeps ==
  ASSUME ScreenInv, TimePasses
  PROVE  ScreenInv'
<1>0. /\ ScreenTyped /\ SlotsOwn /\ EchoInv /\ stash \in Seq(Echoes) /\ loop.at # "sent"
      /\ UNCHANGED <<buf, older, lines, typed, loop, quoted, waiting, seen, wire, held, past>>
      /\ stash' = [i \in 1 .. Len(stash) |-> [stash[i] EXCEPT !.old = TRUE]]
  BY DEF ScreenInv, ScreenTyped, TimePasses, view, net
<1>1. stash' \in Seq(Echoes) /\ Len(stash') = Len(stash) /\ \A i \in 1 .. Len(stash) : stash'[i].id = stash[i].id
  <2> DEFINE Aged(i) == [stash[i] EXCEPT !.old = TRUE]
  <2>1. ASSUME NEW i \in 1 .. Len(stash) PROVE Aged(i) \in Echoes /\ Aged(i).id = stash[i].id
    <3>1. stash[i] \in Echoes
      BY <1>0
    <3> QED BY <3>1 DEF Echoes
  <2>2. stash' = [i \in 1 .. Len(stash) |-> Aged(i)] /\ Len(stash) \in Nat
    BY <1>0
  <2> HIDE DEF Aged
  <2> QED BY <2>1, <2>2
<1>2. ScreenTyped' /\ SlotsOwn'
  BY <1>0, <1>1 DEF ScreenTyped, SlotsOwn
<1>3. IdsOf(stash') = IdsOf(stash) /\ (Distinct(stash) => Distinct(stash'))
  BY <1>1 DEF IdsOf, Distinct
<1>4. EchoIds'
  BY <1>0, <1>3 DEF EchoInv, EchoIds
<1>5. StashMeets'
  BY <1>0, <1>1, <1>3 DEF EchoInv, StashMeets
<1>6. Unconfirmed' /\ NoneWaitsInVain' /\ WarningsAreEarned'
  BY <1>0 DEF EchoInv, Unconfirmed, NoneWaitsInVain, WarningsAreEarned, Active
<1>7. EchoesMeet'
  BY <1>0 DEF EchoInv, EchoesMeet, Expected
<1>8. EchoInv'
  BY <1>4, <1>5, <1>6, <1>7 DEF EchoInv
<1>9. RowsInPlace' /\ EveryLineShown'
  BY <1>0, <1>2, <1>8, StillRows DEF Active
<1> QED BY <1>2, <1>8, <1>9 DEF ScreenInv

LEMMA RefillKeeps ==
  ASSUME ScreenInv, NEW i \in 1 .. Scrollback + 1, i <= Len(buf) + 1, Refilled(i)
  PROVE  ScreenInv'
<1> DEFINE r == LineRow(lines + 1)
           b == InsertAt(buf, i, r)
<1>0. /\ ScreenTyped /\ SlotsOwn /\ EchoInv /\ RowsInPlace /\ EveryLineShown /\ Unconfirmed
      /\ typed \in Nat /\ lines \in Nat /\ buf \in Seq(Rows) /\ Len(buf) \in Nat /\ wire \in Seq(Sents)
      /\ wire # <<>> /\ wire' = Tail(wire) /\ buf' = Evict(b) /\ lines' = lines + 1
      /\ past' = Noted(b, IF i <= Len(buf) THEN 1 .. typed ELSE {})
      /\ UNCHANGED <<older, typed, loop, quoted, waiting, stash, seen, held>>
  BY DEF ScreenInv, EchoInv, ScreenTyped, Refilled, queue
<1>1. r \in Rows /\ r.kind \notin Mine /\ i \in 1 .. Len(buf) + 1
  <2>1. lines + 1 \in Nat /\ i \in 1 .. Len(buf) + 1
    BY <1>0, ScreenAssumption
  <2> QED BY <2>1, RowTypes DEF Mine
<1>2. /\ b \in Seq(Rows) /\ Len(b) = Len(buf) + 1 /\ \A x : Has(b, x) <=> x = r \/ Has(buf, x)
      /\ i = Len(buf) + 1 => Overlays(b, buf)
  BY <1>0, <1>1, InsertHas
<1> HIDE DEF b
<1> DEFINE Y == IF i <= Len(buf) THEN 1 .. typed ELSE {}
<1>3. /\ past' \in Pasts /\ SameEchoes(past') /\ past'.gone = past.gone \cup Dropped(b)
      /\ past'.moved = past.moved \cup (Y \cup (IF Len(b) > Scrollback THEN 1 .. typed ELSE {}))
  <2>1. Y \in SUBSET Nat /\ past' = Noted(b, Y)
    BY <1>0
  <2> HIDE DEF Y
  <2> QED BY <1>0, <1>2, <2>1, NotedFacts
<1>4. EveryLineShown' /\ buf' \in Seq(Rows) /\ \A x : Has(buf', x) => x = r \/ Has(buf, x)
  BY <1>0, <1>1, <1>2, <1>3, GrownShown
<1> HIDE DEF r
<1>5. /\ wire' \in Seq(Sents) /\ Left(wire', wire)
  BY <1>0, TailFacts, TailLeft
<1>6. ScreenTyped' /\ SlotsOwn'
  <2>1. lines' \in Nat
    BY <1>0
  <2> QED BY <1>0, <1>3, <1>4, <1>5, <2>1 DEF ScreenTyped, SlotsOwn
<1>7. EchoInv'
  <2>1. IdsOf(wire') \subseteq IdsOf(wire) /\ Distinct(wire')
    BY <1>0, <1>5 DEF EchoInv, EchoIds, Left, IdsOf
  <2>2. EchoIds'
    BY <1>0, <1>3, <2>1 DEF EchoInv, EchoIds, SameEchoes
  <2>3. EchoesMeet'
    <3>1. ASSUME NEW k \in 1 .. Len(wire') PROVE Expected(wire[k])'
      <4>1. PICK j \in 1 .. Len(wire) : wire'[k] = wire[j]
        BY <1>5 DEF Left
      <4>2. Expected(wire[j])
        BY <1>0 DEF EchoInv, EchoesMeet
      <4> QED BY <1>0, <1>3, <4>1, <4>2 DEF Expected, SameEchoes
    <3>2. \A k \in 1 .. Len(held') : Expected(held[k])'
      BY <1>0, <1>3 DEF EchoInv, EchoesMeet, Expected, SameEchoes
    <3> QED BY <3>1, <3>2 DEF EchoesMeet
  <2>4. StashMeets' /\ Unconfirmed' /\ NoneWaitsInVain' /\ WarningsAreEarned'
    BY <1>0, <1>3 DEF EchoInv, StashMeets, Unconfirmed, NoneWaitsInVain, WarningsAreEarned, Active, SameEchoes
  <2> QED BY <2>2, <2>3, <2>4 DEF EchoInv
<1>8. RowsInPlace'
  <2>1. CASE i <= Len(buf) \/ Len(b) > Scrollback
    <3>1. past'.moved = 1 .. typed'
      BY <1>0, <1>3, <2>1 DEF RowsInPlace
    <3> QED BY <1>0, <1>1, <1>4, <1>6, <1>7, <3>1, OwnRows, ShiftKeeps DEF EchoInv
  <2>2. CASE ~(i <= Len(buf) \/ Len(b) > Scrollback)
    <3>0. i = Len(buf) + 1 /\ Len(b) <= Scrollback
      BY <1>0, <1>1, <1>2, <2>2, ScreenAssumption
    <3>1. past'.moved = past.moved /\ buf' = b /\ Overlays(b, buf)
      BY <1>0, <1>2, <1>3, <2>2, <3>0, EvictFacts
    <3>2. Unconfirmed' /\ Active' = Active
      BY <1>0, <1>7 DEF EchoInv, Active
    <3> QED BY <1>0, <1>3, <1>6, <3>1, <3>2, OverlayKeeps DEF SameEchoes
  <2> QED BY <2>1, <2>2
<1> QED BY <1>4, <1>6, <1>7, <1>8 DEF ScreenInv

(* A server line on the screen.                                             *)
LEMMA ShowKeeps ==
  ASSUME ScreenInv, ScreenTyped', Unconfirmed', NEW spot \in Slots, spot.row.kind # "line", Show(spot),
         UNCHANGED <<typed, loop>>,
         past'.gone = past.gone \cup Drawn(spot).gone, past'.moved = past.moved \cup Drawn(spot).moved,
         \A i \in 1 .. Len(waiting') : \E j \in 1 .. Len(waiting) : waiting'[i] = waiting[j],
         \/ past'.confirmed = past.confirmed
         \/ \E i \in 1 .. Len(waiting) : /\ spot = waiting[i].slot
                                         /\ past'.confirmed = past.confirmed \cup {waiting[i].id}
  PROVE  RowsInPlace' /\ EveryLineShown'
<1>0. ScreenTyped /\ Unconfirmed /\ RowsInPlace /\ EveryLineShown /\ buf' = Drawn(spot).rows /\ lines' = lines + 1 /\ lines \in Nat
  BY DEF ScreenInv, EchoInv, Show, ScreenTyped
<1>1. /\ \A x : Has(buf', x) => Has(buf, x) \/ x = Feedback \/ x = LineRow(lines + 1)
      /\ \A x : (Has(buf, x) /\ x.kind = "line") \/ x = LineRow(lines + 1)
                => x.of \in Drawn(spot).gone \/ Has(buf', x)
      /\ \/ Drawn(spot).moved = 1 .. typed
         \/ /\ Drawn(spot).moved = {} /\ Overlays(buf', buf)
            /\ Holds(buf, spot) => buf'[spot.index].kind = "line"
  BY <1>0, DrawnFacts
<1>2. LineRow(lines + 1).kind = "line" /\ LineRow(lines + 1).of = lines + 1 /\ Feedback.kind = "notice"
  <2>1. lines + 1 \in Nat
    BY <1>0
  <2> QED BY <2>1, RowTypes
<1>3. EveryLineShown'
  BY <1>0, <1>1, <1>2, ShownKept
<1>4. CASE Drawn(spot).moved = 1 .. typed
  <2>1. past'.moved = 1 .. typed'
    BY <1>0, <1>4 DEF RowsInPlace
  <2>2. \A x : Has(buf', x) => (x.kind \in Mine => x.of \in 1 .. typed')
    BY <1>0, <1>1, <1>2, OwnRows DEF Mine
  <2> QED BY <1>3, <2>1, <2>2, ShiftKeeps
<1>5. CASE Drawn(spot).moved = {} /\ Overlays(buf', buf) /\ (Holds(buf, spot) => buf'[spot.index].kind = "line")
  <2>1. past'.moved = past.moved /\ Active' = Active /\ loop'.slot = loop.slot
    BY <1>5 DEF Active
  <2>2. ASSUME NEW id \in past'.confirmed \ (past.confirmed \cup past.moved),
               NEW i \in 1 .. Len(buf'), buf'[i].kind \in Mine, buf'[i].of = id
        PROVE  FALSE
    <3>1. PICK k \in 1 .. Len(waiting) : spot = waiting[k].slot /\ waiting[k].id = id
      BY <2>2
    <3>2. Fixed(buf, spot, id)
      BY <1>0, <2>2, <3>1 DEF RowsInPlace
    <3>3. i \in 1 .. Len(buf) /\ buf'[i] = buf[i]
      <4>1. Len(buf) \in Nat /\ Len(buf') \in Nat /\ Len(buf') >= Len(buf)
        BY <1>0, <1>5 DEF ScreenTyped, Overlays
      <4> QED BY <1>5, <2>2, <4>1 DEF Overlays, Mine
    <3>4. buf[spot.index] = spot.row
      BY <2>2, <3>2, <3>3 DEF Fixed
    <3>5. Holds(buf, spot)
      BY <3>2, <3>4 DEF Holds, Same, Fixed
    <3>6. i = spot.index
      BY <1>0, <2>2, <3>2, <3>3, <3>4 DEF RowsInPlace, Fixed
    <3> QED BY <1>5, <2>2, <3>5, <3>6 DEF Mine
  <2>3. RowsInPlace'
    BY <1>0, <1>5, <2>1, <2>2, OverlayKeeps
  <2> QED BY <1>3, <2>3
<1> QED BY <1>1, <1>4, <1>5

LEMMA FreshKept ==
  ASSUME NEW q \in Seq(Echoes)
  PROVE  /\ Reap(q, FALSE) \in Seq(Echoes) /\ Left(Reap(q, FALSE), q)
         /\ \A j \in 1 .. Len(q) : q[j].old \/ \E i \in 1 .. Len(Reap(q, FALSE)) : Reap(q, FALSE)[i] = q[j]
<1>1. /\ Reap(q, FALSE) \in Seq(Echoes) /\ Left(Reap(q, FALSE), q)
      /\ \A j \in 1 .. Len(q) : q[j].old = FALSE => \E i \in 1 .. Len(Reap(q, FALSE)) : Reap(q, FALSE)[i] = q[j]
  <2>1. FALSE \in BOOLEAN
    OBVIOUS
  <2> QED BY <2>1, ReapLeft, Zenon
<1>2. \A j \in 1 .. Len(q) : q[j].old \in BOOLEAN
  <2> TAKE j \in 1 .. Len(q)
  <2>1. q[j] \in Echoes
    OBVIOUS
  <2> QED BY <2>1 DEF Echoes
<1> QED BY <1>1, <1>2

LEMMA StaleKept ==
  ASSUME ScreenTyped
  PROVE  /\ Stale \in Seq(Echoes)
         /\ \A i \in 1 .. Len(Stale) : Stale[i].old /\ \E j \in 1 .. Len(stash) : Stale[i] = stash[j]
<1>1. stash \in Seq(Echoes)
  BY DEF ScreenTyped
<1>2. /\ Stale \in Seq(Echoes) /\ Left(Stale, stash)
      /\ \A i \in 1 .. Len(Stale) : Stale[i].old = TRUE
  <2>1. TRUE \in BOOLEAN
    OBVIOUS
  <2> QED BY <1>1, <2>1, ReapLeft, Zenon DEF Stale
<1> QED BY <1>2 DEF Left

LEMMA StaleEarned ==
  ASSUME ScreenTyped, StashMeets
  PROVE  {s.id : s \in Range(Stale)} \subseteq (past.forgotten \cup past.cancelled) \cap Nat
<1>1. /\ Stale \in Seq(Echoes) /\ \A i \in 1 .. Len(Stale) : Stale[i].old /\ \E j \in 1 .. Len(stash) : Stale[i] = stash[j]
  BY StaleKept
<1>2. ASSUME NEW s \in Range(Stale) PROVE s.id \in (past.forgotten \cup past.cancelled) \cap Nat
  <2>1. PICK i \in 1 .. Len(Stale) : Stale[i] = s
    BY <1>1, RangeFacts
  <2>2. PICK j \in 1 .. Len(stash) : s = stash[j] /\ stash[j].old
    BY <1>1, <2>1
  <2>3. s \in Echoes
    BY <1>1, <2>1
  <2> QED BY <2>2, <2>3 DEF StashMeets, Echoes
<1> QED BY <1>2

LEMMA OtherLineKeeps ==
  ASSUME ScreenInv, OtherLine
  PROVE  ScreenInv'
<1> DEFINE W == {s.id : s \in Range(Stale)}
<1>0. /\ ScreenTyped /\ SlotsOwn /\ EchoInv /\ Unconfirmed /\ StashMeets /\ EchoIds /\ past \in Pasts /\ typed \in Nat
      /\ lines \in Nat /\ stash \in Seq(Echoes)
      /\ Show(Nowhere) /\ stash' = Reap(stash, FALSE) /\ lines' = lines + 1 /\ buf' = Drawn(Nowhere).rows
      /\ past' = [past EXCEPT !.gone = @ \cup Drawn(Nowhere).gone, !.moved = @ \cup Drawn(Nowhere).moved, !.warned = @ \cup W]
      /\ UNCHANGED <<older, typed, loop, quoted, waiting, seen, wire, held>>
  BY DEF ScreenInv, EchoInv, ScreenTyped, OtherLine, net, Show
<1>1. W \subseteq (past.forgotten \cup past.cancelled) \cap Nat
  BY <1>0, StaleEarned
<1> HIDE DEF W
<1>2. Nowhere \in Slots /\ Nowhere.row.kind # "line"
  BY RowTypes
<1>3. Drawn(Nowhere).rows \in Seq(Rows) /\ Drawn(Nowhere).gone \subseteq Nat /\ Drawn(Nowhere).moved \subseteq Nat
  <2>1. \/ Drawn(Nowhere).moved = 1 .. typed
        \/ Drawn(Nowhere).moved = {}
    BY <1>0, <1>2, DrawnFacts
  <2>2. Drawn(Nowhere).moved \subseteq Nat
    BY <1>0, <2>1
  <2> QED BY <1>0, <1>2, <2>2, DrawnFacts
<1>4. /\ past' \in Pasts /\ past'.gone = past.gone \cup Drawn(Nowhere).gone /\ past'.moved = past.moved \cup Drawn(Nowhere).moved
      /\ past'.warned = past.warned \cup W /\ past'.confirmed = past.confirmed /\ past'.answered = past.answered
      /\ past'.forgotten = past.forgotten /\ past'.cancelled = past.cancelled
  BY <1>0, <1>1, <1>3 DEF Pasts
<1>5. /\ stash' \in Seq(Echoes) /\ (\A i \in 1 .. Len(stash') : \E j \in 1 .. Len(stash) : stash'[i] = stash[j])
      /\ (Distinct(stash) => Distinct(stash'))
      /\ \A j \in 1 .. Len(stash) : stash[j].old \/ \E i \in 1 .. Len(stash') : stash'[i] = stash[j]
  BY <1>0, FreshKept DEF Left
<1>6. ScreenTyped' /\ SlotsOwn'
  <2>1. lines' \in Nat
    BY <1>0
  <2> QED BY <1>0, <1>3, <1>4, <1>5, <2>1 DEF ScreenTyped, SlotsOwn
<1>7. Unconfirmed' /\ NoneWaitsInVain' /\ WarningsAreEarned'
  BY <1>0, <1>1, <1>4 DEF EchoInv, Unconfirmed, NoneWaitsInVain, WarningsAreEarned, Active
<1>8. EchoIds'
  <2>1. IdsOf(stash') \subseteq IdsOf(stash)
    BY <1>5, SMTT(30) DEF IdsOf
  <2> QED BY <1>0, <1>4, <1>5, <2>1 DEF EchoIds
<1>9. EchoesMeet'
  BY <1>0, <1>4 DEF EchoInv, EchoesMeet, Expected
<1>10. StashMeets'
  <2>1. ASSUME loop.at = "sent", typed \in past.answered PROVE typed \in past.forgotten \cup IdsOf(stash')
    <3>1. CASE typed \in past.forgotten
      BY <3>1
    <3>2. CASE typed \in IdsOf(stash)
      <4>1. PICK j \in 1 .. Len(stash) : stash[j].id = typed
        BY <3>2 DEF IdsOf
      <4>2. ~stash[j].old
        BY <1>0, <2>1, <4>1 DEF StashMeets
      <4> QED BY <1>5, <4>1, <4>2 DEF IdsOf
    <3> QED BY <1>0, <2>1, <3>1, <3>2 DEF StashMeets
  <2>2. ASSUME NEW i \in 1 .. Len(stash')
        PROVE  /\ stash'[i].id \in past.forgotten \cup past.cancelled \/ (loop.at = "sent" /\ stash'[i].id = typed)
               /\ loop.at = "sent" /\ stash'[i].id = typed => ~stash'[i].old
    <3>1. PICK j \in 1 .. Len(stash) : stash'[i] = stash[j]
      BY <1>5
    <3> QED BY <1>0, <3>1 DEF StashMeets
  <2> QED BY <1>0, <1>4, <2>1, <2>2 DEF StashMeets
<1>11. RowsInPlace' /\ EveryLineShown'
  BY <1>0, <1>2, <1>4, <1>6, <1>7, ShowKeeps
<1> QED BY <1>6, <1>7, <1>8, <1>9, <1>10, <1>11 DEF ScreenInv, EchoInv

LEMMA MatchFacts ==
  ASSUME ScreenTyped, NEW m
  PROVE  \/ /\ Match(m) = 0
            /\ \A i \in 1 .. Len(waiting) : waiting[i].id = m.id => waiting[i].quote # m.quote
         \/ /\ Match(m) # 0 /\ Match(m) \in 1 .. Len(waiting)
            /\ waiting[Match(m)].id = m.id
<1> DEFINE P(i) == waiting[i].id = m.id /\ waiting[i].quote = m.quote
<1>1. CASE \E i \in 1 .. Len(waiting) : P(i)
  <2>1. Match(m) = CHOOSE i \in 1 .. Len(waiting) : P(i)
    BY <1>1 DEF Match
  <2> HIDE DEF P
  <2>2. Match(m) \in 1 .. Len(waiting) /\ P(Match(m))
    BY <1>1, <2>1
  <2>3. Match(m) # 0
    BY <2>2
  <2> QED BY <2>2, <2>3 DEF P
<1>2. CASE ~ \E i \in 1 .. Len(waiting) : P(i)
  BY <1>2 DEF Match
<1> QED BY <1>1, <1>2

(* What a full queue drops.                                                 *)
Lost(f, cap) == {f[i].id : i \in 1 .. Len(f) - cap}

Fresher(m, fresh) == Reap(Stashed(m, fresh), FALSE)

(* An early echo joins the stash, the stale ones leave it, and a full one   *)
(* loses its oldest.                                                        *)
LEMMA StashStep ==
  ASSUME ScreenTyped, EchoIds, NEW m \in Sents, m.id \notin past.answered, NEW fresh \in BOOLEAN,
         NEW f, f = Fresher(m, fresh), NEW k, k = Kept(f)
  PROVE  /\ f \in Seq(Echoes) /\ k \in Seq(Echoes) /\ Distinct(k) /\ Lost(f, StashCap) \subseteq Nat
         /\ \A i \in 1 .. Len(k) :
              \/ \E j \in 1 .. Len(stash) : k[i] = stash[j]
              \/ Match(m) = 0 /\ fresh /\ Unseen(m) /\ k[i].id = m.id /\ ~k[i].old
         /\ \A j \in 1 .. Len(stash) : stash[j].old \/ stash[j].id \in IdsOf(k) \cup Lost(f, StashCap)
         /\ Match(m) = 0 /\ fresh /\ Unseen(m) => m.id \in IdsOf(k) \cup Lost(f, StashCap)
<1> DEFINE new == Match(m) = 0 /\ fresh /\ Unseen(m)
           e == [id |-> m.id, old |-> FALSE]
           st == Stashed(m, fresh)
<1>0. stash \in Seq(Echoes) /\ Len(stash) \in Nat /\ StashCap \in Nat /\ Distinct(stash) /\ \A j \in 1 .. Len(stash) : stash[j].id # m.id
  <2>1. IdsOf(stash) \subseteq past.answered
    BY DEF EchoIds
  <2> QED BY <2>1, ScreenAssumption DEF ScreenTyped, EchoIds, IdsOf
<1>1. e \in Echoes /\ e.id = m.id /\ ~e.old
  BY DEF Echoes, Sents
<1>2. st = IF new THEN Append(stash, e) ELSE stash
  BY DEF Stashed
<1> HIDE DEF st, e
<1>3. /\ st \in Seq(Echoes) /\ Distinct(st)
      /\ \A i \in 1 .. Len(st) : (\E j \in 1 .. Len(stash) : st[i] = stash[j]) \/ (new /\ st[i] = e)
      /\ \A j \in 1 .. Len(stash) : \E i \in 1 .. Len(st) : st[i] = stash[j]
      /\ new => \E i \in 1 .. Len(st) : st[i] = e
  <2>1. CASE ~new
    BY <1>0, <1>2, <2>1
  <2>2. CASE new
    <3>1. st = Append(stash, e)
      BY <1>2, <2>2
    <3>2. /\ st \in Seq(Echoes) /\ Len(st) = Len(stash) + 1
          /\ \A j \in 1 .. Len(stash) + 1 : st[j] = IF j = Len(stash) + 1 THEN e ELSE stash[j]
      BY <1>0, <1>1, <3>1, AppendedFacts
    <3>3. \A j \in 1 .. Len(stash) : j \in 1 .. Len(st) /\ j # Len(st) /\ st[j] = stash[j] /\ st[j].id # m.id
      BY <1>0, <3>2
    <3>4. \A j \in 1 .. Len(st) : (j = Len(st) /\ st[j] = e) \/ j \in 1 .. Len(stash)
      BY <1>0, <3>2
    <3>5. Len(st) \in 1 .. Len(st) /\ st[Len(st)] = e
      BY <1>0, <3>2
    <3>6. Distinct(st)
      BY <1>0, <1>1, <3>3, <3>4 DEF Distinct
    <3>7. \A i \in 1 .. Len(st) : (\E j \in 1 .. Len(stash) : st[i] = stash[j]) \/ (new /\ st[i] = e)
      BY <2>2, <3>3, <3>4
    <3> QED BY <3>2, <3>3, <3>5, <3>6, <3>7
  <2> QED BY <2>1, <2>2
<1>4. /\ f \in Seq(Echoes) /\ Left(f, st)
      /\ \A j \in 1 .. Len(st) : st[j].old \/ \E i \in 1 .. Len(f) : f[i] = st[j]
  BY <1>3, FreshKept DEF st, Fresher
<1>5. /\ k \in Seq(Echoes) /\ Left(k, f)
      /\ \A j \in 1 .. Len(f) : (\E i \in 1 .. Len(k) : k[i] = f[j]) \/ j \in 1 .. Len(f) - StashCap
  <2>1. k = Trim(f, StashCap)
    BY DEF Kept, Trim
  <2> QED BY <1>0, <1>4, <2>1, TrimLeft
<1>6. Distinct(k)
  BY <1>3, <1>4, <1>5 DEF Left
<1>7. Lost(f, StashCap) \subseteq Nat
  <2>1. ASSUME NEW i \in 1 .. Len(f) - StashCap PROVE f[i].id \in Nat
    <3>1. i \in 1 .. Len(f)
      BY <1>0, <1>4
    <3>2. f[i] \in Echoes
      BY <1>4, <3>1
    <3> QED BY <3>2 DEF Echoes
  <2> QED BY <2>1 DEF Lost
<1>8. \A j \in 1 .. Len(st) : st[j].old \/ st[j].id \in IdsOf(k) \cup Lost(f, StashCap)
  <2> SUFFICES ASSUME NEW j \in 1 .. Len(st), ~st[j].old PROVE st[j].id \in IdsOf(k) \cup Lost(f, StashCap)
    OBVIOUS
  <2>1. PICK i \in 1 .. Len(f) : f[i] = st[j]
    BY <1>4
  <2>2. (\E n \in 1 .. Len(k) : k[n] = f[i]) \/ i \in 1 .. Len(f) - StashCap
    BY <1>5
  <2> QED BY <2>1, <2>2 DEF IdsOf, Lost
<1>9. ASSUME NEW i \in 1 .. Len(k)
      PROVE  \/ \E j \in 1 .. Len(stash) : k[i] = stash[j]
             \/ new /\ k[i].id = m.id /\ ~k[i].old
  <2>1. PICK a \in 1 .. Len(f) : k[i] = f[a]
    BY <1>5 DEF Left
  <2>2. PICK c \in 1 .. Len(st) : f[a] = st[c]
    BY <1>4 DEF Left
  <2> QED BY <1>1, <1>3, <2>1, <2>2
<1>10. \A j \in 1 .. Len(stash) : stash[j].old \/ stash[j].id \in IdsOf(k) \cup Lost(f, StashCap)
  BY <1>3, <1>8
<1>11. new => m.id \in IdsOf(k) \cup Lost(f, StashCap)
  <2>1. ASSUME new PROVE m.id \in IdsOf(k) \cup Lost(f, StashCap)
    <3>1. PICK i \in 1 .. Len(st) : st[i] = e
      BY <1>3, <2>1
    <3> QED BY <1>1, <1>8, <3>1
  <2> QED BY <2>1
<1> QED BY <1>4, <1>5, <1>6, <1>7, <1>9, <1>10, <1>11

LEMMA PastRecord ==
  ASSUME past \in Pasts, NEW G \in SUBSET Nat, NEW M \in SUBSET Nat, NEW C \in SUBSET Nat, NEW A \in SUBSET Nat,
         NEW W \in SUBSET Nat, NEW F \in SUBSET Nat,
         past' = [past EXCEPT !.gone = @ \cup G, !.moved = @ \cup M, !.confirmed = @ \cup C, !.answered = @ \cup A,
                              !.warned = @ \cup W, !.forgotten = @ \cup F]
  PROVE  /\ past' \in Pasts /\ past'.gone = past.gone \cup G /\ past'.moved = past.moved \cup M
         /\ past'.confirmed = past.confirmed \cup C /\ past'.answered = past.answered \cup A
         /\ past'.warned = past.warned \cup W /\ past'.forgotten = past.forgotten \cup F
         /\ past'.cancelled = past.cancelled
BY DEF Pasts

(* An echo, live, in a page or behind one: its message leaves the queue, or *)
(* it is early, or the message has been forgotten or confirmed.             *)
LEMMA ConsumeKeeps ==
  ASSUME ScreenInv, NEW m \in Sents, NEW fresh \in BOOLEAN, ConsumeEcho(m, fresh), Expected(m),
         m.id \in IdsOf(wire) \cup IdsOf(held), wire' \in Seq(Sents), held' \in Seq(Sents),
         Distinct(wire'), Distinct(held'), IdsOf(wire') \cap IdsOf(held') = {},
         fresh => m.id \notin IdsOf(wire') \cup IdsOf(held'),
         \A x : Has(wire', x) \/ Has(held', x) => x = m \/ Has(wire, x) \/ Has(held, x),
         IdsOf(wire') \cup IdsOf(held') \subseteq IdsOf(wire) \cup IdsOf(held)
  PROVE  ScreenInv'
<1> DEFINE f == Fresher(m, fresh)
           hit == Match(m)
           spot == IF hit = 0 THEN Nowhere ELSE waiting[hit].slot
           G == Drawn(spot).gone
           M == Drawn(spot).moved
           C == IF hit = 0 THEN {} ELSE {m.id}
           A == IF fresh THEN {m.id} ELSE {}
           W == {s.id : s \in Range(Stale)}
           F == (Range(seen) \ Range(seen')) \cup Lost(f, StashCap)
<1>0. /\ ScreenTyped /\ SlotsOwn /\ EchoInv /\ Unconfirmed /\ EchoIds /\ EchoesMeet /\ StashMeets /\ NoneWaitsInVain
      /\ WarningsAreEarned /\ past \in Pasts /\ typed \in Nat /\ lines \in Nat /\ stash \in Seq(Echoes)
      /\ waiting \in Seq(Waits) /\ seen \in Seq(Nat) /\ m.id \in Nat /\ Len(waiting) \in Nat
  BY DEF ScreenInv, EchoInv, ScreenTyped, Sents
<1>1. /\ stash' = Kept(f) /\ waiting' = (IF hit = 0 THEN waiting ELSE RemoveAt(waiting, hit))
      /\ seen' = (IF hit = 0 THEN seen ELSE NoteConsumed(m.id))
      /\ Show(spot) /\ buf' = Drawn(spot).rows /\ lines' = lines + 1 /\ UNCHANGED <<older, typed, loop, quoted>>
  BY DEF ConsumeEcho, Fresher, Show
<1>2. past' = [past EXCEPT !.gone = @ \cup G, !.moved = @ \cup M, !.confirmed = @ \cup C, !.answered = @ \cup A,
                           !.warned = @ \cup W, !.forgotten = @ \cup F]
  <2>1. past' = [past EXCEPT
           !.gone = @ \cup G, !.moved = @ \cup M,
           !.confirmed = IF hit = 0 THEN @ ELSE @ \cup {m.id},
           !.answered = IF fresh THEN @ \cup {m.id} ELSE @,
           !.warned = @ \cup W,
           !.forgotten = @ \cup (Range(seen) \ Range(seen')) \cup Lost(f, StashCap)]
    BY Zenon DEF ConsumeEcho, Fresher, Lost
  <2>2. /\ (IF hit = 0 THEN past.confirmed ELSE past.confirmed \cup {m.id}) = past.confirmed \cup C
        /\ (IF fresh THEN past.answered \cup {m.id} ELSE past.answered) = past.answered \cup A
        /\ past.forgotten \cup (Range(seen) \ Range(seen')) \cup Lost(f, StashCap) = past.forgotten \cup F
    <3> HIDE DEF hit, f
    <3> QED OBVIOUS
  <2> HIDE DEF G, M, C, A, W, F, hit, f
  <2> QED BY <2>1, <2>2
<1>3. /\ f \in Seq(Echoes) /\ stash' \in Seq(Echoes) /\ Distinct(stash') /\ Lost(f, StashCap) \subseteq Nat
      /\ \A i \in 1 .. Len(stash') :
           \/ \E j \in 1 .. Len(stash) : stash'[i] = stash[j]
           \/ hit = 0 /\ fresh /\ Unseen(m) /\ stash'[i].id = m.id /\ ~stash'[i].old
      /\ \A j \in 1 .. Len(stash) : stash[j].old \/ stash[j].id \in IdsOf(stash') \cup Lost(f, StashCap)
      /\ hit = 0 /\ fresh /\ Unseen(m) => m.id \in IdsOf(stash') \cup Lost(f, StashCap)
  <2>1. f = Fresher(m, fresh) /\ hit = Match(m) /\ stash' = Kept(f)
    BY <1>1
  <2>2. m.id \notin past.answered
    BY <1>0 DEF EchoIds
  <2> HIDE DEF f, hit
  <2> QED BY <1>0, <2>1, <2>2, StashStep
<1> HIDE DEF f
<1>4. \/ /\ hit = 0 /\ spot = Nowhere
         /\ \A i \in 1 .. Len(waiting) : waiting[i].id = m.id => waiting[i].quote # m.quote
      \/ /\ hit # 0 /\ hit \in 1 .. Len(waiting) /\ waiting[hit].id = m.id /\ spot = waiting[hit].slot
  BY <1>0, MatchFacts
<1> HIDE DEF hit
<1>5. spot \in Slots /\ spot.row.kind # "line"
  <2>1. CASE hit = 0
    BY <2>1, RowTypes
  <2>2. CASE hit # 0
    <3>1. hit \in 1 .. Len(waiting) /\ spot = waiting[hit].slot
      BY <1>4, <2>2
    <3>2. waiting[hit] \in Waits /\ spot.row.kind # "line"
      BY <1>0, <3>1 DEF SlotsOwn
    <3> QED BY <3>1, <3>2 DEF Waits
  <2> QED BY <2>1, <2>2
<1> HIDE DEF spot
<1>6. Drawn(spot).rows \in Seq(Rows) /\ G \in SUBSET Nat /\ M \in SUBSET Nat
  <2>1. M = 1 .. typed \/ M = {}
    BY <1>0, <1>5, DrawnFacts
  <2>2. M \subseteq Nat
    <3> HIDE DEF M
    <3> QED BY <1>0, <2>1
  <2> QED BY <1>0, <1>5, <2>2, DrawnFacts
<1>7. /\ seen' \in Seq(Nat) /\ Range(seen') \subseteq Range(seen) \cup C
      /\ hit # 0 => m.id \in Range(seen') /\ m.id \notin Range(seen)
      /\ hit = 0 => seen' = seen
  <2>1. CASE hit = 0
    BY <1>0, <1>1, <2>1
  <2>2. CASE hit # 0
    <3>1. m.id \notin Range(seen)
      BY <1>0, <1>4, <2>2 DEF Unconfirmed, EchoIds, IdsOf
    <3>2. seen' = NoteConsumed(m.id)
      BY <1>1, <2>2
    <3> QED BY <1>0, <2>2, <3>1, <3>2, NoteFacts
  <2> QED BY <2>1, <2>2
<1>8. C \in SUBSET Nat /\ A \in SUBSET Nat /\ F \in SUBSET Nat
  <2>1. Range(seen) \subseteq Nat
    BY <1>0, RangeFacts
  <2> QED BY <1>0, <1>3, <2>1
<1>9. W \in SUBSET Nat /\ W \subseteq past.forgotten \cup past.cancelled
  BY <1>0, StaleEarned
<1> HIDE DEF G, M, W
<1>10. /\ past' \in Pasts /\ past'.gone = past.gone \cup G /\ past'.moved = past.moved \cup M
       /\ past'.confirmed = past.confirmed \cup C /\ past'.answered = past.answered \cup A
       /\ past'.warned = past.warned \cup W /\ past'.forgotten = past.forgotten \cup F
       /\ past'.cancelled = past.cancelled
  <2> HIDE DEF C, A, F
  <2> QED BY <1>0, <1>2, <1>6, <1>8, <1>9, PastRecord, ZenonT(30)
<1>11. /\ waiting' \in Seq(Waits) /\ Distinct(waiting')
       /\ \A i \in 1 .. Len(waiting') : \E j \in 1 .. Len(waiting) : waiting'[i] = waiting[j]
       /\ \A j \in 1 .. Len(waiting) : (hit # 0 /\ waiting[j].id = m.id) \/ \E i \in 1 .. Len(waiting') : waiting'[i] = waiting[j]
       /\ hit # 0 => \A i \in 1 .. Len(waiting') : waiting'[i].id # m.id
  <2>0. Distinct(waiting)
    BY <1>0 DEF Unconfirmed
  <2>1. CASE hit = 0
    <3>1. waiting' = waiting
      BY <1>1, <2>1
    <3> QED BY <1>0, <2>0, <2>1, <3>1
  <2>2. CASE hit # 0
    <3>1. hit \in 1 .. Len(waiting) /\ waiting[hit].id = m.id /\ waiting' = RemoveAt(waiting, hit)
      BY <1>1, <1>4, <2>2
    <3>2. RemoveAt(waiting, hit) \in Seq(Waits)
      BY <1>0, <3>1, RemoveFacts
    <3>3. /\ Left(RemoveAt(waiting, hit), waiting)
          /\ \A j \in 1 .. Len(waiting) : j = hit \/ \E i \in 1 .. Len(RemoveAt(waiting, hit)) : RemoveAt(waiting, hit)[i] = waiting[j]
          /\ Distinct(waiting) => \A i \in 1 .. Len(RemoveAt(waiting, hit)) : RemoveAt(waiting, hit)[i].id # waiting[hit].id
      BY <1>0, <3>1, RemoveLeft
    <3> QED BY <2>0, <2>2, <3>1, <3>2, <3>3 DEF Left
  <2> QED BY <2>1, <2>2
<1>12. ScreenTyped'
  <2>1. lines' \in Nat
    BY <1>0, <1>1
  <2> QED BY <1>0, <1>1, <1>3, <1>6, <1>7, <1>10, <1>11, <2>1 DEF ScreenTyped
<1>13. SlotsOwn'
  BY <1>0, <1>1, <1>11 DEF SlotsOwn
<1>14. m.id \in 1 .. typed /\ m.id \notin past.answered /\ (hit # 0 => m.id \in IdsOf(waiting) /\ ~(Active /\ m.id = typed))
  <2>1. hit # 0 => m.id \in IdsOf(waiting)
    BY <1>4 DEF IdsOf
  <2>2. m.id \in 1 .. typed /\ m.id \notin past.answered
    BY <1>0 DEF EchoIds
  <2>3. Active => typed \notin IdsOf(waiting)
    BY <1>0 DEF Unconfirmed
  <2> QED BY <2>1, <2>2, <2>3
<1>15. Unconfirmed'
  <2>1. \A x \in IdsOf(waiting') : x \in IdsOf(waiting) /\ (hit # 0 => x # m.id)
    BY <1>11, SMTT(30) DEF IdsOf
  <2>2. past'.confirmed \subseteq 1 .. typed
    BY <1>0, <1>10, <1>14 DEF Unconfirmed
  <2>3. ASSUME Active PROVE loop.id = typed /\ typed > 0 /\ typed \notin past'.confirmed \cup IdsOf(waiting')
    BY <1>0, <1>10, <1>14, <2>1, <2>3 DEF Unconfirmed
  <2>4. IdsOf(waiting') \subseteq (1 .. typed) \ past'.confirmed
    BY <1>0, <1>10, <2>1 DEF Unconfirmed
  <2> QED BY <1>1, <1>11, <2>2, <2>3, <2>4 DEF Unconfirmed, Active
<1>16. EchoIds'
  <2>1. Range(seen') \subseteq past'.confirmed
    BY <1>0, <1>7, <1>10 DEF EchoIds
  <2>2. past'.answered \subseteq 1 .. typed
    BY <1>0, <1>10, <1>14 DEF EchoIds
  <2>3. IdsOf(wire') \cup IdsOf(held') \subseteq (1 .. typed) \ past'.answered
    BY <1>0, <1>10 DEF EchoIds
  <2>4. IdsOf(stash') \subseteq past'.answered
    <3>1. ASSUME NEW i \in 1 .. Len(stash') PROVE stash'[i].id \in past'.answered
      <4>1. CASE \E j \in 1 .. Len(stash) : stash'[i] = stash[j]
        BY <1>0, <1>10, <4>1 DEF EchoIds, IdsOf
      <4>2. CASE fresh /\ stash'[i].id = m.id
        BY <1>10, <4>2
      <4> QED BY <1>3, <4>1, <4>2
    <3> QED BY <3>1 DEF IdsOf
  <2>5. ASSUME loop.at \in {"typed", "drawn"} PROVE typed \notin IdsOf(wire') \cup IdsOf(held') \cup past'.answered
    <3>1. typed \notin IdsOf(wire) \cup IdsOf(held) \cup past.answered /\ typed \notin Range(seen)
      BY <1>0, <2>5 DEF EchoIds, Unconfirmed, Active
    <3>2. m.id # typed
      BY <3>1
    <3> QED BY <1>10, <3>1, <3>2
  <2> QED BY <1>1, <1>3, <2>1, <2>2, <2>3, <2>4, <2>5 DEF EchoIds
<1>17. ASSUME NEW x, Expected(x)
       PROVE  \/ loop'.at = "sent" /\ x.id = typed' /\ (x.quote = quoted' \/ x.id \in past'.cancelled)
              \/ \E i \in 1 .. Len(waiting') : waiting'[i].id = x.id /\ (waiting'[i].quote = x.quote \/ x.id \in past'.cancelled)
              \/ x.id \in past'.forgotten \cup Range(seen')
  <2>1. CASE loop.at = "sent" /\ x.id = typed /\ (x.quote = quoted \/ x.id \in past.cancelled)
    BY <1>1, <1>10, <2>1
  <2>2. CASE \E i \in 1 .. Len(waiting) : waiting[i].id = x.id /\ (waiting[i].quote = x.quote \/ x.id \in past.cancelled)
    <3>1. PICK j \in 1 .. Len(waiting) : waiting[j].id = x.id /\ (waiting[j].quote = x.quote \/ x.id \in past.cancelled)
      BY <2>2
    <3>2. CASE hit # 0 /\ waiting[j].id = m.id
      BY <1>7, <3>1, <3>2
    <3>3. CASE \E i \in 1 .. Len(waiting') : waiting'[i] = waiting[j]
      BY <1>10, <3>1, <3>3
    <3> QED BY <1>11, <3>2, <3>3
  <2>3. CASE x.id \in past.forgotten \cup Range(seen)
    BY <1>10, <2>3
  <2> QED BY <1>17, <2>1, <2>2, <2>3 DEF Expected
<1>18. EchoesMeet'
  <2>1. \A x : Has(wire, x) \/ Has(held, x) => Expected(x)
    BY <1>0 DEF EchoesMeet, Has
  <2>2. \A x : Has(wire', x) \/ Has(held', x) => Expected(x)
    BY <2>1
  <2>3. ASSUME NEW i \in 1 .. Len(wire') PROVE Expected(wire[i])'
    <3>1. Expected(wire'[i])
      BY <2>2 DEF Has
    <3> QED BY <1>17, <3>1 DEF Expected
  <2>4. ASSUME NEW i \in 1 .. Len(held') PROVE Expected(held[i])'
    <3>1. Expected(held'[i])
      BY <2>2 DEF Has
    <3> QED BY <1>17, <3>1 DEF Expected
  <2> QED BY <2>3, <2>4 DEF EchoesMeet
<1>19. ASSUME hit = 0, fresh, m.id \notin past.forgotten \cup past.cancelled
       PROVE  /\ m.id \notin IdsOf(waiting)
              /\ Unseen(m) => loop.at = "sent" /\ m.id = typed
  <2>1. \/ loop.at = "sent" /\ m.id = typed
        \/ m.id \in Range(seen)
    BY <1>4, <1>19 DEF Expected
  <2>2. m.id \notin IdsOf(waiting)
    BY <1>0, <2>1 DEF Unconfirmed, EchoIds, Active
  <2> QED BY <2>1, <2>2 DEF Unseen
<1>20. StashMeets'
  <2>1. ASSUME loop.at = "sent", typed \in past'.answered PROVE typed \in past'.forgotten \cup IdsOf(stash')
    <3>1. CASE typed \in past.answered
      <4>1. CASE typed \in past.forgotten
        BY <1>10, <4>1
      <4>2. CASE typed \in IdsOf(stash)
        <5>1. PICK j \in 1 .. Len(stash) : stash[j].id = typed
          BY <4>2 DEF IdsOf
        <5>2. ~stash[j].old
          BY <1>0, <2>1, <5>1 DEF StashMeets
        <5> QED BY <1>3, <1>10, <5>1, <5>2
      <4> QED BY <1>0, <2>1, <3>1, <4>1, <4>2 DEF StashMeets
    <3>2. CASE fresh /\ typed = m.id
      <4>1. Active /\ typed \notin past.confirmed
        BY <1>0, <2>1 DEF Unconfirmed, Active
      <4>2. hit = 0 /\ Unseen(m)
        BY <1>0, <1>14, <3>2, <4>1 DEF Unseen, EchoIds
      <4> QED BY <1>3, <1>10, <3>2, <4>2
    <3> QED BY <1>10, <2>1, <3>1, <3>2
  <2>2. ASSUME NEW i \in 1 .. Len(stash')
        PROVE  /\ stash'[i].id \in past'.forgotten \cup past'.cancelled \/ (loop.at = "sent" /\ stash'[i].id = typed)
               /\ loop.at = "sent" /\ stash'[i].id = typed => ~stash'[i].old
    <3>1. CASE \E j \in 1 .. Len(stash) : stash'[i] = stash[j]
      <4>1. PICK j \in 1 .. Len(stash) : stash'[i] = stash[j]
        BY <3>1
      <4> QED BY <1>0, <1>10, <4>1 DEF StashMeets
    <3>2. CASE hit = 0 /\ fresh /\ Unseen(m) /\ stash'[i].id = m.id /\ ~stash'[i].old
      BY <1>10, <1>19, <3>2
    <3> QED BY <1>3, <3>1, <3>2
  <2> QED BY <1>1, <2>1, <2>2 DEF StashMeets
<1>21. NoneWaitsInVain'
  <2> SUFFICES ASSUME NEW i \in 1 .. Len(waiting'), waiting'[i].id \in past'.answered,
                      waiting'[i].id \notin past'.forgotten \cup past'.cancelled
               PROVE  FALSE
    BY DEF NoneWaitsInVain
  <2>1. PICK j \in 1 .. Len(waiting) : waiting'[i] = waiting[j]
    BY <1>11
  <2>2. waiting[j].id \notin past.answered
    BY <1>0, <1>10, <2>1 DEF NoneWaitsInVain
  <2>3. fresh /\ waiting[j].id = m.id /\ m.id \in IdsOf(waiting)
    BY <1>10, <2>1, <2>2 DEF IdsOf
  <2>4. hit = 0
    BY <1>11, <2>1, <2>3
  <2> QED BY <1>10, <1>19, <2>1, <2>3, <2>4
<1>22. WarningsAreEarned'
  BY <1>0, <1>9, <1>10 DEF WarningsAreEarned
<1>23. EchoInv'
  BY <1>15, <1>16, <1>18, <1>20, <1>21, <1>22 DEF EchoInv
<1>24. RowsInPlace' /\ EveryLineShown'
  <2>1. \/ past'.confirmed = past.confirmed
        \/ \E i \in 1 .. Len(waiting) : spot = waiting[i].slot /\ past'.confirmed = past.confirmed \cup {waiting[i].id}
    BY <1>4, <1>10
  <2>2. UNCHANGED <<typed, loop>>
    BY <1>1
  <2>3. past'.gone = past.gone \cup Drawn(spot).gone /\ past'.moved = past.moved \cup Drawn(spot).moved
    BY <1>10 DEF G, M
  <2> QED BY <1>1, <1>5, <1>11, <1>12, <1>15, <2>1, <2>2, <2>3, ShowKeeps
<1> QED BY <1>12, <1>13, <1>23, <1>24 DEF ScreenInv

LEMMA HeadLeaves ==
  ASSUME NEW s \in Seq(Sents), s # <<>>, Distinct(s)
  PROVE  /\ Head(s) \in Sents /\ Has(s, Head(s)) /\ Head(s).id \in IdsOf(s)
         /\ Tail(s) \in Seq(Sents) /\ Distinct(Tail(s)) /\ IdsOf(Tail(s)) \subseteq IdsOf(s) \ {Head(s).id}
         /\ \A x : Has(Tail(s), x) => Has(s, x)
<1>1. Tail(s) \in Seq(Sents) /\ Len(s) > 0 /\ Len(s) \in Nat /\ Head(s) = s[1] /\ Head(s) \in Sents
  BY TailFacts
<1>2. Left(Tail(s), s) /\ \A i \in 1 .. Len(Tail(s)) : Tail(s)[i].id # s[1].id
  BY TailLeft
<1>3. 1 \in 1 .. Len(s)
  BY <1>1
<1>4. Has(s, Head(s)) /\ Head(s).id \in IdsOf(s)
  BY <1>1, <1>3 DEF Has, IdsOf
<1> DEFINE q == Tail(s)
<1>5. /\ \A i \in 1 .. Len(q) : (\E j \in 1 .. Len(s) : q[i] = s[j]) /\ q[i].id # s[1].id
      /\ Distinct(q)
  BY <1>2 DEF Left
<1> HIDE DEF q
<1>6. \A x : Has(q, x) => Has(s, x)
  BY <1>5 DEF Has
<1>7. IdsOf(q) \subseteq IdsOf(s) \ {Head(s).id}
  BY <1>1, <1>5 DEF IdsOf
<1> QED BY <1>1, <1>4, <1>5, <1>6, <1>7 DEF q

LEMMA ArriveKeeps ==
  ASSUME ScreenInv, NEW fresh \in BOOLEAN, NEW copy \in BOOLEAN, EchoArrives(fresh, copy)
  PROVE  ScreenInv'
<1> DEFINE m == Head(wire)
<1>0. /\ wire # <<>> /\ (copy => ~fresh) /\ wire' = Tail(wire) /\ held' = (IF copy THEN Append(held, m) ELSE held)
      /\ ConsumeEcho(m, fresh) /\ wire \in Seq(Sents) /\ held \in Seq(Sents) /\ EchoIds /\ EchoesMeet
  BY DEF EchoArrives, ScreenInv, EchoInv, ScreenTyped
<1>1. /\ m \in Sents /\ Has(wire, m) /\ m.id \in IdsOf(wire)
      /\ wire' \in Seq(Sents) /\ Distinct(wire') /\ IdsOf(wire') \subseteq IdsOf(wire) \ {m.id}
      /\ \A x : Has(wire', x) => Has(wire, x)
  BY <1>0, HeadLeaves DEF EchoIds
<1> HIDE DEF m
<1>2. Expected(m)
  BY <1>0, <1>1 DEF EchoesMeet, Has
<1>3. m.id \notin IdsOf(held) /\ Distinct(held) /\ IdsOf(wire) \cap IdsOf(held) = {}
  BY <1>0, <1>1 DEF EchoIds
<1>4. /\ held' \in Seq(Sents) /\ Distinct(held') /\ IdsOf(held') \subseteq IdsOf(held) \cup {m.id}
      /\ \A x : Has(held', x) => x = m \/ Has(held, x)
      /\ fresh => m.id \notin IdsOf(held')
  <2>1. CASE ~copy
    <3>1. held' = held
      BY <1>0, <2>1
    <3> QED BY <1>0, <1>3, <3>1
  <2>2. CASE copy
    <3>1. held' = Append(held, m) /\ ~fresh /\ Len(held) \in Nat
      BY <1>0, <2>2
    <3>2. /\ held' \in Seq(Sents) /\ Len(held') = Len(held) + 1
          /\ \A j \in 1 .. Len(held) + 1 : held'[j] = IF j = Len(held) + 1 THEN m ELSE held[j]
      BY <1>0, <1>1, <3>1, AppendedFacts
    <3>3. \A j \in 1 .. Len(held') : (j = Len(held') /\ held'[j] = m) \/ (j \in 1 .. Len(held) /\ held'[j] = held[j])
      BY <3>1, <3>2
    <3>4. \A j \in 1 .. Len(held) : held[j].id # m.id
      BY <1>3 DEF IdsOf
    <3>5. Distinct(held')
      BY <1>3, <3>3, <3>4 DEF Distinct
    <3>6. IdsOf(held') \subseteq IdsOf(held) \cup {m.id}
      BY <3>3 DEF IdsOf
    <3>7. \A x : Has(held', x) => x = m \/ Has(held, x)
      BY <3>3 DEF Has
    <3> QED BY <3>1, <3>2, <3>5, <3>6, <3>7
  <2> QED BY <2>1, <2>2
<1>5. IdsOf(wire') \cap IdsOf(held') = {} /\ (fresh => m.id \notin IdsOf(wire') \cup IdsOf(held'))
  BY <1>1, <1>3, <1>4
<1> QED BY <1>0, <1>1, <1>2, <1>4, <1>5, ConsumeKeeps

LEMMA HeldKeeps ==
  ASSUME ScreenInv, HeldCopy
  PROVE  ScreenInv'
<1> DEFINE m == Head(held)
           fresh == TRUE
<1>0. /\ held # <<>> /\ held' = Tail(held) /\ wire' = wire /\ ConsumeEcho(m, fresh)
      /\ wire \in Seq(Sents) /\ held \in Seq(Sents) /\ EchoIds /\ EchoesMeet
  BY DEF HeldCopy, ScreenInv, EchoInv, ScreenTyped
<1>1. /\ m \in Sents /\ Has(held, m) /\ m.id \in IdsOf(held)
      /\ held' \in Seq(Sents) /\ Distinct(held') /\ IdsOf(held') \subseteq IdsOf(held) \ {m.id}
      /\ \A x : Has(held', x) => Has(held, x)
  BY <1>0, HeadLeaves DEF EchoIds
<1>2. fresh \in BOOLEAN
  OBVIOUS
<1> HIDE DEF m, fresh
<1>3. Expected(m)
  BY <1>0, <1>1 DEF EchoesMeet, Has
<1>4. IdsOf(wire) \cap IdsOf(held) = {} /\ Distinct(wire)
  BY <1>0 DEF EchoIds
<1>5. IdsOf(wire') \cap IdsOf(held') = {} /\ m.id \notin IdsOf(wire') \cup IdsOf(held')
  BY <1>0, <1>1, <1>4
<1> QED BY <1>0, <1>1, <1>2, <1>3, <1>4, <1>5, ConsumeKeeps

(* The message in hand joins the queue, and leaves it when its echo was     *)
(* faster.                                                                  *)
LEMMA TrackKeeps ==
  ASSUME ScreenInv, Track
  PROVE  ScreenInv'
<1> DEFINE pm == [id |-> loop.id, slot |-> loop.slot, quote |-> quoted]
           all == Append(waiting, pm)
           raced == \E i \in 1 .. Len(stash) : stash[i].id = pm.id
           kept == IF Len(all) > PendCap THEN Tail(all) ELSE all
           S == IF raced THEN Range(seen) \ Range(NoteConsumed(pm.id)) ELSE {}
<1>0. /\ ScreenTyped /\ SlotsOwn /\ EchoInv /\ Unconfirmed /\ EchoIds /\ EchoesMeet /\ StashMeets /\ NoneWaitsInVain
      /\ WarningsAreEarned /\ RowsInPlace /\ EveryLineShown /\ past \in Pasts /\ typed \in Nat /\ stash \in Seq(Echoes)
      /\ waiting \in Seq(Waits) /\ Len(waiting) \in Nat /\ seen \in Seq(Nat) /\ loop \in Hands /\ quoted \in BOOLEAN
      /\ buf \in Seq(Rows) /\ Len(buf) \in Nat /\ loop.at = "sent"
  BY DEF ScreenInv, EchoInv, ScreenTyped, Track
<1>1. /\ Active /\ loop.id = typed /\ typed > 0 /\ typed \notin past.confirmed \cup IdsOf(waiting) /\ loop.slot \in Slots
  BY <1>0 DEF Unconfirmed, Active, Hands
<1>2. pm \in Waits /\ pm.id = typed /\ pm.slot = loop.slot /\ pm.quote = quoted
  BY <1>0, <1>1 DEF Waits
<1>3. /\ waiting' = (IF raced THEN Take(kept, pm.id) ELSE kept) /\ stash' = Take(stash, pm.id)
      /\ seen' = (IF raced THEN NoteConsumed(pm.id) ELSE seen)
      /\ buf' = (IF raced THEN ErasePlaceholder(pm.slot) ELSE buf)
      /\ loop' = AtRest /\ quoted' = FALSE /\ UNCHANGED <<older, typed, wire, held, lines>>
  BY DEF Track, net
<1>4. past' = [past EXCEPT !.confirmed = IF raced THEN @ \cup {pm.id} ELSE @,
                           !.forgotten = @ \cup Lost(all, PendCap) \cup S]
  BY Zenon DEF Track, Lost
<1> HIDE DEF pm
<1>5. /\ all \in Seq(Waits) /\ Distinct(all)
      /\ \A i \in 1 .. Len(all) : all[i] = pm \/ \E j \in 1 .. Len(waiting) : all[i] = waiting[j]
      /\ \A j \in 1 .. Len(waiting) : \E i \in 1 .. Len(all) : all[i] = waiting[j]
      /\ \E i \in 1 .. Len(all) : all[i] = pm
  <2>1. /\ all \in Seq(Waits) /\ Len(all) = Len(waiting) + 1
        /\ \A j \in 1 .. Len(waiting) + 1 : all[j] = IF j = Len(waiting) + 1 THEN pm ELSE waiting[j]
    BY <1>0, <1>2, AppendedFacts
  <2> HIDE DEF all
  <2>2. \A j \in 1 .. Len(all) : (j = Len(all) /\ all[j] = pm) \/ (j \in 1 .. Len(waiting) /\ all[j] = waiting[j])
    BY <1>0, <2>1
  <2>3. \A j \in 1 .. Len(waiting) : j \in 1 .. Len(all) /\ all[j] = waiting[j] /\ waiting[j].id # typed
    BY <1>0, <1>1, <2>1 DEF IdsOf
  <2>4. Len(all) \in 1 .. Len(all) /\ all[Len(all)] = pm
    BY <1>0, <2>1
  <2>5. Distinct(all)
    BY <1>0, <1>2, <2>2, <2>3 DEF Distinct, Unconfirmed
  <2> QED BY <2>1, <2>2, <2>3, <2>4, <2>5
<1> HIDE DEF all
<1>6. /\ kept \in Seq(Waits) /\ Left(kept, all)
      /\ \A j \in 1 .. Len(all) : (\E i \in 1 .. Len(kept) : kept[i] = all[j]) \/ all[j].id \in Lost(all, PendCap)
      /\ Lost(all, PendCap) \subseteq Nat
  <2>0. PendCap \in Nat /\ Len(all) \in Nat
    BY <1>5, ScreenAssumption
  <2>1. kept = Trim(all, PendCap)
    BY DEF Trim
  <2> HIDE DEF kept
  <2>2. /\ kept \in Seq(Waits) /\ Left(kept, all)
        /\ \A j \in 1 .. Len(all) : (\E i \in 1 .. Len(kept) : kept[i] = all[j]) \/ j \in 1 .. Len(all) - PendCap
    BY <1>5, <2>0, <2>1, TrimLeft
  <2>3. ASSUME NEW j \in 1 .. Len(all) - PendCap PROVE all[j].id \in Nat
    <3>1. j \in 1 .. Len(all)
      BY <2>0
    <3>2. all[j] \in Waits
      BY <1>5, <3>1
    <3> QED BY <3>2 DEF Waits
  <2> QED BY <2>2, <2>3 DEF Lost
<1> HIDE DEF kept
<1>7. /\ Take(kept, typed) \in Seq(Waits) /\ Left(Take(kept, typed), kept)
      /\ \A j \in 1 .. Len(kept) : kept[j].id # typed => \E i \in 1 .. Len(Take(kept, typed)) : Take(kept, typed)[i] = kept[j]
      /\ Distinct(kept) => \A i \in 1 .. Len(Take(kept, typed)) : Take(kept, typed)[i].id # typed
  BY <1>6, TakeLeft
<1>8. Distinct(kept) /\ Distinct(Take(kept, typed))
  BY <1>5, <1>6, <1>7 DEF Left
<1>9. /\ waiting' \in Seq(Waits) /\ Distinct(waiting')
      /\ \A i \in 1 .. Len(waiting') : waiting'[i] = pm \/ \E j \in 1 .. Len(waiting) : waiting'[i] = waiting[j]
      /\ raced => \A i \in 1 .. Len(waiting') : waiting'[i].id # typed
      /\ \A j \in 1 .. Len(all) : \/ \E i \in 1 .. Len(waiting') : waiting'[i] = all[j]
                                  \/ all[j].id \in Lost(all, PendCap) \/ (raced /\ all[j].id = typed)
  <2> HIDE DEF raced
  <2>1. CASE ~raced
    <3>1. waiting' = kept
      BY <1>3, <2>1
    <3> QED BY <1>5, <1>6, <1>8, <2>1, <3>1 DEF Left
  <2>2. CASE raced
    <3>1. waiting' = Take(kept, typed)
      BY <1>2, <1>3, <2>2
    <3>2. ASSUME NEW i \in 1 .. Len(waiting')
          PROVE  waiting'[i] = pm \/ \E j \in 1 .. Len(waiting) : waiting'[i] = waiting[j]
      <4>1. PICK a \in 1 .. Len(kept) : waiting'[i] = kept[a]
        BY <1>7, <3>1 DEF Left
      <4>2. PICK c \in 1 .. Len(all) : kept[a] = all[c]
        BY <1>6 DEF Left
      <4> QED BY <1>5, <4>1, <4>2
    <3>3. ASSUME NEW j \in 1 .. Len(all), all[j].id # typed, all[j].id \notin Lost(all, PendCap)
          PROVE  \E i \in 1 .. Len(waiting') : waiting'[i] = all[j]
      <4>1. PICK a \in 1 .. Len(kept) : kept[a] = all[j]
        BY <1>6, <3>3
      <4> QED BY <1>7, <3>1, <3>3, <4>1
    <3> QED BY <1>7, <1>8, <2>2, <3>1, <3>2, <3>3
  <2> QED BY <2>1, <2>2
<1>10. /\ stash' \in Seq(Echoes) /\ Distinct(stash') /\ \A i \in 1 .. Len(stash') : stash'[i].id # typed
       /\ \A i \in 1 .. Len(stash') : \E j \in 1 .. Len(stash) : stash'[i] = stash[j]
  <2>1. /\ Take(stash, typed) \in Seq(Echoes) /\ Left(Take(stash, typed), stash)
        /\ Distinct(stash) => \A i \in 1 .. Len(Take(stash, typed)) : Take(stash, typed)[i].id # typed
    BY <1>0, TakeLeft
  <2>2. Distinct(stash) /\ stash' = Take(stash, typed)
    BY <1>0, <1>2, <1>3 DEF EchoIds
  <2> QED BY <2>1, <2>2 DEF Left
<1>11. /\ seen' \in Seq(Nat) /\ Range(seen') \subseteq Range(seen) \cup (IF raced THEN {typed} ELSE {})
       /\ raced => typed \in Range(seen') /\ S = Range(seen) \ Range(seen')
       /\ ~raced => seen' = seen /\ S = {}
       /\ S \subseteq Nat
  <2>1. typed \notin Range(seen) /\ Range(seen) \subseteq Nat
    BY <1>0, <1>1, RangeFacts DEF EchoIds
  <2> HIDE DEF raced
  <2>2. CASE raced
    BY <1>0, <1>2, <1>3, <2>1, <2>2, NoteFacts
  <2>3. CASE ~raced
    BY <1>0, <1>3, <2>3
  <2> QED BY <2>2, <2>3
<1> HIDE DEF S
<1>12. /\ past' \in Pasts /\ past'.gone = past.gone /\ past'.moved = past.moved /\ past'.answered = past.answered
       /\ past'.warned = past.warned /\ past'.cancelled = past.cancelled
       /\ past'.confirmed = past.confirmed \cup (IF raced THEN {typed} ELSE {})
       /\ past'.forgotten = past.forgotten \cup Lost(all, PendCap) \cup S
  <2> HIDE DEF raced
  <2> QED BY <1>0, <1>2, <1>4, <1>6, <1>11 DEF Pasts
<1>13. (raced <=> typed \in IdsOf(stash))
  BY <1>2 DEF IdsOf
<1> HIDE DEF raced
<1>14. ~Active' /\ loop' \in Hands /\ loop'.at = "idle" /\ loop'.slot = Nowhere
  BY <1>3, RestFacts DEF Active
<1>15. Unconfirmed'
  <2>1. ASSUME NEW x \in IdsOf(waiting') PROVE x \in 1 .. typed /\ x \notin past'.confirmed
    <3>1. PICK i \in 1 .. Len(waiting') : x = waiting'[i].id
      BY DEF IdsOf
    <3>2. CASE waiting'[i] = pm
      BY <1>0, <1>1, <1>2, <1>9, <1>12, <3>1, <3>2
    <3>3. CASE \E j \in 1 .. Len(waiting) : waiting'[i] = waiting[j]
      <4>1. x \in IdsOf(waiting)
        BY <3>1, <3>3 DEF IdsOf
      <4> QED BY <1>0, <1>1, <1>12, <4>1 DEF Unconfirmed
    <3> QED BY <1>9, <3>2, <3>3
  <2>2. past'.confirmed \subseteq 1 .. typed
    BY <1>0, <1>1, <1>12 DEF Unconfirmed
  <2> QED BY <1>3, <1>9, <1>14, <2>1, <2>2 DEF Unconfirmed
<1>16. EchoIds'
  <2>1. Range(seen') \subseteq past'.confirmed
    BY <1>0, <1>11, <1>12 DEF EchoIds
  <2>2. IdsOf(stash') \subseteq IdsOf(stash)
    BY <1>10 DEF IdsOf
  <2> QED BY <1>0, <1>3, <1>10, <1>12, <1>14, <2>1, <2>2 DEF EchoIds
<1>17. ASSUME NEW x, Expected(x)
       PROVE  \/ \E i \in 1 .. Len(waiting') : waiting'[i].id = x.id /\ (waiting'[i].quote = x.quote \/ x.id \in past'.cancelled)
              \/ x.id \in past'.forgotten \cup Range(seen')
  <2>1. ASSUME NEW j \in 1 .. Len(all), all[j].id = x.id, all[j].quote = x.quote \/ x.id \in past.cancelled
        PROVE  \/ \E i \in 1 .. Len(waiting') : waiting'[i].id = x.id /\ (waiting'[i].quote = x.quote \/ x.id \in past'.cancelled)
               \/ x.id \in past'.forgotten \cup Range(seen')
    <3>1. CASE \E i \in 1 .. Len(waiting') : waiting'[i] = all[j]
      BY <1>12, <2>1, <3>1
    <3>2. CASE all[j].id \in Lost(all, PendCap)
      BY <1>12, <2>1, <3>2
    <3>3. CASE raced /\ all[j].id = typed
      BY <1>11, <2>1, <3>3
    <3> QED BY <1>9, <3>1, <3>2, <3>3
  <2>2. CASE loop.at = "sent" /\ x.id = typed /\ (x.quote = quoted \/ x.id \in past.cancelled)
    <3>1. PICK j \in 1 .. Len(all) : all[j] = pm
      BY <1>5
    <3> QED BY <1>2, <2>1, <2>2, <3>1
  <2>3. CASE \E i \in 1 .. Len(waiting) : waiting[i].id = x.id /\ (waiting[i].quote = x.quote \/ x.id \in past.cancelled)
    <3>1. PICK i \in 1 .. Len(waiting) : waiting[i].id = x.id /\ (waiting[i].quote = x.quote \/ x.id \in past.cancelled)
      BY <2>3
    <3>2. PICK j \in 1 .. Len(all) : all[j] = waiting[i]
      BY <1>5
    <3> QED BY <2>1, <3>1, <3>2
  <2>4. CASE x.id \in past.forgotten \cup Range(seen)
    BY <1>11, <1>12, <2>4
  <2> QED BY <1>17, <2>2, <2>3, <2>4 DEF Expected
<1>18. EchoesMeet'
  <2>1. ASSUME NEW i \in 1 .. Len(wire') PROVE Expected(wire[i])'
    <3>1. Expected(wire'[i])
      BY <1>0, <1>3 DEF EchoesMeet
    <3> QED BY <1>17, <3>1 DEF Expected
  <2>2. ASSUME NEW i \in 1 .. Len(held') PROVE Expected(held[i])'
    <3>1. Expected(held'[i])
      BY <1>0, <1>3 DEF EchoesMeet
    <3> QED BY <1>17, <3>1 DEF Expected
  <2> QED BY <2>1, <2>2 DEF EchoesMeet
<1>19. StashMeets'
  <2>1. ASSUME NEW i \in 1 .. Len(stash') PROVE stash'[i].id \in past'.forgotten \cup past'.cancelled
    <3>1. PICK j \in 1 .. Len(stash) : stash'[i] = stash[j]
      BY <1>10
    <3>2. stash[j].id # typed
      BY <1>10, <3>1
    <3> QED BY <1>0, <1>12, <3>1, <3>2 DEF StashMeets
  <2> QED BY <1>14, <2>1 DEF StashMeets
<1>20. NoneWaitsInVain'
  <2> SUFFICES ASSUME NEW i \in 1 .. Len(waiting'), waiting'[i].id \in past'.answered,
                      waiting'[i].id \notin past'.forgotten \cup past'.cancelled
               PROVE  FALSE
    BY DEF NoneWaitsInVain
  <2>1. CASE waiting'[i] = pm
    <3>1. typed \in IdsOf(stash)
      BY <1>0, <1>2, <1>12, <2>1 DEF StashMeets
    <3> QED BY <1>2, <1>9, <1>13, <2>1, <3>1
  <2>2. CASE \E j \in 1 .. Len(waiting) : waiting'[i] = waiting[j]
    BY <1>0, <1>12, <2>2 DEF NoneWaitsInVain
  <2> QED BY <1>9, <2>1, <2>2
<1>21. WarningsAreEarned'
  BY <1>0, <1>12 DEF WarningsAreEarned
<1>22. EchoInv'
  BY <1>15, <1>16, <1>18, <1>19, <1>20, <1>21 DEF EchoInv
<1>23. SlotsOwn'
  <2>1. ASSUME NEW i \in 1 .. Len(waiting') PROVE waiting'[i].slot.row.kind # "line"
    BY <1>0, <1>2, <1>9 DEF SlotsOwn
  <2> QED BY <1>14, <2>1, RowTypes DEF SlotsOwn
<1>24. ASSUME buf' \in Seq(Rows) PROVE ScreenTyped'
  BY <1>0, <1>3, <1>9, <1>10, <1>11, <1>12, <1>14, <1>24 DEF ScreenTyped
<1>25. \A i \in 1 .. Len(waiting') : \/ \E j \in 1 .. Len(waiting) : waiting'[i] = waiting[j]
                                     \/ Active /\ ~Active' /\ waiting'[i].id = typed /\ waiting'[i].slot = loop.slot
  BY <1>1, <1>2, <1>9, <1>14
<1>26. CASE ~raced
  <2>1. buf' = buf /\ ScreenTyped' /\ past'.confirmed = past.confirmed
    BY <1>0, <1>3, <1>12, <1>24, <1>26
  <2>2. RowsInPlace' /\ EveryLineShown'
    BY <1>3, <1>12, <1>14, <1>22, <1>25, <2>1, StillRows
  <2> QED BY <1>22, <1>23, <2>1, <2>2 DEF ScreenInv
<1> DEFINE k == loop.slot.index
<1>27. k \in Nat /\ loop.slot.row.kind # "line"
  BY <1>0, <1>1 DEF Slots, SlotsOwn
<1>28. CASE raced /\ ~Holds(buf, loop.slot)
  <2>1. buf' = buf /\ ScreenTyped'
    BY <1>0, <1>2, <1>3, <1>24, <1>28 DEF ErasePlaceholder
  <2>2. ASSUME typed \notin past.moved, NEW i \in 1 .. Len(buf), buf[i].kind \in Mine PROVE buf[i].of # typed
    <3>1. Fixed(buf, loop.slot, typed)
      BY <1>0, <1>1, <2>2 DEF RowsInPlace
    <3>2. buf[k] # loop.slot.row
      BY <1>28, <3>1 DEF Holds, Same, Fixed
    <3> QED BY <2>2, <3>1, <3>2 DEF Fixed
  <2>3. Overlays(buf', buf)
    BY <1>0, <2>1 DEF Overlays
  <2>4. RowsInPlace'
    BY <1>0, <1>3, <1>12, <1>14, <1>15, <1>25, <2>1, <2>2, <2>3, OverlayKeeps
  <2>5. EveryLineShown'
    BY <1>0, <1>3, <1>12, <2>1 DEF EveryLineShown
  <2> QED BY <1>22, <1>23, <2>1, <2>4, <2>5 DEF ScreenInv
<1>29. CASE raced /\ Holds(buf, loop.slot)
  <2>1. buf' = RemoveAt(buf, k) /\ k \in 1 .. Len(buf) /\ buf[k].kind # "line"
    BY <1>2, <1>3, <1>27, <1>29 DEF ErasePlaceholder, Holds, Same
  <2> HIDE DEF k
  <2>2. /\ buf' \in Seq(Rows) /\ Len(buf') = Len(buf) - 1
        /\ \A j \in 1 .. Len(buf) - 1 : buf'[j] = IF j < k THEN buf[j] ELSE buf[j + 1]
    BY <1>0, <2>1, RemoveFacts
  <2>3. ScreenTyped'
    BY <1>24, <2>2
  <2>4. ASSUME NEW j \in 1 .. Len(buf') PROVE \E a \in 1 .. Len(buf) : buf'[j] = buf[a]
    <3>1. CASE j < k
      BY <1>0, <2>1, <2>2, <3>1
    <3>2. CASE j >= k
      <4>1. j + 1 \in 1 .. Len(buf) /\ buf'[j] = buf[j + 1]
        BY <1>0, <2>1, <2>2, <3>2
      <4> QED BY <4>1
    <3> QED BY <1>0, <2>1, <2>2, <3>1, <3>2
  <2>5. \A x : Has(buf', x) => Has(buf, x)
    BY <2>4 DEF Has
  <2>6. EveryLineShown'
    <3>1. ASSUME NEW x, Has(buf, x), x.kind = "line" PROVE Has(buf', x)
      <4>1. PICK j \in 1 .. Len(buf) : buf[j] = x
        BY <3>1 DEF Has
      <4>2. CASE j < k
        <5>1. j \in 1 .. Len(buf') /\ buf'[j] = x
          BY <1>0, <2>1, <2>2, <4>1, <4>2
        <5> QED BY <5>1 DEF Has
      <4>3. CASE j > k
        <5>1. j - 1 \in 1 .. Len(buf') /\ ~(j - 1 < k) /\ (j - 1) + 1 = j
          BY <1>0, <2>1, <2>2, <4>3
        <5>2. buf'[j - 1] = x
          BY <2>2, <4>1, <5>1
        <5> QED BY <5>1, <5>2 DEF Has
      <4> QED BY <2>1, <3>1, <4>1, <4>2, <4>3
    <3> QED BY <1>0, <1>3, <1>12, <3>1, ShownKept
  <2>7. CASE typed \in past.moved
    <3>1. past'.moved = 1 .. typed'
      BY <1>0, <1>3, <1>12, <2>7 DEF RowsInPlace
    <3>2. RowsInPlace'
      BY <1>0, <1>3, <1>15, <2>3, <2>5, <3>1, OwnRows, ShiftKeeps
    <3> QED BY <1>22, <1>23, <2>3, <2>6, <3>2 DEF ScreenInv
  <2>8. CASE typed \notin past.moved
    <3>1. /\ buf[k] = loop.slot.row /\ loop.slot.row.of = typed /\ loop.slot.row.kind \in Mine
          /\ \A j \in k + 1 .. Len(buf) : buf[j].kind \notin Mine
      <4>1. Fixed(buf, loop.slot, typed) /\ \A j \in k + 1 .. Len(buf) : buf[j].kind \notin Mine
        BY <1>0, <1>1, <2>8 DEF RowsInPlace, k
      <4> QED BY <2>1, <4>1 DEF Fixed, k
    <3>2. ASSUME NEW j \in 1 .. Len(buf'), buf'[j].kind \in Mine
          PROVE  j \in 1 .. Len(buf) /\ j < k /\ buf'[j] = buf[j] /\ buf[j].of # typed
      <4>1. j < k
        <5> SUFFICES ASSUME j >= k PROVE FALSE
          BY <1>0, <2>1, <2>2
        <5>1. j + 1 \in k + 1 .. Len(buf) /\ buf'[j] = buf[j + 1]
          BY <1>0, <2>1, <2>2
        <5> QED BY <3>1, <3>2, <5>1
      <4>2. j \in 1 .. Len(buf) /\ buf'[j] = buf[j] /\ j # k
        BY <1>0, <2>1, <2>2, <4>1
      <4>3. buf[j].of # typed
        BY <1>0, <2>1, <2>8, <3>1, <3>2, <4>2 DEF RowsInPlace
      <4> QED BY <4>1, <4>2, <4>3
    <3>3. \A i \in 1 .. Len(buf') : buf'[i].kind \in Mine => buf'[i].of \in 1 .. typed'
      BY <1>0, <1>3, <3>2 DEF RowsInPlace
    <3>4. ASSUME NEW i \in 1 .. Len(buf'), buf'[i].kind \in Mine, buf'[i].of \notin past'.moved
          PROVE  /\ buf'[i].of \notin past'.confirmed
                 /\ \A j \in 1 .. Len(buf') : buf'[j].kind \in Mine /\ buf'[j].of = buf'[i].of => i = j
      <4>1. i \in 1 .. Len(buf) /\ buf'[i] = buf[i] /\ buf[i].of # typed
        BY <3>2, <3>4
      <4>2. /\ buf[i].of \notin past.confirmed
            /\ \A j \in 1 .. Len(buf) : buf[j].kind \in Mine /\ buf[j].of = buf[i].of => i = j
        BY <1>0, <1>12, <3>4, <4>1 DEF RowsInPlace
      <4> QED BY <1>12, <3>2, <4>1, <4>2
    <3>5. ASSUME NEW i \in 1 .. Len(waiting'), waiting'[i].id \notin past'.moved
          PROVE  Fixed(buf', waiting'[i].slot, waiting'[i].id)
      <4>1. waiting'[i].id # typed
        BY <1>9, <1>29
      <4>2. PICK j \in 1 .. Len(waiting) : waiting'[i] = waiting[j]
        BY <1>2, <1>9, <4>1
      <4> DEFINE spot == waiting[j].slot
                 id == waiting[j].id
      <4>3. Fixed(buf, spot, id) /\ spot.index < k
        BY <1>0, <1>1, <1>12, <3>5, <4>2 DEF RowsInPlace, k
      <4> HIDE DEF spot, id
      <4>4. spot.index \in 1 .. Len(buf') /\ buf'[spot.index] = buf[spot.index]
        <5>1. spot.index \in 1 .. Len(buf) /\ k \in Nat
          BY <1>27, <4>3 DEF Fixed
        <5>2. spot.index \in 1 .. Len(buf) - 1
          BY <1>0, <2>1, <4>3, <5>1
        <5> QED BY <2>2, <4>3, <5>2
      <4>5. Fixed(buf', spot, id)
        BY <3>2, <4>3, <4>4 DEF Fixed
      <4> QED BY <4>2, <4>5 DEF spot, id
    <3>6. past'.moved \subseteq 1 .. typed' /\ (typed' \in past'.moved => 1 .. typed' \subseteq past'.moved)
      BY <1>0, <1>3, <1>12 DEF RowsInPlace
    <3>7. RowsInPlace'
      BY <1>14, <3>3, <3>4, <3>5, <3>6 DEF RowsInPlace
    <3> QED BY <1>22, <1>23, <2>3, <2>6, <3>7 DEF ScreenInv
  <2> QED BY <2>7, <2>8
<1> QED BY <1>26, <1>28, <1>29

-----------------------------------------------------------------------------
LEMMA ScreenInitially == ScreenInit => ScreenInv
<1> SUFFICES ASSUME ScreenInit PROVE ScreenInv
  OBVIOUS
<1>0. /\ buf = <<Feedback>> /\ older = 0 /\ typed = 0 /\ loop = AtRest /\ quoted = FALSE /\ lines = 0
      /\ waiting = <<>> /\ stash = <<>> /\ seen = <<>> /\ wire = <<>> /\ held = <<>>
  BY DEF ScreenInit
<1>1. /\ past \in Pasts /\ past.gone = {} /\ past.moved = {} /\ past.confirmed = {} /\ past.answered = {}
      /\ past.warned = {} /\ past.forgotten = {} /\ past.cancelled = {}
  BY DEF ScreenInit, Pasts
<1>2. buf \in Seq(Rows) /\ Len(buf) = 1 /\ buf[1].kind = "notice" /\ ~Active /\ loop.at = "idle"
  BY <1>0, RowTypes, RestFacts DEF Active
<1>3. ScreenTyped
  <2>1. loop \in Hands /\ quoted \in BOOLEAN
    BY <1>0, RestFacts
  <2>2. waiting \in Seq(Waits) /\ stash \in Seq(Echoes) /\ seen \in Seq(Nat) /\ wire \in Seq(Sents) /\ held \in Seq(Sents)
    BY <1>0
  <2>3. older \in Nat /\ typed \in Nat /\ lines \in Nat
    BY <1>0
  <2> QED BY <1>1, <1>2, <2>1, <2>2, <2>3 DEF ScreenTyped
<1>4. SlotsOwn
  BY <1>0, RestFacts, RowTypes DEF SlotsOwn
<1>5. IdsOf(<<>>) = {} /\ Distinct(<<>>) /\ Range(<<>>) = {}
  BY DEF IdsOf, Distinct, Range
<1>6. Unconfirmed /\ EchoIds
  BY <1>0, <1>1, <1>2, <1>5 DEF Unconfirmed, EchoIds
<1>7. EchoesMeet /\ StashMeets /\ NoneWaitsInVain /\ WarningsAreEarned
  BY <1>0, <1>1, <1>2 DEF EchoesMeet, StashMeets, NoneWaitsInVain, WarningsAreEarned
<1>8. RowsInPlace
  <2>1. \A i \in 1 .. Len(buf) : buf[i].kind \notin Mine
    BY <1>2 DEF Mine
  <2> QED BY <1>0, <1>1, <1>2, <2>1 DEF RowsInPlace
<1>9. EveryLineShown
  BY <1>0 DEF EveryLineShown
<1> QED BY <1>3, <1>4, <1>6, <1>7, <1>8, <1>9 DEF ScreenInv, EchoInv

LEMMA ScreenStep == ScreenInv /\ [ScreenNext]_screenVars => ScreenInv'
<1> SUFFICES ASSUME ScreenInv, [ScreenNext]_screenVars PROVE ScreenInv'
  OBVIOUS
<1>1. ASSUME NEW t \in Texts, NEW q \in BOOLEAN, EchoInputLine(t, q) PROVE ScreenInv'
  BY <1>1, SubmitKeeps
<1>2. CASE Refuse
  BY <1>2, RefuseKeeps
<1>3. CASE CmdClear
  BY <1>3, CmdClearKeeps
<1>4. CASE RenderPlaceholder
  BY <1>4, RenderKeeps
<1>5. CASE Send
  BY <1>5, SendKeeps
<1>6. CASE CancelReply
  BY <1>6, CancelKeeps
<1>7. CASE Track
  BY <1>7, TrackKeeps
<1>8. ASSUME NEW fresh \in BOOLEAN, NEW copy \in BOOLEAN, EchoArrives(fresh, copy) PROVE ScreenInv'
  BY <1>8, ArriveKeeps
<1>9. CASE HeldCopy
  BY <1>9, HeldKeeps
<1>10. CASE OtherLine
  BY <1>10, OtherLineKeeps
<1>11. ASSUME NEW i \in 1 .. Scrollback + 1, i <= Len(buf) + 1, Refilled(i) PROVE ScreenInv'
  BY <1>11, RefillKeeps
<1>12. CASE RequestOlder \/ OlderTrailer
  BY <1>12, WindowKeeps
<1>13. CASE OlderLine
  BY <1>13, OlderLineKeeps
<1>14. CASE TimePasses
  BY <1>14, TimeKeeps
<1>15. CASE UNCHANGED screenVars
  <2>1. UNCHANGED <<buf, older, typed, loop, quoted, waiting, stash, seen, wire, held, lines, past>>
    BY <1>15 DEF screenVars
  <2>2. ScreenTyped' /\ SlotsOwn'
    BY <2>1 DEF ScreenInv, ScreenTyped, SlotsOwn
  <2>3. EchoInv'
    BY <2>1, QuietEchoes DEF ScreenInv, SameEchoes
  <2>4. RowsInPlace' /\ EveryLineShown'
    BY <2>1, <2>2, <2>3, StillRows DEF Active
  <2> QED BY <2>2, <2>3, <2>4 DEF ScreenInv
<1> QED BY <1>1, <1>2, <1>3, <1>4, <1>5, <1>6, <1>7, <1>8, <1>9, <1>10, <1>11, <1>12, <1>13, <1>14, <1>15, Zenon DEF ScreenNext

LEMMA ScreenInvIsEnough == ScreenInv => ScreenIsTrue
BY DEF ScreenInv, EchoInv, RowsInPlace, ScreenIsTrue, OneRow, Mine

(* The sender's screen is true, for any cap on buffer and queues and any    *)
(* number of lines: drawing, sending, queueing, cancelling and what the     *)
(* server sends may come in any order (send.go, display.go, chainmeta.go).  *)
THEOREM ScreenAlwaysTrue == ScreenSpec => []ScreenIsTrue
<1>1. ScreenSpec => []ScreenInv
  BY ScreenInitially, ScreenStep, PTL DEF ScreenSpec
<1> QED BY <1>1, ScreenInvIsEnough, PTL
=============================================================================
