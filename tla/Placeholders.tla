---------------------------- MODULE Placeholders ----------------------------
(***************************************************************************)
(* One message on the sender's screen: the submitted line, the grey block  *)
(* that says it is on its way, and the server's echo that takes its place  *)
(* (client/client.go, send.go, display.go, tabs.go, the echo matching of   *)
(* chainmeta.go and the emit of render.go).                                *)
(*                                                                         *)
(* The input loop draws and sends; the read pump draws what arrives; the   *)
(* app may cancel a reply.  Each holds DisplayMu for one step, and the     *)
(* loop gives it up between drawing the block, sending and queueing.  A    *)
(* row is remembered by its index and its value, and a buffer at its cap   *)
(* drops rows at the front, so an index can go stale.  All rows count the  *)
(* same against the cap.  The server is honest: an echo has the tmp_id and *)
(* the quote of what was sent.                                             *)
(***************************************************************************)
EXTENDS Integers, Sequences, FiniteSets, SequencesExt

CONSTANTS
  Texts,     \* what can be typed
  Scrollback, \* ui.web.scrollback: rows in the chat buffer
  PendCap,   \* maxPendingPlaceholders
  StashCap,  \* the early echoes kept
  SeenCap,   \* maxSeenTmpIDs
  MaxTyped,  \* bound: lines submitted
  MaxLines   \* bound: lines of others, pages and copies

(* A buffer or queue holds at least one entry.                             *)
ASSUME ScreenAssumption ==
  /\ Scrollback \in Nat \ {0} /\ PendCap \in Nat \ {0} /\ StashCap \in Nat \ {0} /\ SeenCap \in Nat \ {0}
  /\ MaxTyped \in Nat /\ MaxLines \in Nat

VARIABLES
  buf,     \* TabChat.lines
  older,   \* OlderInsert, 0 when no older window is open
  typed,   \* lines submitted; also the tmp_id of the last one
  loop,    \* the input loop: where it is, and the line it has in hand
  quoted,  \* PendingReplyTo, as a flag
  waiting, \* PendingPlaceholders
  stash,   \* PendingEchoes
  seen,    \* SeenTmpIDs
  wire,    \* the messages whose echo is still to come, in order
  held,    \* live copies of messages a page has brought already
  lines,   \* server lines drawn so far
  past     \* what has happened to lines and messages

view == <<buf, older, lines>>
queue == <<waiting, stash, seen>>
net == <<wire, held>>
screenVars == <<buf, older, typed, loop, quoted, waiting, stash, seen, wire, held, lines, past>>

-----------------------------------------------------------------------------
(* The buffer.                                                             *)

(* An entry: `of` says whose it is, which no comparison of the code sees.  *)
Row(kind, text, quote, of) == [kind |-> kind, text |-> text, quote |-> quote, of |-> of]
Feedback == Row("notice", "", FALSE, 0)
LineRow(n) == Row("line", n, FALSE, n)

Same(r, s) == r.kind = s.kind /\ r.text = s.text /\ r.quote = s.quote

Evict(b) == SubSeq(b, 1 + (IF Len(b) > Scrollback THEN Len(b) - Scrollback ELSE 0), Len(b))
Dropped(b) == {b[i].of : i \in {j \in 1 .. Len(b) - Scrollback : b[j].kind = "line"}}

(* placeEntry, insertAt: inside an older window at its anchor.             *)
Place(r) == IF older = 0 THEN Append(buf, r)
            ELSE LET i == IF older > Len(buf) THEN Len(buf) + 1 ELSE older
                 IN  InsertAt(buf, i, r)
NextAnchor == IF older = 0 THEN 0 ELSE older + 1

Slot(i, r) == [index |-> i, row |-> r]
Mut_IndexOnly(b, slot) == slot.index \in 1 .. Len(b)
Holds(b, slot) == slot.index \in 1 .. Len(b) /\ Same(b[slot.index], slot.row)

(* What a step did: the lines evicted, and whose indexes no longer hold.   *)
Noted(b, misplaced) ==
  [past EXCEPT !.gone = @ \cup Dropped(b),
               !.moved = @ \cup misplaced \cup (IF Len(b) > Scrollback THEN 1 .. typed ELSE {})]

-----------------------------------------------------------------------------
(* The input loop.                                                         *)

Nowhere == Slot(0, Feedback)
AtRest == [at |-> "idle", text |-> "", id |-> 0, slot |-> Nowhere]

(* A line is submitted; a reply draft or an inline /reply gives it a quote. *)
EchoInputLine(t, q) ==
  /\ loop.at = "idle" /\ typed < MaxTyped
  /\ typed' = typed + 1 /\ quoted' = q
  /\ LET r == Row("typed", t, FALSE, typed')
         b == Place(r)
     IN  /\ buf' = Evict(b)
         /\ loop' = [AtRest EXCEPT !.at = "typed", !.text = t, !.id = typed',
                                 !.slot = Slot(Len(buf'), r)]
         /\ past' = Noted(b, IF older = 0 THEN {} ELSE 1 .. typed + 1)
  /\ older' = NextAnchor
  /\ UNCHANGED <<queue, net, lines>>

(* A command, or a line a guard refuses: feedback, and the row stays.      *)
Refuse ==
  /\ loop.at = "typed"
  /\ buf' = Evict(Append(buf, Feedback)) /\ past' = Noted(Append(buf, Feedback), {})
  /\ loop' = AtRest /\ quoted' = FALSE
  /\ UNCHANGED <<older, typed, queue, net, lines>>

(* /clear.                                                                 *)
CmdClear ==
  /\ loop.at = "typed"
  /\ buf' = <<Feedback>>
  /\ past' = [past EXCEPT !.gone = @ \cup {r.of : r \in {x \in Range(buf) : x.kind = "line"}},
                          !.moved = @ \cup 1 .. typed]
  /\ loop' = AtRest /\ quoted' = FALSE
  /\ UNCHANGED <<older, typed, queue, net, lines>>

(* The block takes over the row of the submitted line, if it is still      *)
(* there, and its slot is what the echo will look for.                     *)
RenderPlaceholder ==
  /\ loop.at = "typed"
  /\ LET r == Row("pending", loop.text, quoted, loop.id)
     IN  IF Holds(buf, loop.slot)
         THEN /\ buf' = ReplaceAt(buf, loop.slot.index, r)
              /\ loop' = [loop EXCEPT !.at = "drawn", !.slot = Slot(@.index, r)]
              /\ UNCHANGED <<older, past>>
         ELSE /\ buf' = Evict(Place(r)) /\ older' = NextAnchor
              /\ loop' = [loop EXCEPT !.at = "drawn", !.slot = Slot(Len(buf'), r)]
              /\ past' = Noted(Place(r), 1 .. typed)
  /\ UNCHANGED <<typed, quoted, queue, net, lines>>

Sent == [id |-> loop.id, quote |-> quoted]

(* sendJSON: a failure ends the session's input.                           *)
Send ==
  /\ loop.at = "drawn"
  /\ \/ loop' = [loop EXCEPT !.at = "sent"] /\ wire' = Append(wire, Sent)
     \/ loop' = [AtRest EXCEPT !.at = "ended"] /\ UNCHANGED wire
  /\ UNCHANGED <<view, typed, quoted, queue, held, past>>

(* The app drops the reply target, between any two steps of the loop.      *)
CancelReply ==
  /\ quoted /\ quoted' = FALSE
  /\ past' = IF loop.at = "sent" THEN [past EXCEPT !.cancelled = @ \cup {loop.id}] ELSE past
  /\ UNCHANGED <<view, typed, loop, queue, net>>

NoteConsumed(id) == LET s == IF id \in Range(seen) THEN seen ELSE Append(seen, id)
                    IN  IF Len(s) > SeenCap THEN Tail(s) ELSE s

(* The first entry of a message leaves: takeStashedEcho, and its loop over *)
(* the placeholders.                                                       *)
Take(q, id) ==
  LET hits == {i \in 1 .. Len(q) : q[i].id = id}
  IN  IF hits = {} THEN q ELSE RemoveAt(q, CHOOSE i \in hits : \A j \in hits : i <= j)

Mut_KeepsBlock(slot) == buf
ErasePlaceholder(slot) == IF Holds(buf, slot) THEN RemoveAt(buf, slot.index) ELSE buf

(* The message joins the queue of those that wait for an echo; one whose   *)
(* echo was faster leaves again, with its block.                           *)
Track ==
  /\ loop.at = "sent"
  /\ LET pm == [id |-> loop.id, slot |-> loop.slot, quote |-> quoted]
         all == Append(waiting, pm)
         raced == \E i \in 1 .. Len(stash) : stash[i].id = pm.id
         kept == IF Len(all) > PendCap THEN Tail(all) ELSE all
     IN  /\ waiting' = IF raced THEN Take(kept, pm.id) ELSE kept
         /\ stash' = Take(stash, pm.id)
         /\ seen' = IF raced THEN NoteConsumed(pm.id) ELSE seen
         /\ buf' = IF raced THEN ErasePlaceholder(pm.slot) ELSE buf
         /\ past' = [past EXCEPT
              !.confirmed = IF raced THEN @ \cup {pm.id} ELSE @,
              !.forgotten = @ \cup {all[i].id : i \in 1 .. Len(all) - PendCap}
                              \cup (IF raced THEN Range(seen) \ Range(NoteConsumed(pm.id)) ELSE {})]
  /\ loop' = AtRest /\ quoted' = FALSE
  /\ UNCHANGED <<older, typed, net, lines>>

-----------------------------------------------------------------------------
(* The read pump.                                                          *)

(* reapStaleEchoes: its loop over the stash, for what it keeps and for     *)
(* what it returns.                                                        *)
Reap(q, old) ==
  LET f[i \in 0 .. Len(q)] ==
        IF i = 0 THEN <<>> ELSE IF q[i].old = old THEN Append(f[i - 1], q[i]) ELSE f[i - 1]
  IN  f[Len(q)]
Stale == Reap(stash, TRUE)

(* planEchoConsume: an echo that finds nobody waiting for it is kept for a *)
(* while, if it may be early.                                              *)
Match(m) == IF \E i \in 1 .. Len(waiting) : waiting[i].id = m.id /\ waiting[i].quote = m.quote
            THEN CHOOSE i \in 1 .. Len(waiting) : waiting[i].id = m.id /\ waiting[i].quote = m.quote
            ELSE 0

Mut_AlwaysStash(m) == TRUE
Unseen(m) == m.id \notin Range(seen)

Mut_NoStash(m, fresh) == stash
Stashed(m, fresh) ==
  IF Match(m) = 0 /\ fresh /\ Unseen(m) THEN Append(stash, [id |-> m.id, old |-> FALSE]) ELSE stash

(* A stale early echo earns a warning; then the wire is drawn, in the row  *)
(* of its block when it has one.                                           *)
Drawn(slot) ==
  LET b == buf \o [i \in 1 .. Len(Stale) |-> Feedback]
      r == LineRow(lines + 1)
      c == IF Holds(Evict(b), slot) THEN ReplaceAt(Evict(b), slot.index, r)
           ELSE Append(Evict(b), r)
  IN  [rows |-> Evict(c), gone |-> Dropped(b) \cup Dropped(c),
       moved |-> IF Len(b) > Scrollback \/ Len(c) > Scrollback THEN 1 .. typed ELSE {}]

Show(slot) == buf' = Drawn(slot).rows /\ lines' = lines + 1

Kept(s) == IF Len(s) > StashCap THEN Tail(s) ELSE s

ConsumeEcho(m, fresh) ==
  LET fresher == Reap(Stashed(m, fresh), FALSE)
      hit == Match(m)
      slot == IF hit = 0 THEN Nowhere ELSE waiting[hit].slot
  IN  /\ stash' = Kept(fresher)
      /\ waiting' = IF hit = 0 THEN waiting ELSE RemoveAt(waiting, hit)
      /\ seen' = IF hit = 0 THEN seen ELSE NoteConsumed(m.id)
      /\ Show(slot)
      /\ past' = [past EXCEPT
           !.gone = @ \cup Drawn(slot).gone, !.moved = @ \cup Drawn(slot).moved,
           !.confirmed = IF hit = 0 THEN @ ELSE @ \cup {m.id},
           !.answered = IF fresh THEN @ \cup {m.id} ELSE @,
           !.warned = @ \cup {s.id : s \in Range(Stale)},
           !.forgotten = @ \cup (Range(seen) \ Range(seen'))
                           \cup {fresher[i].id : i \in 1 .. Len(fresher) - StashCap}]
      /\ UNCHANGED <<older, typed, loop, quoted>>

(* The echo of our message, live; or, `fresh` FALSE, in the page of a load *)
(* (the live copy is then held until the load ends) or behind a refill.    *)
EchoArrives(fresh, copy) ==
  /\ wire # <<>> /\ (copy => ~fresh)
  /\ wire' = Tail(wire)
  /\ held' = IF copy THEN Append(held, Head(wire)) ELSE held
  /\ ConsumeEcho(Head(wire), fresh)

HeldCopy ==
  /\ held # <<>>
  /\ held' = Tail(held) /\ UNCHANGED wire
  /\ ConsumeEcho(Head(held), TRUE)

(* The frame was lost: the refill draws the line without looking for a     *)
(* block, after its predecessor or at the end.                             *)
Refilled(i) ==
  /\ wire # <<>> /\ wire' = Tail(wire)
  /\ i = Len(buf) + 1 \/ (i > 1 /\ buf[i - 1].kind = "line")
  /\ LET b == InsertAt(buf, i, LineRow(lines + 1))
     IN  buf' = Evict(b) /\ past' = Noted(b, IF i <= Len(buf) THEN 1 .. typed ELSE {})
  /\ lines' = lines + 1
  /\ UNCHANGED <<older, typed, loop, quoted, queue, held>>

(* Somebody else's line: the early echoes are looked through all the same. *)
OtherLine ==
  /\ lines < MaxLines
  /\ Show(Nowhere)
  /\ stash' = Reap(stash, FALSE)
  /\ past' = [past EXCEPT !.gone = @ \cup Drawn(Nowhere).gone, !.moved = @ \cup Drawn(Nowhere).moved,
                          !.warned = @ \cup {s.id : s \in Range(Stale)}]
  /\ UNCHANGED <<older, typed, loop, quoted, waiting, seen, net>>

(* An older window: from the request to its trailer its lines go above the *)
(* oldest line there is.                                                   *)
RequestOlder ==
  /\ older = 0
  /\ \E i \in 1 .. Len(buf) : /\ buf[i].kind = "line" /\ \A j \in 1 .. i - 1 : buf[j].kind # "line"
                             /\ older' = i
  /\ UNCHANGED <<buf, typed, loop, quoted, queue, net, lines, past>>

OlderLine ==
  /\ older # 0 /\ lines < MaxLines
  /\ LET b == Place(LineRow(lines + 1)) IN buf' = Evict(b) /\ past' = Noted(b, 1 .. typed)
  /\ older' = NextAnchor /\ lines' = lines + 1
  /\ UNCHANGED <<typed, loop, quoted, queue, net>>

OlderTrailer ==
  /\ older # 0 /\ older' = 0
  /\ UNCHANGED <<buf, typed, loop, quoted, queue, net, lines, past>>

(* Ten seconds: every early echo is stale.  A loop that has sent does not  *)
(* take that long to queue the message.                                    *)
TimePasses ==
  /\ loop.at # "sent" /\ \E s \in Range(stash) : ~s.old
  /\ stash' = [i \in 1 .. Len(stash) |-> [stash[i] EXCEPT !.old = TRUE]]
  /\ UNCHANGED <<view, typed, loop, quoted, waiting, seen, net, past>>

-----------------------------------------------------------------------------
ScreenInit ==
  /\ buf = <<Feedback>> /\ older = 0 /\ typed = 0 /\ loop = AtRest /\ quoted = FALSE
  /\ waiting = <<>> /\ stash = <<>> /\ seen = <<>> /\ wire = <<>> /\ held = <<>> /\ lines = 0
  /\ past = [gone |-> {}, moved |-> {}, confirmed |-> {}, answered |-> {}, warned |-> {},
             forgotten |-> {}, cancelled |-> {}]

ScreenNext ==
  \/ \E t \in Texts, q \in BOOLEAN : EchoInputLine(t, q)
  \/ Refuse \/ CmdClear \/ RenderPlaceholder \/ Send \/ CancelReply \/ Track
  \/ \E fresh, copy \in BOOLEAN : EchoArrives(fresh, copy)
  \/ HeldCopy \/ OtherLine
  \/ \E i \in 1 .. Scrollback + 1 : i <= Len(buf) + 1 /\ Refilled(i)
  \/ RequestOlder \/ OlderLine \/ OlderTrailer
  \/ TimePasses

ScreenSpec == ScreenInit /\ [][ScreenNext]_screenVars

-----------------------------------------------------------------------------
(* Every line the server sent is on screen until the buffer's cap or       *)
(* /clear takes it: no block, stale index or early echo removes or         *)
(* overwrites one.                                                         *)
EveryLineShown ==
  \A n \in 1 .. lines : n \in past.gone \/ \E i \in 1 .. Len(buf) : buf[i].kind = "line" /\ buf[i].of = n

(* A message whose echo has been matched has one row, the echo: its line   *)
(* and its grey block are gone, whichever of echo and queueing was first,  *)
(* as long as no row was inserted or dropped above it.                     *)
OneRow ==
  \A i \in 1 .. Len(buf) : buf[i].kind \in {"typed", "pending"} =>
    buf[i].of \notin past.confirmed \ past.moved

(* A message does not wait for an echo that has come: early or late, it is *)
(* matched, unless a full queue forgot one side or the app cancelled the   *)
(* reply between the send and the queueing.                                *)
NoneWaitsInVain ==
  \A i \in 1 .. Len(waiting) : waiting[i].id \notin past.answered \ (past.forgotten \cup past.cancelled)

(* The warning that the server may have altered an ID is never a false     *)
(* one, with the same two exceptions.                                      *)
WarningsAreEarned == past.warned \subseteq past.forgotten \cup past.cancelled

(* The sender's screen is true: every server line has its row, an echoed   *)
(* message no other than the echo's; matchPendingIndex and takeStashedEcho *)
(* find each other's halves in either order, so that no message waits for  *)
(* an echo that has come, and no honest echo is called altered.            *)
ScreenIsTrue == EveryLineShown /\ OneRow /\ NoneWaitsInVain /\ WarningsAreEarned
=============================================================================
