----------------------------- MODULE ClientSync -----------------------------
(***************************************************************************)
(* How one terminal client follows the chained log: the initial load, the  *)
(* link check of every line, the refill of lines lost in transit and the   *)
(* older pages (client/pump.go, client/chainmeta.go, client/dispatch.go),  *)
(* against a server that answers history requests page by page and never   *)
(* blocks on a slow peer (server/history.go, server/clientHandler.go).     *)
(*                                                                         *)
(* The server is honest and its log does not change: line n has seq n, a   *)
(* chat line also has a height, and the hash of a chained line is named by *)
(* its height, so a link verifies exactly when the hash it continues is    *)
(* that of the height below.  Everything the client does to its chain and  *)
(* display happens under DisplayMu and is one step, except the flush of    *)
(* the held lines, which goes line by line with the lock held.             *)
(***************************************************************************)
EXTENDS Integers, Sequences, FiniteSets

CONSTANTS
  Log,        \* the kind of every line there will be: "chat" or "note"
  AtJoin,     \* how many are stored when the client joins
  Target,     \* history.initialLines
  Batch,      \* history.batchLines
  OlderLines, \* the lines of one /older
  Retries,    \* history.recoverRetries
  RecoverCap, \* history.liveRecoverCap, 0 for none
  NoWindow,   \* no window
  MaxFaults,  \* bound: frames lost and requests refused
  MaxOlder    \* bound: /older commands

Lines == 1 .. Len(Log)

(* chain_height of a line, 0 for a notice; line 0 is a notice sent to this *)
(* client alone, which is not in the log.                                  *)
ChainHeight == [n \in Lines |->
  IF Log[n] = "chat" THEN Cardinality({i \in 1 .. n : Log[i] = "chat"}) ELSE 0]
Height(n) == IF n = 0 THEN 0 ELSE ChainHeight[n]

ASSUME ClientSyncAssumption ==
  /\ Log \in Seq({"chat", "note"}) /\ AtJoin \in 0 .. Len(Log)
  /\ Target \in Nat \ {0} /\ Batch \in Nat \ {0} /\ OlderLines \in Nat \ {0}
  /\ Retries \in Nat /\ RecoverCap \in Nat
  /\ MaxFaults \in Nat /\ MaxOlder \in Nat

VARIABLES
  stored, \* the server: how many lines of Log it has
  down,   \* the frames on their way to the client
  up,     \* the requests on their way to the server
  sess,   \* the client's ChainState, and what it has drawn
  faults, \* frames lost and requests refused so far
  asked   \* /older commands so far

syncVars == <<stored, down, up, sess, faults, asked>>

-----------------------------------------------------------------------------
(* The server: history.go.                                                 *)

InOrder(S) ==
  LET upTo[n \in 0 .. stored] ==
        IF n = 0 THEN <<>>
        ELSE IF n \in S THEN Append(upTo[n - 1], n) ELSE upTo[n - 1]
  IN upTo[stored]

Least(S) == CHOOSE x \in S : \A y \in S : x <= y

(* The first k lines of S, and the last k. *)
FirstOf(S, k) == {n \in S : Cardinality({x \in S : x <= n}) <= k}
LastOf(S, k)  == {n \in S : Cardinality({x \in S : x >= n}) <= k}

Stored == 1 .. stored

(* collectAfterSeq: more and next_seq tell of the lines behind the page. *)
CollectAfter(after) ==
  LET S == {n \in Stored : n > after}
      page == FirstOf(S, Batch)
      more == page # S
  IN [lines |-> page, dir |-> "after", more |-> more,
      next |-> IF more THEN Cardinality(page) + after ELSE 0]

(* collectRanges *)
CollectRanges(hs) ==
  [lines |-> {n \in Stored : Height(n) \in hs \ {0}}, dir |-> "recover", more |-> FALSE, next |-> 0]

(* collectSegment: the lines just above the first one at or over before. *)
CollectSegment(before) ==
  LET S == {n \in Stored : \A i \in 1 .. n : Height(i) < before}
  IN [lines |-> LastOf(S, OlderLines), dir |-> "", more |-> FALSE, next |-> 0]

Collect(req) ==
  CASE req.t = "after"  -> CollectAfter(req.at)
    [] req.t = "ranges" -> CollectRanges(req.at)
    [] req.t = "before" -> CollectSegment(req.at)

Line(n) == [t |-> "line", n |-> n]

(* sendReplayPage: the lines sent, those that met a full queue left out,   *)
(* then the trailer, if it fits.                                           *)
ReplayPage(page, sent) ==
  LET first == IF page.lines = {} THEN 0 ELSE Least(page.lines)
      q == InOrder(sent)
  IN [i \in 1 .. Len(q) |-> Line(q[i])] \o
     <<[t |-> "sync", dir |-> page.dir, first |-> first, next |-> page.next,
        more |-> page.more, total |-> Cardinality(page.lines),
        dropped |-> Cardinality(page.lines \ sent)]>>

-----------------------------------------------------------------------------
(* Drawing and verifying one line.  These operators take the session to    *)
(* the session after the call.                                             *)

(* renderChatBlock: drawn and indexed, whatever was drawn before. *)
Draw(s, n) ==
  IF n = 0 THEN s
  ELSE [s EXCEPT !.drawn = @ \cup {n}]

(* verifyWireLink against the hash of height prev. *)
Links(h, prev) == prev = h - 1

(* releaseCatchupLocked: the hold ends, and its timer with it. *)
Release(s) == [s EXCEPT !.hold = FALSE]

(* missingRuns: the heights at which a run of missing heights starts. *)
RunStarts(p) == {h \in p.missing : h - 1 \notin p.missing}

(* pruneMissing: a run that starts above no known hash is given up. *)
Orphans(p) ==
  {h \in p.missing : \E f \in RunStarts(p) :
     f <= h /\ f .. h \subseteq p.missing /\ f - 1 \notin p.known}
Pruned(p) == [p EXCEPT !.missing = @ \ Orphans(p), !.live = @ \ Orphans(p)]

(* sendRecoverLocked asks for what is missing and arms the settle timer;   *)
(* CanSend says whether there is anything left to ask for.                 *)
CanSend(s) == Pruned(s.pend).missing # {}
SendRecover(s) ==
  LET p == Pruned(s.pend)
  IN IF p.missing = {} THEN [s EXCEPT !.pend = p]
     ELSE [s EXCEPT !.pend = [p EXCEPT !.attempts = @ + 1, !.failed = FALSE],
                    !.inRecover = TRUE, !.timer = "settle",
                    !.out = Append(@, [t |-> "ranges", at |-> p.missing])]

(* warnChainGap: the loss is accepted, and said so once a session. *)
GiveUp(s, hs) == [s EXCEPT !.lost = @ \cup hs]

NewWindow == [missing |-> {}, known |-> {}, live |-> {}, max |-> 0, attempts |-> 0, failed |-> FALSE]

Mut_BudgetBeforeGap(s, gap, anchor) ==
  LET p == IF s.pend = NoWindow THEN NewWindow ELSE s.pend
      top == CHOOSE h \in gap : \A g \in gap : g <= h
      wider == [s EXCEPT !.pend =
        [p EXCEPT !.missing = @ \cup gap, !.live = @ \cup gap, !.known = @ \cup {anchor},
                  !.max = IF top > @ THEN top ELSE @]]
  IN IF RecoverCap > 0 /\ s.recovered + Cardinality(p.live) > RecoverCap
     THEN GiveUp(s, gap)
     ELSE IF p.attempts > 0 THEN wider ELSE SendRecover(wider)

(* maybeRequestRecovery for the heights gap above anchor: they join the    *)
(* window, and a request goes out unless one is in flight; past the        *)
(* session's budget they are given up.                                     *)
MaybeRequestRecovery(s, gap, anchor) ==
  LET p == IF s.pend = NoWindow THEN NewWindow ELSE s.pend
      top == CHOOSE h \in gap : \A g \in gap : g <= h
      wider == [s EXCEPT !.pend =
        [p EXCEPT !.missing = @ \cup gap, !.live = @ \cup gap, !.known = @ \cup {anchor},
                  !.max = IF top > @ THEN top ELSE @]]
  IN IF RecoverCap > 0 /\ s.recovered + Cardinality(p.live) + Cardinality(gap) > RecoverCap
     THEN GiveUp([s EXCEPT !.pend = IF p.missing = {} THEN NoWindow ELSE @,
                           !.timer = IF p.missing = {} THEN "none" ELSE @], gap)
     ELSE IF p.attempts > 0 THEN wider
     ELSE IF CanSend(wider) THEN SendRecover(wider)
     ELSE GiveUp(SendRecover(wider), gap)

Mut_DuplicateChecked(s, n) ==
  LET h == Height(n)
      moved(t) == [t EXCEPT !.tip = h]
  IN IF h = 0 THEN s
     ELSE IF s.tip = 0 THEN [moved(s) EXCEPT !.base = h]
     ELSE IF Links(h, s.tip) THEN moved(s)
     ELSE IF h <= s.tip + 1 THEN [moved(s) EXCEPT !.warned = TRUE]
     ELSE IF s.load = "on" THEN moved(s)
     ELSE moved(MaybeRequestRecovery(s, s.tip + 1 .. h - 1, s.tip))

(* checkChainLink.  A line at or below the tip is a duplicate; the first   *)
(* line is adopted; a line further up than the next one means lost frames, *)
(* which the load leaves to its trailer; anything else is tampering.       *)
CheckChainLink(s, n) ==
  LET h == Height(n)
      counted == [s EXCEPT !.loaded = IF s.load = "on" THEN @ + 1 ELSE @]
      moved(t) == [t EXCEPT !.tip = h]
  IN IF h = 0 \/ (s.tip # 0 /\ h <= s.tip) THEN s
     ELSE IF s.tip = 0 THEN [moved(counted) EXCEPT !.base = h]
     ELSE IF Links(h, s.tip) THEN moved(counted)
     ELSE IF h <= s.tip + 1 THEN [moved(counted) EXCEPT !.warned = TRUE]
     ELSE IF s.load = "on" THEN moved(counted)
     ELSE moved(MaybeRequestRecovery(s, s.tip + 1 .. h - 1, s.tip))

Mut_RefillForgetsUnlinked(s, n) ==
  LET h == Height(n)
  IN IF h - 1 \notin s.pend.known
     THEN [s EXCEPT !.pend.missing = @ \ {h}, !.pend.live = @ \ {h}]
     ELSE Draw([s EXCEPT !.pend.missing = @ \ {h}, !.pend.live = @ \ {h},
                         !.pend.known = @ \cup {h}], n)

Mut_RefillHashNotKept(s, n) ==
  LET h == Height(n)
  IN IF h \notin s.pend.missing THEN s
     ELSE IF h - 1 \notin s.pend.known THEN [s EXCEPT !.pend.failed = TRUE]
     ELSE Draw([s EXCEPT !.pend.missing = @ \ {h}, !.pend.live = @ \ {h}], n)

(* A line of a refill: link-checked against the hash below it, drawn, and  *)
(* missing no more.                                                        *)
Refill(s, n) ==
  LET p == s.pend
      h == Height(n)
  IN IF h \notin p.missing THEN s
     ELSE IF ~(h - 1 \in p.known /\ Links(h, h - 1)) THEN [s EXCEPT !.pend.failed = TRUE]
     ELSE Draw([s EXCEPT !.pend = [p EXCEPT !.missing = @ \ {h}, !.live = @ \ {h},
                                            !.known = @ \cup {h}],
                         !.recovered = IF h \in p.live THEN @ + 1 ELSE @], n)

(* checkRecoverWire: whether it takes the line for one of the refill; if   *)
(* not, the line is live and the refill is over.                           *)
OfRefill(s, n) == s.pend # NoWindow /\ Height(n) # 0 /\ Height(n) <= s.pend.max

(* verifyReplayWire, then the draw its caller makes unless it drew. *)
VerifyAndDraw(s, n) ==
  CASE s.older # NoWindow -> Draw(s, n)
    [] s.older = NoWindow /\ s.inRecover ->
         IF OfRefill(s, n) THEN Refill(s, n)
         ELSE Draw(CheckChainLink([s EXCEPT !.inRecover = FALSE], n), n)
    [] OTHER -> Draw(CheckChainLink(s, n), n)

-----------------------------------------------------------------------------
(* The windows: initial load, refill, older page.                          *)

(* isLoadHistoryWire and isOlderHistoryWire *)
OfLoad(s, n)  == n # 0 /\ s.start <= n /\ n <= s.max
OfOlder(s, n) ==
  IF Height(n) # 0 THEN Height(n) < s.older.height ELSE n # 0 /\ n < s.older.seq

(* runPump, a chat or system line: held if the load is not about it,       *)
(* handled as live, with the older window out of the way, if it is no part *)
(* of that window.                                                         *)
PumpLine(s, n) ==
  IF s.load = "on" /\ ~OfLoad(s, n) THEN [s EXCEPT !.held = Append(@, n)]
  ELSE IF s.older # NoWindow /\ ~OfOlder(s, n)
  THEN [VerifyAndDraw([s EXCEPT !.older = NoWindow], n) EXCEPT !.older = s.older]
  ELSE VerifyAndDraw(s, n)

SendLoadPage(s, after) == [s EXCEPT !.out = Append(@, [t |-> "after", at |-> after])]

(* handleHistoryInfo *)
HandleHistoryInfo(s, max) ==
  LET after == IF max >= Target THEN max - Target ELSE 0
  IN IF s.load = "on" THEN s
     ELSE SendLoadPage([s EXCEPT !.load = "on", !.loaded = 0, !.retried = 0, !.held = <<>>,
                                 !.max = max, !.start = after + 1, !.hold = TRUE], after)

(* finishLoadLocked begins: from here on lines are live.  The fork check   *)
(* compares the persisted tip with the hash of the same height, which an   *)
(* unchanged log cannot fail.                                              *)
FinishLoad(s) == [s EXCEPT !.load = "flush", !.base = s.tip]

(* onLoadPageLocked: a page that lost lines is asked for again, from its   *)
(* first line; then the next page, to the end of the announced window.     *)
OnLoadPage(s, f) ==
  IF f.dropped > 0 /\ s.retried < Retries
  THEN SendLoadPage([s EXCEPT !.retried = @ + 1], IF f.first > 0 THEN f.first - 1 ELSE 0)
  ELSE LET t == [s EXCEPT !.retried = 0]
       IN IF f.more /\ s.loaded < Target /\ f.next < s.max THEN SendLoadPage(t, f.next)
          ELSE FinishLoad(t)

(* abandonRecoveryLocked: the status bar reports the loss. *)
AbandonRecovery(s) ==
  Release(GiveUp([s EXCEPT !.pend = NoWindow, !.inRecover = FALSE, !.timer = "none"], s.pend.missing))

Mut_OneRetryMore(s) ==
  IF s.pend = NoWindow THEN [s EXCEPT !.inRecover = FALSE]
  ELSE IF s.pend.missing = {} /\ ~s.pend.failed
  THEN Release([s EXCEPT !.pend = NoWindow, !.inRecover = FALSE, !.timer = "none"])
  ELSE IF s.pend.attempts <= Retries + 1 THEN [s EXCEPT !.timer = "retry"]
  ELSE AbandonRecovery(s)

Mut_RetryUnarmed(s) ==
  IF s.pend = NoWindow THEN [s EXCEPT !.inRecover = FALSE]
  ELSE IF s.pend.missing = {} /\ ~s.pend.failed
  THEN Release([s EXCEPT !.pend = NoWindow, !.inRecover = FALSE, !.timer = "none"])
  ELSE IF s.pend.attempts <= Retries THEN s
  ELSE AbandonRecovery(s)

(* finishRecovery: done, or to be retried, or given up. *)
FinishRecovery(s) ==
  IF s.pend = NoWindow THEN [s EXCEPT !.inRecover = FALSE]
  ELSE IF s.pend.missing = {} /\ ~s.pend.failed
  THEN Release([s EXCEPT !.pend = NoWindow, !.inRecover = FALSE, !.timer = "none"])
  ELSE IF s.pend.attempts <= Retries THEN [s EXCEPT !.timer = "retry"]
  ELSE AbandonRecovery(s)

(* handleHistorySync: a trailer names its window only when it is one of    *)
(* the load; any other goes to the window that is open.                    *)
HandleHistorySync(s, f) ==
  IF s.load = "on" /\ f.dir = "after" THEN OnLoadPage(s, f)
  ELSE IF s.older # NoWindow
  THEN LET t == [s EXCEPT !.older = NoWindow, !.exhausted = @ \/ f.total = 0]
       IN IF t.pend # NoWindow THEN FinishRecovery(t) ELSE t
  ELSE IF s.inRecover \/ s.pend # NoWindow \/ f.dir = "recover"
  THEN FinishRecovery([s EXCEPT !.inRecover = FALSE])
  ELSE s

-----------------------------------------------------------------------------
(* Actions.                                                                *)

(* The client goes from sess to s; what s sends leaves. *)
Becomes(s) ==
  /\ sess' = [s EXCEPT !.out = <<>>]
  /\ up' = up \o s.out

Unlocked == sess.load # "flush"

(* runPump reads one frame. *)
Receive ==
  /\ Unlocked /\ down # <<>>
  /\ LET f == Head(down)
     IN Becomes(CASE f.t = "line" -> PumpLine(sess, f.n)
                  [] f.t = "info" -> HandleHistoryInfo(sess, f.max)
                  [] f.t = "sync" -> HandleHistorySync(sess, f))
  /\ down' = Tail(down)
  /\ UNCHANGED <<stored, faults, asked>>

(* finishLoadLocked, the held lines: live, whatever older window is open. *)
Flush ==
  /\ sess.load = "flush" /\ sess.held # <<>>
  /\ Becomes([VerifyAndDraw([sess EXCEPT !.older = NoWindow], Head(sess.held))
                EXCEPT !.older = sess.older, !.held = Tail(sess.held)])
  /\ UNCHANGED <<stored, down, faults, asked>>

(* Its end. *)
Loaded ==
  /\ sess.load = "flush" /\ sess.held = <<>>
  /\ Becomes(Release([sess EXCEPT !.load = "off"]))
  /\ UNCHANGED <<stored, down, faults, asked>>

(* The hold timer of handleHistoryInfo. *)
HoldTimer ==
  /\ sess.load = "on" /\ sess.hold
  /\ Becomes(FinishLoad(sess))
  /\ UNCHANGED <<stored, down, faults, asked>>

(* The settle timer of an attempt, and the timer of its retry. *)
SettleTimer ==
  /\ Unlocked /\ sess.timer = "settle"
  /\ Becomes(FinishRecovery([sess EXCEPT !.timer = "none"]))
  /\ UNCHANGED <<stored, down, faults, asked>>

RetryTimer ==
  /\ Unlocked /\ sess.timer = "retry"
  /\ LET s == [sess EXCEPT !.timer = "none"]
     IN Becomes(IF CanSend(s) THEN SendRecover(s) ELSE AbandonRecovery(SendRecover(s)))
  /\ UNCHANGED <<stored, down, faults, asked>>

(* requestOlder *)
RequestOlder ==
  /\ Unlocked /\ asked < MaxOlder
  /\ LET chats == {n \in sess.drawn : Height(n) # 0}
         oldest == Least(chats)
     IN /\ chats # {}
        /\ Becomes([sess EXCEPT !.older = [height |-> Height(oldest), seq |-> oldest],
                                !.out = Append(@, [t |-> "before", at |-> Height(oldest)])])
  /\ asked' = asked + 1
  /\ UNCHANGED <<stored, down, faults>>

(* switchTab and cmdClear end a hold. *)
SwitchTab ==
  /\ Unlocked /\ sess.hold
  /\ Becomes(Release(sess))
  /\ UNCHANGED <<stored, down, faults, asked>>

(* A line is stored and broadcast; a full queue loses it. *)
Post ==
  /\ stored < Len(Log)
  /\ stored' = stored + 1
  /\ \/ down' = Append(down, Line(stored + 1)) /\ UNCHANGED faults
     \/ faults < MaxFaults /\ faults' = faults + 1 /\ UNCHANGED down
  /\ UNCHANGED <<up, sess, asked>>

(* A history request is answered.  Nothing the client asks for can be      *)
(* stored between the collection and the sending, so they are one step.    *)
Serve ==
  /\ up # <<>>
  /\ LET page == Collect(Head(up))
     IN \E sent \in SUBSET page.lines, trailer \in BOOLEAN :
          LET q == ReplayPage(page, sent)
              loss == Cardinality(page.lines \ sent) + (IF trailer THEN 0 ELSE 1)
          IN /\ faults + loss <= MaxFaults
             /\ faults' = faults + loss
             /\ down' = down \o (IF trailer THEN q ELSE SubSeq(q, 1, Len(q) - 1))
  /\ up' = Tail(up)
  /\ UNCHANGED <<stored, sess, asked>>

(* allowHistoryRequest refuses: a notice, and no trailer. *)
Refuse ==
  /\ up # <<>> /\ faults < MaxFaults
  /\ faults' = faults + 1
  /\ up' = Tail(up) /\ down' = Append(down, Line(0))
  /\ UNCHANGED <<stored, sess, asked>>

(* registerClient has queued the announcement before any line. *)
SyncInit ==
  /\ stored = AtJoin
  /\ down = <<[t |-> "info", max |-> AtJoin]>> /\ up = <<>>
  /\ sess = [tip |-> 0, base |-> 0, warned |-> FALSE,
             load |-> "off", hold |-> FALSE, start |-> 0, max |-> 0, loaded |-> 0,
             retried |-> 0, held |-> <<>>,
             older |-> NoWindow, exhausted |-> FALSE,
             inRecover |-> FALSE, pend |-> NoWindow, timer |-> "none", recovered |-> 0,
             drawn |-> {}, lost |-> {}, out |-> <<>>]
  /\ faults = 0 /\ asked = 0

SyncNext ==
  \/ Receive \/ Flush \/ Loaded \/ HoldTimer \/ SettleTimer \/ RetryTimer
  \/ RequestOlder \/ SwitchTab \/ Post \/ Serve \/ Refuse

SyncSpec == SyncInit /\ [][SyncNext]_syncVars

(* The client's goroutine and timers run, and the server answers. *)
Fairness ==
  /\ WF_syncVars(Receive) /\ WF_syncVars(Flush) /\ WF_syncVars(Loaded)
  /\ WF_syncVars(HoldTimer) /\ WF_syncVars(SettleTimer) /\ WF_syncVars(RetryTimer)
  /\ WF_syncVars(Serve \/ Refuse)

FairSpec == SyncSpec /\ Fairness

-----------------------------------------------------------------------------
(* Properties.                                                             *)

Heights == 1 .. Cardinality({i \in Lines : Log[i] = "chat"})

Window == [missing : SUBSET Heights, known : SUBSET Heights, live : SUBSET Heights,
           max : Heights, attempts : 1 .. Retries + 1, failed : BOOLEAN]

ASSUME NoWindowAssumption == NoWindow \notin Window

(* Every variable stays in its type. *)
SyncTypes ==
  /\ stored \in AtJoin .. Len(Log)
  /\ faults \in 0 .. MaxFaults /\ asked \in 0 .. MaxOlder
  /\ sess.tip \in Heights \cup {0} /\ sess.base \in Heights \cup {0}
  /\ sess.warned \in BOOLEAN /\ sess.hold \in BOOLEAN /\ sess.inRecover \in BOOLEAN
  /\ sess.exhausted \in BOOLEAN
  /\ sess.load \in {"off", "on", "flush"} /\ sess.timer \in {"none", "settle", "retry"}
  /\ sess.start \in 0 .. Len(Log) + 1 /\ sess.max \in 0 .. Len(Log)
  /\ sess.loaded \in 0 .. Len(Log) /\ sess.retried \in 0 .. Retries
  /\ sess.held \in Seq(Lines \cup {0})
  /\ sess.older # NoWindow => sess.older \in [height : Heights, seq : Lines]
  /\ sess.pend # NoWindow => sess.pend \in Window
  /\ sess.recovered \in Nat
  /\ sess.drawn \subseteq Lines /\ sess.lost \subseteq Heights /\ sess.out = <<>>

(* Against an honest server the client never cries tampering, whatever was *)
(* lost, repeated, refilled or paged in between.                           *)
NoFalseTamper == ~sess.warned

(* No live line vanishes: every height between where the load ended and    *)
(* the tip has been drawn, is being refilled, or was given up knowingly.   *)
NoSilentLoss ==
  sess.load # "on" =>
    \A n \in Lines :
      sess.base < Height(n) /\ Height(n) <= sess.tip =>
        \/ n \in sess.drawn
        \/ sess.pend # NoWindow /\ Height(n) \in sess.pend.missing
        \/ Height(n) \in sess.lost

(* An open refill always has a timer to settle it, and every run it waits  *)
(* for starts above a known hash, so that pruneMissing discards nothing.   *)
RefillAlive ==
  sess.pend # NoWindow => sess.timer # "none" /\ Orphans(sess.pend) = {}

(* history.liveRecoverCap bounds what a session refills, retries and       *)
(* overlapping gaps included.                                              *)
BudgetHolds ==
  RecoverCap > 0 =>
    sess.recovered + (IF sess.pend = NoWindow THEN 0 ELSE Cardinality(sess.pend.live)) <= RecoverCap

(* Every refill is settled in the end. *)
RefillSettles == sess.pend # NoWindow ~> sess.pend = NoWindow

(* Whatever the frames do, a refill has its shape, its timer and its       *)
(* anchors, and stays within history.liveRecoverCap.                       *)
RefillBounded == SyncTypes /\ RefillAlive /\ BudgetHolds
=============================================================================
