----------------------------- MODULE HistoryLog -----------------------------
(***************************************************************************)
(* The server's message log: the hash chain and sequence counter kept in   *)
(* RAM (server/chain.go, ChainService in server/shared.go), the bounded    *)
(* RAM window (appendMessageLocked), the asynchronous write queue and the  *)
(* rotated files behind it (server/history_store.go), and what a restart   *)
(* rebuilds from those files (InitHistoryStore, initChainLocked).          *)
(*                                                                         *)
(* Abstractions.  A line's bytes are one unit, so the byte limits count    *)
(* lines.  A line's payload is its creation number (uid), which no code    *)
(* reads; SHA-256 does not collide, so the uid also names its chain hash.  *)
(* Signed lines, whose verification can drop them at boot, and legacy      *)
(* records without a seq are left out.                                     *)
(***************************************************************************)
EXTENDS Naturals, Sequences

CONSTANTS
  MaxHistoryLines, \* MAX_HISTORY_BYTES, in lines
  FileCap,         \* MAX_HISTORY_FILE_SIZE_MB, in lines
  QueueCap,        \* historyQueueSize
  Faults,          \* the file operations that may fail
  NoFile,          \* an absent .old or .old.zst
  MaxLines,        \* bound: lines ever issued
  MaxStops         \* bound: restarts

AllFaults == {"open", "close", "rename", "compress", "remove", "write"}

ASSUME HistoryLogAssumption ==
  /\ MaxHistoryLines \in Nat \ {0}
  /\ FileCap \in Nat \ {0}
  /\ QueueCap \in Nat \ {0}
  /\ Faults \subseteq AllFaults
  /\ MaxLines \in Nat
  /\ MaxStops \in Nat
  /\ NoFile \notin Seq([uid : Nat, seq : Nat, height : Nat, prev : Nat])

VARIABLES
  phase,   \* "up", "closing" (Close ran, the process has not exited), "down"
  ready,   \* ChainService.ready
  tip,     \* ChainService.tip
  height,  \* ChainService.height
  seq,     \* ChainService.seq
  history, \* ChainService.History, oldest first
  queue,   \* HistoryStore.queue
  writer,  \* where writeLoop is: "idle", or the rotate step it is about to take
  file,    \* the handle: "open", "closed" (by Close) or "nil"
  active,  \* history.jsonl, complete lines
  tail,    \* its last line: "clean", a "fragment", or "unterminated"
  synced,  \* how many lines of active are fsynced
  old,     \* history.jsonl.old
  zst,     \* history.jsonl.old.zst
  issued,  \* history variable: every line ever assigned a seq, in order
  lost,    \* history variable: a record may be missing from the files
  forgot,  \* history variable: a resume found no chained line in the window
  stops    \* restarts so far

ramVars  == <<ready, tip, height, seq, history>>
diskVars == <<active, tail, synced, old, zst>>
ghosts == <<issued, lost, forgot>>
vars == <<phase, ramVars, queue, writer, file, diskVars, ghosts, stops>>

-----------------------------------------------------------------------------
(* Lines.  height 0 marks an unchained system line.                        *)

Genesis == 0

Line == [uid : Nat, seq : Nat, height : Nat, prev : Nat]

Hash(line) == line.uid

Chained(line) == line.height # 0

ChainedLine(uid, s, prev, h) == [uid |-> uid, seq |-> s, height |-> h, prev |-> prev]

SystemLine(uid, s) == [uid |-> uid, seq |-> s, height |-> 0, prev |-> Genesis]

LastLines(lines, n) ==
  IF Len(lines) <= n THEN lines ELSE SubSeq(lines, Len(lines) - n + 1, Len(lines))

(* The newest chained line of a window, as an index; 0 when there is none. *)
NewestChained(lines, i) ==
  Chained(lines[i]) /\ \A j \in DOMAIN lines : j > i => ~Chained(lines[j])

LastChained(lines) ==
  IF \E i \in DOMAIN lines : NewestChained(lines, i)
  THEN CHOOSE i \in DOMAIN lines : NewestChained(lines, i)
  ELSE 0

-----------------------------------------------------------------------------
(* RAM: append with eviction, sequence numbers, the chain tip.             *)

(* appendMessageLocked: append, then drop from the front while too large. *)
AppendMessage(lines, line) == LastLines(Append(lines, line), MaxHistoryLines)

Mut_ResumeAtOldest(lines) ==
  IF LastChained(lines) = 0 THEN [tip |-> Genesis, height |-> 0]
  ELSE LET i == CHOOSE j \in DOMAIN lines :
                  /\ Chained(lines[j])
                  /\ \A k \in DOMAIN lines : k < j => ~Chained(lines[k])
       IN [tip |-> Hash(lines[i]), height |-> lines[i].height]

(* initChainLocked: every chained line, verified or not, is adopted in     *)
(* turn, so the newest chained line of the RAM window supplies the tip.    *)
InitChain(lines) ==
  LET i == LastChained(lines) IN
  IF i = 0 THEN [tip |-> Genesis, height |-> 0]
  ELSE [tip |-> Hash(lines[i]), height |-> lines[i].height]

(* The tip linkAndStore extends: resumed lazily, on the first link.        *)
Resumed == IF ready THEN [tip |-> tip, height |-> height] ELSE InitChain(history)

(* EnqueueWire: never blocks; sheds when full, silent once closed.         *)
Shed == phase = "up" /\ Len(queue) >= QueueCap

EnqueueWire(line) ==
  /\ queue' = IF phase # "up" \/ Shed THEN queue ELSE Append(queue, line)
  /\ lost' = (lost \/ phase # "up" \/ Shed)

(* EnqueueWire takes HistoryStore.mu, which writeLoop holds across rotate. *)
CanStore == phase # "down" /\ writer = "idle" /\ Len(issued) < MaxLines

(* The first link of an uptime finds no chained line left in the window.   *)
Forgets == ~ready /\ LastChained(history) = 0 /\ LastChained(issued) # 0

(* linkAndStore, under BroadcastMu and Chain.Mu. *)
LinkAndStore ==
  /\ CanStore
  /\ LET base == Resumed
         line == ChainedLine(Len(issued) + 1, seq + 1, base.tip, base.height + 1)
     IN /\ tip' = Hash(line)
        /\ height' = line.height
        /\ seq' = line.seq
        /\ history' = AppendMessage(history, line)
        /\ EnqueueWire(line)
        /\ issued' = Append(issued, line)
  /\ ready' = TRUE
  /\ forgot' = (forgot \/ Forgets)
  /\ UNCHANGED <<phase, writer, file, diskVars, stops>>

(* storeSystem: a notice, date banner or vote total; never chained. *)
StoreSystem ==
  /\ CanStore
  /\ LET line == SystemLine(Len(issued) + 1, seq + 1)
     IN /\ seq' = line.seq
        /\ history' = AppendMessage(history, line)
        /\ EnqueueWire(line)
        /\ issued' = Append(issued, line)
  /\ UNCHANGED <<phase, ready, tip, height, writer, file, diskVars, forgot, stops>>

-----------------------------------------------------------------------------
(* The writer: writeLoop, writeRecord, rotate.                             *)

(* One Write at the end of the file.  After an unclean stop or a short     *)
(* write the file may not end in a newline, and the new record then shares *)
(* a line with what is there: neither parses any more.                     *)
Readable == IF tail = "unterminated" THEN SubSeq(active, 1, Len(active) - 1) ELSE active

WriteLine(line) ==
  /\ active' = IF tail = "clean" THEN Append(active, line) ELSE Readable
  /\ tail' = "clean"
  /\ synced' = IF synced <= Len(Readable) THEN synced ELSE Len(Readable)

(* The write fails part way, as on a full disk, and leaves its first bytes. *)
ShortWrite ==
  /\ active' = Readable
  /\ tail' = "fragment"
  /\ synced' = IF synced <= Len(Readable) THEN synced ELSE Len(Readable)

Mut_LoseRecordRequeue(handle) ==
  /\ queue' = Append(Tail(queue), Head(queue))
  /\ lost' = TRUE
  /\ file' = handle
  /\ writer' = "idle"

(* writeRecord gives up on the record at the head of the queue. *)
LoseRecord(handle) ==
  /\ queue' = Tail(queue)
  /\ lost' = TRUE
  /\ file' = handle
  /\ writer' = "idle"

NeedsRotate == Len(active) + 1 > FileCap

(* writeRecord for a record that fits; a fileless store reopens first. *)
WriteRecord ==
  /\ phase # "down" /\ writer = "idle" /\ queue # <<>>
  /\ file # "closed"
  /\ ~NeedsRotate
  /\ WriteLine(Head(queue))
  /\ queue' = Tail(queue)
  /\ lost' = (lost \/ tail # "clean")
  /\ file' = "open"
  /\ UNCHANGED <<phase, ramVars, writer, old, zst, issued, forgot, stops>>

(* The reopen or the write fails: the record is gone, it is not retried. *)
WriteFails ==
  /\ phase # "down" /\ writer = "idle" /\ queue # <<>>
  /\ \/ /\ file = "nil" /\ "open" \in Faults
        /\ LoseRecord("nil") /\ UNCHANGED <<active, tail, synced>>
     \/ /\ file # "closed" /\ ~NeedsRotate /\ "write" \in Faults
        /\ LoseRecord("open")
        /\ ShortWrite \/ UNCHANGED <<active, tail, synced>>
     \/ /\ file = "closed" /\ ~NeedsRotate
        /\ LoseRecord("closed") /\ UNCHANGED <<active, tail, synced>>
  /\ UNCHANGED <<phase, ramVars, old, zst, issued, forgot, stops>>

(* rotate, up to the rename: sync, close, move the active file aside. *)
RotateRename ==
  /\ phase # "down" /\ writer = "idle" /\ queue # <<>> /\ NeedsRotate
  /\ file # "closed"
  /\ old' = active
  /\ active' = <<>> /\ tail' = "clean" /\ synced' = 0
  /\ file' = "nil"
  /\ writer' = "compress"
  /\ UNCHANGED <<phase, ramVars, queue, zst, ghosts, stops>>

(* The close or the rename fails: the record is lost, the file stays. *)
RotateAborts ==
  /\ phase # "down" /\ writer = "idle" /\ queue # <<>> /\ NeedsRotate
  /\ \/ file = "closed" /\ UNCHANGED synced
     \/ /\ file # "closed" /\ Faults \cap {"close", "rename"} # {}
        /\ synced' = Len(active)
  /\ LoseRecord("nil")
  /\ UNCHANGED <<phase, ramVars, active, tail, old, zst, issued, forgot, stops>>

(* compressFileZstd: the archive is replaced by a rename, all or nothing.  *)
RotateCompress ==
  /\ phase # "down" /\ writer = "compress"
  /\ \/ /\ zst' = old
        /\ writer' = "remove"
        /\ UNCHANGED lost
     \/ /\ "compress" \in Faults
        /\ writer' = "reopen"
        /\ lost' = TRUE
        /\ UNCHANGED zst
  /\ UNCHANGED <<phase, ramVars, queue, file, active, tail, synced, old, issued, forgot, stops>>

(* The compressed-aside file is removed; failing that, the record is lost. *)
RotateRemove ==
  /\ phase # "down" /\ writer = "remove"
  /\ \/ /\ old' = NoFile
        /\ writer' = "reopen"
        /\ UNCHANGED <<queue, file, lost>>
     \/ /\ "remove" \in Faults
        /\ LoseRecord("nil")
        /\ UNCHANGED old
  /\ UNCHANGED <<phase, ramVars, active, tail, synced, zst, issued, forgot, stops>>

(* A fresh active file, and the write that asked for the rotation. *)
RotateReopen ==
  /\ phase # "down" /\ writer = "reopen"
  /\ \/ /\ active' = <<Head(queue)>>
        /\ queue' = Tail(queue)
        /\ file' = "open"
        /\ writer' = "idle"
        /\ UNCHANGED <<tail, lost>>
     \/ /\ "open" \in Faults
        /\ LoseRecord("nil")
        /\ UNCHANGED <<active, tail>>
     \/ /\ "write" \in Faults
        /\ LoseRecord("open")
        /\ tail' \in {"clean", "fragment"}
        /\ UNCHANGED active
  /\ UNCHANGED <<phase, ramVars, synced, old, zst, issued, forgot, stops>>

(* The 1s tick of writeLoop. *)
SyncTick ==
  /\ phase = "up" /\ writer = "idle" /\ file = "open"
  /\ synced < Len(active)
  /\ synced' = Len(active)
  /\ UNCHANGED <<phase, ramVars, queue, writer, file, active, tail, old, zst, ghosts, stops>>

-----------------------------------------------------------------------------
(* Stopping and starting.                                                  *)

(* SIGTERM: Close flags the store, closes the channel and the file. *)
Close ==
  /\ phase = "up" /\ writer = "idle" /\ stops < MaxStops
  /\ phase' = "closing"
  /\ synced' = IF file = "open" THEN Len(active) ELSE synced
  /\ file' = IF file = "open" THEN "closed" ELSE file
  /\ UNCHANGED <<ramVars, queue, writer, active, tail, old, zst, ghosts, stops>>

(* What a stop leaves in RAM is gone, and so is a record still queued. *)
Halt(torn) ==
  /\ phase' = "down"
  /\ lost' = (lost \/ torn \/ queue # <<>> \/ writer # "idle")
  /\ queue' = <<>> /\ history' = <<>>
  /\ ready' = FALSE /\ tip' = Genesis /\ height' = 0 /\ seq' = 0
  /\ writer' = "idle" /\ file' = "nil"
  /\ stops' = stops + 1

(* os.Exit(0) after Close: writeLoop may not have emptied the channel. *)
Exit ==
  /\ phase = "closing"
  /\ Halt(FALSE)
  /\ UNCHANGED <<diskVars, issued, forgot>>

(* The process is killed: the files keep every completed write. *)
Kill ==
  /\ phase # "down" /\ stops < MaxStops
  /\ Halt(FALSE)
  /\ UNCHANGED <<diskVars, issued, forgot>>

(* The machine stops: unsynced lines go, the last one possibly in part. *)
PowerLoss ==
  /\ phase # "down" /\ stops < MaxStops
  /\ synced < Len(active)
  /\ \E n \in synced .. Len(active) - 1, t \in {"clean", "fragment", "unterminated"} :
       /\ active' = SubSeq(active, 1, IF t = "unterminated" THEN n + 1 ELSE n)
       /\ tail' = t
       /\ synced' = n
  /\ Halt(TRUE)
  /\ UNCHANGED <<old, zst, issued, forgot>>

Lines(f) == IF f = NoFile THEN <<>> ELSE f

Mut_LoadSkipsArchive == Lines(old) \o active

Mut_LoadBoth == Lines(zst) \o Lines(old) \o active

(* LoadRecords: the archive, the raw .old only without one, the active. *)
LoadRecords == (IF zst # NoFile THEN zst ELSE Lines(old)) \o active

(* The largest stored seq, 0 for an empty store. *)
LastSeq(lines) ==
  IF lines = <<>> THEN 0
  ELSE CHOOSE s \in {lines[i].seq : i \in DOMAIN lines} :
         \A i \in DOMAIN lines : lines[i].seq <= s

Mut_BootSeqFromRam == LastSeq(LastLines(active, MaxHistoryLines))
BootSeq == LastSeq(LoadRecords)

(* InitHistoryStore: refill the window, resume seq; the tip waits. *)
Boot ==
  /\ phase = "down"
  /\ phase' = "up"
  /\ history' = LastLines(LoadRecords, MaxHistoryLines)
  /\ seq' = BootSeq
  /\ file' = "open"
  /\ UNCHANGED <<ready, tip, height, queue, writer, diskVars, ghosts, stops>>

-----------------------------------------------------------------------------
Init ==
  /\ phase = "up" /\ ready = FALSE
  /\ tip = Genesis /\ height = 0 /\ seq = 0
  /\ history = <<>> /\ queue = <<>>
  /\ writer = "idle" /\ file = "open"
  /\ active = <<>> /\ tail = "clean" /\ synced = 0
  /\ old = NoFile /\ zst = NoFile
  /\ issued = <<>> /\ lost = FALSE /\ forgot = FALSE /\ stops = 0

Next ==
  \/ LinkAndStore \/ StoreSystem
  \/ WriteRecord \/ WriteFails
  \/ RotateRename \/ RotateAborts \/ RotateCompress \/ RotateRemove \/ RotateReopen
  \/ SyncTick
  \/ Close \/ Exit \/ Kill \/ PowerLoss \/ Boot

Spec == Init /\ [][Next]_vars

(* writeLoop is a goroutine of its own: it runs whenever it can. *)
WriterStep ==
  \/ WriteRecord \/ WriteFails
  \/ RotateRename \/ RotateAborts \/ RotateCompress \/ RotateRemove \/ RotateReopen

FairSpec == Spec /\ WF_vars(WriterStep)

-----------------------------------------------------------------------------
(* Properties.                                                             *)

InSeqOrder(lines) ==
  \A i, j \in DOMAIN lines : i < j => lines[i].seq < lines[j].seq

Lossless == ~lost /\ ~forgot

(* Every variable stays in its type; the window and the queue respect the  *)
(* limits appendMessageLocked and EnqueueWire enforce.                     *)
TypeOK ==
  /\ phase \in {"up", "closing", "down"}
  /\ ready \in BOOLEAN /\ tip \in Nat /\ height \in Nat /\ seq \in Nat
  /\ history \in Seq(Line) /\ Len(history) <= MaxHistoryLines
  /\ queue \in Seq(Line) /\ Len(queue) <= QueueCap
  /\ writer \in {"idle", "compress", "remove", "reopen"}
  /\ file \in {"open", "closed", "nil"}
  /\ active \in Seq(Line) /\ Len(active) <= FileCap
  /\ tail \in {"clean", "fragment", "unterminated"}
  /\ synced \in 0 .. Len(active)
  /\ old \in Seq(Line) \cup {NoFile} /\ zst \in Seq(Line) \cup {NoFile}
  /\ issued \in Seq(Line) /\ stops \in Nat
  /\ lost \in BOOLEAN /\ forgot \in BOOLEAN

(* storeSystem and linkAndStore enqueue under Chain.Mu "so persisted order *)
(* always matches seq order": what a boot would load, followed by what is  *)
(* still queued, is in strict seq order, whatever was lost, torn, rotated  *)
(* or restarted before, and no line is numbered above the counter.         *)
StoredInSeqOrder ==
  /\ InSeqOrder(LoadRecords \o queue)
  /\ phase # "down" => \A i \in DOMAIN (LoadRecords \o queue) :
                         (LoadRecords \o queue)[i].seq <= seq

(* The strengthening that makes StoredInSeqOrder inductive.  RotationSteps *)
(* says what rotate has left behind at each of its steps; FilesInSeqOrder  *)
(* orders each file against what follows it.  A raw .old counts only while *)
(* it can still be loaded or compressed: beside an archive, once rotate is *)
(* over, it may hold seq numbers that a restart has handed out again.      *)
RotationSteps ==
  /\ phase = "down" => queue = <<>> /\ writer = "idle" /\ ~ready
  /\ writer # "idle" => queue # <<>> /\ active = <<>> /\ tail = "clean" /\ file = "nil"
  /\ writer \in {"compress", "remove"} => old # NoFile
  /\ writer = "remove" => zst = old
  /\ tail = "unterminated" => active # <<>>

Precedes(s, t) == \A i \in DOMAIN s, j \in DOMAIN t : s[i].seq < t[j].seq
AtMost(s, n)   == \A i \in DOMAIN s : s[i].seq <= n

InOrderBefore(f) ==
  /\ InSeqOrder(f) /\ Precedes(f, active) /\ Precedes(f, queue)
  /\ phase # "down" => AtMost(f, seq)

FilesInSeqOrder ==
  /\ InSeqOrder(active) /\ InSeqOrder(queue) /\ Precedes(active, queue)
  /\ phase # "down" => AtMost(active, seq) /\ AtMost(queue, seq)
  /\ zst # NoFile => InOrderBefore(zst)
  /\ old # NoFile /\ (zst = NoFile \/ writer # "idle") => InOrderBefore(old)

LogInv == TypeOK /\ RotationSteps /\ FilesInSeqOrder

(* Once resumed, the tip linkAndStore extends is the newest chained line   *)
(* of the window clients page from, and that line was linked to the        *)
(* chained line the window holds before it: across evictions, losses and   *)
(* restarts, a client that pages the window never sees this uptime's newest *)
(* message fork.                                                           *)
Extends(line, before) == line.prev = Hash(before) /\ line.height = before.height + 1

LinkedAt(lines, i) ==
  \A j \in 1 .. i - 1 :
    (/\ Chained(lines[j])
     /\ \A k \in j + 1 .. i - 1 : ~Chained(lines[k]))
    => Extends(lines[i], lines[j])

TipFollowsWindow ==
  phase # "down" /\ ready =>
    \A i \in DOMAIN history :
      NewestChained(history, i) =>
        /\ tip = Hash(history[i]) /\ height = history[i].height
        /\ LinkedAt(history, i)

(* Without a lost record every restart refills the window with exactly the *)
(* last lines issued, in order (rotation keeps enough on disk).            *)
WindowIsSuffix ==
  Lossless /\ phase # "down" => history = LastLines(issued, MaxHistoryLines)

(* Without a lost record the chain of all lines ever issued is unbroken    *)
(* and seq is gap-free, however often the server restarts.                 *)
ChainUnbroken ==
  Lossless =>
    /\ \A i \in DOMAIN issued : issued[i].seq = i
    /\ \A i, j \in DOMAIN issued :
         (/\ i < j /\ Chained(issued[i]) /\ Chained(issued[j])
          /\ \A k \in i + 1 .. j - 1 : ~Chained(issued[k]))
         => /\ issued[j].prev = Hash(issued[i])
            /\ issued[j].height = issued[i].height + 1

(* Failing writes and rotations never wedge the writer: every queued       *)
(* record is dealt with ("history writing self-heals instead of stalling   *)
(* until the next restart").                                               *)
QueuedIsHandled ==
  \A u \in 1 .. MaxLines :
    (phase = "up" /\ \E i \in DOMAIN queue : queue[i].uid = u)
      ~> (phase # "up" \/ \A i \in DOMAIN queue : queue[i].uid # u)

(* The stored lines while rotate has the archive and the file it is about  *)
(* to replace it with side by side: the one it does not keep is lost only  *)
(* when that is decided.                                                   *)
Stored ==
  (IF writer = "compress" /\ zst # NoFile THEN zst \o old ELSE LoadRecords) \o queue
Top == IF phase = "down" THEN BootSeq ELSE seq

Promise == INSTANCE OrderedLog WITH log <- Stored, top <- Top

(* The queue, the files and the rotation together keep what OrderedLog     *)
(* promises: writing, rotating, failing, crashing and booting never move,  *)
(* duplicate or bring back a stored line.                                  *)
ImplementsOrderedLog == Promise!Spec

(* A restart that lost no record goes unnoticed: the window comes back     *)
(* whole, and the chain and the numbers go on where they were.             *)
RestartIsSilent == WindowIsSuffix /\ ChainUnbroken
=============================================================================
