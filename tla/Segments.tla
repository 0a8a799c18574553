------------------------------ MODULE Segments ------------------------------
(***************************************************************************)
(* Pages of older history put together from the files and the RAM window   *)
(* (collectSegment in server/history.go, windowBefore and the generation   *)
(* index in server/history_store.go), while the log of HistoryLog goes on  *)
(* writing, rotating, failing, stopping and starting under it.             *)
(*                                                                         *)
(* Abstractions, beside those of HistoryLog.  A byte offset is the number  *)
(* of readable lines before it.  An offset that a torn write has shifted   *)
(* fails the newline probe and the file is read from its start: a scan may *)
(* start at either place.  The heights kept as bounds of a generation are  *)
(* read by nothing and are left out.                                       *)
(***************************************************************************)
EXTENDS HistoryLog

CONSTANTS
  Stride,   \* indexSampleStride
  Levels,   \* the values of HISTORY_DISK_LOOKUP in use
  Limits,   \* the page sizes in use
  MaxPages  \* bound: pages asked for

ASSUME SegmentsAssumption ==
  /\ Stride \in Nat \ {0}
  /\ Levels \subseteq 0 .. 3
  /\ Limits \subseteq Nat \ {0}
  /\ MaxPages \in Nat

VARIABLES
  idx,   \* HistoryStore.idx: the generations on disk, old to new
  page,  \* the page being put together
  pages  \* pages asked for so far

segVars == <<idx, page, pages>>
allVars == <<vars, segVars>>

(* The tiers, numbered as the level that reads them. *)
Active  == 1
Raw     == 2
Archive == 3

-----------------------------------------------------------------------------
(* The index of generations.  sinceSample is the number of chained lines.  *)

NewGen(tier) == [tier |-> tier, samples |-> <<>>, sinceSample |-> 0]

(* A chained line at position pos; every Stride-th one is sampled. *)
Sampled(g, h, pos) ==
  [g EXCEPT !.samples = IF g.sinceSample % Stride = 0
                        THEN Append(@, [height |-> h, pos |-> pos]) ELSE @,
            !.sinceSample = @ + 1]

(* indexWroteLocked: the generation of the active file is the last one. *)
IndexWrote(gens, h, pos) ==
  LET n    == Len(gens)
      open == IF n > 0 /\ gens[n].tier = Active THEN gens ELSE Append(gens, NewGen(Active))
  IN [open EXCEPT ![Len(open)] = Sampled(@, h, pos)]

(* indexLoaded: the lines of a loaded file, one after the other; an empty  *)
(* file builds no entry, an archive keeps no samples.                      *)
IndexLoaded(tier, lines) ==
  LET gen[i \in 0 .. Len(lines)] ==
        IF i = 0 THEN NewGen(tier)
        ELSE IF Chained(lines[i]) THEN Sampled(gen[i - 1], lines[i].height, i - 1)
        ELSE gen[i - 1]
  IN IF lines = <<>> THEN <<>>
     ELSE IF tier = Archive THEN <<NewGen(Archive)>>
     ELSE <<gen[Len(lines)]>>

(* The entries of some tiers. *)
GensOf(gens, tiers) ==
  LET kept[i \in 0 .. Len(gens)] ==
        IF i = 0 THEN <<>>
        ELSE IF gens[i].tier \in tiers THEN Append(kept[i - 1], gens[i]) ELSE kept[i - 1]
  IN kept[Len(gens)]

DropGen(gens, tier) == GensOf(gens, {Active, Raw, Archive} \ {tier})

HasTier(gens, tier) == \E i \in DOMAIN gens : gens[i].tier = tier

(* relabelGenLocked: the first entry of a tier takes over another role. *)
RelabelGen(gens, from, to) ==
  IF ~HasTier(gens, from) THEN gens
  ELSE LET i == CHOOSE i \in DOMAIN gens :
                  gens[i].tier = from /\ \A j \in 1 .. i - 1 : gens[j].tier # from
       IN [gens EXCEPT ![i].tier = to,
                       ![i].samples = IF to = Archive THEN <<>> ELSE @]

(* After the rename: the former active generation is the raw one. *)
IndexRenamed ==
  LET kept == DropGen(idx, Raw)
  IN IF HasTier(kept, Active) THEN RelabelGen(kept, Active, Raw)
     ELSE Append(kept, NewGen(Raw))

(* After the compression, whether or not the raw file could be removed. *)
IndexArchived == RelabelGen(DropGen(idx, Archive), Raw, Archive)

Mut_BootIndexAll ==
  IndexLoaded(Archive, Lines(zst)) \o IndexLoaded(Raw, Lines(old)) \o IndexLoaded(Active, active)

(* LoadRecords: the index mirrors the files that are loaded. *)
BootIndex ==
  (IF zst # NoFile THEN IndexLoaded(Archive, zst) ELSE IndexLoaded(Raw, Lines(old)))
    \o IndexLoaded(Active, active)

IndexWritten(line, pos) ==
  idx' = IF Chained(line) THEN IndexWrote(idx, line.height, pos) ELSE idx

-----------------------------------------------------------------------------
(* One page.  Three fields are there for the properties: top and owed, the *)
(* newest height and the stored messages below the cursor when it was      *)
(* asked for, and excuses, what happened to it that makes it less than a   *)
(* window of one log.                                                      *)

NoPage == [step |-> "none"]

Collecting == page.step \in {"index", "scan", "ram"}

Excused(why) == page' = IF Collecting THEN [page EXCEPT !.excuses = @ \cup {why}] ELSE page

(* oldestChained: the smallest chained height, 0 when there is none. *)
OldestChained(lines) ==
  LET heights == {lines[i].height : i \in {j \in DOMAIN lines : Chained(lines[j])}}
  IN IF heights = {} THEN 0 ELSE CHOOSE h \in heights : \A k \in heights : h <= k

Mut_BoundIsCursor(before) == before

(* Disk is read below the window's oldest chained line. *)
Bound(before) ==
  LET oldest == OldestChained(history)
  IN IF oldest # 0 /\ oldest < before THEN oldest ELSE before

(* A line has left the window and is not yet in the file. *)
Behind ==
  \E i \in DOMAIN queue :
    /\ Chained(queue[i])
    /\ \A j \in DOMAIN history : history[j].uid # queue[i].uid

Below(before) ==
  {l.uid : l \in {l \in {LoadRecords[i] : i \in DOMAIN LoadRecords} :
                    Chained(l) /\ l.height < before}}

(* feed: lines count until the first chained one at or above the cutoff. *)
CutAt(lines, start, before) ==
  {i \in DOMAIN lines : i > start /\ before # 0 /\ Chained(lines[i]) /\ lines[i].height >= before}

Reached(lines, start, before) == CutAt(lines, start, before) # {}

Until(lines, start, before) ==
  IF ~Reached(lines, start, before) THEN lines
  ELSE LET cut == CHOOSE i \in CutAt(lines, start, before) :
                    \A j \in CutAt(lines, start, before) : i <= j
       IN SubSeq(lines, 1, cut - 1)

(* collectSegment, first section of Chain.Mu: the bound for the disk.  A   *)
(* client's cursor is a height it has seen.                                *)
AskSegment(before, limit, level) ==
  /\ phase = "up" /\ page = NoPage /\ pages < MaxPages
  /\ page' = [step |-> IF before # 0 /\ level > 0 THEN "index" ELSE "ram",
              before |-> before, limit |-> limit, level |-> level, bound |-> Bound(before),
              gens |-> <<>>, lines |-> <<>>,
              top |-> Resumed.height, owed |-> Below(before),
              excuses |-> IF Behind THEN {"behind"} ELSE {}]
  /\ pages' = pages + 1
  /\ UNCHANGED <<vars, idx>>

(* windowBefore copies the index under the mutex that rotate holds. *)
SnapshotIndex ==
  /\ page.step = "index" /\ writer = "idle"
  /\ page' = [page EXCEPT !.step = "scan",
                          !.gens = GensOf(idx, 1 .. page.level)]
  /\ UNCHANGED <<vars, idx, pages>>

(* genPath: what the file of a tier holds when it is opened. *)
GenLines(tier) ==
  CASE tier = Archive -> Lines(zst)
    [] tier = Raw     -> Lines(old)
    [] tier = Active  -> Readable

Mut_SeekPast(samples, bound) ==
  LET above == {i \in DOMAIN samples : samples[i].height >= bound}
  IN IF above = {} THEN 0 ELSE samples[CHOOSE i \in above : \A j \in above : i <= j].pos + 1

(* seekOffset: the newest sample before the first one at the bound, or 0. *)
SeekOffset(samples, bound) ==
  LET above == {i \in DOMAIN samples : samples[i].height >= bound}
      i     == IF above = {} THEN Len(samples)
               ELSE (CHOOSE k \in above : \A j \in above : k <= j) - 1
  IN IF i = 0 THEN 0 ELSE samples[i].pos

(* scanGenTemp on the oldest generation left: the lines below the bound,   *)
(* at most a page of them; at the bound, newer generations are left out.   *)
ScanFile ==
  /\ page.step = "scan" /\ page.gens # <<>>
  /\ LET g     == Head(page.gens)
         lines == GenLines(g.tier)
     IN \E start \in {0, SeekOffset(g.samples, page.bound)} :
          page' = [page EXCEPT
            !.gens = IF Reached(lines, start, page.bound) THEN <<>> ELSE Tail(@),
            !.lines = @ \o LastLines(Until(lines, start, page.bound), page.limit)]
  /\ UNCHANGED <<vars, idx, pages>>

(* The scanned lines go through the ring, whose feed looks at the bound    *)
(* once more.                                                              *)
MergeTemps ==
  /\ page.step = "scan" /\ page.gens = <<>>
  /\ page' = [page EXCEPT !.step = IF Reached(page.lines, 0, page.bound) THEN "done" ELSE "ram",
                          !.lines = LastLines(Until(@, 0, page.bound), page.limit)]
  /\ UNCHANGED <<vars, idx, pages>>

(* collectSegment, second section of Chain.Mu: the window itself. *)
FeedRam ==
  /\ page.step = "ram"
  /\ page' = [page EXCEPT !.step = "done",
                          !.lines = LastLines(@ \o Until(history, 0, page.before), page.limit)]
  /\ UNCHANGED <<vars, idx, pages>>

(* sendReplay: the page leaves. *)
SendReplay ==
  /\ page.step = "done"
  /\ page' = NoPage
  /\ UNCHANGED <<vars, idx, pages>>

-----------------------------------------------------------------------------
(* The log under the page: every step of HistoryLog with what it does to   *)
(* the index and to a page in the making.                                  *)

Evicts == Len(history) = MaxHistoryLines /\ Chained(history[1])

Store ==
  /\ LinkAndStore \/ StoreSystem
  /\ IF Evicts THEN Excused("evicted") ELSE UNCHANGED page
  /\ UNCHANGED <<idx, pages>>

Write ==
  \/ WriteRecord /\ IndexWritten(Head(queue), Len(Readable)) /\ UNCHANGED <<page, pages>>
  \/ (WriteFails \/ SyncTick \/ Close) /\ UNCHANGED segVars

Rotate ==
  \/ RotateRename /\ idx' = IndexRenamed /\ Excused("rotated") /\ UNCHANGED pages
  \/ RotateAborts /\ UNCHANGED segVars
  \/ RotateCompress /\ Excused("rotated") /\ UNCHANGED <<idx, pages>>
  \/ RotateRemove /\ idx' = IndexArchived /\ Excused("rotated") /\ UNCHANGED pages
  \/ /\ RotateReopen
     /\ IF active' = active THEN UNCHANGED idx ELSE IndexWritten(Head(queue), 0)
     /\ UNCHANGED <<page, pages>>

Stop ==
  /\ Exit \/ Kill \/ PowerLoss
  /\ idx' = <<>> /\ page' = NoPage /\ UNCHANGED pages

Start == Boot /\ idx' = BootIndex /\ UNCHANGED <<page, pages>>

SegInit == Init /\ idx = <<>> /\ page = NoPage /\ pages = 0

LogStep == Store \/ Write \/ Rotate \/ Stop \/ Start

PageStep ==
  \/ \E before \in 0 .. Resumed.height, limit \in Limits, level \in Levels :
       AskSegment(before, limit, level)
  \/ SnapshotIndex \/ ScanFile \/ MergeTemps \/ FeedRam \/ SendReplay

SegNext == LogStep \/ PageStep

SegSpec == SegInit /\ [][SegNext]_allVars

-----------------------------------------------------------------------------
(* Properties.                                                             *)

(* The messages among some lines, two of them, and two next to each other. *)
Said(lines) == {i \in DOMAIN lines : Chained(lines[i])}

Rising(lines) == \A i, j \in Said(lines) : i < j => lines[i].height < lines[j].height

Consecutive(lines) ==
  \A i, j \in Said(lines) :
    i < j /\ (\A k \in i + 1 .. j - 1 : k \notin Said(lines)) =>
      lines[j].height = lines[i].height + 1

(* A page's messages rise towards its cursor without a repetition, however *)
(* often rotation failed half-way, the process was killed in the middle of *)
(* it or a write was torn before: the index never shows a generation twice *)
(* or one that a boot did not load.  Only a rotation while the page is     *)
(* being read can mix two of them.                                         *)
PageRises ==
  page.step = "done" /\ "rotated" \notin page.excuses /\ ~forgot =>
    /\ Rising(page.lines)
    /\ page.before # 0 => \A i \in Said(page.lines) : page.lines[i].height < page.before

(* collectSegment: "chained content stays exact".  With no record lost, a  *)
(* page nothing was evicted or rotated under has no hole at the seams of   *)
(* archive, raw file, active file and window, starts right below its       *)
(* cursor, and is short only when there is nothing older to read.          *)
PageIsExact ==
  page.step = "done" /\ page.excuses = {} /\ Lossless =>
    /\ Consecutive(page.lines)
    /\ page.before \in 1 .. page.top =>
         \A i \in DOMAIN page.lines :
           NewestChained(page.lines, i) => page.lines[i].height = page.before - 1
    /\ page.level = Archive /\ Len(page.lines) < page.limit =>
         page.owed \subseteq {page.lines[i].uid : i \in Said(page.lines)}

(* A page read from disk and window is one run of the chain. *)
PagesAreRuns == PageRises /\ PageIsExact
=============================================================================
