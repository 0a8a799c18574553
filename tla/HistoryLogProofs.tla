-------------------------- MODULE HistoryLogProofs --------------------------
(* Theorems about HistoryLog and Segments, for every size of window, file, *)
(* queue and page and every set of file operations that may fail: what is  *)
(* stored is in order, the tip is the newest line, the log implements      *)
(* OrderedLog, a restart that lost nothing goes unnoticed, and a page of   *)
(* older history is one run of the chain.                                  *)
EXTENDS Segments, SequenceTheorems, WellFoundedInduction, TLAPS

-----------------------------------------------------------------------------
(* Sequences of lines.                                                     *)

LEMMA LineInSeq ==
  ASSUME NEW s \in Seq(Line), NEW i \in DOMAIN s
  PROVE  s[i] \in Line /\ s[i].seq \in Nat /\ s[i].height \in Nat /\ s[i].uid \in Nat
<1>1. s[i] \in Line
  OBVIOUS
<1> QED BY <1>1 DEF Line

(* LastLines, the window of appendMessageLocked, is a suffix of its input. *)
LEMMA LastLinesIsSuffix ==
  ASSUME NEW s \in Seq(Line), NEW n \in Nat \ {0}
  PROVE  /\ LastLines(s, n) \in Seq(Line)
         /\ Len(LastLines(s, n)) = IF Len(s) <= n THEN Len(s) ELSE n
         /\ \A i \in 1 .. Len(LastLines(s, n)) :
              LastLines(s, n)[i] = s[i + Len(s) - Len(LastLines(s, n))]
<1>1. CASE Len(s) <= n
  BY <1>1 DEF LastLines
<1>2. CASE Len(s) > n
  <2> DEFINE t == SubSeq(s, Len(s) - n + 1, Len(s))
  <2>1. Len(s) \in Nat /\ Len(s) - n + 1 \in 1 .. Len(s)
    BY <1>2
  <2>2. t \in Seq(Line) /\ Len(t) = n
    BY <2>1
  <2>3. \A i \in 1 .. n : t[i] = s[i + Len(s) - n]
    BY <2>1, <2>2
  <2>4. LastLines(s, n) = t
    BY <1>2, <2>1 DEF LastLines
  <2> QED BY <2>2, <2>3, <2>4, <1>2
<1> QED BY <1>1, <1>2

(* The two halves of a concatenation keep their lines. *)
LEMMA ConcatLines ==
  ASSUME NEW a \in Seq(Line), NEW b \in Seq(Line)
  PROVE  /\ a \o b \in Seq(Line)
         /\ Len(a \o b) = Len(a) + Len(b)
         /\ \A i \in 1 .. Len(a) : (a \o b)[i] = a[i]
         /\ \A i \in 1 .. Len(b) : (a \o b)[Len(a) + i] = b[i]
         /\ \A i \in DOMAIN (a \o b) :
              \/ i \in DOMAIN a /\ (a \o b)[i] = a[i]
              \/ i - Len(a) \in DOMAIN b /\ (a \o b)[i] = b[i - Len(a)]
  OBVIOUS

(* Two files in seq order, the first numbered before the second, load in   *)
(* seq order.                                                              *)
LEMMA ConcatInOrder ==
  ASSUME NEW a \in Seq(Line), NEW b \in Seq(Line),
         InSeqOrder(a), InSeqOrder(b), Precedes(a, b)
  PROVE  InSeqOrder(a \o b)
<1> SUFFICES ASSUME NEW i \in DOMAIN (a \o b), NEW j \in DOMAIN (a \o b), i < j
             PROVE  (a \o b)[i].seq < (a \o b)[j].seq
  BY DEF InSeqOrder
<1>1. i \in Nat /\ j \in Nat /\ Len(a) \in Nat /\ DOMAIN a = 1 .. Len(a)
  BY ConcatLines
<1>2. \/ i \in DOMAIN a /\ (a \o b)[i] = a[i]
      \/ i - Len(a) \in DOMAIN b /\ (a \o b)[i] = b[i - Len(a)]
  BY ConcatLines
<1>3. \/ j \in DOMAIN a /\ (a \o b)[j] = a[j]
      \/ j - Len(a) \in DOMAIN b /\ (a \o b)[j] = b[j - Len(a)]
  BY ConcatLines
<1>4. DOMAIN b = 1 .. Len(b) /\ Len(b) \in Nat
  OBVIOUS
<1> QED BY <1>1, <1>2, <1>3, <1>4 DEF InSeqOrder, Precedes

LEMMA ConcatPrecedes ==
  ASSUME NEW a \in Seq(Line), NEW b \in Seq(Line), NEW c \in Seq(Line),
         Precedes(a, c), Precedes(b, c)
  PROVE  Precedes(a \o b, c)
  BY ConcatLines DEF Precedes

LEMMA ConcatAtMost ==
  ASSUME NEW a \in Seq(Line), NEW b \in Seq(Line), NEW n \in Nat
  PROVE  AtMost(a \o b, n) <=> AtMost(a, n) /\ AtMost(b, n)
<1>1. ASSUME AtMost(a, n), AtMost(b, n) PROVE AtMost(a \o b, n)
  BY <1>1, ConcatLines DEF AtMost
<1>2. ASSUME AtMost(a \o b, n) PROVE AtMost(a, n)
  BY <1>2, ConcatLines DEF AtMost
<1>3. ASSUME AtMost(a \o b, n) PROVE AtMost(b, n)
  <2> SUFFICES ASSUME NEW i \in DOMAIN b PROVE b[i].seq <= n
    BY DEF AtMost
  <2>1. Len(a) + i \in DOMAIN (a \o b) /\ (a \o b)[Len(a) + i] = b[i]
    BY ConcatLines
  <2> QED BY <1>3, <2>1 DEF AtMost
<1> QED BY <1>1, <1>2, <1>3

(* LastSeq of a file in seq order bounds every seq in it. *)
LEMMA LastSeqBounds ==
  ASSUME NEW s \in Seq(Line), InSeqOrder(s)
  PROVE  LastSeq(s) \in Nat /\ AtMost(s, LastSeq(s))
<1>1. CASE s = <<>>
  BY <1>1 DEF LastSeq, AtMost
<1>2. CASE s # <<>>
  <2>1. Len(s) \in DOMAIN s /\ DOMAIN s = 1 .. Len(s) /\ Len(s) \in Nat
    BY <1>2
  <2>2. \A i \in DOMAIN s : s[i].seq \in Nat
    BY LineInSeq
  <2>3. \A i \in DOMAIN s : s[i].seq <= s[Len(s)].seq
    BY <2>1, <2>2 DEF InSeqOrder
  <2>4. \E m \in {s[i].seq : i \in DOMAIN s} : \A i \in DOMAIN s : s[i].seq <= m
    BY <2>1, <2>3
  <2>5. LastSeq(s) \in {s[i].seq : i \in DOMAIN s} /\ \A i \in DOMAIN s : s[i].seq <= LastSeq(s)
    BY <1>2, <2>4 DEF LastSeq
  <2> QED BY <2>2, <2>5 DEF AtMost
<1> QED BY <1>1, <1>2
-----------------------------------------------------------------------------
(* Type correctness.                                                       *)

LEMMA ResumedType ==
  ASSUME TypeOK PROVE Resumed.tip \in Nat /\ Resumed.height \in Nat
<1>1. CASE ready
  BY <1>1 DEF Resumed, TypeOK
<1>2. CASE ~ready
  <2>1. CASE LastChained(history) = 0
    BY <1>2, <2>1 DEF Resumed, InitChain, Genesis
  <2>2. CASE LastChained(history) # 0
    <3>1. LastChained(history) \in DOMAIN history
      BY <2>2 DEF LastChained
    <3>2. history[LastChained(history)] \in Line
      BY <3>1, LineInSeq DEF TypeOK
    <3> QED BY <1>2, <2>2, <3>2 DEF Resumed, InitChain, Hash, Line
  <2> QED BY <2>1, <2>2
<1> QED BY <1>1, <1>2 DEF TypeOK

LEMMA AppendMessageType ==
  ASSUME NEW s \in Seq(Line), NEW x \in Line
  PROVE  /\ AppendMessage(s, x) \in Seq(Line)
         /\ Len(AppendMessage(s, x)) <= MaxHistoryLines
<1>1. Append(s, x) \in Seq(Line) /\ MaxHistoryLines \in Nat \ {0}
  BY HistoryLogAssumption
<1>2. /\ AppendMessage(s, x) \in Seq(Line)
      /\ Len(AppendMessage(s, x)) =
           IF Len(Append(s, x)) <= MaxHistoryLines THEN Len(Append(s, x)) ELSE MaxHistoryLines
  BY <1>1, LastLinesIsSuffix DEF AppendMessage
<1> QED BY <1>1, <1>2

LEMMA LoadRecordsType ==
  ASSUME TypeOK PROVE LoadRecords \in Seq(Line)
<1>1. (IF zst # NoFile THEN zst ELSE Lines(old)) \in Seq(Line) /\ active \in Seq(Line)
  BY DEF TypeOK, Lines
<1> QED BY <1>1, ConcatLines DEF LoadRecords

(* EnqueueWire keeps the queue within its capacity. *)
LEMMA EnqueueType ==
  ASSUME TypeOK, NEW x \in Line, EnqueueWire(x)
  PROVE  queue' \in Seq(Line) /\ Len(queue') <= QueueCap /\ lost' \in BOOLEAN
<1>1. QueueCap \in Nat /\ Append(queue, x) \in Seq(Line)
  BY HistoryLogAssumption DEF TypeOK
<1>2. Len(queue) < QueueCap => Len(Append(queue, x)) <= QueueCap
  BY <1>1 DEF TypeOK
<1>3. lost' \in BOOLEAN
  BY DEF EnqueueWire
<1>4. queue' = queue \/ (phase = "up" /\ ~Shed /\ queue' = Append(queue, x))
  BY DEF EnqueueWire
<1>5. CASE queue' = queue
  BY <1>3, <1>5 DEF TypeOK
<1>6. CASE phase = "up" /\ ~Shed /\ queue' = Append(queue, x)
  BY <1>1, <1>2, <1>3, <1>6 DEF Shed, TypeOK
<1> QED BY <1>4, <1>5, <1>6

LEMMA ReadableType ==
  ASSUME TypeOK, RotationSteps
  PROVE  /\ Readable \in Seq(Line) /\ Len(Readable) <= Len(active)
         /\ \A i \in DOMAIN Readable : i \in DOMAIN active /\ Readable[i] = active[i]
<1>1. CASE tail = "unterminated"
  <2>1. Len(active) - 1 \in Nat /\ active \in Seq(Line) /\ Len(active) \in Nat
    BY <1>1 DEF TypeOK, RotationSteps
  <2> QED BY <1>1, <2>1 DEF Readable
<1>2. CASE tail # "unterminated"
  BY <1>2 DEF Readable, TypeOK
<1> QED BY <1>1, <1>2

LEMMA TailType ==
  ASSUME NEW s \in Seq(Line), s # <<>>
  PROVE  /\ Head(s) \in Line /\ Tail(s) \in Seq(Line) /\ Len(Tail(s)) = Len(s) - 1
         /\ Head(s) = s[1] /\ 1 \in DOMAIN s
         /\ \A i \in DOMAIN Tail(s) : i + 1 \in DOMAIN s /\ Tail(s)[i] = s[i + 1]
  OBVIOUS

(* A stop leaves well-typed, empty RAM state. *)
LEMMA HaltType ==
  ASSUME TypeOK, NEW torn \in BOOLEAN, Halt(torn)
  PROVE  /\ phase' = "down" /\ ready' = FALSE /\ tip' \in Nat /\ height' \in Nat /\ seq' \in Nat
         /\ history' \in Seq(Line) /\ Len(history') <= MaxHistoryLines
         /\ queue' \in Seq(Line) /\ Len(queue') <= QueueCap
         /\ writer' = "idle" /\ file' = "nil" /\ stops' \in Nat /\ lost' \in BOOLEAN
<1>1. lost' \in BOOLEAN
  BY DEF Halt
<1>2. history' = <<>> /\ queue' = <<>> /\ <<>> \in Seq(Line) /\ Len(<<>>) = 0
  BY DEF Halt
<1> QED BY <1>1, <1>2, HistoryLogAssumption DEF Halt, TypeOK, Genesis

(* Whatever LoadRecords finds on disk is in seq order. *)
LEMMA LoadedInOrder ==
  ASSUME LogInv PROVE InSeqOrder(LoadRecords)
<1> DEFINE f == IF zst # NoFile THEN zst ELSE Lines(old)
<1>1. f \in Seq(Line) /\ active \in Seq(Line)
  BY DEF LogInv, TypeOK, Lines
<1>2. InSeqOrder(f) /\ Precedes(f, active)
  <2>1. CASE f = <<>>
    BY <2>1 DEF InSeqOrder, Precedes
  <2>2. CASE f # <<>>
    BY <2>2 DEF LogInv, FilesInSeqOrder, InOrderBefore, Lines
  <2> QED BY <2>1, <2>2
<1>3. InSeqOrder(active)
  BY DEF LogInv, FilesInSeqOrder
<1> HIDE DEF f
<1>4. InSeqOrder(f \o active)
  BY <1>1, <1>2, <1>3, ConcatInOrder
<1> QED BY <1>4 DEF f, LoadRecords

LEMMA TypeStep ==
  ASSUME LogInv, [Next]_vars PROVE TypeOK'
<1>0. TypeOK /\ RotationSteps
  BY DEF LogInv
<1> USE <1>0
<1> USE HistoryLogAssumption
<1>1. CASE LinkAndStore
  <2> DEFINE x == ChainedLine(Len(issued) + 1, seq + 1, Resumed.tip, Resumed.height + 1)
  <2>1. x \in Line
    BY ResumedType DEF ChainedLine, Line, TypeOK
  <2>2. /\ tip' = Hash(x) /\ height' = x.height /\ seq' = x.seq /\ ready' = TRUE
        /\ history' = AppendMessage(history, x) /\ EnqueueWire(x)
        /\ issued' = Append(issued, x) /\ forgot' \in BOOLEAN
        /\ UNCHANGED <<phase, writer, file, diskVars, stops>>
    BY <1>1 DEF LinkAndStore
  <2>3. tip' \in Nat /\ height' \in Nat /\ seq' \in Nat
    BY <2>1, <2>2 DEF Hash, Line
  <2>4. history' \in Seq(Line) /\ Len(history') <= MaxHistoryLines
    BY <2>1, <2>2, AppendMessageType DEF TypeOK
  <2>5. queue' \in Seq(Line) /\ Len(queue') <= QueueCap /\ lost' \in BOOLEAN
    BY <2>1, <2>2, EnqueueType
  <2>6. issued' \in Seq(Line)
    BY <2>1, <2>2 DEF TypeOK
  <2> HIDE DEF x
  <2> QED BY <2>2, <2>3, <2>4, <2>5, <2>6 DEF TypeOK, diskVars
<1>2. CASE StoreSystem
  <2> DEFINE x == SystemLine(Len(issued) + 1, seq + 1)
  <2>1. x \in Line
    BY DEF SystemLine, Line, TypeOK, Genesis
  <2>2. /\ seq' = x.seq
        /\ history' = AppendMessage(history, x) /\ EnqueueWire(x)
        /\ issued' = Append(issued, x)
        /\ UNCHANGED <<phase, ready, tip, height, writer, file, diskVars, forgot, stops>>
    BY <1>2 DEF StoreSystem
  <2>3. seq' \in Nat
    BY <2>1, <2>2 DEF Line
  <2>4. history' \in Seq(Line) /\ Len(history') <= MaxHistoryLines
    BY <2>1, <2>2, AppendMessageType DEF TypeOK
  <2>5. queue' \in Seq(Line) /\ Len(queue') <= QueueCap /\ lost' \in BOOLEAN
    BY <2>1, <2>2, EnqueueType
  <2>6. issued' \in Seq(Line)
    BY <2>1, <2>2 DEF TypeOK
  <2> HIDE DEF x
  <2> QED BY <2>2, <2>3, <2>4, <2>5, <2>6 DEF TypeOK, diskVars
<1>3. CASE WriteRecord
  <2>1. queue # <<>> /\ queue \in Seq(Line) /\ ~NeedsRotate
    BY <1>3 DEF WriteRecord, TypeOK
  <2>2. Tail(queue) \in Seq(Line) /\ Head(queue) \in Line /\ Len(Tail(queue)) <= QueueCap
    BY <2>1, TailType DEF TypeOK
  <2>3. active' \in Seq(Line) /\ Len(active') <= FileCap /\ synced' \in 0 .. Len(active')
    <3>1. active' = Append(active, Head(queue)) \/ active' = Readable
      BY <1>3 DEF WriteRecord, WriteLine
    <3>2. synced' \in 0 .. Len(Readable) /\ Len(Readable) <= Len(active) /\ Readable \in Seq(Line)
      BY <1>3, ReadableType DEF WriteRecord, WriteLine, TypeOK
    <3>3. CASE active' = Readable
      BY <3>2, <3>3 DEF TypeOK
    <3>4. CASE active' = Append(active, Head(queue))
      BY <2>1, <2>2, <3>2, <3>4 DEF TypeOK, NeedsRotate
    <3> QED BY <3>1, <3>3, <3>4
  <2> QED BY <1>3, <2>2, <2>3 DEF WriteRecord, WriteLine, TypeOK, ramVars
<1>4. CASE WriteFails
  <2>1. queue # <<>> /\ queue \in Seq(Line)
    BY <1>4 DEF WriteFails, TypeOK
  <2>2. Tail(queue) \in Seq(Line) /\ Len(Tail(queue)) <= QueueCap
    BY <2>1, TailType DEF TypeOK
  <2>3. \/ active' = Readable /\ tail' = "fragment" /\ synced' \in 0 .. Len(Readable)
        \/ UNCHANGED <<active, tail, synced>>
    BY <1>4, ReadableType DEF WriteFails, ShortWrite, TypeOK
  <2>4. active' \in Seq(Line) /\ Len(active') <= FileCap /\ synced' \in 0 .. Len(active')
        /\ tail' \in {"clean", "fragment", "unterminated"}
    BY <2>3, ReadableType DEF TypeOK
  <2> QED BY <1>4, <2>2, <2>4 DEF WriteFails, LoseRecord, TypeOK, ramVars
<1>5. CASE RotateRename
  BY <1>5 DEF RotateRename, TypeOK, ramVars, ghosts
<1>6. CASE RotateAborts
  <2>1. Tail(queue) \in Seq(Line) /\ Len(Tail(queue)) <= QueueCap
    BY <1>6, TailType DEF RotateAborts, TypeOK
  <2> QED BY <1>6, <2>1 DEF RotateAborts, LoseRecord, TypeOK, ramVars
<1>7. CASE RotateCompress
  BY <1>7 DEF RotateCompress, TypeOK, ramVars
<1>8. CASE RotateRemove
  <2>1. Tail(queue) \in Seq(Line) /\ Len(Tail(queue)) <= QueueCap
    BY <1>8, TailType DEF RotateRemove, RotationSteps, TypeOK
  <2> QED BY <1>8, <2>1 DEF RotateRemove, LoseRecord, TypeOK, ramVars
<1>9. CASE RotateReopen
  <2>1. Tail(queue) \in Seq(Line) /\ Len(Tail(queue)) <= QueueCap /\ Head(queue) \in Line
    BY <1>9, TailType DEF RotateReopen, RotationSteps, TypeOK
  <2>2. <<Head(queue)>> \in Seq(Line) /\ Len(<<Head(queue)>>) = 1
    BY <2>1
  <2>3. active' = <<Head(queue)>> \/ active' = active
    BY <1>9 DEF RotateReopen
  <2>4. active = <<>> /\ synced' = 0
    BY <1>9 DEF RotateReopen, RotationSteps, TypeOK
  <2>5. active' \in Seq(Line) /\ Len(active') <= FileCap /\ synced' \in 0 .. Len(active')
    <3>1. CASE active' = <<Head(queue)>>
      BY <2>2, <2>4, <3>1
    <3>2. CASE active' = active
      BY <2>4, <3>2 DEF TypeOK
    <3> QED BY <2>3, <3>1, <3>2
  <2> QED BY <1>9, <2>1, <2>5 DEF RotateReopen, LoseRecord, TypeOK, ramVars
<1>10. CASE SyncTick
  BY <1>10 DEF SyncTick, TypeOK, ramVars, ghosts
<1>11. CASE Close
  BY <1>11 DEF Close, TypeOK, ramVars, ghosts
<1>12. CASE Exit
  BY <1>12, HaltType DEF Exit, TypeOK, diskVars
<1>13. CASE Kill
  BY <1>13, HaltType DEF Kill, TypeOK, diskVars
<1>14. CASE PowerLoss
  <2>1. PICK n \in synced .. Len(active) - 1, t \in {"clean", "fragment", "unterminated"} :
          /\ active' = SubSeq(active, 1, IF t = "unterminated" THEN n + 1 ELSE n)
          /\ tail' = t /\ synced' = n
    BY <1>14 DEF PowerLoss
  <2>2. \A k \in 0 .. Len(active) :
          SubSeq(active, 1, k) \in Seq(Line) /\ Len(SubSeq(active, 1, k)) = k
    BY DEF TypeOK
  <2>3. n \in 0 .. Len(active) /\ n + 1 \in 0 .. Len(active) /\ n \in Nat /\ n + 1 > n
    BY DEF TypeOK
  <2>4. active' \in Seq(Line) /\ Len(active') <= FileCap /\ synced' \in 0 .. Len(active')
    <3>1. CASE t = "unterminated"
      BY <2>1, <2>2, <2>3, <3>1 DEF TypeOK
    <3>2. CASE t # "unterminated"
      BY <2>1, <2>2, <2>3, <3>2 DEF TypeOK
    <3> QED BY <3>1, <3>2
  <2> QED BY <1>14, <2>1, <2>4, HaltType DEF PowerLoss, TypeOK
<1>15. CASE Boot
  <2>1. history' \in Seq(Line) /\ Len(history') <= MaxHistoryLines
    BY <1>15, LoadRecordsType, LastLinesIsSuffix DEF Boot
  <2>2. seq' \in Nat
    BY <1>15, LoadRecordsType, LoadedInOrder, LastSeqBounds DEF Boot, BootSeq
  <2> QED BY <1>15, <2>1, <2>2 DEF Boot, TypeOK, diskVars, ghosts
<1>16. CASE UNCHANGED vars
  BY <1>16 DEF vars, TypeOK, ramVars, diskVars, ghosts
<1> QED BY <1>1, <1>2, <1>3, <1>4, <1>5, <1>6, <1>7, <1>8, <1>9, <1>10, <1>11, <1>12,
           <1>13, <1>14, <1>15, <1>16 DEF Next

-----------------------------------------------------------------------------
(* Rotation.                                                               *)

LEMMA RotationStep ==
  ASSUME LogInv, [Next]_vars PROVE RotationSteps'
<1>0. TypeOK /\ RotationSteps
  BY DEF LogInv
<1> USE <1>0
<1>1. CASE LinkAndStore
  <2>1. phase # "down" /\ writer = "idle"
        /\ UNCHANGED <<phase, writer, file, diskVars>>
    BY <1>1 DEF LinkAndStore, CanStore
  <2> QED BY <2>1 DEF RotationSteps, diskVars
<1>2. CASE StoreSystem
  <2>1. phase # "down" /\ writer = "idle"
        /\ UNCHANGED <<phase, writer, file, diskVars>>
    BY <1>2 DEF StoreSystem, CanStore
  <2> QED BY <2>1 DEF RotationSteps, diskVars
<1>3. CASE WriteRecord
  BY <1>3 DEF WriteRecord, WriteLine, RotationSteps
<1>4. CASE WriteFails
  <2>1. \/ tail' = "fragment"
        \/ UNCHANGED <<active, tail>>
    BY <1>4 DEF WriteFails, ShortWrite
  <2> QED BY <1>4, <2>1 DEF WriteFails, LoseRecord, RotationSteps
<1>5. CASE RotateRename
  <2>1. active # NoFile
    BY HistoryLogAssumption DEF TypeOK, Line
  <2> QED BY <1>5, <2>1 DEF RotateRename, RotationSteps
<1>6. CASE RotateAborts
  BY <1>6 DEF RotateAborts, LoseRecord, RotationSteps
<1>7. CASE RotateCompress
  BY <1>7 DEF RotateCompress, RotationSteps
<1>8. CASE RotateRemove
  BY <1>8 DEF RotateRemove, LoseRecord, RotationSteps
<1>9. CASE RotateReopen
  BY <1>9 DEF RotateReopen, LoseRecord, RotationSteps
<1>10. CASE SyncTick
  BY <1>10 DEF SyncTick, RotationSteps
<1>11. CASE Close
  BY <1>11 DEF Close, RotationSteps
<1>12. CASE Exit
  BY <1>12 DEF Exit, Halt, RotationSteps, diskVars
<1>13. CASE Kill
  BY <1>13 DEF Kill, Halt, RotationSteps, diskVars
<1>14. CASE PowerLoss
  <2>1. PICK n \in synced .. Len(active) - 1, t \in {"clean", "fragment", "unterminated"} :
          /\ active' = SubSeq(active, 1, IF t = "unterminated" THEN n + 1 ELSE n)
          /\ tail' = t
    BY <1>14 DEF PowerLoss
  <2>2. n + 1 \in 1 .. Len(active)
    BY DEF TypeOK
  <2>3. Len(SubSeq(active, 1, n + 1)) = n + 1
    BY <2>2 DEF TypeOK
  <2>4. tail' = "unterminated" => active' # <<>>
    BY <2>1, <2>2, <2>3
  <2> QED BY <1>14, <2>4 DEF PowerLoss, Halt, RotationSteps
<1>15. CASE Boot
  BY <1>15 DEF Boot, RotationSteps, diskVars
<1>16. CASE UNCHANGED vars
  BY <1>16 DEF vars, RotationSteps, ramVars, diskVars
<1> QED BY <1>1, <1>2, <1>3, <1>4, <1>5, <1>6, <1>7, <1>8, <1>9, <1>10, <1>11, <1>12,
           <1>13, <1>14, <1>15, <1>16 DEF Next

-----------------------------------------------------------------------------
(* Order of what is stored.                                                *)

(* A line numbered above the counter may be queued behind everything.      *)
LEMMA AppendInOrder ==
  ASSUME NEW s \in Seq(Line), NEW x \in Line, NEW n \in Nat, AtMost(s, n), x.seq = n + 1,
         InSeqOrder(s)
  PROVE  /\ InSeqOrder(Append(s, x)) /\ AtMost(Append(s, x), n + 1)
         /\ \A f \in Seq(Line) : AtMost(f, n) /\ Precedes(f, s) => Precedes(f, Append(s, x))
<1>1. /\ Append(s, x) \in Seq(Line) /\ DOMAIN Append(s, x) = 1 .. Len(s) + 1 /\ Len(s) \in Nat
      /\ \A i \in 1 .. Len(s) : Append(s, x)[i] = s[i] /\ i \in DOMAIN s
      /\ Append(s, x)[Len(s) + 1] = x
  OBVIOUS
<1>2. \A i \in DOMAIN s : s[i].seq \in Nat /\ s[i].seq < x.seq
  BY LineInSeq DEF AtMost
<1>3. InSeqOrder(Append(s, x))
  BY <1>1, <1>2 DEF InSeqOrder
<1>4. AtMost(Append(s, x), n + 1)
  BY <1>1, <1>2 DEF AtMost
<1>5. ASSUME NEW f \in Seq(Line), AtMost(f, n), Precedes(f, s)
      PROVE  Precedes(f, Append(s, x))
  <2>1. \A i \in DOMAIN f : f[i].seq \in Nat /\ f[i].seq < x.seq
    BY <1>5, LineInSeq DEF AtMost
  <2> QED BY <1>1, <1>5, <2>1 DEF Precedes
<1> QED BY <1>3, <1>4, <1>5

LEMMA AtMostWeaken ==
  ASSUME NEW s \in Seq(Line), NEW n \in Nat, AtMost(s, n) PROVE AtMost(s, n + 1)
  BY LineInSeq DEF AtMost

(* Storing one line with the next seq keeps every file in order. *)
LEMMA StoreInOrder ==
  ASSUME LogInv, NEW x \in Line, x.seq = seq + 1, phase # "down", writer = "idle",
         EnqueueWire(x), seq' = seq + 1, UNCHANGED <<phase, writer, diskVars>>
  PROVE  FilesInSeqOrder'
<1>1. /\ queue \in Seq(Line) /\ seq \in Nat /\ active \in Seq(Line)
      /\ zst # NoFile => zst \in Seq(Line)
      /\ old # NoFile => old \in Seq(Line)
  BY DEF LogInv, TypeOK
<1>2. /\ InSeqOrder(active) /\ InSeqOrder(queue) /\ Precedes(active, queue)
      /\ AtMost(active, seq) /\ AtMost(queue, seq)
      /\ zst # NoFile => InOrderBefore(zst)
      /\ old # NoFile /\ zst = NoFile => InOrderBefore(old)
  BY DEF LogInv, FilesInSeqOrder
<1>3. queue' = queue \/ queue' = Append(queue, x)
  BY DEF EnqueueWire
<1>4. /\ InSeqOrder(queue') /\ AtMost(queue', seq')
      /\ \A f \in Seq(Line) : AtMost(f, seq) /\ Precedes(f, queue) => Precedes(f, queue')
  <2>1. CASE queue' = queue
    BY <1>1, <1>2, <2>1, AtMostWeaken
  <2>2. CASE queue' = Append(queue, x)
    BY <1>1, <1>2, <2>2, AppendInOrder
  <2> QED BY <1>3, <2>1, <2>2
<1>5. ASSUME NEW f \in Seq(Line), InOrderBefore(f)
      PROVE  InSeqOrder(f) /\ Precedes(f, active) /\ Precedes(f, queue') /\ AtMost(f, seq')
  BY <1>1, <1>4, <1>5, AtMostWeaken DEF InOrderBefore
<1>6. Precedes(active, queue') /\ AtMost(active, seq')
  BY <1>1, <1>2, <1>4, AtMostWeaken
<1>7. active' = active /\ zst' = zst /\ old' = old /\ writer' = writer /\ phase' = phase
  BY DEF diskVars
<1> QED BY <1>1, <1>2, <1>4, <1>5, <1>6, <1>7 DEF FilesInSeqOrder, InOrderBefore

(* Cutting lines off the end of a file, or off the front of the queue,     *)
(* disturbs no order.                                                      *)
LEMMA PrefixInOrder ==
  ASSUME NEW s \in Seq(Line), NEW t \in Seq(Line),
         \A i \in DOMAIN t : i \in DOMAIN s /\ t[i] = s[i]
  PROVE  /\ InSeqOrder(s) => InSeqOrder(t)
         /\ \A f : Precedes(f, s) => Precedes(f, t)
         /\ \A f : Precedes(s, f) => Precedes(t, f)
         /\ \A n : AtMost(s, n) => AtMost(t, n)
  BY DEF InSeqOrder, Precedes, AtMost

LEMMA TailInOrder ==
  ASSUME NEW s \in Seq(Line), s # <<>>
  PROVE  /\ InSeqOrder(s) => InSeqOrder(Tail(s))
         /\ \A f : Precedes(f, s) => Precedes(f, Tail(s))
         /\ \A n : AtMost(s, n) => AtMost(Tail(s), n)
<1>1. /\ Tail(s) \in Seq(Line)
      /\ \A i \in DOMAIN Tail(s) : i \in Nat /\ i + 1 \in DOMAIN s /\ Tail(s)[i] = s[i + 1]
  BY TailType
<1>2. ASSUME InSeqOrder(s) PROVE InSeqOrder(Tail(s))
  <2> SUFFICES ASSUME NEW i \in DOMAIN Tail(s), NEW j \in DOMAIN Tail(s), i < j
               PROVE  Tail(s)[i].seq < Tail(s)[j].seq
    BY DEF InSeqOrder
  <2>1. i + 1 \in DOMAIN s /\ j + 1 \in DOMAIN s /\ i + 1 < j + 1
        /\ Tail(s)[i] = s[i + 1] /\ Tail(s)[j] = s[j + 1]
    BY <1>1
  <2> QED BY <1>2, <2>1 DEF InSeqOrder
<1> QED BY <1>1, <1>2 DEF Precedes, AtMost

(* Moving the head of the queue to the end of the active file keeps order. *)
LEMMA MoveHeadInOrder ==
  ASSUME NEW a \in Seq(Line), NEW q \in Seq(Line), q # <<>>,
         InSeqOrder(a), InSeqOrder(q), Precedes(a, q)
  PROVE  /\ InSeqOrder(Append(a, Head(q))) /\ Precedes(Append(a, Head(q)), Tail(q))
         /\ \A n : AtMost(a, n) /\ AtMost(q, n) => AtMost(Append(a, Head(q)), n)
         /\ \A f : Precedes(f, a) /\ Precedes(f, q)
                                  => Precedes(f, Append(a, Head(q)))
<1> DEFINE b == Append(a, Head(q))
<1>1. /\ Head(q) = q[1] /\ 1 \in DOMAIN q /\ Head(q) \in Line
      /\ \A i \in DOMAIN Tail(q) : i + 1 \in DOMAIN q /\ Tail(q)[i] = q[i + 1] /\ 1 < i + 1
  BY TailType
<1>2. /\ b \in Seq(Line) /\ DOMAIN b = 1 .. Len(a) + 1 /\ Len(a) \in Nat
      /\ \A i \in 1 .. Len(a) : b[i] = a[i] /\ i \in DOMAIN a
      /\ b[Len(a) + 1] = q[1]
  BY <1>1
<1> HIDE DEF b
<1>3. InSeqOrder(b)
  <2> SUFFICES ASSUME NEW i \in DOMAIN b, NEW j \in DOMAIN b, i < j PROVE b[i].seq < b[j].seq
    BY DEF InSeqOrder
  <2>1. i \in 1 .. Len(a) /\ b[i] = a[i] /\ i \in DOMAIN a
    BY <1>2
  <2>2. CASE j \in 1 .. Len(a)
    BY <1>2, <2>1, <2>2 DEF InSeqOrder
  <2>3. CASE j = Len(a) + 1
    BY <1>1, <1>2, <2>1, <2>3 DEF Precedes
  <2> QED BY <1>2, <2>2, <2>3
<1>4. Precedes(b, Tail(q))
  <2> SUFFICES ASSUME NEW i \in DOMAIN b, NEW j \in DOMAIN Tail(q)
               PROVE  b[i].seq < Tail(q)[j].seq
    BY DEF Precedes
  <2>1. j + 1 \in DOMAIN q /\ Tail(q)[j] = q[j + 1] /\ 1 < j + 1
    BY <1>1
  <2>2. CASE i \in 1 .. Len(a)
    BY <1>2, <2>1, <2>2 DEF Precedes
  <2>3. CASE i = Len(a) + 1
    BY <1>1, <1>2, <2>1, <2>3 DEF InSeqOrder
  <2> QED BY <1>2, <2>2, <2>3
<1>5. \A n : AtMost(a, n) /\ AtMost(q, n) => AtMost(b, n)
  BY <1>1, <1>2 DEF AtMost
<1>6. \A f : Precedes(f, a) /\ Precedes(f, q) => Precedes(f, b)
  BY <1>1, <1>2 DEF Precedes
<1> QED BY <1>3, <1>4, <1>5, <1>6 DEF b

LEMMA EmptyInOrder ==
  ASSUME NEW f, NEW n
  PROVE  InSeqOrder(<<>>) /\ Precedes(f, <<>>) /\ Precedes(<<>>, f) /\ AtMost(<<>>, n)
  BY DEF InSeqOrder, Precedes, AtMost

LEMMA OrderStep ==
  ASSUME LogInv, [Next]_vars PROVE FilesInSeqOrder'
<1>0. TypeOK /\ RotationSteps /\ FilesInSeqOrder
  BY DEF LogInv
<1>a. /\ queue \in Seq(Line) /\ active \in Seq(Line) /\ seq \in Nat
      /\ zst # NoFile => zst \in Seq(Line)
      /\ old # NoFile => old \in Seq(Line)
  BY <1>0 DEF TypeOK
<1>b. queue # <<>> =>
        /\ Tail(queue) \in Seq(Line)
        /\ InSeqOrder(Tail(queue)) /\ Precedes(active, Tail(queue))
        /\ \A f : Precedes(f, queue) => Precedes(f, Tail(queue))
        /\ \A n : AtMost(queue, n) => AtMost(Tail(queue), n)
  BY <1>0, <1>a, TailInOrder, TailType DEF FilesInSeqOrder
<1>c. /\ Readable \in Seq(Line) /\ InSeqOrder(Readable)
      /\ \A f : Precedes(f, active) => Precedes(f, Readable)
      /\ \A f : Precedes(active, f) => Precedes(Readable, f)
      /\ \A n : AtMost(active, n) => AtMost(Readable, n)
  BY <1>0, <1>a, ReadableType, PrefixInOrder DEF FilesInSeqOrder
<1>d. queue # <<>> => Precedes(Readable, Tail(queue))
  BY <1>0, <1>b, ReadableType DEF Precedes
<1>e. phase # "down" => AtMost(active, seq) /\ AtMost(Readable, seq)
  BY <1>0, <1>c DEF FilesInSeqOrder
<1>1. CASE LinkAndStore
  <2> DEFINE x == ChainedLine(Len(issued) + 1, seq + 1, Resumed.tip, Resumed.height + 1)
  <2>1. x \in Line /\ x.seq = seq + 1
    BY <1>0, ResumedType DEF ChainedLine, Line, TypeOK
  <2>2. /\ seq' = x.seq /\ EnqueueWire(x) /\ phase # "down" /\ writer = "idle"
        /\ UNCHANGED <<phase, writer, diskVars>>
    BY <1>1 DEF LinkAndStore, CanStore
  <2> HIDE DEF x
  <2> QED BY <2>1, <2>2, StoreInOrder
<1>2. CASE StoreSystem
  <2> DEFINE x == SystemLine(Len(issued) + 1, seq + 1)
  <2>1. x \in Line /\ x.seq = seq + 1
    BY <1>0 DEF SystemLine, Line, TypeOK, Genesis
  <2>2. /\ seq' = x.seq /\ EnqueueWire(x) /\ phase # "down" /\ writer = "idle"
        /\ UNCHANGED <<phase, writer, diskVars>>
    BY <1>2 DEF StoreSystem, CanStore
  <2> HIDE DEF x
  <2> QED BY <2>1, <2>2, StoreInOrder
<1>3. CASE WriteRecord
  <2>1. /\ queue # <<>> /\ queue' = Tail(queue) /\ UNCHANGED <<phase, seq, writer, old, zst>>
        /\ phase # "down"
        /\ active' = Append(active, Head(queue)) \/ active' = Readable
    BY <1>3 DEF WriteRecord, WriteLine, ramVars
  <2>2. /\ InSeqOrder(active') /\ Precedes(active', queue') /\ AtMost(active', seq)
        /\ \A f : Precedes(f, active) /\ Precedes(f, queue) => Precedes(f, active')
    <3>1. CASE active' = Readable
      <4>1. InSeqOrder(Readable) /\ Precedes(Readable, Tail(queue)) /\ AtMost(Readable, seq)
        BY <1>c, <1>d, <1>e, <2>1
      <4>2. \A f : Precedes(f, active) => Precedes(f, Readable)
        BY <1>c
      <4> QED BY <2>1, <3>1, <4>1, <4>2
    <3>2. CASE active' = Append(active, Head(queue))
      BY <1>0, <1>a, <2>1, <3>2, MoveHeadInOrder DEF FilesInSeqOrder
    <3> QED BY <2>1, <3>1, <3>2
  <2> QED BY <1>0, <1>a, <1>b, <2>1, <2>2 DEF FilesInSeqOrder, InOrderBefore
<1>4. CASE WriteFails
  <2>1. /\ queue # <<>> /\ queue' = Tail(queue) /\ UNCHANGED <<phase, seq, old, zst>>
        /\ phase # "down" /\ writer = "idle" /\ writer' = "idle"
        /\ active' = active \/ active' = Readable
    BY <1>4 DEF WriteFails, ShortWrite, LoseRecord, ramVars
  <2>2. /\ InSeqOrder(active') /\ Precedes(active', queue') /\ AtMost(active', seq)
        /\ \A f : Precedes(f, active) => Precedes(f, active')
    <3>1. CASE active' = Readable
      <4>1. InSeqOrder(Readable) /\ Precedes(Readable, Tail(queue)) /\ AtMost(Readable, seq)
        BY <1>c, <1>d, <1>e, <2>1
      <4>2. \A f : Precedes(f, active) => Precedes(f, Readable)
        BY <1>c
      <4> QED BY <2>1, <3>1, <4>1, <4>2
    <3>2. CASE active' = active
      BY <1>0, <1>b, <1>e, <2>1, <3>2 DEF FilesInSeqOrder
    <3> QED BY <2>1, <3>1, <3>2
  <2> QED BY <1>0, <1>a, <1>b, <2>1, <2>2 DEF FilesInSeqOrder, InOrderBefore
<1>5. CASE RotateRename
  <2>1. /\ old' = active /\ active' = <<>> /\ UNCHANGED <<phase, seq, queue, zst>>
    BY <1>5 DEF RotateRename, ramVars
  <2> QED BY <1>0, <1>a, <2>1, EmptyInOrder DEF FilesInSeqOrder, InOrderBefore
<1>6. CASE RotateAborts
  <2>1. /\ queue # <<>> /\ queue' = Tail(queue) /\ UNCHANGED <<phase, seq, old, zst, active>>
        /\ writer = "idle" /\ writer' = "idle"
    BY <1>6 DEF RotateAborts, LoseRecord, ramVars
  <2> QED BY <1>0, <1>a, <1>b, <2>1 DEF FilesInSeqOrder, InOrderBefore
<1>7. CASE RotateCompress
  <2>1. /\ UNCHANGED <<phase, seq, queue, active, old>>
        /\ writer = "compress" /\ old # NoFile
        /\ zst' = old \/ zst' = zst
    BY <1>0, <1>7 DEF RotateCompress, RotationSteps, ramVars
  <2>2. InOrderBefore(old)
    BY <1>0, <2>1 DEF FilesInSeqOrder
  <2> QED BY <1>0, <1>a, <2>1, <2>2 DEF FilesInSeqOrder, InOrderBefore
<1>8. CASE RotateRemove
  <2>1. /\ UNCHANGED <<phase, seq, active, zst>> /\ queue # <<>>
        /\ zst = old /\ old # NoFile /\ writer = "remove"
        /\ \/ old' = NoFile /\ queue' = queue
           \/ old' = old /\ queue' = Tail(queue)
    BY <1>0, <1>8 DEF RotateRemove, LoseRecord, RotationSteps, ramVars
  <2>2. InOrderBefore(zst)
    BY <1>0, <2>1 DEF FilesInSeqOrder
  <2>3. CASE old' = NoFile /\ queue' = queue
    BY <1>0, <1>a, <2>1, <2>2, <2>3 DEF FilesInSeqOrder, InOrderBefore
  <2>4. CASE old' = old /\ queue' = Tail(queue)
    BY <1>0, <1>a, <1>b, <2>1, <2>2, <2>4 DEF FilesInSeqOrder, InOrderBefore
  <2> QED BY <2>1, <2>3, <2>4
<1>9. CASE RotateReopen
  <2>1. /\ UNCHANGED <<phase, seq, old, zst>> /\ queue # <<>> /\ queue' = Tail(queue)
        /\ active = <<>> /\ writer = "reopen" /\ phase # "down"
        /\ active' = <<>> \/ active' = <<Head(queue)>>
    BY <1>0, <1>9 DEF RotateReopen, LoseRecord, RotationSteps, ramVars
  <2>2. /\ InSeqOrder(active') /\ Precedes(active', queue') /\ AtMost(active', seq)
        /\ \A f : Precedes(f, active) /\ Precedes(f, queue) => Precedes(f, active')
    <3>1. CASE active' = <<>>
      BY <2>1, <3>1, EmptyInOrder
    <3>2. CASE active' = <<Head(queue)>>
      <4>1. active' = Append(active, Head(queue))
        BY <2>1, <3>2
      <4> QED BY <1>0, <1>a, <2>1, <4>1, MoveHeadInOrder DEF FilesInSeqOrder
    <3> QED BY <2>1, <3>1, <3>2
  <2> QED BY <1>0, <1>a, <1>b, <2>1, <2>2 DEF FilesInSeqOrder, InOrderBefore
<1>10. CASE SyncTick
  BY <1>0, <1>10 DEF SyncTick, FilesInSeqOrder, InOrderBefore, ramVars
<1>11. CASE Close
  BY <1>0, <1>11 DEF Close, FilesInSeqOrder, InOrderBefore, ramVars
<1>12. CASE Exit \/ Kill
  <2>1. UNCHANGED <<active, old, zst>> /\ phase' = "down" /\ queue' = <<>> /\ writer' = "idle"
    BY <1>12 DEF Exit, Kill, Halt, diskVars
  <2> QED BY <1>0, <1>a, <2>1, EmptyInOrder DEF FilesInSeqOrder, InOrderBefore
<1>13. CASE PowerLoss
  <2>1. UNCHANGED <<old, zst>> /\ phase' = "down" /\ queue' = <<>> /\ writer' = "idle"
    BY <1>13 DEF PowerLoss, Halt
  <2>2. PICK k \in 0 .. Len(active) : active' = SubSeq(active, 1, k)
    <3>1. PICK n \in synced .. Len(active) - 1, t \in {"clean", "fragment", "unterminated"} :
            active' = SubSeq(active, 1, IF t = "unterminated" THEN n + 1 ELSE n)
      BY <1>13 DEF PowerLoss
    <3>2. n \in 0 .. Len(active) /\ n + 1 \in 0 .. Len(active)
      BY <1>0 DEF TypeOK
    <3> QED BY <3>1, <3>2
  <2> DEFINE g == SubSeq(active, 1, k)
  <2>3. g \in Seq(Line) /\ \A i \in DOMAIN g : i \in DOMAIN active /\ g[i] = active[i]
    BY <1>a
  <2> HIDE DEF g
  <2>4. InSeqOrder(g) /\ \A f : Precedes(f, active) => Precedes(f, g)
    <3>1. InSeqOrder(active)
      BY <1>0 DEF FilesInSeqOrder
    <3> QED BY <1>a, <2>3, <3>1, PrefixInOrder
  <2>5. active' = g
    BY <2>2 DEF g
  <2> QED BY <1>0, <1>a, <2>1, <2>4, <2>5, EmptyInOrder DEF FilesInSeqOrder, InOrderBefore
<1>14. CASE Boot
  <2> DEFINE f == IF zst # NoFile THEN zst ELSE Lines(old)
  <2>1. /\ UNCHANGED <<active, old, zst, queue, writer>> /\ queue = <<>> /\ writer = "idle"
        /\ seq' = LastSeq(LoadRecords) /\ phase' = "up"
    BY <1>0, <1>14 DEF Boot, BootSeq, RotationSteps, diskVars
  <2>2. f \in Seq(Line)
    BY <1>a DEF Lines
  <2>3. LoadRecords = f \o active
    BY DEF LoadRecords
  <2>4. seq' \in Nat /\ AtMost(LoadRecords, seq')
    BY <1>0, <2>1, LoadRecordsType, LoadedInOrder, LastSeqBounds DEF LogInv
  <2> HIDE DEF f
  <2>5. AtMost(f, seq') /\ AtMost(active, seq')
    BY <1>a, <2>2, <2>3, <2>4, ConcatAtMost
  <2>6. /\ zst # NoFile => f = zst
        /\ zst = NoFile /\ old # NoFile => f = old
    BY DEF f, Lines
  <2> QED BY <1>0, <1>a, <2>1, <2>5, <2>6, EmptyInOrder DEF FilesInSeqOrder, InOrderBefore
<1>15. CASE UNCHANGED vars
  BY <1>0, <1>15 DEF vars, FilesInSeqOrder, InOrderBefore, ramVars, diskVars
<1> QED BY <1>1, <1>2, <1>3, <1>4, <1>5, <1>6, <1>7, <1>8, <1>9, <1>10, <1>11, <1>12,
           <1>13, <1>14, <1>15 DEF Next

(* HistoryLog keeps its type, and rotation its steps, in every behaviour.  *)
THEOREM LogInvariant == Spec => []LogInv
<1>1. Init => LogInv
  <2> SUFFICES ASSUME Init PROVE LogInv
    OBVIOUS
  <2>1. <<>> \in Seq(Line) /\ Len(<<>>) = 0
    OBVIOUS
  <2>2. TypeOK
    <3>1. history = <<>> /\ queue = <<>> /\ active = <<>> /\ issued = <<>> /\ synced = 0
      BY DEF Init
    <3>2. /\ history \in Seq(Line) /\ Len(history) <= MaxHistoryLines
          /\ queue \in Seq(Line) /\ Len(queue) <= QueueCap
          /\ active \in Seq(Line) /\ Len(active) <= FileCap
          /\ issued \in Seq(Line) /\ synced \in 0 .. Len(active)
      BY <2>1, <3>1, HistoryLogAssumption
    <3> QED BY <3>2 DEF Init, TypeOK, Genesis
  <2>3. RotationSteps
    BY DEF Init, RotationSteps
  <2>4. FilesInSeqOrder
    BY EmptyInOrder DEF Init, FilesInSeqOrder
  <2> QED BY <2>2, <2>3, <2>4 DEF LogInv
<1>2. LogInv /\ [Next]_vars => LogInv'
  BY TypeStep, RotationStep, OrderStep DEF LogInv
<1> QED BY <1>1, <1>2, PTL DEF Spec

(* The window, the queue and the files respect their limits and types.     *)
THEOREM TypeCorrect == Spec => []TypeOK
<1>1. LogInv => TypeOK
  BY DEF LogInv
<1> QED BY <1>1, LogInvariant, PTL

(* What a boot would load, followed by the queue, is in strict seq order   *)
(* and numbered within the counter, through every failing write, torn      *)
(* tail, interrupted rotation and restart.                                 *)
THEOREM StoredOrder == Spec => []StoredInSeqOrder
<1>1. LogInv => StoredInSeqOrder
  <2> SUFFICES ASSUME LogInv PROVE StoredInSeqOrder
    OBVIOUS
  <2> DEFINE f == IF zst # NoFile THEN zst ELSE Lines(old)
  <2>0. LoadRecords = f \o active
    BY DEF LoadRecords
  <2>1. f \in Seq(Line) /\ active \in Seq(Line) /\ queue \in Seq(Line) /\ seq \in Nat
        /\ LoadRecords \in Seq(Line)
    BY LoadRecordsType DEF LogInv, TypeOK, Lines
  <2>2. f = <<>> \/ InOrderBefore(f)
    BY DEF LogInv, FilesInSeqOrder, Lines
  <2> HIDE DEF f
  <2>3. Precedes(f, queue) /\ (phase # "down" => AtMost(f, seq))
    BY <2>2, EmptyInOrder DEF InOrderBefore
  <2>4. InSeqOrder(LoadRecords)
    BY LoadedInOrder
  <2>5. /\ InSeqOrder(queue) /\ Precedes(active, queue)
        /\ phase # "down" => AtMost(active, seq) /\ AtMost(queue, seq)
    BY DEF LogInv, FilesInSeqOrder
  <2>6. Precedes(LoadRecords, queue)
    BY <2>0, <2>1, <2>3, <2>5, ConcatPrecedes
  <2>7. InSeqOrder(LoadRecords \o queue)
    BY <2>1, <2>4, <2>5, <2>6, ConcatInOrder
  <2>8. phase # "down" => AtMost(LoadRecords \o queue, seq)
    BY <2>0, <2>1, <2>3, <2>5, ConcatAtMost
  <2> QED BY <2>7, <2>8 DEF StoredInSeqOrder, AtMost
<1> QED BY <1>1, LogInvariant, PTL

-----------------------------------------------------------------------------
(* The chain tip.                                                          *)

LEMMA LastChainedIs ==
  ASSUME NEW s \in Seq(Line), NEW i \in DOMAIN s, NewestChained(s, i)
  PROVE  LastChained(s) = i /\ i # 0
<1>1. \A k \in DOMAIN s : NewestChained(s, k) => k = i
  <2> SUFFICES ASSUME NEW k \in DOMAIN s, NewestChained(s, k) PROVE k = i
    OBVIOUS
  <2>1. k \in Nat /\ i \in Nat
    OBVIOUS
  <2> QED BY <2>1 DEF NewestChained
<1>2. i # 0
  OBVIOUS
<1> QED BY <1>1, <1>2 DEF LastChained

(* The line appendMessageLocked has just appended survives the eviction,   *)
(* and the lines before it are the last ones of the old window.            *)
LEMMA AppendMessageIs ==
  ASSUME NEW s \in Seq(Line), NEW x \in Line
  PROVE  LET t == AppendMessage(s, x) IN
         /\ t \in Seq(Line) /\ Len(t) \in 1 .. Len(s) + 1 /\ t[Len(t)] = x
         /\ \A i \in 1 .. Len(t) - 1 :
              /\ i + (Len(s) + 1 - Len(t)) \in DOMAIN s
              /\ t[i] = s[i + (Len(s) + 1 - Len(t))]
<1> DEFINE u == Append(s, x)
           t == AppendMessage(s, x)
<1>1. MaxHistoryLines \in Nat \ {0} /\ u \in Seq(Line) /\ Len(u) = Len(s) + 1 /\ Len(s) \in Nat
      /\ u[Len(s) + 1] = x /\ \A i \in 1 .. Len(s) : u[i] = s[i] /\ i \in DOMAIN s
  BY HistoryLogAssumption
<1> HIDE DEF u
<1>2. t = LastLines(u, MaxHistoryLines)
  BY DEF u, AppendMessage
<1> HIDE DEF t
<1>3. /\ t \in Seq(Line)
      /\ Len(t) = IF Len(u) <= MaxHistoryLines THEN Len(u) ELSE MaxHistoryLines
      /\ \A i \in 1 .. Len(t) : t[i] = u[i + Len(u) - Len(t)]
  <2> DEFINE w == LastLines(u, MaxHistoryLines)
  <2>1. /\ w \in Seq(Line)
        /\ Len(w) = IF Len(u) <= MaxHistoryLines THEN Len(u) ELSE MaxHistoryLines
        /\ \A i \in 1 .. Len(w) : w[i] = u[i + Len(u) - Len(w)]
    BY <1>1, LastLinesIsSuffix
  <2> HIDE DEF w
  <2>2. t = w
    BY <1>2 DEF w
  <2> QED BY <2>1, <2>2
<1>4. Len(t) \in 1 .. Len(s) + 1
  BY <1>1, <1>3
<1>5. t[Len(t)] = x
  <2>1. Len(t) \in 1 .. Len(t) /\ Len(t) + Len(u) - Len(t) = Len(s) + 1
    BY <1>1, <1>4
  <2> QED BY <1>1, <1>3, <2>1
<1>6. ASSUME NEW i \in 1 .. Len(t) - 1
      PROVE  /\ i + (Len(s) + 1 - Len(t)) \in DOMAIN s
             /\ t[i] = s[i + (Len(s) + 1 - Len(t))]
  <2>1. i \in 1 .. Len(t) /\ i + Len(u) - Len(t) \in 1 .. Len(s)
        /\ i + Len(u) - Len(t) = i + (Len(s) + 1 - Len(t))
    BY <1>1, <1>4
  <2> QED BY <1>1, <1>3, <2>1
<1> QED BY <1>3, <1>4, <1>5, <1>6 DEF t

LEMMA TipStep ==
  ASSUME LogInv, TipFollowsWindow, [Next]_vars PROVE TipFollowsWindow'
<1>0. TypeOK /\ RotationSteps /\ history \in Seq(Line)
  BY DEF LogInv, TypeOK
<1>1. CASE LinkAndStore
  <2> DEFINE x == ChainedLine(Len(issued) + 1, seq + 1, Resumed.tip, Resumed.height + 1)
  <2>1. x \in Line /\ Chained(x)
    BY <1>0, ResumedType DEF ChainedLine, Line, TypeOK, Chained
  <2>2. tip' = Hash(x) /\ height' = x.height /\ history' = AppendMessage(history, x)
    BY <1>1 DEF LinkAndStore
  <2> HIDE DEF x
  <2> DEFINE h == AppendMessage(history, x)
             d == Len(history) + 1 - Len(h)
  <2>3. /\ h \in Seq(Line) /\ Len(h) \in 1 .. Len(history) + 1 /\ h[Len(h)] = x
        /\ \A i \in 1 .. Len(h) - 1 : i + d \in DOMAIN history /\ h[i] = history[i + d]
    BY <1>0, <2>1, AppendMessageIs
  <2>4. history' = h
    BY <2>2
  <2> HIDE DEF h
  <2>5. d \in Nat /\ Len(history) \in Nat /\ Len(h) \in Nat /\ DOMAIN history = 1 .. Len(history)
    BY <1>0, <2>3
  <2>6. ASSUME NEW i \in DOMAIN h, NewestChained(h, i) PROVE i = Len(h)
    BY <2>1, <2>3, <2>5, <2>6 DEF NewestChained
  <2>7. ASSUME NEW j \in 1 .. Len(h) - 1, Chained(h[j]),
               \A k \in j + 1 .. Len(h) - 1 : ~Chained(h[k])
        PROVE  Extends(x, h[j])
    <3>1. j + d \in DOMAIN history /\ h[j] = history[j + d]
      BY <2>3
    <3>2. NewestChained(history, j + d)
      <4> SUFFICES ASSUME NEW k \in DOMAIN history, k > j + d PROVE ~Chained(history[k])
        BY <2>7, <3>1 DEF NewestChained
      <4>1. k - d \in j + 1 .. Len(h) - 1 /\ k - d \in 1 .. Len(h) - 1 /\ (k - d) + d = k
        BY <2>5
      <4> QED BY <2>3, <2>7, <4>1
    <3>3. Resumed.tip = Hash(history[j + d]) /\ Resumed.height = history[j + d].height
      <4>1. CASE ready
        BY <1>1, <3>1, <3>2, <4>1 DEF TipFollowsWindow, Resumed, LinkAndStore, CanStore
      <4>2. CASE ~ready
        <5>1. LastChained(history) = j + d /\ j + d # 0
          BY <1>0, <2>5, <3>1, <3>2, LastChainedIs
        <5> QED BY <4>2, <5>1 DEF Resumed, InitChain
      <4> QED BY <4>1, <4>2
    <3> QED BY <3>1, <3>3 DEF Extends, x, ChainedLine
  <2>8. LinkedAt(h, Len(h))
    BY <2>3, <2>7 DEF LinkedAt
  <2> QED BY <2>2, <2>3, <2>4, <2>6, <2>8 DEF TipFollowsWindow
<1>2. CASE StoreSystem
  <2> DEFINE x == SystemLine(Len(issued) + 1, seq + 1)
  <2>1. x \in Line /\ ~Chained(x)
    BY <1>0 DEF SystemLine, Line, TypeOK, Genesis, Chained
  <2>2. /\ UNCHANGED <<tip, height, phase, ready>>
        /\ history' = AppendMessage(history, x)
    BY <1>2 DEF StoreSystem
  <2> HIDE DEF x
  <2> DEFINE h == AppendMessage(history, x)
             d == Len(history) + 1 - Len(h)
  <2>3. /\ h \in Seq(Line) /\ Len(h) \in 1 .. Len(history) + 1 /\ h[Len(h)] = x
        /\ \A i \in 1 .. Len(h) - 1 : i + d \in DOMAIN history /\ h[i] = history[i + d]
    BY <1>0, <2>1, AppendMessageIs
  <2>4. history' = h
    BY <2>2
  <2> HIDE DEF h
  <2>5. d \in Nat /\ Len(history) \in Nat /\ Len(h) \in Nat /\ DOMAIN history = 1 .. Len(history)
    BY <1>0, <2>3
  <2> SUFFICES ASSUME phase # "down", ready, NEW i \in DOMAIN h, NewestChained(h, i)
               PROVE  tip = Hash(h[i]) /\ height = h[i].height /\ LinkedAt(h, i)
    BY <2>2, <2>4 DEF TipFollowsWindow
  <2>6. i \in DOMAIN h /\ NewestChained(h, i)
    OBVIOUS
  <2>7. i \in 1 .. Len(h) - 1 /\ Chained(h[i])
    BY <2>1, <2>3, <2>6 DEF NewestChained
  <2>8. i + d \in DOMAIN history /\ h[i] = history[i + d]
    BY <2>3, <2>7
  <2>9. NewestChained(history, i + d)
    <3> SUFFICES ASSUME NEW j \in DOMAIN history, j > i + d PROVE ~Chained(history[j])
      BY <2>7, <2>8 DEF NewestChained
    <3>1. j - d \in 1 .. Len(h) - 1 /\ j - d > i /\ (j - d) + d = j
      BY <2>5, <2>7
    <3>2. h[j - d] = history[j]
      BY <2>3, <3>1
    <3>3. j - d \in DOMAIN h
      BY <2>3, <3>1
    <3> QED BY <2>6, <3>1, <3>2, <3>3 DEF NewestChained
  <2>10. tip = Hash(h[i]) /\ height = h[i].height /\ LinkedAt(history, i + d)
    BY <2>8, <2>9 DEF TipFollowsWindow
  <2>11. ASSUME NEW j \in 1 .. i - 1, Chained(h[j]), \A k \in j + 1 .. i - 1 : ~Chained(h[k])
         PROVE  Extends(h[i], h[j])
    <3>0. j \in 1 .. Len(h) - 1 /\ j \in Nat /\ i \in Nat /\ 1 <= j /\ j <= i - 1
      BY <2>5, <2>7
    <3>1. j + d \in 1 .. (i + d) - 1 /\ h[j] = history[j + d]
      <4>1. h[j] = history[j + d]
        BY <2>3, <3>0
      <4> HIDE DEF d
      <4>2. j + d \in 1 .. (i + d) - 1
        BY <2>5, <3>0
      <4> QED BY <4>1, <4>2
    <3>2. ASSUME NEW k \in (j + d) + 1 .. (i + d) - 1 PROVE ~Chained(history[k])
      <4>1. k - d \in j + 1 .. i - 1 /\ k - d \in 1 .. Len(h) - 1 /\ (k - d) + d = k
        BY <2>5, <2>7, <3>2
      <4> QED BY <2>3, <2>11, <4>1
    <3> QED BY <2>8, <2>10, <2>11, <3>1, <3>2 DEF LinkedAt
  <2> QED BY <2>10, <2>11 DEF LinkedAt
<1>3. CASE Exit \/ Kill \/ PowerLoss
  <2>1. phase' = "down"
    BY <1>3 DEF Exit, Kill, PowerLoss, Halt
  <2> QED BY <2>1 DEF TipFollowsWindow
<1>4. CASE Boot
  <2>1. ~ready'
    BY <1>0, <1>4 DEF Boot, RotationSteps
  <2> QED BY <2>1 DEF TipFollowsWindow
<1>5. CASE Close
  BY <1>5 DEF Close, ramVars, TipFollowsWindow
<1>6. CASE UNCHANGED <<phase, ramVars>>
  BY <1>6 DEF TipFollowsWindow, ramVars
<1>7. ASSUME WriteRecord \/ WriteFails \/ RotateRename \/ RotateAborts \/ RotateCompress
             \/ RotateRemove \/ RotateReopen \/ SyncTick \/ UNCHANGED vars
      PROVE  UNCHANGED <<phase, ramVars>>
  BY <1>7 DEF WriteRecord, WriteFails, RotateRename, RotateAborts, RotateCompress, RotateRemove,
              RotateReopen, SyncTick, vars
<1> QED BY <1>1, <1>2, <1>3, <1>4, <1>5, <1>6, <1>7 DEF Next

(* Whatever evictions and restarts came before, a resumed tip is the       *)
(* newest chained line of the window clients are served from, and that     *)
(* line links to the chained line the window holds before it.              *)
THEOREM TipIsNewest == Spec => []TipFollowsWindow
<1>1. Init => TipFollowsWindow
  BY DEF Init, TipFollowsWindow
<1>2. LogInv /\ TipFollowsWindow /\ [Next]_vars => TipFollowsWindow'
  BY TipStep
<1> QED BY <1>1, <1>2, LogInvariant, PTL DEF Spec

-----------------------------------------------------------------------------
(* HistoryLog implements OrderedLog.  Both the old and the new stored      *)
(* lines are in seq order (LogInv, and BesideInv for the moment in which   *)
(* rotate has two generations side by side), so a step thins the log as    *)
(* soon as it adds no line: Keeps is what is left to show of every action. *)

(* Between rename and compress the archive precedes the file moved aside.  *)
BesideInv == writer = "compress" /\ zst # NoFile => Precedes(zst, old)

RefInv == LogInv /\ BesideInv

Occurs(x, s) == \E i \in DOMAIN s : s[i] = x

(* Where a stored line can be. *)
Held(x) ==
  \/ Occurs(x, active)
  \/ Occurs(x, queue)
  \/ zst # NoFile /\ Occurs(x, zst)
  \/ old # NoFile /\ (zst = NoFile \/ writer = "compress") /\ Occurs(x, old)

Keeps == \A x : Held(x)' => Held(x)

-----------------------------------------------------------------------------
(* Sequences.                                                              *)

LEMMA OccursInConcat ==
  ASSUME NEW a \in Seq(Line), NEW b \in Seq(Line), NEW x
  PROVE  Occurs(x, a \o b) <=> Occurs(x, a) \/ Occurs(x, b)
<1>1. ASSUME Occurs(x, a \o b) PROVE Occurs(x, a) \/ Occurs(x, b)
  BY <1>1, ConcatLines DEF Occurs
<1>2. ASSUME Occurs(x, a) PROVE Occurs(x, a \o b)
  <2>1. PICK i \in DOMAIN a : a[i] = x
    BY <1>2 DEF Occurs
  <2>2. i \in DOMAIN (a \o b) /\ (a \o b)[i] = x
    BY <2>1, ConcatLines
  <2> QED BY <2>2 DEF Occurs
<1>3. ASSUME Occurs(x, b) PROVE Occurs(x, a \o b)
  <2>1. PICK i \in DOMAIN b : b[i] = x
    BY <1>3 DEF Occurs
  <2>2. Len(a) + i \in DOMAIN (a \o b) /\ (a \o b)[Len(a) + i] = x
    BY <2>1, ConcatLines
  <2> QED BY <2>2 DEF Occurs
<1> QED BY <1>1, <1>2, <1>3

(* Of two sequences in seq order, the one whose lines all occur in the     *)
(* other is thinned from it.                                               *)
LEMMA SubsetIsThinned ==
  ASSUME NEW s \in Seq(Line), NEW t \in Seq(Line), InSeqOrder(s), InSeqOrder(t),
         \A x : Occurs(x, s) => Occurs(x, t)
  PROVE  Promise!Thinned(s, t)
<1>1. \A i \in DOMAIN s : \E a \in DOMAIN t : s[i] = t[a]
  <2> TAKE i \in DOMAIN s
  <2>1. Occurs(s[i], s)
    BY DEF Occurs
  <2> QED BY <2>1 DEF Occurs
<1>2. ASSUME NEW i \in DOMAIN s, NEW j \in DOMAIN s, i < j
      PROVE  \E a, b \in DOMAIN t : a < b /\ s[i] = t[a] /\ s[j] = t[b]
  <2>1. PICK a \in DOMAIN t : s[i] = t[a]
    BY <1>1
  <2>2. PICK b \in DOMAIN t : s[j] = t[b]
    BY <1>1
  <2>3. t[a].seq < t[b].seq
    BY <1>2, <2>1, <2>2 DEF InSeqOrder
  <2>4. t[a].seq \in Nat /\ t[b].seq \in Nat /\ a \in Nat /\ b \in Nat
    BY LineInSeq
  <2>5. b < a => t[b].seq < t[a].seq
    BY DEF InSeqOrder
  <2>6. a # b
    BY <2>3, <2>4
  <2>7. a < b
    BY <2>3, <2>4, <2>5, <2>6
  <2> QED BY <2>1, <2>2, <2>7
<1> QED BY <1>1, <1>2 DEF Promise!Thinned

(* The largest seq of a sequence in seq order is its last line's. *)
LEMMA LastSeqIsLast ==
  ASSUME NEW s \in Seq(Line), InSeqOrder(s)
  PROVE  LastSeq(s) = IF s = <<>> THEN 0 ELSE s[Len(s)].seq
<1>1. CASE s = <<>>
  BY <1>1 DEF LastSeq
<1>2. CASE s # <<>>
  <2>1. Len(s) \in DOMAIN s /\ DOMAIN s = 1 .. Len(s) /\ Len(s) \in Nat
    BY <1>2
  <2>2. \A i \in DOMAIN s : s[i].seq \in Nat
    BY LineInSeq
  <2>3. \A i \in DOMAIN s : s[i].seq <= s[Len(s)].seq
    BY <2>1, <2>2 DEF InSeqOrder
  <2>4. \E m \in {s[i].seq : i \in DOMAIN s} : \A i \in DOMAIN s : s[i].seq <= m
    BY <2>1, <2>3
  <2>5. LastSeq(s) \in {s[i].seq : i \in DOMAIN s} /\ \A i \in DOMAIN s : s[i].seq <= LastSeq(s)
    BY <1>2, <2>4 DEF LastSeq
  <2>6. PICK k \in DOMAIN s : LastSeq(s) = s[k].seq
    BY <2>5
  <2> QED BY <1>2, <2>1, <2>2, <2>3, <2>5, <2>6
<1> QED BY <1>1, <1>2

-----------------------------------------------------------------------------
(* The stored lines.                                                       *)

Base == IF writer = "compress" /\ zst # NoFile THEN zst \o old ELSE LoadRecords

LEMMA BaseType ==
  ASSUME TypeOK, RotationSteps PROVE Base \in Seq(Line) /\ Stored = Base \o queue
<1>1. writer = "compress" /\ zst # NoFile => zst \in Seq(Line) /\ old \in Seq(Line)
  BY DEF TypeOK, RotationSteps
<1> QED BY <1>1, ConcatLines, LoadRecordsType DEF Base, Stored

LEMMA StoredType ==
  ASSUME TypeOK, RotationSteps PROVE Stored \in Seq(Line)
  BY BaseType, ConcatLines DEF TypeOK

LEMMA StoredInOrder ==
  ASSUME RefInv PROVE InSeqOrder(Stored)
<1>0. TypeOK /\ RotationSteps /\ FilesInSeqOrder
  BY DEF RefInv, LogInv
<1>1. queue \in Seq(Line) /\ InSeqOrder(queue) /\ active \in Seq(Line)
  BY <1>0 DEF TypeOK, FilesInSeqOrder
<1>2. InSeqOrder(Base) /\ Precedes(Base, queue)
  <2>1. CASE writer = "compress" /\ zst # NoFile
    <3>1. zst \in Seq(Line) /\ old \in Seq(Line)
      BY <1>0, <2>1 DEF TypeOK, RotationSteps
    <3>2. InSeqOrder(zst) /\ InSeqOrder(old) /\ Precedes(zst, old)
          /\ Precedes(zst, queue) /\ Precedes(old, queue)
      BY <1>0, <2>1 DEF RefInv, BesideInv, FilesInSeqOrder, InOrderBefore, RotationSteps
    <3> QED BY <1>1, <2>1, <3>1, <3>2, ConcatInOrder, ConcatPrecedes DEF Base
  <2>2. CASE ~(writer = "compress" /\ zst # NoFile)
    <3> DEFINE f == IF zst # NoFile THEN zst ELSE Lines(old)
    <3>1. f \in Seq(Line) /\ LoadRecords = f \o active /\ Base = LoadRecords
      BY <1>0, <2>2 DEF TypeOK, Lines, LoadRecords, Base
    <3>2. Precedes(f, queue)
      <4>1. CASE f = <<>>
        BY <4>1 DEF Precedes
      <4>2. CASE f # <<>>
        BY <1>0, <4>2 DEF FilesInSeqOrder, InOrderBefore, Lines
      <4> QED BY <4>1, <4>2
    <3>3. Precedes(active, queue)
      BY <1>0 DEF FilesInSeqOrder
    <3>4. InSeqOrder(LoadRecords)
      BY LoadedInOrder DEF RefInv
    <3> HIDE DEF f
    <3> QED BY <1>1, <3>1, <3>2, <3>3, <3>4, ConcatPrecedes
  <2> QED BY <2>1, <2>2
<1>3. Base \in Seq(Line) /\ Stored = Base \o queue
  BY <1>0, BaseType
<1> QED BY <1>1, <1>2, <1>3, ConcatInOrder

LEMMA StoredIsHeld ==
  ASSUME TypeOK, RotationSteps, NEW x PROVE Occurs(x, Stored) <=> Held(x)
<1>0. Base \in Seq(Line) /\ queue \in Seq(Line) /\ Stored = Base \o queue
  BY BaseType DEF TypeOK
<1>1. Occurs(x, Stored) <=> Occurs(x, Base) \/ Occurs(x, queue)
  BY <1>0, OccursInConcat
<1>2. CASE writer = "compress" /\ zst # NoFile
  <2>1. zst \in Seq(Line) /\ old \in Seq(Line) /\ old # NoFile /\ active = <<>>
    BY <1>2 DEF TypeOK, RotationSteps
  <2>2. Occurs(x, Base) <=> Occurs(x, zst) \/ Occurs(x, old)
    BY <1>2, <2>1, OccursInConcat DEF Base
  <2>3. ~Occurs(x, active)
    BY <2>1 DEF Occurs
  <2> QED BY <1>1, <1>2, <2>1, <2>2, <2>3 DEF Held
<1>3. CASE ~(writer = "compress" /\ zst # NoFile)
  <2> DEFINE f == IF zst # NoFile THEN zst ELSE Lines(old)
  <2>1. f \in Seq(Line) /\ active \in Seq(Line) /\ Base = f \o active
    BY <1>3 DEF TypeOK, Lines, LoadRecords, Base
  <2> HIDE DEF f
  <2>2. Occurs(x, Base) <=> Occurs(x, f) \/ Occurs(x, active)
    BY <2>1, OccursInConcat
  <2>3. Occurs(x, f) <=> \/ zst # NoFile /\ Occurs(x, zst)
                         \/ zst = NoFile /\ old # NoFile /\ Occurs(x, old)
    BY DEF f, Lines, Occurs
  <2> QED BY <1>1, <1>3, <2>2, <2>3 DEF Held
<1> QED BY <1>2, <1>3

-----------------------------------------------------------------------------
(* The steps.                                                              *)

LEMMA BesideStep ==
  ASSUME RefInv, [Next]_vars PROVE BesideInv'
<1>0. TypeOK /\ RotationSteps /\ FilesInSeqOrder /\ BesideInv
  BY DEF RefInv, LogInv
<1>1. CASE RotateRename
  <2>1. old' = active /\ zst' = zst
    BY <1>1 DEF RotateRename
  <2>2. zst # NoFile => Precedes(zst, active)
    BY <1>0 DEF FilesInSeqOrder, InOrderBefore
  <2> QED BY <2>1, <2>2 DEF BesideInv
<1>2. CASE writer' = "compress" /\ ~RotateRename
  <2>1. writer = "compress" /\ UNCHANGED <<zst, old>>
    BY <1>2 DEF Next, LinkAndStore, StoreSystem, WriteRecord, WriteFails, RotateAborts,
                RotateCompress, RotateRemove, RotateReopen, SyncTick, Close, Exit, Kill, PowerLoss,
                Boot, Halt, LoseRecord, CanStore, vars, diskVars
  <2> QED BY <1>0, <2>1 DEF BesideInv
<1>3. CASE writer' # "compress"
  BY <1>3 DEF BesideInv
<1> QED BY <1>1, <1>2, <1>3

LEMMA RefStep ==
  ASSUME RefInv, [Next]_vars PROVE RefInv'
  BY TypeStep, RotationStep, OrderStep, BesideStep DEF RefInv, LogInv

(* Both invariants hold throughout. *)
THEOREM RefInvariant == Spec => []RefInv
<1>1. Init => BesideInv
  BY DEF Init, BesideInv
<1>2. LogInv /\ BesideInv /\ [Next]_vars => BesideInv'
  BY BesideStep DEF RefInv
<1> QED BY <1>1, <1>2, LogInvariant, PTL DEF Spec, RefInv

(* Everything but storing a line only moves lines along, or loses them. *)
LEMMA OtherStepsKeep ==
  ASSUME RefInv, Next, ~LinkAndStore, ~StoreSystem PROVE Keeps
<1>0. TypeOK /\ RotationSteps
  BY DEF RefInv, LogInv
<1> SUFFICES ASSUME NEW x, Held(x)' PROVE Held(x)
  BY DEF Keeps
<1>a. queue # <<>> => \/ ~Occurs(x, Tail(queue))
                      \/ Occurs(x, queue)
  BY <1>0, TailType DEF TypeOK, Occurs
<1>b. Occurs(x, Readable) => Occurs(x, active)
  BY <1>0, ReadableType DEF Occurs
<1>c. queue # <<>> => (Occurs(x, Append(active, Head(queue))) => Held(x))
  <2> SUFFICES ASSUME queue # <<>>, Occurs(x, Append(active, Head(queue))) PROVE Held(x)
    OBVIOUS
  <2>1. Head(queue) = queue[1] /\ 1 \in DOMAIN queue /\ active \in Seq(Line) /\ Head(queue) \in Line
    BY <1>0, TailType DEF TypeOK
  <2>2. PICK i \in DOMAIN Append(active, Head(queue)) : Append(active, Head(queue))[i] = x
    BY DEF Occurs
  <2>3. (i \in DOMAIN active /\ x = active[i]) \/ x = queue[1]
    BY <2>1, <2>2
  <2> QED BY <2>1, <2>3 DEF Held, Occurs
<1>1. CASE WriteRecord
  <2>1. /\ queue # <<>> /\ queue' = Tail(queue) /\ UNCHANGED <<old, zst, writer>>
        /\ active' = Append(active, Head(queue)) \/ active' = Readable
    BY <1>1 DEF WriteRecord, WriteLine
  <2> QED BY <1>a, <1>b, <1>c, <2>1 DEF Held
<1>2. CASE WriteFails
  <2>1. /\ queue # <<>> /\ queue' = Tail(queue) /\ UNCHANGED <<old, zst>> /\ writer' = "idle"
        /\ active' = active \/ active' = Readable
    BY <1>2 DEF WriteFails, ShortWrite, LoseRecord
  <2> QED BY <1>a, <1>b, <2>1 DEF Held
<1>3. CASE RotateRename
  <2>1. /\ old' = active /\ active' = <<>> /\ UNCHANGED <<queue, zst>>
    BY <1>3 DEF RotateRename
  <2>2. ~Occurs(x, <<>>)
    BY DEF Occurs
  <2> QED BY <2>1, <2>2 DEF Held
<1>4. CASE RotateAborts
  <2>1. /\ queue # <<>> /\ queue' = Tail(queue) /\ UNCHANGED <<old, zst, active>> /\ writer' = "idle"
    BY <1>4 DEF RotateAborts, LoseRecord
  <2> QED BY <1>a, <2>1 DEF Held
<1>5. CASE RotateCompress
  <2>1. /\ UNCHANGED <<queue, active, old>> /\ writer = "compress" /\ old # NoFile
        /\ writer' # "compress"
        /\ zst' = old \/ zst' = zst
    BY <1>0, <1>5 DEF RotateCompress, RotationSteps
  <2> QED BY <2>1 DEF Held
<1>6. CASE RotateRemove
  <2>1. /\ UNCHANGED <<active, zst>> /\ queue # <<>> /\ zst # NoFile /\ writer' # "compress"
        /\ queue' = queue \/ queue' = Tail(queue)
    BY <1>0, <1>6 DEF RotateRemove, LoseRecord, RotationSteps
  <2> QED BY <1>a, <2>1 DEF Held
<1>7. CASE RotateReopen
  <2>1. /\ UNCHANGED <<old, zst>> /\ queue # <<>> /\ queue' = Tail(queue) /\ writer' # "compress"
        /\ active = <<>>
        /\ active' = active \/ active' = <<Head(queue)>>
    BY <1>0, <1>7 DEF RotateReopen, LoseRecord, RotationSteps
  <2>2. active' = <<Head(queue)>> => active' = Append(active, Head(queue))
    BY <2>1
  <2> QED BY <1>a, <1>c, <2>1, <2>2 DEF Held
<1>8. CASE SyncTick \/ Close \/ Boot
  BY <1>8 DEF SyncTick, Close, Boot, Held, diskVars
<1>9. CASE Exit \/ Kill \/ PowerLoss
  <2>1. UNCHANGED <<old, zst>> /\ queue' = <<>> /\ writer' = "idle"
    BY <1>9 DEF Exit, Kill, PowerLoss, Halt, diskVars
  <2>2. ~Occurs(x, <<>>)
    BY DEF Occurs
  <2>3. Occurs(x, active') => Occurs(x, active)
    <3>1. CASE Exit \/ Kill
      BY <3>1 DEF Exit, Kill, diskVars
    <3>2. CASE PowerLoss
      <4>1. PICK n \in synced .. Len(active) - 1, t \in {"clean", "fragment", "unterminated"} :
              active' = SubSeq(active, 1, IF t = "unterminated" THEN n + 1 ELSE n)
        BY <3>2 DEF PowerLoss
      <4>2. PICK k \in 0 .. Len(active) : active' = SubSeq(active, 1, k)
        <5>1. n \in 0 .. Len(active) /\ n + 1 \in 0 .. Len(active)
          BY <1>0 DEF TypeOK
        <5> QED BY <4>1, <5>1
      <4>3. \A i \in DOMAIN SubSeq(active, 1, k) : i \in DOMAIN active /\ SubSeq(active, 1, k)[i] = active[i]
        BY <1>0 DEF TypeOK
      <4> QED BY <4>2, <4>3 DEF Occurs
    <3> QED BY <1>9, <3>1, <3>2
  <2> QED BY <2>1, <2>2, <2>3 DEF Held
<1> QED BY <1>1, <1>2, <1>3, <1>4, <1>5, <1>6, <1>7, <1>8, <1>9 DEF Next

(* What the stored lines are, before and after a step. *)
StoredWell ==
  /\ Stored \in Seq(Line) /\ InSeqOrder(Stored)
  /\ \A x : Occurs(x, Stored) <=> Held(x)

LEMMA StoredIsWell == RefInv => StoredWell
<1> SUFFICES ASSUME RefInv PROVE StoredWell
  OBVIOUS
<1>1. TypeOK /\ RotationSteps
  BY DEF RefInv, LogInv
<1> QED BY <1>1, StoredType, StoredInOrder, StoredIsHeld DEF StoredWell

LEMMA StaysWell == RefInv' => StoredWell'
  BY StoredIsWell, PTL

LEMMA KeepsThins ==
  ASSUME RefInv, RefInv', Keeps PROVE Promise!Thinned(Stored', Stored)
<1>1. Stored \in Seq(Line) /\ InSeqOrder(Stored) /\ \A x : Held(x) => Occurs(x, Stored)
  BY StoredIsWell DEF StoredWell
<1>2. Stored' \in Seq(Line) /\ InSeqOrder(Stored') /\ \A x : Occurs(x, Stored') => Held(x)'
  BY StaysWell DEF StoredWell
<1>3. \A x : Occurs(x, Stored') => Occurs(x, Stored)
  BY <1>1, <1>2 DEF Keeps
<1> QED BY <1>1, <1>2, <1>3, SubsetIsThinned

(* Storing a line adds it at the end of the stored lines, or sheds it. *)
LEMMA StoreIsStore ==
  ASSUME RefInv, RefInv', NEW x \in Line, x.seq = seq + 1, phase # "down", writer = "idle",
         EnqueueWire(x), seq' = seq + 1, UNCHANGED <<phase, writer, diskVars>>
  PROVE  Promise!Store
<1>1. TypeOK /\ RotationSteps
  BY DEF RefInv, LogInv
<1>2. Top = seq /\ Top' = seq + 1
  BY DEF Top
<1>3. Stored = LoadRecords \o queue /\ Stored' = LoadRecords \o queue'
  BY DEF Stored, LoadRecords, diskVars, Lines
<1>4. LoadRecords \in Seq(Line) /\ queue \in Seq(Line)
  BY <1>1, LoadRecordsType DEF TypeOK
<1>5. CASE queue' = queue
  BY <1>2, <1>3, <1>5 DEF Promise!Store
<1>6. CASE queue' = Append(queue, x)
  <2>1. LoadRecords \o Append(queue, x) = Append(LoadRecords \o queue, x)
    BY <1>4
  <2>2. Stored' = Append(Stored, x) /\ Stored \in Seq(Line)
    BY <1>3, <1>4, <1>6, <2>1
  <2>3. Stored' # <<>> /\ Stored'[Len(Stored')] = x
    BY <2>2
  <2> QED BY <1>2, <2>2, <2>3 DEF Promise!Store
<1>7. queue' = queue \/ queue' = Append(queue, x)
  BY DEF EnqueueWire
<1> QED BY <1>5, <1>6, <1>7

LoadsLines == LoadRecords \in Seq(Line)

LEMMA StillLoadsLines == TypeOK' => LoadsLines'
<1>1. TypeOK => LoadsLines
  BY LoadRecordsType DEF LoadsLines
<1> QED BY <1>1, PTL

(* A stop leaves the count where a boot will resume it. *)
LEMMA HaltIsRestart ==
  ASSUME RefInv, RefInv', Exit \/ Kill \/ PowerLoss, Keeps PROVE Promise!Restart
<1>1. phase' = "down" /\ queue' = <<>> /\ writer' = "idle"
  BY DEF Exit, Kill, PowerLoss, Halt
<1>2. Top' = LastSeq(LoadRecords')
  BY <1>1 DEF Top, BootSeq, LastSeq, LoadRecords
<1>3. Stored' \in Seq(Line) /\ InSeqOrder(Stored')
  BY StaysWell DEF StoredWell
<1>4. Stored' = LoadRecords' \o <<>>
  BY <1>1 DEF Stored, LoadRecords
<1>5. LoadRecords' \in Seq(Line)
  BY StillLoadsLines DEF RefInv, LogInv, LoadsLines
<1>6. Stored' = LoadRecords'
  BY <1>4, <1>5
<1>7. Top' = IF Stored' = <<>> THEN 0 ELSE Stored'[Len(Stored')].seq
  BY <1>2, <1>3, <1>6, LastSeqIsLast
<1> QED BY <1>7, KeepsThins DEF Promise!Restart

LEMMA StepRefines ==
  ASSUME RefInv, RefInv', [Next]_vars PROVE [Promise!Next]_(Promise!logVars)
<1>0. TypeOK /\ RotationSteps
  BY DEF RefInv, LogInv
<1>1. CASE LinkAndStore
  <2> DEFINE x == ChainedLine(Len(issued) + 1, seq + 1, Resumed.tip, Resumed.height + 1)
  <2>1. x \in Line /\ x.seq = seq + 1
    BY <1>0, ResumedType DEF ChainedLine, Line, TypeOK
  <2>2. /\ seq' = x.seq /\ EnqueueWire(x) /\ phase # "down" /\ writer = "idle"
        /\ UNCHANGED <<phase, writer, diskVars>>
    BY <1>1 DEF LinkAndStore, CanStore
  <2> HIDE DEF x
  <2> QED BY <2>1, <2>2, StoreIsStore DEF Promise!Next
<1>2. CASE StoreSystem
  <2> DEFINE x == SystemLine(Len(issued) + 1, seq + 1)
  <2>1. x \in Line /\ x.seq = seq + 1
    BY <1>0 DEF SystemLine, Line, TypeOK, Genesis
  <2>2. /\ seq' = x.seq /\ EnqueueWire(x) /\ phase # "down" /\ writer = "idle"
        /\ UNCHANGED <<phase, writer, diskVars>>
    BY <1>2 DEF StoreSystem, CanStore
  <2> HIDE DEF x
  <2> QED BY <2>1, <2>2, StoreIsStore DEF Promise!Next
<1>3. CASE Next /\ ~LinkAndStore /\ ~StoreSystem
  <2>1. Keeps
    BY <1>3, OtherStepsKeep
  <2>2. CASE Exit \/ Kill \/ PowerLoss
    BY <2>1, <2>2, HaltIsRestart DEF Promise!Next
  <2>3. CASE ~(Exit \/ Kill \/ PowerLoss)
    <3>1. Top' = Top
      <4>1. CASE Boot
        BY <4>1 DEF Boot, Top, BootSeq
      <4>2. CASE ~Boot
        <5>1. seq' = seq /\ phase # "down" /\ phase' # "down"
          BY <1>3, <2>3, <4>2 DEF Next, WriteRecord, WriteFails, RotateRename, RotateAborts,
             RotateCompress, RotateRemove, RotateReopen, SyncTick, Close, ramVars
        <5> QED BY <5>1 DEF Top
      <4> QED BY <4>1, <4>2
    <3> QED BY <2>1, <3>1, KeepsThins DEF Promise!Next, Promise!Lose
  <2> QED BY <2>2, <2>3
<1>4. CASE UNCHANGED vars
  BY <1>4 DEF vars, ramVars, diskVars, Promise!logVars, Stored, Top, LoadRecords, BootSeq, Lines, LastSeq
<1> QED BY <1>1, <1>2, <1>3, <1>4

(* The log with its queue, its files and its rotation implements           *)
(* OrderedLog: no write, failure, rotation step, crash or boot moves,      *)
(* duplicates or brings back a stored line, or resumes the count anywhere  *)
(* but at the last one.                                                    *)
THEOREM LogRefines == Spec => ImplementsOrderedLog
<1>1. Init => Promise!Init
  <2> SUFFICES ASSUME Init PROVE Stored = <<>> /\ Top = 0
    BY DEF Promise!Init
  <2> QED BY DEF Init, Stored, LoadRecords, Lines, Top
<1>2. RefInv /\ RefInv' /\ [Next]_vars => [Promise!Next]_(Promise!logVars)
  BY StepRefines
<1> QED BY <1>1, <1>2, RefInvariant, PTL DEF Spec, ImplementsOrderedLog, Promise!Spec

-----------------------------------------------------------------------------
(* Without a loss.                                                         *)

(* t is an end of s. *)
IsEndOf(t, s) ==
  /\ Len(t) <= Len(s)
  /\ \A i \in 1 .. Len(t) : t[i] = s[i + (Len(s) - Len(t))]

(* The strengthening that makes RestartIsSilent inductive: without a loss  *)
(* the stored lines are an end of the issued ones, long enough to refill   *)
(* the window, and the tip and the count are those of the last line.       *)
FilesInv ==
  Lossless =>
    /\ tail = "clean"
    /\ writer \in {"idle", "reopen"} => old = NoFile
    /\ writer = "compress" => Len(old) = FileCap
    /\ IsEndOf(Stored, issued)
    /\ Len(Stored) = Len(issued) \/ Len(Stored) >= MaxHistoryLines

WindowInv ==
  Lossless /\ phase # "down" =>
    history = LastLines(issued, MaxHistoryLines) /\ seq = Len(issued)

TipInv ==
  Lossless /\ phase # "down" /\ ready =>
    \A i \in DOMAIN issued :
      NewestChained(issued, i) => tip = Hash(issued[i]) /\ height = issued[i].height

SilentInv == FilesInv /\ WindowInv /\ TipInv /\ ChainUnbroken

(* An end that is long enough has the same window. *)
LEMMA EndHasWindow ==
  ASSUME NEW s \in Seq(Line), NEW t \in Seq(Line), NEW n \in Nat \ {0}, IsEndOf(t, s),
         Len(t) = Len(s) \/ Len(t) >= n
  PROVE  LastLines(t, n) = LastLines(s, n)
<1> DEFINE u == LastLines(t, n)
           w == LastLines(s, n)
<1>1. /\ u \in Seq(Line) /\ Len(u) = IF Len(t) <= n THEN Len(t) ELSE n
      /\ \A i \in 1 .. Len(u) : u[i] = t[i + Len(t) - Len(u)]
  BY LastLinesIsSuffix
<1>2. /\ w \in Seq(Line) /\ Len(w) = IF Len(s) <= n THEN Len(s) ELSE n
      /\ \A i \in 1 .. Len(w) : w[i] = s[i + Len(s) - Len(w)]
  BY LastLinesIsSuffix
<1> HIDE DEF u, w
<1>3. Len(s) \in Nat /\ Len(t) \in Nat /\ Len(t) <= Len(s)
  BY DEF IsEndOf
<1>4. Len(u) = Len(w) /\ Len(u) \in Nat
  BY <1>1, <1>2, <1>3
<1>5. ASSUME NEW i \in 1 .. Len(u) PROVE u[i] = w[i]
  <2>1. i + Len(t) - Len(u) \in 1 .. Len(t)
    BY <1>1, <1>3
  <2>2. t[i + Len(t) - Len(u)] = s[(i + Len(t) - Len(u)) + (Len(s) - Len(t))]
    BY <2>1 DEF IsEndOf
  <2>0. i \in Nat
    BY <1>4
  <2>3. (i + Len(t) - Len(u)) + (Len(s) - Len(t)) = i + Len(s) - Len(w)
    BY <2>0, <1>3, <1>4
  <2> QED BY <1>1, <1>2, <1>4, <2>2, <2>3
<1>6. u = w
  BY <1>1, <1>2, <1>4, <1>5, SeqEqual
<1> QED BY <1>6 DEF u, w

(* Appending to the window of the issued lines, then evicting, gives the   *)
(* window of the issued lines with the new one.                            *)
LEMMA AppendIsWindow ==
  ASSUME NEW s \in Seq(Line), NEW x \in Line
  PROVE  AppendMessage(LastLines(s, MaxHistoryLines), x) =
           LastLines(Append(s, x), MaxHistoryLines)
<1> DEFINE h == LastLines(s, MaxHistoryLines)
           t == Append(h, x)
           u == Append(s, x)
<1>0. MaxHistoryLines \in Nat \ {0} /\ Len(s) \in Nat
  BY HistoryLogAssumption
<1>1. /\ h \in Seq(Line) /\ Len(h) = IF Len(s) <= MaxHistoryLines THEN Len(s) ELSE MaxHistoryLines
      /\ \A i \in 1 .. Len(h) : h[i] = s[i + Len(s) - Len(h)]
  BY <1>0, LastLinesIsSuffix
<1> HIDE DEF h
<1>2. /\ t \in Seq(Line) /\ Len(t) = Len(h) + 1 /\ t[Len(h) + 1] = x
      /\ \A i \in 1 .. Len(h) : t[i] = h[i]
  BY <1>1
<1>3. /\ u \in Seq(Line) /\ Len(u) = Len(s) + 1 /\ u[Len(s) + 1] = x
      /\ \A i \in 1 .. Len(s) : u[i] = s[i]
  OBVIOUS
<1> HIDE DEF t, u
<1>4. IsEndOf(t, u)
  <2>1. Len(t) <= Len(u) /\ Len(u) - Len(t) = Len(s) - Len(h) /\ Len(h) \in Nat /\ Len(h) <= Len(s)
    BY <1>0, <1>1, <1>2, <1>3
  <2> SUFFICES ASSUME NEW i \in 1 .. Len(t) PROVE t[i] = u[i + (Len(u) - Len(t))]
    BY <2>1 DEF IsEndOf
  <2>2. CASE i = Len(h) + 1
    <3>1. i + (Len(u) - Len(t)) = Len(s) + 1
      BY <1>0, <2>1, <2>2
    <3> QED BY <1>2, <1>3, <2>2, <3>1
  <2>3. CASE i # Len(h) + 1
    <3>0. i \in Nat /\ 1 <= i /\ i <= Len(h)
      BY <1>2, <2>1, <2>3
    <3>1. i \in 1 .. Len(h) /\ i + Len(s) - Len(h) \in 1 .. Len(s)
          /\ i + Len(s) - Len(h) = i + (Len(u) - Len(t))
      BY <1>0, <2>1, <3>0
    <3> QED BY <1>1, <1>2, <1>3, <3>1
  <2> QED BY <2>2, <2>3
<1>5. Len(t) = Len(u) \/ Len(t) >= MaxHistoryLines
  BY <1>0, <1>1, <1>2, <1>3
<1>6. LastLines(t, MaxHistoryLines) = LastLines(u, MaxHistoryLines)
  BY <1>0, <1>2, <1>3, <1>4, <1>5, EndHasWindow
<1> QED BY <1>6 DEF AppendMessage, t, u, h

(* An end grows with what it is an end of. *)
LEMMA EndGrows ==
  ASSUME NEW s \in Seq(Line), NEW t \in Seq(Line), NEW x \in Line, IsEndOf(t, s)
  PROVE  IsEndOf(Append(t, x), Append(s, x))
<1> DEFINE v == Append(t, x)
           u == Append(s, x)
<1>0. Len(s) \in Nat /\ Len(t) \in Nat /\ Len(t) <= Len(s)
  BY DEF IsEndOf
<1>1. /\ Len(v) = Len(t) + 1 /\ v[Len(t) + 1] = x /\ \A i \in 1 .. Len(t) : v[i] = t[i]
  OBVIOUS
<1>2. /\ Len(u) = Len(s) + 1 /\ u[Len(s) + 1] = x /\ \A i \in 1 .. Len(s) : u[i] = s[i]
  OBVIOUS
<1> HIDE DEF u, v
<1>3. ASSUME NEW i \in 1 .. Len(v) PROVE v[i] = u[i + (Len(u) - Len(v))]
  <2>1. CASE i = Len(t) + 1
    <3>1. i + (Len(u) - Len(v)) = Len(s) + 1
      BY <1>0, <1>1, <1>2, <2>1
    <3> QED BY <1>1, <1>2, <2>1, <3>1
  <2>2. CASE i # Len(t) + 1
    <3>1. i \in 1 .. Len(t) /\ i + (Len(s) - Len(t)) \in 1 .. Len(s)
          /\ i + (Len(s) - Len(t)) = i + (Len(u) - Len(v))
      BY <1>0, <1>1, <1>2, <2>2
    <3>2. t[i] = s[i + (Len(s) - Len(t))]
      BY <3>1 DEF IsEndOf
    <3> QED BY <1>1, <1>2, <3>1, <3>2
  <2> QED BY <2>1, <2>2
<1>4. IsEndOf(v, u)
  BY <1>0, <1>1, <1>2, <1>3 DEF IsEndOf
<1> QED BY <1>4 DEF u, v

(* What is behind the archive is still an end. *)
LEMMA EndOfEnd ==
  ASSUME NEW s \in Seq(Line), NEW a \in Seq(Line), NEW b \in Seq(Line), IsEndOf(a \o b, s)
  PROVE  IsEndOf(b, s)
<1> DEFINE t == a \o b
<1>1. /\ t \in Seq(Line) /\ Len(t) = Len(a) + Len(b)
      /\ \A i \in 1 .. Len(b) : t[Len(a) + i] = b[i]
  BY ConcatLines
<1>2. Len(t) <= Len(s) /\ \A i \in 1 .. Len(t) : t[i] = s[i + (Len(s) - Len(t))]
  BY DEF IsEndOf
<1> HIDE DEF t
<1>3. Len(a) \in Nat /\ Len(b) \in Nat /\ Len(s) \in Nat
  OBVIOUS
<1>4. ASSUME NEW i \in 1 .. Len(b) PROVE b[i] = s[i + (Len(s) - Len(b))]
  <2>1. Len(a) + i \in 1 .. Len(t) /\ (Len(a) + i) + (Len(s) - Len(t)) = i + (Len(s) - Len(b))
    BY <1>1, <1>3
  <2> QED BY <1>1, <1>2, <2>1
<1> QED BY <1>1, <1>2, <1>3, <1>4 DEF IsEndOf

(* Writing the head of the queue moves it from the queue to the file. *)
LEMMA HeadMoves ==
  ASSUME NEW f \in Seq(Line), NEW a \in Seq(Line), NEW q \in Seq(Line), q # <<>>
  PROVE  (f \o Append(a, Head(q))) \o Tail(q) = (f \o a) \o q
<1> DEFINE b == Append(a, Head(q))
           u == b \o Tail(q)
           v == a \o q
<1>1. /\ Head(q) \in Line /\ Tail(q) \in Seq(Line) /\ Len(Tail(q)) = Len(q) - 1
      /\ \A i \in 1 .. Len(q) - 1 : Tail(q)[i] = q[i + 1]
      /\ Head(q) = q[1] /\ Len(q) \in Nat /\ Len(q) >= 1 /\ Len(a) \in Nat
  BY TailType
<1>2. /\ b \in Seq(Line) /\ Len(b) = Len(a) + 1 /\ b[Len(a) + 1] = q[1]
      /\ \A i \in 1 .. Len(a) : b[i] = a[i]
  BY <1>1
<1> HIDE DEF b
<1>3. /\ u \in Seq(Line) /\ Len(u) = Len(b) + Len(Tail(q))
      /\ \A i \in 1 .. Len(b) : u[i] = b[i]
      /\ \A i \in 1 .. Len(Tail(q)) : u[Len(b) + i] = Tail(q)[i]
  <2>1. b \in Seq(Line) /\ Tail(q) \in Seq(Line)
    BY <1>1, <1>2
  <2> QED BY <2>1, ConcatLines
<1>4. /\ v \in Seq(Line) /\ Len(v) = Len(a) + Len(q)
      /\ \A i \in 1 .. Len(a) : v[i] = a[i]
      /\ \A i \in 1 .. Len(q) : v[Len(a) + i] = q[i]
  BY ConcatLines
<1> HIDE DEF u, v
<1>5. Len(u) = Len(v) /\ Len(v) \in Nat
  BY <1>1, <1>2, <1>3, <1>4
<1>6. ASSUME NEW i \in 1 .. Len(v) PROVE u[i] = v[i]
  <2>0. i \in Nat /\ 1 <= i /\ i <= Len(a) + Len(q)
    BY <1>4, <1>5
  <2>1. CASE i <= Len(a)
    BY <1>1, <1>2, <1>3, <1>4, <2>0, <2>1
  <2>2. CASE i = Len(a) + 1
    <3>1. u[i] = q[1]
      BY <1>1, <1>2, <1>3, <2>0, <2>2
    <3>2. 1 \in 1 .. Len(q)
      BY <1>1
    <3>3. v[i] = q[1]
      BY <1>4, <2>2, <3>2
    <3> QED BY <3>1, <3>3
  <2>3. CASE i > Len(a) + 1
    <3> DEFINE j == i - (Len(a) + 1)
    <3>1. j \in 1 .. Len(q) - 1 /\ i = Len(b) + j /\ i = Len(a) + (j + 1) /\ j + 1 \in 1 .. Len(q)
      BY <1>1, <1>2, <2>0, <2>3
    <3> HIDE DEF j
    <3>2. u[i] = q[j + 1]
      BY <1>1, <1>3, <3>1
    <3>3. v[i] = q[j + 1]
      BY <1>4, <3>1
    <3> QED BY <3>2, <3>3
  <2> QED BY <1>1, <2>0, <2>1, <2>2, <2>3
<1>7. u = v
  BY <1>3, <1>4, <1>5, <1>6, SeqEqual
<1>8. (f \o b) \o Tail(q) = f \o (b \o Tail(q))
  BY <1>1, <1>2
<1>9. (f \o a) \o q = f \o (a \o q)
  OBVIOUS
<1>10. f \o (b \o Tail(q)) = f \o (a \o q)
  BY <1>7 DEF u, v
<1> QED BY <1>8, <1>9, <1>10 DEF b

(* Nothing that was lost or forgotten is found again. *)
LEMMA StillLossless ==
  ASSUME [Next]_vars, Lossless' PROVE Lossless
<1>0. ~lost' /\ ~forgot'
  BY DEF Lossless
<1> SUFFICES ~lost /\ ~forgot
  BY DEF Lossless
<1>1. CASE LinkAndStore
  BY <1>0, <1>1, Zenon DEF LinkAndStore, EnqueueWire
<1>2. CASE StoreSystem
  BY <1>0, <1>2, Zenon DEF StoreSystem, EnqueueWire
<1>3. CASE WriteRecord
  BY <1>0, <1>3, Zenon DEF WriteRecord
<1>4. CASE WriteFails
  BY <1>0, <1>4, Zenon DEF WriteFails, LoseRecord
<1>5. CASE RotateRename
  BY <1>0, <1>5 DEF RotateRename, ghosts
<1>6. CASE RotateAborts
  BY <1>0, <1>6, Zenon DEF RotateAborts, LoseRecord
<1>7. CASE RotateCompress
  BY <1>0, <1>7 DEF RotateCompress
<1>8. CASE RotateRemove
  BY <1>0, <1>8 DEF RotateRemove, LoseRecord
<1>9. CASE RotateReopen
  BY <1>0, <1>9 DEF RotateReopen, LoseRecord
<1>10. CASE SyncTick \/ Close \/ Boot
  BY <1>0, <1>10 DEF SyncTick, Close, Boot, ghosts
<1>11. CASE Exit \/ Kill \/ PowerLoss
  <2>1. UNCHANGED forgot /\ \E torn \in BOOLEAN : Halt(torn)
    BY <1>11 DEF Exit, Kill, PowerLoss
  <2> QED BY <1>0, <2>1, Zenon DEF Halt
<1>12. CASE UNCHANGED vars
  BY <1>0, <1>12 DEF vars, ghosts
<1> QED BY <1>1, <1>2, <1>3, <1>4, <1>5, <1>6, <1>7, <1>8, <1>9, <1>10, <1>11, <1>12 DEF Next

(* Storing a line, without a loss. *)
LEMMA StoreStaysSilent ==
  ASSUME RefInv, SilentInv, Lossless, ~lost', NEW x \in Line, x.seq = seq + 1, CanStore,
         Chained(x) => \A i \in DOMAIN issued : NewestChained(issued, i) => Extends(x, issued[i]),
         seq' = x.seq, history' = AppendMessage(history, x), EnqueueWire(x),
         issued' = Append(issued, x), UNCHANGED <<phase, writer, diskVars>>
  PROVE  FilesInv' /\ WindowInv' /\ ChainUnbroken'
<1>0. TypeOK /\ RotationSteps /\ phase # "down" /\ writer = "idle" /\ issued \in Seq(Line)
  BY DEF RefInv, LogInv, CanStore, TypeOK
<1>1. queue' = Append(queue, x)
  BY Zenon DEF EnqueueWire
<1>2. Stored' = Append(Stored, x) /\ Stored \in Seq(Line)
  <2>1. Stored = LoadRecords \o queue /\ Stored' = LoadRecords \o queue'
    BY <1>0 DEF Stored, LoadRecords, diskVars, Lines
  <2>2. LoadRecords \in Seq(Line) /\ queue \in Seq(Line)
    BY <1>0, LoadRecordsType DEF TypeOK
  <2>3. LoadRecords \o Append(queue, x) = Append(LoadRecords \o queue, x)
        /\ LoadRecords \o queue \in Seq(Line)
    BY <2>2
  <2> QED BY <1>1, <2>1, <2>3
<1>3. /\ tail = "clean" /\ old = NoFile /\ IsEndOf(Stored, issued)
      /\ Len(Stored) = Len(issued) \/ Len(Stored) >= MaxHistoryLines
      /\ history = LastLines(issued, MaxHistoryLines) /\ seq = Len(issued)
  BY <1>0 DEF SilentInv, FilesInv, WindowInv
<1>4. FilesInv'
  <2>1. IsEndOf(Stored', issued')
    BY <1>0, <1>2, <1>3, EndGrows
  <2>2. Len(Stored') = Len(Stored) + 1 /\ Len(issued') = Len(issued) + 1
        /\ Len(Stored) \in Nat /\ Len(issued) \in Nat /\ MaxHistoryLines \in Nat
    BY <1>0, <1>2, HistoryLogAssumption
  <2>3. Len(Stored') = Len(issued') \/ Len(Stored') >= MaxHistoryLines
    BY <1>3, <2>2
  <2>4. tail' = "clean" /\ old' = NoFile /\ writer' = "idle"
    BY <1>0, <1>3 DEF diskVars
  <2> QED BY <2>1, <2>3, <2>4 DEF FilesInv, IsEndOf
<1>5. WindowInv'
  <2>1. history' = LastLines(issued', MaxHistoryLines)
    BY <1>0, <1>3, AppendIsWindow
  <2>2. seq' = Len(issued')
    BY <1>0, <1>3
  <2> QED BY <2>1, <2>2 DEF WindowInv, LastLines
<1>6. ChainUnbroken'
  <2> DEFINE u == Append(issued, x)
             n == Len(issued)
  <2>1. /\ n \in Nat /\ Len(u) = n + 1 /\ DOMAIN u = 1 .. n + 1 /\ u[n + 1] = x
        /\ \A i \in 1 .. n : u[i] = issued[i] /\ DOMAIN issued = 1 .. n
    BY <1>0
  <2>2. /\ \A i \in 1 .. n : issued[i].seq = i
        /\ \A i, j \in 1 .. n :
             (/\ i < j /\ Chained(issued[i]) /\ Chained(issued[j])
              /\ \A k \in i + 1 .. j - 1 : ~Chained(issued[k]))
             => /\ issued[j].prev = Hash(issued[i])
                /\ issued[j].height = issued[i].height + 1
    BY <1>0 DEF SilentInv, ChainUnbroken
  <2> HIDE DEF u
  <2>3. \A i \in DOMAIN u : u[i].seq = i
    BY <1>3, <2>1, <2>2
  <2>4. ASSUME NEW i \in DOMAIN u, NEW j \in DOMAIN u, i < j, Chained(u[i]), Chained(u[j]),
               \A k \in i + 1 .. j - 1 : ~Chained(u[k])
        PROVE  u[j].prev = Hash(u[i]) /\ u[j].height = u[i].height + 1
    <3>0. i \in 1 .. n /\ i \in Nat /\ j \in Nat /\ u[i] = issued[i]
      BY <2>1, <2>4
    <3>1. CASE j = n + 1
      <4>1. \A k \in DOMAIN issued : k > i => ~Chained(issued[k])
        <5> SUFFICES ASSUME NEW k \in 1 .. n, k > i PROVE ~Chained(issued[k])
          BY <1>0
        <5>1. k \in i + 1 .. j - 1 /\ u[k] = issued[k]
          BY <2>1, <3>0, <3>1
        <5> QED BY <2>4, <5>1
      <4>2. NewestChained(issued, i) /\ i \in DOMAIN issued
        BY <1>0, <2>4, <3>0, <4>1 DEF NewestChained
      <4>3. u[j] = x /\ Chained(x)
        BY <2>1, <2>4, <3>1
      <4> QED BY <3>0, <4>2, <4>3 DEF Extends
    <3>2. CASE j # n + 1
      <4>1. j \in 1 .. n /\ u[j] = issued[j]
        BY <2>1, <3>2
      <4>2. \A k \in i + 1 .. j - 1 : k \in 1 .. n /\ u[k] = issued[k]
        BY <2>1, <3>0, <4>1
      <4>3. \A k \in i + 1 .. j - 1 : ~Chained(issued[k])
        BY <2>4, <4>2
      <4>4. issued[j].prev = Hash(issued[i]) /\ issued[j].height = issued[i].height + 1
        BY <2>2, <2>4, <3>0, <4>1, <4>3
      <4> QED BY <3>0, <4>1, <4>4
    <3> QED BY <3>1, <3>2
  <2>5. issued' = u
    BY DEF u
  <2> QED BY <2>3, <2>4, <2>5 DEF ChainUnbroken
<1> QED BY <1>4, <1>5, <1>6

(* A line resumed from the window is the newest chained one ever issued. *)
LEMMA ResumedIsNewest ==
  ASSUME RefInv, SilentInv, Lossless, LinkAndStore, ~forgot',
         NEW i \in DOMAIN issued, NewestChained(issued, i)
  PROVE  Resumed.tip = Hash(issued[i]) /\ Resumed.height = issued[i].height
<1>0. TypeOK /\ phase # "down" /\ issued \in Seq(Line) /\ history \in Seq(Line)
  BY DEF RefInv, LogInv, TypeOK, LinkAndStore, CanStore
<1>1. CASE ready
  BY <1>0, <1>1 DEF SilentInv, TipInv, Resumed
<1>2. CASE ~ready
  <2>1. LastChained(issued) = i /\ i # 0
    BY <1>0, LastChainedIs
  <2>2. ~Forgets
    BY Zenon DEF LinkAndStore
  <2>3. LastChained(history) # 0
    BY <1>2, <2>1, <2>2 DEF Forgets
  <2>4. PICK k \in DOMAIN history : LastChained(history) = k /\ NewestChained(history, k)
    BY <2>3 DEF LastChained
  <2> DEFINE h == LastLines(issued, MaxHistoryLines)
             d == Len(issued) - Len(h)
  <2>5. /\ h \in Seq(Line) /\ Len(h) \in Nat /\ Len(issued) \in Nat /\ Len(h) <= Len(issued)
        /\ \A m \in 1 .. Len(h) : h[m] = issued[m + Len(issued) - Len(h)]
    <3>0. MaxHistoryLines \in Nat \ {0}
      BY HistoryLogAssumption
    <3>1. /\ h \in Seq(Line)
          /\ Len(h) = IF Len(issued) <= MaxHistoryLines THEN Len(issued) ELSE MaxHistoryLines
          /\ \A m \in 1 .. Len(h) : h[m] = issued[m + Len(issued) - Len(h)]
      BY <1>0, <3>0, LastLinesIsSuffix
    <3> HIDE DEF h
    <3>2. Len(issued) \in Nat /\ Len(h) \in Nat
      BY <1>0, <3>1
    <3>3. Len(h) <= Len(issued)
      BY <3>0, <3>1, <3>2
    <3> QED BY <3>1, <3>2, <3>3
  <2>6. history = h
    BY <1>0 DEF SilentInv, WindowInv
  <2> HIDE DEF h
  <2>7. \A m \in 1 .. Len(h) : m + d \in DOMAIN issued /\ h[m] = issued[m + d]
    <3> TAKE m \in 1 .. Len(h)
    <3>1. m \in Nat /\ m + d = m + Len(issued) - Len(h) /\ m + d \in 1 .. Len(issued)
      BY <2>5
    <3> QED BY <1>0, <2>5, <3>1
  <2>8. k \in 1 .. Len(h) /\ Chained(h[k]) /\ \A m \in 1 .. Len(h) : m > k => ~Chained(h[m])
    BY <2>4, <2>5, <2>6 DEF NewestChained
  <2>9. NewestChained(issued, k + d)
    <3> SUFFICES ASSUME NEW m \in DOMAIN issued, m > k + d PROVE ~Chained(issued[m])
      BY <2>7, <2>8 DEF NewestChained
    <3>1. m - d \in 1 .. Len(h) /\ m - d > k /\ (m - d) + d = m
      <4>1. m \in 1 .. Len(issued) /\ d \in Nat /\ Len(issued) = Len(h) + d
        BY <1>0, <2>5
      <4> HIDE DEF d
      <4> QED BY <2>5, <2>8, <4>1
    <3> QED BY <2>7, <2>8, <3>1
  <2>10. k + d = i /\ history[k] = issued[i]
    <3>1. LastChained(issued) = k + d
      BY <1>0, <2>7, <2>8, <2>9, LastChainedIs
    <3> QED BY <2>1, <2>6, <2>7, <2>8, <3>1
  <2> QED BY <1>2, <2>3, <2>4, <2>10 DEF Resumed, InitChain
<1> QED BY <1>1, <1>2

(* A step that stores nothing, without a loss, leaves the stored lines as  *)
(* they are; only the archive rotate replaces goes.                        *)
LEMMA FilesStaySilent ==
  ASSUME RefInv, RefInv', SilentInv, Lossless, Lossless', MaxHistoryLines <= FileCap,
         Next, ~LinkAndStore, ~StoreSystem
  PROVE  FilesInv'
<1>0. /\ TypeOK /\ RotationSteps /\ ~lost /\ ~lost'
      /\ issued \in Seq(Line) /\ queue \in Seq(Line) /\ active \in Seq(Line)
      /\ zst # NoFile => zst \in Seq(Line)
      /\ old # NoFile => old \in Seq(Line)
  BY DEF RefInv, LogInv, TypeOK, Lossless
<1>1. /\ tail = "clean"
      /\ writer \in {"idle", "reopen"} => old = NoFile
      /\ writer = "compress" => Len(old) = FileCap
      /\ IsEndOf(Stored, issued)
      /\ Len(Stored) = Len(issued) \/ Len(Stored) >= MaxHistoryLines
  BY DEF SilentInv, FilesInv
<1>2. issued' = issued
  BY DEF Next, WriteRecord, WriteFails, RotateRename, RotateAborts, RotateCompress, RotateRemove,
         RotateReopen, SyncTick, Close, Exit, Kill, PowerLoss, Boot, ghosts
<1> DEFINE Kept ==
      /\ tail' = "clean"
      /\ writer' \in {"idle", "reopen"} => old' = NoFile
      /\ writer' = "compress" => Len(old') = FileCap
<1>3. ASSUME Kept, Stored' = Stored PROVE FilesInv'
  BY <1>1, <1>2, <1>3 DEF FilesInv, IsEndOf
<1> HIDE DEF Kept
<1> DEFINE f == IF zst # NoFile THEN zst ELSE Lines(old)
<1>4. f \in Seq(Line)
  BY <1>0 DEF Lines
<1>5. CASE WriteRecord
  <2>1. /\ writer = "idle" /\ UNCHANGED <<writer, old, zst>> /\ queue # <<>>
        /\ active' = Append(active, Head(queue)) /\ tail' = "clean" /\ queue' = Tail(queue)
    BY <1>1, <1>5 DEF WriteRecord, WriteLine
  <2>2. Stored = (f \o active) \o queue /\ Stored' = (f \o Append(active, Head(queue))) \o Tail(queue)
    BY <2>1 DEF Stored, LoadRecords, Lines
  <2> HIDE DEF f
  <2>3. Stored' = Stored
    BY <1>0, <1>4, <2>1, <2>2, HeadMoves
  <2> QED BY <1>1, <1>3, <2>1, <2>3 DEF Kept
<1>6. CASE RotateRename
  <2>1. /\ writer = "idle" /\ writer' = "compress" /\ tail' = "clean" /\ old = NoFile
        /\ old' = active /\ active' = <<>> /\ UNCHANGED <<queue, zst>> /\ NeedsRotate
    BY <1>1, <1>6 DEF RotateRename
  <2>2. Len(active) = FileCap
    BY <1>0, <2>1, HistoryLogAssumption DEF NeedsRotate, TypeOK
  <2>3. Stored = (f \o active) \o queue
    BY <2>1 DEF Stored, LoadRecords, Lines
  <2>4. active # NoFile
    BY <1>0, HistoryLogAssumption DEF Line
  <2>5. CASE zst # NoFile
    <3>1. Stored' = (zst \o active) \o queue
      BY <2>1, <2>5 DEF Stored
    <3> QED BY <1>3, <2>1, <2>2, <2>3, <2>5, <3>1 DEF Kept
  <2>6. CASE zst = NoFile
    <3>1. Stored' = (active \o <<>>) \o queue
      BY <2>1, <2>4, <2>6 DEF Stored, LoadRecords, Lines
    <3>2. f = <<>>
      BY <2>1, <2>6 DEF Lines
    <3>3. active \o <<>> = active /\ <<>> \o active = active
      BY <1>0
    <3> QED BY <1>3, <2>1, <2>2, <2>3, <3>1, <3>2, <3>3 DEF Kept
  <2> QED BY <2>5, <2>6
<1>7. CASE RotateCompress
  <2>1. /\ writer = "compress" /\ zst' = old /\ writer' = "remove" /\ tail' = "clean"
        /\ UNCHANGED <<queue, active, old>> /\ old # NoFile /\ active = <<>>
    BY <1>0, <1>1, <1>7 DEF RotateCompress, RotationSteps
  <2>2. old \in Seq(Line) /\ old \o <<>> = old /\ Len(old) = FileCap
    BY <1>0, <1>1, <2>1
  <2>3. Stored' = (old \o <<>>) \o queue
    BY <2>1 DEF Stored, LoadRecords
  <2>4. Kept
    BY <2>1 DEF Kept
  <2>5. CASE zst # NoFile
    <3>1. Stored = (zst \o old) \o queue
      BY <2>1, <2>5 DEF Stored
    <3>2. zst \in Seq(Line) /\ (zst \o old) \o queue = zst \o (old \o queue) /\ old \o queue \in Seq(Line)
      BY <1>0, <2>2, <2>5
    <3>3. IsEndOf(old \o queue, issued)
      BY <1>0, <1>1, <3>1, <3>2, EndOfEnd
    <3>4. Stored' = old \o queue /\ Len(old \o queue) >= MaxHistoryLines
      BY <1>0, <2>2, <2>3, HistoryLogAssumption
    <3> QED BY <1>2, <2>4, <3>3, <3>4 DEF FilesInv, Kept, IsEndOf
  <2>6. CASE zst = NoFile
    <3>1. Stored = (old \o <<>>) \o queue
      BY <2>1, <2>6 DEF Stored, LoadRecords, Lines
    <3> QED BY <1>3, <2>3, <2>4, <3>1
  <2> QED BY <2>5, <2>6
<1>8. CASE RotateRemove
  <2>1. /\ writer = "remove" /\ old' = NoFile /\ writer' = "reopen" /\ tail' = "clean"
        /\ UNCHANGED <<queue, active, zst>> /\ zst # NoFile
    BY <1>0, <1>1, <1>8 DEF RotateRemove, LoseRecord, RotationSteps
  <2>2. Stored' = Stored
    BY <2>1 DEF Stored, LoadRecords
  <2> QED BY <1>3, <2>1, <2>2 DEF Kept
<1>9. CASE RotateReopen
  <2>1. /\ writer = "reopen" /\ UNCHANGED <<old, zst>> /\ queue # <<>> /\ queue' = Tail(queue)
        /\ writer' = "idle" /\ active = <<>> /\ active' = <<Head(queue)>> /\ tail' = "clean"
    BY <1>0, <1>1, <1>9 DEF RotateReopen, LoseRecord, RotationSteps
  <2>2. active' = Append(active, Head(queue))
    BY <2>1
  <2>3. Stored = (f \o active) \o queue /\ Stored' = (f \o Append(active, Head(queue))) \o Tail(queue)
    BY <2>1, <2>2 DEF Stored, LoadRecords, Lines
  <2> HIDE DEF f
  <2>4. Stored' = Stored
    BY <1>0, <1>4, <2>1, <2>3, HeadMoves
  <2> QED BY <1>1, <1>3, <2>1, <2>4 DEF Kept
<1>10. CASE SyncTick \/ Close \/ Boot
  <2>1. UNCHANGED <<writer, old, zst, active, queue, tail>>
    BY <1>10 DEF SyncTick, Close, Boot, diskVars
  <2>2. Stored' = Stored
    BY <2>1 DEF Stored, LoadRecords, Lines
  <2> QED BY <1>1, <1>3, <2>1, <2>2 DEF Kept
<1>11. CASE Exit \/ Kill
  <2>1. queue = <<>> /\ writer = "idle"
    BY <1>0, <1>11, Zenon DEF Exit, Kill, Halt
  <2>2. UNCHANGED <<old, zst, active, tail>> /\ queue' = <<>> /\ writer' = "idle"
    BY <1>11 DEF Exit, Kill, Halt, diskVars
  <2>3. Stored' = Stored
    BY <2>1, <2>2 DEF Stored, LoadRecords, Lines
  <2> QED BY <1>1, <1>3, <2>1, <2>2, <2>3 DEF Kept
<1>12. ~PowerLoss /\ ~WriteFails /\ ~RotateAborts
  BY <1>0, Zenon DEF PowerLoss, WriteFails, RotateAborts, Halt, LoseRecord
<1> QED BY <1>5, <1>6, <1>7, <1>8, <1>9, <1>10, <1>11, <1>12 DEF Next

(* A boot without a loss brings the window and the count back. *)
LEMMA BootIsSilent ==
  ASSUME RefInv, SilentInv, Lossless, Boot PROVE WindowInv'
<1>0. /\ TypeOK /\ RotationSteps /\ issued \in Seq(Line) /\ MaxHistoryLines \in Nat \ {0}
      /\ queue = <<>> /\ writer = "idle"
  BY HistoryLogAssumption DEF RefInv, LogInv, TypeOK, Boot, RotationSteps
<1>1. LoadRecords \in Seq(Line) /\ InSeqOrder(LoadRecords)
  BY <1>0, LoadRecordsType, LoadedInOrder DEF RefInv
<1>2. Stored = LoadRecords
  <2>1. Stored = LoadRecords \o <<>>
    BY <1>0 DEF Stored
  <2> QED BY <1>1, <2>1
<1>3. /\ IsEndOf(LoadRecords, issued)
      /\ Len(LoadRecords) = Len(issued) \/ Len(LoadRecords) >= MaxHistoryLines
  BY <1>2 DEF SilentInv, FilesInv
<1>4. history' = LastLines(issued, MaxHistoryLines)
  BY <1>0, <1>1, <1>3, EndHasWindow DEF Boot
<1>5. seq' = Len(issued)
  <2>1. seq' = IF LoadRecords = <<>> THEN 0 ELSE LoadRecords[Len(LoadRecords)].seq
    BY <1>1, LastSeqIsLast DEF Boot, BootSeq
  <2>2. CASE LoadRecords = <<>>
    BY <1>0, <1>3, <2>1, <2>2
  <2>3. CASE LoadRecords # <<>>
    <3> DEFINE n == Len(LoadRecords)
    <3>1. n \in 1 .. n /\ n \in Nat /\ Len(issued) \in Nat /\ n <= Len(issued)
          /\ n + (Len(issued) - n) = Len(issued)
      BY <1>0, <1>1, <1>3, <2>3 DEF IsEndOf
    <3>2. LoadRecords[n] = issued[Len(issued)]
      BY <1>3, <3>1 DEF IsEndOf
    <3>3. Len(issued) \in DOMAIN issued
      BY <1>0, <3>1
    <3>4. issued[Len(issued)].seq = Len(issued)
      BY <3>3 DEF SilentInv, ChainUnbroken
    <3> QED BY <2>1, <2>3, <3>2, <3>4
  <2> QED BY <2>2, <2>3
<1> QED BY <1>4, <1>5 DEF WindowInv, LastLines, Boot, ghosts

LEMMA SilentStep ==
  ASSUME RefInv, RefInv', SilentInv, MaxHistoryLines <= FileCap, [Next]_vars
  PROVE  SilentInv'
<1>1. CASE ~Lossless'
  BY <1>1 DEF SilentInv, FilesInv, WindowInv, TipInv, ChainUnbroken
<1>2. CASE Lossless'
  <2>0. Lossless /\ ~lost' /\ ~forgot' /\ TypeOK /\ RotationSteps /\ issued \in Seq(Line)
    BY <1>2, StillLossless DEF Lossless, RefInv, LogInv, TypeOK
  <2>1. CASE LinkAndStore
    <3> DEFINE x == ChainedLine(Len(issued) + 1, seq + 1, Resumed.tip, Resumed.height + 1)
    <3>1. x \in Line /\ x.seq = seq + 1 /\ Chained(x)
      <4>1. Resumed.tip \in Nat /\ Resumed.height \in Nat /\ seq \in Nat /\ Len(issued) \in Nat
        BY <2>0, ResumedType DEF TypeOK
      <4> QED BY <4>1 DEF ChainedLine, Line, Chained
    <3>2. /\ seq' = x.seq /\ EnqueueWire(x) /\ CanStore /\ history' = AppendMessage(history, x)
          /\ issued' = Append(issued, x) /\ UNCHANGED <<phase, writer, diskVars>>
          /\ tip' = Hash(x) /\ height' = x.height
      BY <2>1 DEF LinkAndStore
    <3>3. \A i \in DOMAIN issued : NewestChained(issued, i) => Extends(x, issued[i])
      BY <2>0, <2>1, ResumedIsNewest DEF Extends, ChainedLine
    <3> HIDE DEF x
    <3>4. FilesInv' /\ WindowInv' /\ ChainUnbroken'
      BY <2>0, <3>1, <3>2, <3>3, StoreStaysSilent
    <3>5. TipInv'
      <4>1. ASSUME NEW i \in DOMAIN issued', NewestChained(issued', i) PROVE issued'[i] = x
        <5>1. /\ DOMAIN issued' = 1 .. Len(issued) + 1 /\ issued'[Len(issued) + 1] = x
              /\ Len(issued) \in Nat
          BY <2>0, <3>1, <3>2
        <5>2. i = Len(issued) + 1
          BY <3>1, <4>1, <5>1 DEF NewestChained
        <5> QED BY <5>1, <5>2
      <4> QED BY <3>2, <4>1 DEF TipInv, NewestChained
    <3> QED BY <3>4, <3>5 DEF SilentInv
  <2>2. CASE StoreSystem
    <3> DEFINE x == SystemLine(Len(issued) + 1, seq + 1)
    <3>1. x \in Line /\ x.seq = seq + 1 /\ ~Chained(x)
      BY <2>0 DEF SystemLine, Line, TypeOK, Genesis, Chained
    <3>2. /\ seq' = x.seq /\ EnqueueWire(x) /\ CanStore /\ history' = AppendMessage(history, x)
          /\ issued' = Append(issued, x) /\ UNCHANGED <<phase, writer, diskVars>>
          /\ UNCHANGED <<tip, height, ready>>
      BY <2>2 DEF StoreSystem
    <3> HIDE DEF x
    <3>3. FilesInv' /\ WindowInv' /\ ChainUnbroken'
      BY <2>0, <3>1, <3>2, StoreStaysSilent
    <3>4. TipInv'
      <4>1. /\ DOMAIN issued' = 1 .. Len(issued) + 1 /\ issued'[Len(issued) + 1] = x
            /\ Len(issued) \in Nat /\ DOMAIN issued = 1 .. Len(issued)
            /\ \A j \in DOMAIN issued : issued'[j] = issued[j]
        BY <2>0, <3>1, <3>2
      <4>2. ASSUME NEW i \in DOMAIN issued', NewestChained(issued', i)
            PROVE  i \in DOMAIN issued /\ NewestChained(issued, i) /\ issued'[i] = issued[i]
        <5>1. i \in DOMAIN issued
          BY <3>1, <4>1, <4>2 DEF NewestChained
        <5> QED BY <4>1, <4>2, <5>1 DEF NewestChained
      <4>3. ASSUME phase # "down", ready, NEW i \in DOMAIN issued', NewestChained(issued', i)
            PROVE  tip = Hash(issued'[i]) /\ height = issued'[i].height
        BY <2>0, <4>2, <4>3 DEF SilentInv, TipInv
      <4> QED BY <3>2, <4>3 DEF TipInv, NewestChained
    <3> QED BY <3>3, <3>4 DEF SilentInv
  <2>3. CASE Next /\ ~LinkAndStore /\ ~StoreSystem
    <3>1. FilesInv'
      BY <1>2, <2>0, <2>3, FilesStaySilent
    <3>2. issued' = issued
      BY <2>3 DEF Next, WriteRecord, WriteFails, RotateRename, RotateAborts, RotateCompress,
         RotateRemove, RotateReopen, SyncTick, Close, Exit, Kill, PowerLoss, Boot, ghosts
    <3>3. ChainUnbroken'
      BY <2>0, <3>2 DEF SilentInv, ChainUnbroken
    <3>4. WindowInv' /\ TipInv'
      <4>1. CASE Boot
        <5>1. ~ready'
          BY <2>0, <4>1 DEF Boot, RotationSteps
        <5> QED BY <2>0, <4>1, <5>1, BootIsSilent DEF TipInv
      <4>2. CASE Exit \/ Kill \/ PowerLoss
        <5>1. phase' = "down"
          BY <4>2 DEF Exit, Kill, PowerLoss, Halt
        <5> QED BY <5>1 DEF WindowInv, TipInv
      <4>3. CASE ~(Boot \/ Exit \/ Kill \/ PowerLoss)
        <5>1. phase # "down" /\ UNCHANGED <<ready, tip, height, seq, history>>
          BY <2>3, <4>3 DEF Next, WriteRecord, WriteFails, RotateRename, RotateAborts,
             RotateCompress, RotateRemove, RotateReopen, SyncTick, Close, ramVars
        <5> QED BY <2>0, <3>2, <5>1 DEF SilentInv, WindowInv, TipInv, LastLines, NewestChained
      <4> QED BY <4>1, <4>2, <4>3
    <3> QED BY <3>1, <3>3, <3>4 DEF SilentInv
  <2>4. CASE UNCHANGED vars
    <3>1. UNCHANGED <<phase, ready, tip, height, seq, history, queue, writer, active, tail, old, zst,
                      issued, lost, forgot>>
      BY <2>4 DEF vars, ramVars, diskVars, ghosts
    <3>2. UNCHANGED Stored
      BY <3>1 DEF Stored, LoadRecords, Lines
    <3> QED BY <2>0, <3>1, <3>2 DEF SilentInv, FilesInv, WindowInv, TipInv, ChainUnbroken, Lossless,
                               IsEndOf, LastLines, NewestChained
  <2> QED BY <2>1, <2>2, <2>3, <2>4
<1> QED BY <1>1, <1>2

(* Before the first line there is nothing to lose. *)
LEMMA SilentInit == ASSUME Init PROVE SilentInv
<1>1. Stored = <<>> /\ issued = <<>> /\ history = <<>> /\ seq = 0 /\ ready = FALSE
      /\ tail = "clean" /\ old = NoFile /\ writer = "idle"
  BY DEF Init, Stored, LoadRecords, Lines
<1>2. LastLines(<<>>, MaxHistoryLines) = <<>>
  BY HistoryLogAssumption DEF LastLines
<1> QED BY <1>1, <1>2 DEF SilentInv, FilesInv, WindowInv, TipInv, ChainUnbroken, IsEndOf

(* A window that fits into one file, as the default limits have it, comes  *)
(* back whole from every restart that lost no record, and the chain and    *)
(* the numbers of all lines ever issued go on without a gap or a fork.     *)
THEOREM RestartAlwaysSilent ==
  ASSUME MaxHistoryLines <= FileCap PROVE Spec => []RestartIsSilent
<1>1. Init => SilentInv
  BY SilentInit
<1>2. RefInv /\ RefInv' /\ SilentInv /\ [Next]_vars => SilentInv'
  BY SilentStep
<1>3. SilentInv => RestartIsSilent
  BY DEF SilentInv, WindowInv, RestartIsSilent, WindowIsSuffix
<1> QED BY <1>1, <1>2, <1>3, RefInvariant, PTL DEF Spec

-----------------------------------------------------------------------------
(* Pages.  Entries of the index.                                           *)
Tiers == {Active, Raw, Archive}
Sample == [height : Nat, pos : Nat]
Gen == [tier : Tiers, samples : Seq(Sample), sinceSample : Nat]

(* Old to new: a tier stands before the ones that are newer.               *)
Downward(gens) == \A i, j \in DOMAIN gens : i < j => gens[i].tier > gens[j].tier

(* Least numbers: the order of the naturals as a relation.                 *)
Less == {ss \in Nat \X Nat : ss[1] < ss[2]}

LEMMA LessIsWellFounded == IsWellFoundedOn(Less, Nat)
<1>1. OpToRel(<, Nat) = Less
  BY Zenon DEF OpToRel, Less
<1> QED BY <1>1, NatLessThanWellFounded, Zenon

LEMMA LeastNumber == \A T \in SUBSET Nat : T # {} => \E m \in T : \A k \in T : m <= k
<1> SUFFICES ASSUME NEW T \in SUBSET Nat, T # {} PROVE \E m \in T : \A k \in T : m <= k
  OBVIOUS
<1>1. \E x \in T : \A y \in T : ~(<<y, x>> \in Less)
  BY LessIsWellFounded, WFMin, Zenon
<1>2. PICK m \in T : \A y \in T : ~(<<y, m>> \in Less)
  BY <1>1
<1>3. \A a, b \in Nat : a < b => <<a, b>> \in Less
  BY DEF Less
<1> HIDE DEF Less
<1>4. \A k \in T : ~(k < m)
  BY <1>2, <1>3
<1>5. \A k \in T : m <= k
  BY <1>4
<1> QED BY <1>5

(* The bodies of a loop of n rounds over S. *)
Loops(n, S) == [(1 .. n) \X S -> S]

(* A loop has a run, and what holds at its start and is kept by each round *)
(* holds at its end: both by the first round at which it would fail.       *)
LEMMA LoopRuns ==
  ASSUME NEW S, NEW e \in S, NEW n \in Nat, NEW F \in Loops(n, S)
  PROVE  \E g \in [0 .. n -> S] : g[0] = e /\ \A i \in 1 .. n : g[i] = F[<<i, g[i - 1]>>]
<1> USE DEF Loops
<1> DEFINE Runs(m, g) == g[0] = e /\ \A i \in 1 .. m : g[i] = F[<<i, g[i - 1]>>]
           Off == {m \in 0 .. n : ~ \E g \in [0 .. m -> S] : Runs(m, g)}
<1> SUFFICES ASSUME Off # {} PROVE FALSE
  OBVIOUS
<1>1. PICK m \in Off : \A k \in Off : m <= k
  <2> Off \in SUBSET Nat
    OBVIOUS
  <2> HIDE DEF Off
  <2> QED BY LeastNumber
<1>2. m \in 0 .. n
  BY <1>1, Zenon
<1>3. m # 0
  <2> DEFINE g == [i \in 0 .. 0 |-> e]
  <2>1. g \in [0 .. 0 -> S] /\ Runs(0, g)
    OBVIOUS
  <2> SUFFICES ASSUME m = 0 PROVE FALSE
    OBVIOUS
  <2> HIDE DEF g
  <2> QED BY <1>1, <2>1
<1>4. m - 1 \in 0 .. n /\ m - 1 \notin Off
  <2>1. m - 1 \in 0 .. n
    BY <1>2, <1>3
  <2>2. ~(m <= m - 1)
    BY <1>2
  <2> HIDE DEF Off
  <2> QED BY <1>1, <2>1, <2>2
<1>5. PICK g \in [0 .. m - 1 -> S] : Runs(m - 1, g)
  BY <1>4
<1> DEFINE h == [i \in 0 .. m |-> IF i = m THEN F[<<m, g[m - 1]>>] ELSE g[i]]
<1>6. m \in 1 .. n /\ m - 1 \in 0 .. m - 1 /\ g[m - 1] \in S
  BY <1>2, <1>3, <1>5
<1>7. h \in [0 .. m -> S]
  <2>1. <<m, g[m - 1]>> \in (1 .. n) \X S
    BY <1>6
  <2>2. F[<<m, g[m - 1]>>] \in S
    BY <2>1
  <2>3. ASSUME NEW i \in 0 .. m, i # m PROVE g[i] \in S
    <3>1. i \in 0 .. m - 1
      BY <1>6, <2>3
    <3> QED BY <1>5, <3>1
  <2> QED BY <2>2, <2>3
<1>8. Runs(m, h)
  <2>1. h[0] = e
    BY <1>5, <1>6
  <2>2. ASSUME NEW i \in 1 .. m PROVE h[i] = F[<<i, h[i - 1]>>]
    <3>1. h[i - 1] = g[i - 1]
      BY <1>6, <2>2
    <3>2. CASE i = m
      BY <3>1, <3>2, <1>6
    <3>3. CASE i # m
      <4>1. i \in 1 .. m - 1 /\ i \in 0 .. m
        BY <1>6, <3>3
      <4>2. g[i] = F[<<i, g[i - 1]>>]
        BY <1>5, <4>1
      <4> QED BY <3>1, <3>3, <4>1, <4>2
    <3> QED BY <3>2, <3>3
  <2> QED BY <2>1, <2>2
<1> HIDE DEF h
<1> QED BY <1>1, <1>7, <1>8

LEMMA CountUp ==
  ASSUME NEW n \in Nat, NEW T, 0 \in T, \A i \in 1 .. n : i - 1 \in T => i \in T
  PROVE  \A i \in 0 .. n : i \in T
<1> DEFINE Off == {i \in 0 .. n : i \notin T}
<1> SUFFICES ASSUME Off # {} PROVE FALSE
  OBVIOUS
<1>1. Off \in SUBSET Nat
  OBVIOUS
<1>2. PICK m \in Off : \A k \in Off : m <= k
  <2> HIDE DEF Off
  <2> QED BY <1>1, LeastNumber
<1>3. m \in 0 .. n /\ m \notin T
  BY <1>2, Zenon
<1>4. m # 0
  BY <1>3
<1>5. m \in 1 .. n /\ m - 1 \in 0 .. n /\ ~(m <= m - 1)
  BY <1>3, <1>4
<1>6. m - 1 \notin Off
  <2> HIDE DEF Off
  <2> QED BY <1>2, <1>5
<1>7. m - 1 \in T
  BY <1>5, <1>6
<1> QED BY <1>3, <1>5, <1>7

LEMMA AppendOccurs ==
  ASSUME NEW S, NEW s \in Seq(S), NEW x \in S
  PROVE  /\ Append(s, x) \in Seq(S)
         /\ \A y : Occurs(y, Append(s, x)) <=> Occurs(y, s) \/ y = x
<1>1. /\ Append(s, x) \in Seq(S) /\ Len(Append(s, x)) = Len(s) + 1 /\ Len(s) \in Nat
      /\ DOMAIN s = 1 .. Len(s) /\ DOMAIN Append(s, x) = 1 .. Len(s) + 1
      /\ \A i \in 1 .. Len(s) : Append(s, x)[i] = s[i]
      /\ Append(s, x)[Len(s) + 1] = x
  OBVIOUS
<1>2. ASSUME NEW y, Occurs(y, s) \/ y = x PROVE Occurs(y, Append(s, x))
  <2>1. CASE Occurs(y, s)
    <3>1. PICK i \in DOMAIN s : s[i] = y
      BY <2>1 DEF Occurs
    <3>2. i \in DOMAIN Append(s, x) /\ Append(s, x)[i] = y
      BY <1>1, <3>1
    <3> QED BY <3>2 DEF Occurs
  <2>2. CASE y = x
    <3>1. Len(s) + 1 \in DOMAIN Append(s, x)
      BY <1>1
    <3> QED BY <1>1, <2>2, <3>1 DEF Occurs
  <2> QED BY <1>2, <2>1, <2>2
<1>3. ASSUME NEW y, Occurs(y, Append(s, x)) PROVE Occurs(y, s) \/ y = x
  <2>1. PICK i \in DOMAIN Append(s, x) : Append(s, x)[i] = y
    BY <1>3 DEF Occurs
  <2>2. i \in DOMAIN s \/ i = Len(s) + 1
    BY <1>1
  <2> QED BY <1>1, <2>1, <2>2 DEF Occurs
<1> QED BY <1>1, <1>2, <1>3

LEMMA GenFields ==
  ASSUME NEW g \in Gen
  PROVE  g.tier \in {1, 2, 3} /\ g.samples \in Seq(Sample) /\ g.sinceSample \in Nat
BY DEF Gen, Tiers, Active, Raw, Archive

(* What GensOf keeps: the entries of those tiers, in their order.          *)
LEMMA GensOfIs ==
  ASSUME NEW gens \in Seq(Gen), NEW tiers
  PROVE  /\ GensOf(gens, tiers) \in Seq(Gen)
         /\ \A g : Occurs(g, GensOf(gens, tiers)) <=> Occurs(g, gens) /\ g.tier \in tiers
         /\ Downward(gens) => Downward(GensOf(gens, tiers))
<1> DEFINE n == Len(gens)
           Kept(f) == [i \in 0 .. n |->
                         IF i = 0 THEN <<>>
                         ELSE IF gens[i].tier \in tiers THEN Append(f[i - 1], gens[i])
                         ELSE f[i - 1]]
           kept == CHOOSE f : f = Kept(f)
<1>1. n \in Nat /\ DOMAIN gens = 1 .. n /\ \A i \in 1 .. n : gens[i] \in Gen
  OBVIOUS
<1>2. GensOf(gens, tiers) = kept[n]
  BY Zenon DEF GensOf
<1>3. \E f : f = Kept(f)
  <2> DEFINE F == [p \in (1 .. n) \X Seq(Gen) |->
                     IF gens[p[1]].tier \in tiers THEN Append(p[2], gens[p[1]]) ELSE p[2]]
  <2>1. F \in [(1 .. n) \X Seq(Gen) -> Seq(Gen)]
    <3>1. ASSUME NEW p \in (1 .. n) \X Seq(Gen) PROVE F[p] \in Seq(Gen)
      <4>1. p[1] \in 1 .. n /\ p[2] \in Seq(Gen)
        OBVIOUS
      <4> HIDE DEF n
      <4>2. Append(p[2], gens[p[1]]) \in Seq(Gen)
        BY <1>1, <4>1
      <4> QED BY <4>1, <4>2
    <3> QED BY <3>1
  <2> HIDE DEF F, n
  <2>2. <<>> \in Seq(Gen)
    OBVIOUS
  <2>3. PICK f \in [0 .. n -> Seq(Gen)] : f[0] = <<>> /\ \A i \in 1 .. n : f[i] = F[<<i, f[i - 1]>>]
    <3> DEFINE S == Seq(Gen)
               e == <<>>
    <3>1. F \in Loops(n, S) /\ e \in S
      BY <2>1, <2>2 DEF Loops
    <3> HIDE DEF S, e
    <3>2. \E f \in [0 .. n -> S] : f[0] = e /\ \A i \in 1 .. n : f[i] = F[<<i, f[i - 1]>>]
      BY <1>1, <3>1, LoopRuns, SMT
    <3> QED BY <3>2 DEF S, e
  <2>4. ASSUME NEW i \in 1 .. n
        PROVE  f[i] = IF gens[i].tier \in tiers THEN Append(f[i - 1], gens[i]) ELSE f[i - 1]
    <3>1. i - 1 \in 0 .. n
      BY <1>1
    <3>2. <<i, f[i - 1]>> \in (1 .. n) \X Seq(Gen)
      BY <2>3, <3>1
    <3> QED BY <2>3, <3>2 DEF F
  <2>5. ASSUME NEW i \in 0 .. n PROVE f[i] = Kept(f)[i]
    <3>1. CASE i = 0
      BY <2>3, <3>1
    <3>2. CASE i # 0
      <4>1. i \in 1 .. n
        BY <1>1, <3>2
      <4> QED BY <2>4, <4>1, <3>2
    <3> QED BY <3>1, <3>2
  <2>6. f = Kept(f)
    BY <2>3, <2>5
  <2> QED BY <2>6
<1>4. kept = Kept(kept)
  BY <1>3, Zenon
<1> HIDE DEF kept
<1>5. kept[0] = <<>>
  <2>1. 0 \in 0 .. n
    BY <1>1
  <2>2. kept[0] = Kept(kept)[0]
    BY <1>4, Zenon
  <2> QED BY <2>1, <2>2
<1>6. ASSUME NEW i \in 1 .. n
      PROVE  kept[i] = IF gens[i].tier \in tiers THEN Append(kept[i - 1], gens[i]) ELSE kept[i - 1]
  <2>1. i \in 0 .. n /\ i # 0
    BY <1>1
  <2>2. kept[i] = Kept(kept)[i]
    BY <1>4, Zenon
  <2> QED BY <2>1, <2>2
<1> HIDE DEF n, Kept
<1> DEFINE Of(i) == /\ kept[i] \in Seq(Gen)
                    /\ \A g : Occurs(g, kept[i]) <=> \E j \in 1 .. i : gens[j] = g /\ g.tier \in tiers
                    /\ Downward(gens) => Downward(kept[i])
           T == {i \in 0 .. n : Of(i)}
<1>7. Of(0)
  <2>1. kept[0] \in Seq(Gen) /\ DOMAIN kept[0] = {}
    BY <1>5
  <2>2. Downward(kept[0])
    BY <2>1 DEF Downward
  <2>3. \A g : ~Occurs(g, kept[0])
    BY <2>1 DEF Occurs
  <2>4. 1 .. 0 = {}
    OBVIOUS
  <2> QED BY <2>1, <2>2, <2>3, <2>4, Zenon
<1>8. ASSUME NEW i \in 1 .. n, Of(i - 1) PROVE Of(i)
  <2>1. i \in Nat /\ i - 1 \in Nat /\ 1 .. i = (1 .. i - 1) \cup {i} /\ gens[i] \in Gen
    BY <1>1
  <2>2. CASE gens[i].tier \in tiers
    <3>1. kept[i] = Append(kept[i - 1], gens[i])
      BY <1>6, <2>2
    <3>2. kept[i] \in Seq(Gen) /\ \A g : Occurs(g, kept[i]) <=> Occurs(g, kept[i - 1]) \/ g = gens[i]
      BY <1>8, <2>1, <3>1, AppendOccurs
    <3>3. \A g : Occurs(g, kept[i]) <=> \E j \in 1 .. i : gens[j] = g /\ g.tier \in tiers
      BY <1>8, <2>1, <2>2, <3>2, Zenon
    <3>4. ASSUME Downward(gens) PROVE Downward(kept[i])
      <4> DEFINE k == kept[i - 1]
      <4>1. Downward(k) /\ k \in Seq(Gen)
        BY <1>8, <3>4
      <4>2. ASSUME NEW a \in DOMAIN k PROVE k[a].tier > gens[i].tier
        <5>1. Occurs(k[a], k)
          BY <4>2 DEF Occurs
        <5>2. PICK j \in 1 .. i - 1 : gens[j] = k[a]
          BY <1>8, <5>1
        <5>3. j \in DOMAIN gens /\ i \in DOMAIN gens /\ j < i
          BY <1>1, <2>1
        <5> QED BY <3>4, <5>2, <5>3 DEF Downward
      <4> HIDE DEF k
      <4>3. /\ Len(k) \in Nat /\ DOMAIN k = 1 .. Len(k) /\ DOMAIN Append(k, gens[i]) = 1 .. Len(k) + 1
            /\ \A a \in 1 .. Len(k) : Append(k, gens[i])[a] = k[a]
            /\ Append(k, gens[i])[Len(k) + 1] = gens[i]
        BY <4>1, <2>1
      <4>4. ASSUME NEW a \in 1 .. Len(k) + 1, NEW b \in 1 .. Len(k) + 1, a < b
            PROVE  Append(k, gens[i])[a].tier > Append(k, gens[i])[b].tier
        <5>1. a \in 1 .. Len(k)
          BY <4>3, <4>4
        <5>2. CASE b = Len(k) + 1
          BY <4>2, <4>3, <5>1, <5>2
        <5>3. CASE b # Len(k) + 1
          <6>1. b \in 1 .. Len(k)
            BY <4>3, <5>3
          <6> QED BY <4>1, <4>3, <4>4, <5>1, <6>1 DEF Downward
        <5> QED BY <5>2, <5>3
      <4>5. Downward(Append(k, gens[i]))
        BY <4>3, <4>4 DEF Downward
      <4> QED BY <3>1, <4>5 DEF k
    <3> QED BY <3>2, <3>3, <3>4
  <2>3. CASE gens[i].tier \notin tiers
    <3>1. kept[i] = kept[i - 1]
      BY <1>6, <2>3
    <3>2. \A g : Occurs(g, kept[i]) <=> \E j \in 1 .. i : gens[j] = g /\ g.tier \in tiers
      BY <1>8, <2>1, <2>3, <3>1, Zenon
    <3> QED BY <1>8, <3>1, <3>2
  <2> QED BY <2>2, <2>3
<1>9. \A i \in 0 .. n : i \in T
  <2>1. 0 \in T
    BY <1>1, <1>7
  <2>2. ASSUME NEW i \in 1 .. n, i - 1 \in T PROVE i \in T
    <3>1. i \in 0 .. n
      BY <1>1
    <3>2. Of(i - 1)
      BY <2>2
    <3>3. Of(i)
      BY <1>8, <3>2
    <3> HIDE DEF Of
    <3> QED BY <3>1, <3>3
  <2> HIDE DEF T
  <2> QED BY <1>1, <2>1, <2>2, CountUp
<1>10. Of(n)
  <2>1. n \in T
    <3> HIDE DEF T
    <3> QED BY <1>1, <1>9
  <2> QED BY <2>1
<1>11. \A g : Occurs(g, gens) <=> \E j \in 1 .. n : gens[j] = g
  BY <1>1, Zenon DEF Occurs
<1> QED BY <1>2, <1>10, <1>11

(* A sample of the entry of a tier. *)
SampleOf(s, gens, t) == \E i \in DOMAIN gens : gens[i].tier = t /\ Occurs(s, gens[i].samples)

LEMMA GensOfTiers ==
  ASSUME NEW gens \in Seq(Gen), NEW tiers
  PROVE  /\ \A t : HasTier(GensOf(gens, tiers), t) <=> HasTier(gens, t) /\ t \in tiers
         /\ \A s, t : SampleOf(s, GensOf(gens, tiers), t) => SampleOf(s, gens, t)
<1> DEFINE r == GensOf(gens, tiers)
<1>1. \A g : Occurs(g, r) <=> Occurs(g, gens) /\ g.tier \in tiers
  BY GensOfIs
<1> HIDE DEF r
<1>2. \A q, t : HasTier(q, t) <=> \E g : Occurs(g, q) /\ g.tier = t
  BY Zenon DEF HasTier, Occurs
<1>3. \A q, s, t : SampleOf(s, q, t) <=> \E g : Occurs(g, q) /\ g.tier = t /\ Occurs(s, g.samples)
  BY Zenon DEF SampleOf, Occurs
<1>4. \A t : HasTier(r, t) <=> HasTier(gens, t) /\ t \in tiers
  BY <1>1, <1>2, Zenon
<1>5. \A s, t : SampleOf(s, r, t) => SampleOf(s, gens, t)
  BY <1>1, <1>3, Zenon
<1> QED BY <1>4, <1>5 DEF r

LEMMA NewGenIs ==
  ASSUME NEW t \in Tiers
  PROVE  NewGen(t) \in Gen /\ NewGen(t).tier = t /\ NewGen(t).samples = <<>>
BY DEF NewGen, Gen

LEMMA SampledIs ==
  ASSUME NEW g \in Gen, NEW h \in Nat, NEW pos \in Nat
  PROVE  /\ Sampled(g, h, pos) \in Gen /\ Sampled(g, h, pos).tier = g.tier
         /\ \A s : Occurs(s, Sampled(g, h, pos).samples) =>
                     Occurs(s, g.samples) \/ s = [height |-> h, pos |-> pos]
<1> DEFINE s0 == [height |-> h, pos |-> pos]
           more == IF g.sinceSample % Stride = 0 THEN Append(g.samples, s0) ELSE g.samples
<1>1. s0 \in Sample
  BY DEF Sample
<1>2. g.tier \in Tiers /\ g.samples \in Seq(Sample) /\ g.sinceSample \in Nat
  BY DEF Gen
<1> HIDE DEF s0
<1>3. /\ Append(g.samples, s0) \in Seq(Sample)
      /\ \A s : Occurs(s, Append(g.samples, s0)) => Occurs(s, g.samples) \/ s = s0
  BY <1>1, <1>2, AppendOccurs
<1>4. more \in Seq(Sample) /\ \A s : Occurs(s, more) => Occurs(s, g.samples) \/ s = s0
  BY <1>2, <1>3
<1>5. Sampled(g, h, pos) = [g EXCEPT !.samples = more, !.sinceSample = @ + 1]
  BY Zenon DEF Sampled, s0, more
<1> HIDE DEF more
<1>6. /\ Sampled(g, h, pos) \in Gen /\ Sampled(g, h, pos).tier = g.tier
      /\ Sampled(g, h, pos).samples = more
  <2>1. g = [tier |-> g.tier, samples |-> g.samples, sinceSample |-> g.sinceSample]
    BY DEF Gen
  <2>2. g.sinceSample + 1 \in Nat
    BY <1>2
  <2>3. Sampled(g, h, pos) = [tier |-> g.tier, samples |-> more, sinceSample |-> g.sinceSample + 1]
    BY <1>5, <2>1
  <2>4. Sampled(g, h, pos) \in Gen
    BY <1>2, <1>4, <2>2, <2>3 DEF Gen
  <2> QED BY <2>3, <2>4
<1> QED BY <1>4, <1>6 DEF s0

LEMMA IndexWroteIs ==
  ASSUME NEW gens \in Seq(Gen), Downward(gens), NEW h \in Nat, NEW pos \in Nat
  PROVE  LET r == IndexWrote(gens, h, pos) IN
         /\ r \in Seq(Gen) /\ Downward(r)
         /\ \A t : HasTier(r, t) <=> HasTier(gens, t) \/ t = Active
         /\ \A s, t : SampleOf(s, r, t) =>
              SampleOf(s, gens, t) \/ (t = Active /\ s = [height |-> h, pos |-> pos])
<1> DEFINE n == Len(gens)
           open == IF n > 0 /\ gens[n].tier = Active THEN gens ELSE Append(gens, NewGen(Active))
           m == Len(open)
           r == [open EXCEPT ![m] = Sampled(@, h, pos)]
<1>1. n \in Nat /\ DOMAIN gens = 1 .. n /\ \A i \in 1 .. n : gens[i] \in Gen
  OBVIOUS
<1>2. NewGen(Active) \in Gen /\ NewGen(Active).tier = 1 /\ NewGen(Active).samples = <<>>
  BY NewGenIs DEF Tiers, Active
<1>3. /\ open \in Seq(Gen) /\ Downward(open) /\ m \in Nat \ {0} /\ open[m].tier = Active
      /\ \A t : HasTier(open, t) <=> HasTier(gens, t) \/ t = Active
      /\ \A s, t : SampleOf(s, open, t) => SampleOf(s, gens, t)
  <2>1. CASE n > 0 /\ gens[n].tier = Active
    <3>1. HasTier(gens, Active)
      BY <1>1, <2>1 DEF HasTier
    <3> QED BY <1>1, <2>1, <3>1
  <2>2. CASE ~(n > 0 /\ gens[n].tier = Active)
    <3> DEFINE a == Append(gens, NewGen(Active))
    <3>1. /\ a \in Seq(Gen) /\ Len(a) = n + 1 /\ DOMAIN a = 1 .. n + 1
          /\ \A i \in 1 .. n : a[i] = gens[i]
          /\ a[n + 1] = NewGen(Active)
      BY <1>1, <1>2
    <3>2. open = a
      BY <2>2
    <3> HIDE DEF open, a, n
    <3>3. \A i \in 1 .. n : gens[i].tier > 1
      <4> SUFFICES ASSUME NEW i \in 1 .. n PROVE gens[i].tier > 1
        OBVIOUS
      <4>1. n \in 1 .. n /\ gens[n].tier # 1
        BY <1>1, <2>2 DEF Active
      <4>2. gens[i].tier \in {1, 2, 3} /\ gens[n].tier \in {1, 2, 3}
        BY <1>1, <4>1, GenFields
      <4>3. i = n \/ i < n
        BY <1>1
      <4>4. i < n => gens[i].tier > gens[n].tier
        BY <1>1, <4>1 DEF Downward
      <4> QED BY <4>1, <4>2, <4>3, <4>4
    <3>4. Downward(a)
      <4> SUFFICES ASSUME NEW i \in 1 .. n + 1, NEW j \in 1 .. n + 1, i < j
                   PROVE  a[i].tier > a[j].tier
        BY <3>1 DEF Downward
      <4>1. i \in 1 .. n
        BY <1>1
      <4>2. CASE j = n + 1
        BY <1>2, <3>1, <3>3, <4>1, <4>2
      <4>3. CASE j # n + 1
        <5>1. j \in 1 .. n
          BY <1>1, <4>3
        <5> QED BY <1>1, <3>1, <4>1, <5>1 DEF Downward
      <4> QED BY <4>2, <4>3
    <3>5. m = n + 1 /\ m \in Nat \ {0} /\ open[m].tier = Active
      <4>1. m = n + 1
        BY <3>1, <3>2
      <4> HIDE DEF m
      <4> QED BY <1>1, <1>2, <3>1, <3>2, <4>1 DEF Active
    <3>6. ASSUME NEW t PROVE HasTier(a, t) <=> HasTier(gens, t) \/ t = Active
      <4>1. ASSUME HasTier(a, t) PROVE HasTier(gens, t) \/ t = Active
        <5>1. PICK i \in 1 .. n + 1 : a[i].tier = t
          BY <3>1, <4>1 DEF HasTier
        <5>2. i \in 1 .. n \/ i = n + 1
          BY <1>1
        <5> QED BY <1>1, <1>2, <3>1, <5>1, <5>2 DEF HasTier, Active
      <4>2. ASSUME HasTier(gens, t) PROVE HasTier(a, t)
        <5>1. PICK i \in 1 .. n : gens[i].tier = t
          BY <1>1, <4>2 DEF HasTier
        <5>2. i \in 1 .. n + 1
          BY <1>1
        <5> QED BY <3>1, <5>1, <5>2 DEF HasTier
      <4>3. HasTier(a, Active)
        <5>1. n + 1 \in 1 .. n + 1
          BY <1>1
        <5> QED BY <1>2, <3>1, <5>1 DEF HasTier, Active
      <4> QED BY <4>1, <4>2, <4>3
    <3>7. ASSUME NEW s, NEW t, SampleOf(s, a, t) PROVE SampleOf(s, gens, t)
      <4>1. PICK i \in 1 .. n + 1 : a[i].tier = t /\ Occurs(s, a[i].samples)
        BY <3>1, <3>7 DEF SampleOf
      <4>2. i # n + 1
        <5>1. ~Occurs(s, <<>>)
          BY DEF Occurs
        <5> QED BY <1>2, <3>1, <4>1, <5>1
      <4>3. i \in 1 .. n
        BY <1>1, <4>2
      <4> QED BY <1>1, <3>1, <4>1, <4>3 DEF SampleOf
    <3> QED BY <3>1, <3>2, <3>4, <3>5, <3>6, <3>7
  <2> QED BY <2>1, <2>2
<1>4. IndexWrote(gens, h, pos) = r
  BY Zenon DEF IndexWrote
<1> HIDE DEF open, n
<1>5. m \in DOMAIN open /\ DOMAIN open = 1 .. m /\ open[m] \in Gen
  BY <1>3
<1>6. /\ Sampled(open[m], h, pos) \in Gen /\ Sampled(open[m], h, pos).tier = open[m].tier
      /\ \A s : Occurs(s, Sampled(open[m], h, pos).samples) =>
                  Occurs(s, open[m].samples) \/ s = [height |-> h, pos |-> pos]
  BY <1>5, SampledIs
<1>7. /\ r \in Seq(Gen) /\ DOMAIN r = DOMAIN open
      /\ r[m] = Sampled(open[m], h, pos)
      /\ \A i \in DOMAIN open : i # m => r[i] = open[i]
  <2> HIDE DEF m
  <2>1. [open EXCEPT ![m] = Sampled(@, h, pos)] \in Seq(Gen)
    BY <1>3, <1>5, <1>6
  <2> QED BY <1>3, <1>5, <1>6, <2>1
<1> HIDE DEF r, m
<1>8. \A i \in DOMAIN open : r[i].tier = open[i].tier
  BY <1>6, <1>7
<1>9. Downward(r)
  BY <1>3, <1>7, <1>8 DEF Downward
<1>10. \A t : HasTier(r, t) <=> HasTier(open, t)
  BY <1>7, <1>8 DEF HasTier
<1>11. ASSUME NEW s, NEW t, SampleOf(s, r, t)
       PROVE  SampleOf(s, gens, t) \/ (t = Active /\ s = [height |-> h, pos |-> pos])
  <2>1. PICK i \in DOMAIN open : r[i].tier = t /\ Occurs(s, r[i].samples)
    BY <1>7, <1>11 DEF SampleOf
  <2>2. CASE i # m
    <3>1. SampleOf(s, open, t)
      BY <1>7, <2>1, <2>2 DEF SampleOf
    <3> QED BY <1>3, <3>1
  <2>3. CASE i = m
    <3>1. Occurs(s, open[m].samples) \/ s = [height |-> h, pos |-> pos]
      BY <1>6, <1>7, <2>1, <2>3
    <3>2. t = Active /\ open[m].tier = t
      BY <1>3, <1>8, <2>1, <2>3
    <3>3. Occurs(s, open[m].samples) => SampleOf(s, open, t)
      BY <1>5, <3>2 DEF SampleOf
    <3> QED BY <1>3, <3>1, <3>2, <3>3
  <2> QED BY <2>2, <2>3
<1> QED BY <1>3, <1>4, <1>7, <1>9, <1>10, <1>11

LEMMA RelabelGenIs ==
  ASSUME NEW gens \in Seq(Gen), Downward(gens), NEW from \in {1, 2}, ~HasTier(gens, from + 1)
  PROVE  LET to == from + 1
             r  == RelabelGen(gens, from, to) IN
         /\ r \in Seq(Gen) /\ Downward(r)
         /\ \A t : HasTier(r, t) <=>
              (HasTier(gens, t) /\ t # from) \/ (t = to /\ HasTier(gens, from))
         /\ \A s, t : SampleOf(s, r, t) =>
              \/ SampleOf(s, gens, t) /\ t # from
              \/ t = to /\ to # Archive /\ SampleOf(s, gens, from)
<1> DEFINE to == from + 1
           r == RelabelGen(gens, from, to)
           First(i) == gens[i].tier = from /\ \A j \in 1 .. i - 1 : gens[j].tier # from
           n == Len(gens)
<1>1. n \in Nat /\ DOMAIN gens = 1 .. n /\ \A i \in 1 .. n : gens[i] \in Gen /\ gens[i].tier \in {1, 2, 3}
  BY GenFields
<1> HIDE DEF n
<1>2. CASE ~HasTier(gens, from)
  <2>1. r = gens
    BY <1>2 DEF RelabelGen
  <2>2. \A s : ~SampleOf(s, gens, from) /\ \A t : SampleOf(s, gens, t) => HasTier(gens, t)
    BY <1>2 DEF SampleOf, HasTier
  <2> QED BY <1>2, <2>1, <2>2
<1>3. CASE HasTier(gens, from)
  <2>1. PICK i \in 1 .. n : gens[i].tier = from
    BY <1>1, <1>3 DEF HasTier
  <2>2. \A j \in 1 .. n : gens[j].tier = from => j = i
    <3> SUFFICES ASSUME NEW j \in 1 .. n, gens[j].tier = from, j # i PROVE FALSE
      OBVIOUS
    <3>1. j < i \/ i < j
      OBVIOUS
    <3>2. j \in DOMAIN gens /\ i \in DOMAIN gens
      BY <1>1
    <3> QED BY <2>1, <3>1, <3>2 DEF Downward
  <2>3. First(i) /\ \A j \in 1 .. n : First(j) => j = i
    <3>1. \A j \in 1 .. i - 1 : j \in 1 .. n /\ j # i
      BY <1>1
    <3> QED BY <2>1, <2>2, <3>1
  <2> DEFINE c == CHOOSE k \in DOMAIN gens : First(k)
  <2>4. c = i
    <3> HIDE DEF First
    <3>1. \E k \in DOMAIN gens : First(k)
      BY <1>1, <2>3
    <3>2. c \in DOMAIN gens /\ First(c)
      BY <3>1, Zenon
    <3> QED BY <1>1, <2>3, <3>2
  <2>5. r = [gens EXCEPT ![c].tier = to, ![c].samples = IF to = Archive THEN <<>> ELSE @]
    BY <1>3, Zenon DEF RelabelGen
  <2> HIDE DEF c, r
  <2> DEFINE new == [tier |-> to, samples |-> IF to = Archive THEN <<>> ELSE gens[i].samples,
                     sinceSample |-> gens[i].sinceSample]
  <2>6. gens[i] = [tier |-> gens[i].tier, samples |-> gens[i].samples,
                   sinceSample |-> gens[i].sinceSample] /\ gens[i].samples \in Seq(Sample)
        /\ gens[i].sinceSample \in Nat
    BY <1>1 DEF Gen
  <2>7. new \in Gen
    <3>1. to \in Tiers
      BY DEF Tiers, Active, Raw, Archive
    <3>2. (IF to = Archive THEN <<>> ELSE gens[i].samples) \in Seq(Sample)
      BY <2>6
    <3> HIDE DEF to
    <3> QED BY <2>6, <3>1, <3>2 DEF Gen
  <2>8. /\ r \in Seq(Gen) /\ DOMAIN r = 1 .. n /\ r[i] = new
        /\ \A j \in 1 .. n : j # i => r[j] = gens[j]
    <3>1. DOMAIN r = 1 .. n /\ \A j \in 1 .. n : j # i => r[j] = gens[j]
      BY <1>1, <2>4, <2>5
    <3>2. r[i] = [gens[i] EXCEPT !.tier = to, !.samples = IF to = Archive THEN <<>> ELSE @]
      BY <1>1, <2>4, <2>5
    <3>3. r[i] = new
      BY <2>6, <3>2
    <3>4. \A j \in 1 .. n : r[j] \in Gen
      BY <1>1, <2>7, <3>1, <3>3
    <3>5. r = [j \in 1 .. n |-> r[j]]
      BY <1>1, <2>5, <3>1
    <3>6. r \in Seq(Gen)
      <4> HIDE DEF new
      <4> QED BY <1>1, <3>4, <3>5
    <3> QED BY <3>1, <3>3, <3>6
  <2>9. new.tier = to /\ new.samples = IF to = Archive THEN <<>> ELSE gens[i].samples
    OBVIOUS
  <2> HIDE DEF new
  <2>10. \A j \in 1 .. n : gens[j].tier # to
    BY <1>1 DEF HasTier
  <2>11. Downward(r)
    <3> SUFFICES ASSUME NEW a \in 1 .. n, NEW b \in 1 .. n, a < b PROVE r[a].tier > r[b].tier
      BY <2>8 DEF Downward
    <3>1. gens[a].tier > gens[b].tier
      BY <1>1 DEF Downward
    <3>2. gens[a].tier \in {1, 2, 3} /\ gens[b].tier \in {1, 2, 3} /\ gens[a].tier # to /\ gens[b].tier # to
      BY <1>1, <2>10
    <3>3. CASE a = i
      <4>1. r[a].tier = from + 1 /\ r[b].tier = gens[b].tier /\ gens[a].tier = from
        BY <2>1, <2>8, <2>9, <3>3
      <4> QED BY <3>1, <3>2, <4>1
    <3>4. CASE b = i
      <4>1. r[b].tier = from + 1 /\ r[a].tier = gens[a].tier /\ gens[b].tier = from
        BY <2>1, <2>8, <2>9, <3>4
      <4> QED BY <3>1, <3>2, <4>1
    <3>5. CASE a # i /\ b # i
      BY <2>8, <3>1, <3>5
    <3> QED BY <3>3, <3>4, <3>5
  <2>12. ASSUME NEW t
         PROVE  HasTier(r, t) <=> (HasTier(gens, t) /\ t # from) \/ t = to
    <3>1. ASSUME HasTier(r, t) PROVE (HasTier(gens, t) /\ t # from) \/ t = to
      <4>1. PICK j \in 1 .. n : r[j].tier = t
        BY <2>8, <3>1 DEF HasTier
      <4>2. CASE j = i
        BY <2>8, <2>9, <4>1, <4>2
      <4>3. CASE j # i
        BY <1>1, <2>2, <2>8, <4>1, <4>3 DEF HasTier
      <4> QED BY <4>2, <4>3
    <3>2. ASSUME HasTier(gens, t), t # from PROVE HasTier(r, t)
      <4>1. PICK j \in 1 .. n : gens[j].tier = t
        BY <1>1, <3>2 DEF HasTier
      <4>2. j # i
        BY <2>1, <3>2, <4>1
      <4> QED BY <2>8, <4>1, <4>2 DEF HasTier
    <3>3. HasTier(r, to)
      BY <2>8, <2>9 DEF HasTier
    <3> QED BY <3>1, <3>2, <3>3
  <2>13. ASSUME NEW s, NEW t, SampleOf(s, r, t)
         PROVE  \/ SampleOf(s, gens, t) /\ t # from
                \/ t = to /\ to # Archive /\ SampleOf(s, gens, from)
    <3>1. PICK j \in 1 .. n : r[j].tier = t /\ Occurs(s, r[j].samples)
      BY <2>8, <2>13 DEF SampleOf
    <3>2. CASE j = i
      <4>1. ~Occurs(s, <<>>)
        BY DEF Occurs
      <4>2. t = to /\ to # Archive /\ Occurs(s, gens[i].samples)
        BY <2>8, <2>9, <3>1, <3>2, <4>1
      <4> QED BY <1>1, <2>1, <4>2 DEF SampleOf
    <3>3. CASE j # i
      BY <1>1, <2>2, <2>8, <3>1, <3>3 DEF SampleOf
    <3> QED BY <3>2, <3>3
  <2> QED BY <1>3, <2>8, <2>11, <2>12, <2>13 DEF r
<1> QED BY <1>2, <1>3

(* The index after the rename, and after the compression. *)
LEMMA IndexRenamedIs ==
  ASSUME idx \in Seq(Gen), Downward(idx)
  PROVE  /\ IndexRenamed \in Seq(Gen) /\ Downward(IndexRenamed)
         /\ \A t : HasTier(IndexRenamed, t) <=> (HasTier(idx, t) /\ t = Archive) \/ t = Raw
         /\ \A s, t : SampleOf(s, IndexRenamed, t) =>
              \/ t = Archive /\ SampleOf(s, idx, Archive)
              \/ t = Raw /\ SampleOf(s, idx, Active)
<1> DEFINE kept == DropGen(idx, Raw)
<1>1. /\ kept \in Seq(Gen) /\ Downward(kept)
      /\ \A t : HasTier(kept, t) <=> HasTier(idx, t) /\ t \in {1, 3}
      /\ \A s, t : SampleOf(s, kept, t) => SampleOf(s, idx, t)
  <2>1. {Active, Raw, Archive} \ {Raw} = {1, 3}
    BY DEF Active, Raw, Archive
  <2> QED BY <2>1, GensOfIs, GensOfTiers DEF DropGen
<1>2. \A s, t : SampleOf(s, kept, t) => HasTier(kept, t)
  BY DEF SampleOf, HasTier
<1> HIDE DEF kept
<1>3. CASE HasTier(kept, Active)
  <2>1. IndexRenamed = RelabelGen(kept, Active, Raw)
    BY <1>3, Zenon DEF IndexRenamed, kept
  <2>2. ~HasTier(kept, 2)
    BY <1>1
  <2> DEFINE r == RelabelGen(kept, 1, 2)
  <2>3. /\ r \in Seq(Gen) /\ Downward(r)
        /\ \A t : HasTier(r, t) <=>
              (HasTier(kept, t) /\ t # 1) \/ (t = 2 /\ HasTier(kept, 1))
        /\ \A s, t : SampleOf(s, r, t) =>
              \/ SampleOf(s, kept, t) /\ t # 1
              \/ t = 2 /\ SampleOf(s, kept, 1)
    <3>1. 1 \in {1, 2} /\ 1 + 1 = 2
      OBVIOUS
    <3> QED BY <1>1, <2>2, <3>1, RelabelGenIs
  <2>4. IndexRenamed = r
    BY <2>1 DEF Active, Raw
  <2> HIDE DEF r
  <2> QED BY <1>1, <1>2, <1>3, <2>3, <2>4 DEF Active, Raw, Archive
<1>4. CASE ~HasTier(kept, Active)
  <2> DEFINE n == Len(kept)
             a == Append(kept, NewGen(Raw))
  <2>1. IndexRenamed = a
    BY <1>4, Zenon DEF IndexRenamed, kept
  <2>2. NewGen(Raw) \in Gen /\ NewGen(Raw).tier = 2 /\ NewGen(Raw).samples = <<>>
    BY NewGenIs DEF Tiers, Raw
  <2>3. /\ a \in Seq(Gen) /\ n \in Nat /\ DOMAIN kept = 1 .. n /\ DOMAIN a = 1 .. n + 1
        /\ \A i \in 1 .. n : a[i] = kept[i]
        /\ a[n + 1] = NewGen(Raw)
    BY <1>1, <2>2
  <2> HIDE DEF a, n
  <2>4. \A i \in 1 .. n : kept[i].tier = 3
    <3> SUFFICES ASSUME NEW i \in 1 .. n PROVE kept[i].tier = 3
      OBVIOUS
    <3>1. HasTier(kept, kept[i].tier) /\ kept[i].tier # 1
      BY <1>4, <2>3 DEF HasTier, Active
    <3> QED BY <1>1, <3>1
  <2>5. Downward(a)
    <3> SUFFICES ASSUME NEW i \in 1 .. n + 1, NEW j \in 1 .. n + 1, i < j
                 PROVE  a[i].tier > a[j].tier
      BY <2>3 DEF Downward
    <3>1. i \in 1 .. n
      BY <2>3
    <3>2. CASE j = n + 1
      BY <2>2, <2>3, <2>4, <3>1, <3>2
    <3>3. CASE j # n + 1
      <4>1. j \in 1 .. n
        BY <2>3, <3>3
      <4> QED BY <1>1, <2>3, <3>1, <4>1 DEF Downward
    <3> QED BY <3>2, <3>3
  <2>6. ASSUME NEW t PROVE HasTier(a, t) <=> (HasTier(idx, t) /\ t = Archive) \/ t = Raw
    <3>1. ASSUME HasTier(a, t) PROVE (HasTier(idx, t) /\ t = Archive) \/ t = Raw
      <4>1. PICK i \in 1 .. n + 1 : a[i].tier = t
        BY <2>3, <3>1 DEF HasTier
      <4>2. CASE i = n + 1
        BY <2>2, <2>3, <4>1, <4>2 DEF Raw
      <4>3. CASE i # n + 1
        <5>1. i \in 1 .. n
          BY <2>3, <4>3
        <5>2. HasTier(kept, t)
          BY <2>3, <4>1, <5>1 DEF HasTier
        <5> QED BY <1>1, <2>3, <2>4, <4>1, <5>1, <5>2 DEF Archive
      <4> QED BY <4>2, <4>3
    <3>2. ASSUME HasTier(idx, t), t = Archive PROVE HasTier(a, t)
      <4>1. HasTier(kept, t)
        BY <1>1, <3>2 DEF Archive
      <4>2. PICK i \in 1 .. n : kept[i].tier = t
        BY <2>3, <4>1 DEF HasTier
      <4>3. i \in 1 .. n + 1
        BY <2>3
      <4> QED BY <2>3, <4>2, <4>3 DEF HasTier
    <3>3. HasTier(a, Raw)
      <4>1. n + 1 \in 1 .. n + 1
        BY <2>3
      <4> QED BY <2>2, <2>3, <4>1 DEF HasTier, Raw
    <3> QED BY <3>1, <3>2, <3>3
  <2>7. ASSUME NEW s, NEW t, SampleOf(s, a, t) PROVE t = Archive /\ SampleOf(s, idx, Archive)
    <3>1. PICK i \in 1 .. n + 1 : a[i].tier = t /\ Occurs(s, a[i].samples)
      BY <2>3, <2>7 DEF SampleOf
    <3>2. i # n + 1
      <4>1. ~Occurs(s, <<>>)
        BY DEF Occurs
      <4> QED BY <2>2, <2>3, <3>1, <4>1
    <3>3. i \in 1 .. n
      BY <2>3, <3>2
    <3>4. SampleOf(s, kept, t) /\ t = 3
      BY <2>3, <2>4, <3>1, <3>3 DEF SampleOf
    <3> QED BY <1>1, <3>4 DEF Archive
  <2> QED BY <2>1, <2>3, <2>5, <2>6, <2>7
<1> QED BY <1>3, <1>4

LEMMA IndexArchivedIs ==
  ASSUME idx \in Seq(Gen), Downward(idx)
  PROVE  /\ IndexArchived \in Seq(Gen) /\ Downward(IndexArchived)
         /\ \A t : HasTier(IndexArchived, t) <=>
              (HasTier(idx, t) /\ t = Active) \/ (t = Archive /\ HasTier(idx, Raw))
         /\ \A s, t : SampleOf(s, IndexArchived, t) => t = Active /\ SampleOf(s, idx, Active)
<1> DEFINE kept == DropGen(idx, Archive)
           r == RelabelGen(kept, 2, 3)
<1>1. /\ kept \in Seq(Gen) /\ Downward(kept)
      /\ \A t : HasTier(kept, t) <=> HasTier(idx, t) /\ t \in {1, 2}
      /\ \A s, t : SampleOf(s, kept, t) => SampleOf(s, idx, t)
  <2>1. {Active, Raw, Archive} \ {Archive} = {1, 2}
    BY DEF Active, Raw, Archive
  <2> QED BY <2>1, GensOfIs, GensOfTiers DEF DropGen
<1>2. \A s, t : SampleOf(s, kept, t) => HasTier(kept, t)
  BY DEF SampleOf, HasTier
<1>3. IndexArchived = r
  BY DEF IndexArchived, Raw, Archive
<1> HIDE DEF kept
<1>4. /\ r \in Seq(Gen) /\ Downward(r)
      /\ \A t : HasTier(r, t) <=>
            (HasTier(kept, t) /\ t # 2) \/ (t = 3 /\ HasTier(kept, 2))
      /\ \A s, t : SampleOf(s, r, t) => SampleOf(s, kept, t) /\ t # 2
  <2>1. ~HasTier(kept, 3)
    BY <1>1
  <2>2. 2 \in {1, 2} /\ 2 + 1 = 3 /\ Archive = 3
    BY DEF Archive
  <2> QED BY <1>1, <2>1, <2>2, RelabelGenIs
<1> HIDE DEF r
<1> QED BY <1>1, <1>2, <1>3, <1>4 DEF Active, Raw, Archive

LEMMA IndexLoadedIs ==
  ASSUME NEW tier \in Tiers, NEW lines \in Seq(Line)
  PROVE  LET r == IndexLoaded(tier, lines) IN
         /\ r \in Seq(Gen) /\ Len(r) \in {0, 1}
         /\ \A t : HasTier(r, t) <=> t = tier /\ lines # <<>>
         /\ \A s, t : SampleOf(s, r, t) =>
              /\ t = tier /\ t # Archive
              /\ \E i \in DOMAIN lines :
                   Chained(lines[i]) /\ s = [height |-> lines[i].height, pos |-> i - 1]
<1> DEFINE r == IndexLoaded(tier, lines)
           n == Len(lines)
           Load(f) == [i \in 0 .. n |->
                         IF i = 0 THEN NewGen(tier)
                         ELSE IF Chained(lines[i]) THEN Sampled(f[i - 1], lines[i].height, i - 1)
                         ELSE f[i - 1]]
           gen == CHOOSE f : f = Load(f)
           From(s, m) == \E i \in 1 .. m :
                           Chained(lines[i]) /\ s = [height |-> lines[i].height, pos |-> i - 1]
<1>1. n \in Nat /\ DOMAIN lines = 1 .. n /\ \A i \in 1 .. n : lines[i].height \in Nat
  BY LineInSeq
<1>2. r = IF lines = <<>> THEN <<>>
          ELSE IF tier = Archive THEN <<NewGen(Archive)>> ELSE <<gen[n]>>
  BY Zenon DEF IndexLoaded
<1>3. NewGen(tier) \in Gen /\ NewGen(tier).tier = tier /\ NewGen(tier).samples = <<>>
  BY NewGenIs
<1>4. \E f : f = Load(f)
  <2> DEFINE F == [p \in (1 .. n) \X Gen |->
                     IF Chained(lines[p[1]]) THEN Sampled(p[2], lines[p[1]].height, p[1] - 1) ELSE p[2]]
  <2>1. F \in [(1 .. n) \X Gen -> Gen]
    <3>1. ASSUME NEW p \in (1 .. n) \X Gen PROVE F[p] \in Gen
      <4>1. p[1] \in 1 .. n /\ p[2] \in Gen
        OBVIOUS
      <4> HIDE DEF n
      <4>2. p[1] - 1 \in Nat /\ lines[p[1]].height \in Nat
        BY <1>1, <4>1
      <4>3. Sampled(p[2], lines[p[1]].height, p[1] - 1) \in Gen
        BY <4>1, <4>2, SampledIs
      <4> QED BY <4>1, <4>3
    <3> QED BY <3>1
  <2> HIDE DEF F, n
  <2>3. PICK f \in [0 .. n -> Gen] : f[0] = NewGen(tier) /\ \A i \in 1 .. n : f[i] = F[<<i, f[i - 1]>>]
    <3> DEFINE S == Gen
               e == NewGen(tier)
    <3>1. F \in Loops(n, S) /\ e \in S
      BY <1>3, <2>1 DEF Loops
    <3> HIDE DEF S, e
    <3>2. \E f \in [0 .. n -> S] : f[0] = e /\ \A i \in 1 .. n : f[i] = F[<<i, f[i - 1]>>]
      BY <1>1, <3>1, LoopRuns, SMT
    <3> QED BY <3>2 DEF S, e
  <2>4. ASSUME NEW i \in 1 .. n
        PROVE  f[i] = IF Chained(lines[i]) THEN Sampled(f[i - 1], lines[i].height, i - 1) ELSE f[i - 1]
    <3>1. i - 1 \in 0 .. n
      BY <1>1
    <3>2. <<i, f[i - 1]>> \in (1 .. n) \X Gen
      BY <2>3, <3>1
    <3> QED BY <2>3, <3>2 DEF F
  <2>5. ASSUME NEW i \in 0 .. n PROVE f[i] = Load(f)[i]
    <3>1. CASE i = 0
      BY <2>3, <3>1
    <3>2. CASE i # 0
      <4>1. i \in 1 .. n
        BY <1>1, <3>2
      <4> QED BY <2>4, <4>1, <3>2
    <3> QED BY <3>1, <3>2
  <2>6. f = Load(f)
    BY <2>3, <2>5
  <2> QED BY <2>6
<1>5. gen = Load(gen)
  BY <1>4, Zenon
<1> HIDE DEF gen, r
<1>6. gen[0] = NewGen(tier)
  <2>1. 0 \in 0 .. n
    BY <1>1
  <2>2. gen[0] = Load(gen)[0]
    BY <1>5, Zenon
  <2> QED BY <2>1, <2>2
<1>7. ASSUME NEW i \in 1 .. n
      PROVE  gen[i] = IF Chained(lines[i]) THEN Sampled(gen[i - 1], lines[i].height, i - 1) ELSE gen[i - 1]
  <2>1. i \in 0 .. n /\ i # 0
    BY <1>1
  <2>2. gen[i] = Load(gen)[i]
    BY <1>5, Zenon
  <2> QED BY <2>1, <2>2
<1> HIDE DEF n, Load
<1> DEFINE Of(i) == /\ gen[i] \in Gen /\ gen[i].tier = tier
                    /\ \A s : Occurs(s, gen[i].samples) => From(s, i)
           T == {i \in 0 .. n : Of(i)}
<1>8. Of(0)
  <2>1. \A s : ~Occurs(s, <<>>)
    BY DEF Occurs
  <2> QED BY <1>3, <1>6, <2>1
<1>9. ASSUME NEW i \in 1 .. n, Of(i - 1) PROVE Of(i)
  <2>1. i \in 1 .. i /\ i - 1 \in Nat /\ (1 .. i - 1) \subseteq (1 .. i) /\ lines[i].height \in Nat
    BY <1>1
  <2>2. \A s : From(s, i - 1) => From(s, i)
    BY <2>1, Zenon
  <2>3. CASE Chained(lines[i])
    <3>1. gen[i] = Sampled(gen[i - 1], lines[i].height, i - 1)
      BY <1>7, <2>3
    <3>2. /\ gen[i] \in Gen /\ gen[i].tier = tier
          /\ \A s : Occurs(s, gen[i].samples) =>
               Occurs(s, gen[i - 1].samples) \/ s = [height |-> lines[i].height, pos |-> i - 1]
      <4>1. gen[i - 1] \in Gen /\ gen[i - 1].tier = tier
        BY <1>9
      <4> HIDE DEF From, Of
      <4> DEFINE g == gen[i - 1]
                 h == lines[i].height
                 p == i - 1
      <4>2. g \in Gen /\ h \in Nat /\ p \in Nat /\ gen[i] = Sampled(g, h, p) /\ g.tier = tier
        BY <2>1, <3>1, <4>1
      <4> HIDE DEF g, h, p
      <4>3. /\ gen[i] \in Gen /\ gen[i].tier = tier
            /\ \A s : Occurs(s, gen[i].samples) => Occurs(s, g.samples) \/ s = [height |-> h, pos |-> p]
        <5>1. g \in Gen /\ h \in Nat /\ p \in Nat
          BY <4>2
        <5>2. /\ Sampled(g, h, p) \in Gen /\ Sampled(g, h, p).tier = g.tier
              /\ \A s : Occurs(s, Sampled(g, h, p).samples) =>
                   Occurs(s, g.samples) \/ s = [height |-> h, pos |-> p]
          BY <5>1, SampledIs
        <5> QED BY <4>2, <5>2, Zenon
      <4> QED BY <4>3 DEF g, h, p
    <3>3. From([height |-> lines[i].height, pos |-> i - 1], i)
      BY <2>1, <2>3
    <3> HIDE DEF From
    <3>4. \A s : Occurs(s, gen[i].samples) => From(s, i)
      BY <1>9, <2>2, <3>2, <3>3
    <3> QED BY <3>2, <3>4
  <2>4. CASE ~Chained(lines[i])
    <3>1. gen[i] = gen[i - 1]
      BY <1>7, <2>4
    <3> HIDE DEF From
    <3> QED BY <1>9, <2>2, <3>1
  <2> QED BY <2>3, <2>4
<1>10. \A i \in 0 .. n : i \in T
  <2>1. 0 \in T
    BY <1>1, <1>8
  <2>2. ASSUME NEW i \in 1 .. n, i - 1 \in T PROVE i \in T
    <3>1. i \in 0 .. n
      BY <1>1
    <3>2. Of(i - 1)
      BY <2>2
    <3>3. Of(i)
      BY <1>9, <3>2
    <3> HIDE DEF Of
    <3> QED BY <3>1, <3>3
  <2> HIDE DEF T
  <2> QED BY <1>1, <2>1, <2>2, CountUp
<1>11. Of(n)
  <2>1. n \in T
    <3> HIDE DEF T
    <3> QED BY <1>1, <1>10
  <2> QED BY <2>1
<1> HIDE DEF Of
<1> USE DEF HasTier, SampleOf
<1>12. CASE lines = <<>>
  <2>1. r = <<>> /\ DOMAIN r = {} /\ Len(r) = 0 /\ r \in Seq(Gen)
    BY <1>2, <1>12
  <2>2. (\A t : ~HasTier(r, t)) /\ \A s, t : ~SampleOf(s, r, t)
    BY <2>1
  <2> QED BY <1>12, <2>1, <2>2 DEF r
<1>13. CASE lines # <<>> /\ tier = Archive
  <2>1. r = <<NewGen(Archive)>>
    BY <1>2, <1>13
  <2>2. r \in Seq(Gen) /\ Len(r) = 1 /\ DOMAIN r = {1} /\ r[1] = NewGen(tier)
    BY <1>3, <1>13, <2>1
  <2>3. \A s : ~Occurs(s, <<>>)
    BY DEF Occurs
  <2>4. \A t : HasTier(r, t) <=> t = tier
    BY <1>3, <2>2
  <2>5. \A s, t : ~SampleOf(s, r, t)
    BY <1>3, <2>2, <2>3
  <2> QED BY <1>13, <2>2, <2>4, <2>5 DEF r
<1>14. CASE lines # <<>> /\ tier # Archive
  <2>1. r = <<gen[n]>>
    BY <1>2, <1>14
  <2>2. r \in Seq(Gen) /\ Len(r) = 1 /\ DOMAIN r = {1} /\ r[1] = gen[n]
    BY <1>11, <2>1 DEF Of
  <2>3. \A t : HasTier(r, t) <=> t = tier
    BY <1>11, <2>2 DEF Of
  <2>4. \A s, t : SampleOf(s, r, t) => t = tier /\ From(s, n)
    BY <1>11, <2>2 DEF Of
  <2> QED BY <1>1, <1>14, <2>2, <2>3, <2>4 DEF r
<1> QED BY <1>12, <1>13, <1>14

LEMMA ConcatGens ==
  ASSUME NEW a \in Seq(Gen), NEW b \in Seq(Gen), Len(a) \in {0, 1}, Len(b) \in {0, 1},
         \A s, t : HasTier(a, s) /\ HasTier(b, t) => s > t
  PROVE  /\ a \o b \in Seq(Gen) /\ Downward(a \o b)
         /\ \A t : HasTier(a \o b, t) <=> HasTier(a, t) \/ HasTier(b, t)
         /\ \A s, t : SampleOf(s, a \o b, t) => SampleOf(s, a, t) \/ SampleOf(s, b, t)
<1> DEFINE c == a \o b
<1>1. /\ c \in Seq(Gen) /\ Len(c) = Len(a) + Len(b)
      /\ DOMAIN a = 1 .. Len(a) /\ DOMAIN b = 1 .. Len(b) /\ DOMAIN c = 1 .. Len(a) + Len(b)
      /\ \A i \in 1 .. Len(a) : c[i] = a[i]
      /\ \A i \in 1 .. Len(b) : c[Len(a) + i] = b[i]
  OBVIOUS
<1> HIDE DEF c
<1>2. \A i \in DOMAIN c : \/ i \in DOMAIN a /\ c[i] = a[i]
                          \/ i - Len(a) \in DOMAIN b /\ c[i] = b[i - Len(a)] /\ i > Len(a)
  <2> SUFFICES ASSUME NEW i \in DOMAIN c, i \notin DOMAIN a
               PROVE  i - Len(a) \in DOMAIN b /\ c[i] = b[i - Len(a)] /\ i > Len(a)
    BY <1>1
  <2>1. i - Len(a) \in 1 .. Len(b) /\ i > Len(a) /\ Len(a) + (i - Len(a)) = i
    BY <1>1
  <2> QED BY <1>1, <2>1
<1>3. \A i \in DOMAIN a : i \in DOMAIN c
  BY <1>1
<1>4. \A i \in DOMAIN b : Len(a) + i \in DOMAIN c
  BY <1>1
<1>5. Downward(c)
  <2> SUFFICES ASSUME NEW i \in DOMAIN c, NEW j \in DOMAIN c, i < j PROVE c[i].tier > c[j].tier
    BY DEF Downward
  <2>1. i = 1 /\ j = 2 /\ Len(a) = 1 /\ Len(b) = 1
    BY <1>1
  <2>2. c[1] = a[1] /\ c[2] = b[1] /\ 1 \in DOMAIN a /\ 1 \in DOMAIN b
    <3>1. c[Len(a) + 1] = b[1]
      BY <1>1, <2>1
    <3> QED BY <1>1, <2>1, <3>1
  <2>3. HasTier(a, a[1].tier) /\ HasTier(b, b[1].tier)
    BY <2>2 DEF HasTier
  <2> QED BY <2>1, <2>2, <2>3
<1>6. \A t : HasTier(c, t) <=> HasTier(a, t) \/ HasTier(b, t)
  BY <1>1, <1>2, <1>3, <1>4 DEF HasTier
<1>7. \A s, t : SampleOf(s, c, t) => SampleOf(s, a, t) \/ SampleOf(s, b, t)
  BY <1>2 DEF SampleOf
<1> QED BY <1>1, <1>5, <1>6, <1>7 DEF c

LEMMA BootIndexIs ==
  ASSUME TypeOK
  PROVE  /\ BootIndex \in Seq(Gen) /\ Downward(BootIndex)
         /\ HasTier(BootIndex, Active) <=> active # <<>>
         /\ HasTier(BootIndex, Raw) <=> zst = NoFile /\ Lines(old) # <<>>
         /\ HasTier(BootIndex, Archive) <=> Lines(zst) # <<>>
         /\ \A s, t : SampleOf(s, BootIndex, t) =>
              LET lines == IF t = Raw THEN Lines(old) ELSE active IN
              /\ t \in {Active, Raw} /\ HasTier(BootIndex, t)
              /\ \E i \in DOMAIN lines :
                   Chained(lines[i]) /\ s = [height |-> lines[i].height, pos |-> i - 1]
<1> DEFINE b == IndexLoaded(Active, active)
           z == IndexLoaded(Archive, zst)
           o == IndexLoaded(Raw, Lines(old))
<1>1. active \in Seq(Line) /\ Lines(old) \in Seq(Line) /\ Lines(zst) \in Seq(Line)
      /\ (zst # NoFile => zst \in Seq(Line) /\ Lines(zst) = zst)
      /\ (zst = NoFile => Lines(zst) = <<>>)
  BY DEF TypeOK, Lines
<1>2. Active \in Tiers /\ Raw \in Tiers /\ Archive \in Tiers
      /\ Active = 1 /\ Raw = 2 /\ Archive = 3
  BY DEF Tiers, Active, Raw, Archive
<1>3. /\ b \in Seq(Gen) /\ Len(b) \in {0, 1}
      /\ \A t : HasTier(b, t) <=> t = Active /\ active # <<>>
      /\ \A s, t : SampleOf(s, b, t) =>
           /\ t = Active
           /\ \E i \in DOMAIN active :
                Chained(active[i]) /\ s = [height |-> active[i].height, pos |-> i - 1]
  BY <1>1, <1>2, IndexLoadedIs
<1>4. \A g, s, t : SampleOf(s, g, t) => HasTier(g, t)
  BY DEF SampleOf, HasTier
<1>5. CASE zst # NoFile
  <2>1. BootIndex = z \o b
    BY <1>5 DEF BootIndex
  <2>2. /\ z \in Seq(Gen) /\ Len(z) \in {0, 1}
        /\ \A t : HasTier(z, t) <=> t = Archive /\ zst # <<>>
        /\ \A s, t : ~SampleOf(s, z, t)
    BY <1>1, <1>2, <1>5, IndexLoadedIs
  <2> HIDE DEF b, z
  <2>3. \A s, t : HasTier(z, s) /\ HasTier(b, t) => s > t
    BY <1>2, <1>3, <2>2
  <2>4. /\ z \o b \in Seq(Gen) /\ Downward(z \o b)
        /\ \A t : HasTier(z \o b, t) <=> HasTier(z, t) \/ HasTier(b, t)
        /\ \A s, t : SampleOf(s, z \o b, t) => SampleOf(s, z, t) \/ SampleOf(s, b, t)
    BY <1>3, <2>2, <2>3, ConcatGens
  <2> QED BY <1>1, <1>2, <1>3, <1>4, <1>5, <2>1, <2>2, <2>4
<1>6. CASE zst = NoFile
  <2>1. BootIndex = o \o b
    BY <1>6 DEF BootIndex
  <2>2. /\ o \in Seq(Gen) /\ Len(o) \in {0, 1}
        /\ \A t : HasTier(o, t) <=> t = Raw /\ Lines(old) # <<>>
        /\ \A s, t : SampleOf(s, o, t) =>
             /\ t = Raw
             /\ \E i \in DOMAIN Lines(old) :
                  Chained(Lines(old)[i]) /\ s = [height |-> Lines(old)[i].height, pos |-> i - 1]
    BY <1>1, <1>2, <1>6, IndexLoadedIs
  <2> HIDE DEF b, o
  <2>3. \A s, t : HasTier(o, s) /\ HasTier(b, t) => s > t
    BY <1>2, <1>3, <2>2
  <2>4. /\ o \o b \in Seq(Gen) /\ Downward(o \o b)
        /\ \A t : HasTier(o \o b, t) <=> HasTier(o, t) \/ HasTier(b, t)
        /\ \A s, t : SampleOf(s, o \o b, t) => SampleOf(s, o, t) \/ SampleOf(s, b, t)
    BY <1>3, <2>2, <2>3, ConcatGens
  <2> QED BY <1>1, <1>2, <1>3, <1>4, <1>6, <2>1, <2>2, <2>4
<1> QED BY <1>5, <1>6

-----------------------------------------------------------------------------
(* The steps of the log, as the pages see them: a line is stored, the      *)
(* active file or the queue moves on, a file takes another role, or the    *)
(* process stops or starts.                                                *)
Quiet ==
  \/ WriteRecord /\ IndexWritten(Head(queue), Len(Readable)) /\ UNCHANGED <<page, pages>>
  \/ (WriteFails \/ SyncTick \/ Close \/ RotateAborts) /\ UNCHANGED segVars
  \/ /\ RotateReopen
     /\ IF active' = active THEN UNCHANGED idx ELSE IndexWritten(Head(queue), 0)
     /\ UNCHANGED <<page, pages>>

(* The steps that move lines from one file to another.                     *)
Moves ==
  \/ RotateRename /\ idx' = IndexRenamed /\ Excused("rotated") /\ UNCHANGED pages
  \/ RotateCompress /\ Excused("rotated") /\ UNCHANGED <<idx, pages>>
  \/ RotateRemove /\ idx' = IndexArchived /\ Excused("rotated") /\ UNCHANGED pages

LEMMA LogSteps == ASSUME LogStep PROVE Store \/ Quiet \/ Moves \/ Stop \/ Start
BY DEF LogStep, Write, Rotate, Quiet, Moves

LEMMA PageStepsKeep == ASSUME PageStep PROVE UNCHANGED <<vars, idx>>
BY DEF PageStep, AskSegment, SnapshotIndex, ScanFile, MergeTemps, FeedRam, SendReplay

LEMMA SegStepIsStep == ASSUME [SegNext]_allVars PROVE [Next]_vars
<1>1. CASE LogStep
  <2>1. Next
    BY <1>1 DEF LogStep, Store, Write, Rotate, Stop, Start, Next
  <2> QED BY <2>1
<1>2. CASE PageStep
  BY <1>2, PageStepsKeep
<1>3. CASE UNCHANGED allVars
  BY <1>3 DEF allVars
<1> QED BY <1>1, <1>2, <1>3 DEF SegNext

(* A message of the queue enters the index.                                *)
Wrote ==
  /\ queue # <<>> /\ Chained(Head(queue))
  /\ idx' = IndexWrote(idx, Head(queue).height, Len(Readable))

LEMMA QuietStep ==
  ASSUME LogInv, Quiet
  PROVE  /\ UNCHANGED <<page, pages, ramVars, issued, forgot, old, zst>>
         /\ phase # "down" /\ phase' # "down" /\ writer' = "idle" /\ writer \in {"idle", "reopen"}
         /\ Readable' = Readable \/ (queue # <<>> /\ Readable' = Append(Readable, Head(queue)))
         /\ queue' = queue \/ (queue # <<>> /\ queue' = Tail(queue))
         /\ idx' = idx \/ Wrote
         /\ \A i \in DOMAIN active' :
              \/ Occurs(active'[i], active)
              \/ queue # <<>> /\ active'[i] = Head(queue) /\ (Chained(Head(queue)) => Wrote)
         /\ Readable \in Seq(Line)
<1> USE DEF ramVars, segVars
<1>1. active \in Seq(Line) /\ queue \in Seq(Line) /\ Readable \in Seq(Line)
      /\ \A i \in DOMAIN Readable : i \in DOMAIN active /\ Readable[i] = active[i]
      /\ tail \in {"clean", "fragment", "unterminated"}
  BY ReadableType DEF LogInv, TypeOK
<1>2. tail = "clean" => Readable = active
  BY DEF Readable
<1>3. \A i \in DOMAIN Readable : Occurs(Readable[i], active)
  BY <1>1 DEF Occurs
<1>4. \A i \in DOMAIN active : Occurs(active[i], active)
  BY DEF Occurs
<1>5. CASE WriteRecord /\ IndexWritten(Head(queue), Len(Readable)) /\ UNCHANGED <<page, pages>>
  <2>1. /\ UNCHANGED <<page, pages, ramVars, issued, forgot, old, zst>>
        /\ phase # "down" /\ phase' # "down" /\ writer' = "idle" /\ writer = "idle"
        /\ queue # <<>> /\ queue' = Tail(queue) /\ tail' = "clean"
        /\ active' = IF tail = "clean" THEN Append(active, Head(queue)) ELSE Readable
    BY <1>5 DEF WriteRecord, WriteLine
  <2>2. Readable' = active'
    BY <2>1 DEF Readable
  <2>3. idx' = idx \/ Wrote
    BY <1>5, <2>1 DEF IndexWritten, Wrote
  <2>4. Chained(Head(queue)) => Wrote
    BY <1>5, <2>1 DEF IndexWritten, Wrote
  <2>5. CASE tail = "clean"
    <3>1. Head(queue) \in Line
      BY <1>1, <2>1, TailType
    <3>2. active' = Append(active, Head(queue))
      BY <2>1, <2>5
    <3>3. \A y : Occurs(y, active') <=> Occurs(y, active) \/ y = Head(queue)
      BY <1>1, <3>1, <3>2, AppendOccurs
    <3>4. \A i \in DOMAIN active' : Occurs(active'[i], active')
      BY DEF Occurs
    <3>5. \A i \in DOMAIN active' :
              \/ Occurs(active'[i], active)
              \/ queue # <<>> /\ active'[i] = Head(queue) /\ (Chained(Head(queue)) => Wrote)
      BY <2>1, <2>4, <3>3, <3>4
    <3>6. Readable' = Append(Readable, Head(queue))
      BY <1>2, <2>2, <2>5, <3>2
    <3> QED BY <1>1, <2>1, <2>3, <3>5, <3>6
  <2>6. CASE tail # "clean"
    <3>1. active' = Readable
      BY <2>1, <2>6
    <3> QED BY <1>1, <1>3, <2>1, <2>2, <2>3, <3>1
  <2> QED BY <2>5, <2>6
<1>6. CASE (WriteFails \/ SyncTick \/ Close \/ RotateAborts) /\ UNCHANGED segVars
  <2>1. /\ UNCHANGED <<page, pages, ramVars, issued, forgot, old, zst, idx>>
        /\ phase # "down" /\ phase' # "down" /\ writer' = "idle" /\ writer = "idle"
        /\ queue' = queue \/ (queue # <<>> /\ queue' = Tail(queue))
        /\ ShortWrite \/ UNCHANGED <<active, tail>>
    BY <1>6 DEF WriteFails, SyncTick, Close, RotateAborts, LoseRecord, ghosts
  <2>2. CASE ShortWrite
    <3>1. active' = Readable /\ tail' = "fragment"
      BY <2>2 DEF ShortWrite
    <3>2. Readable' = Readable
      BY <3>1 DEF Readable
    <3> QED BY <1>1, <1>3, <2>1, <3>1, <3>2
  <2>3. CASE UNCHANGED <<active, tail>>
    <3>1. Readable' = Readable
      BY <2>3 DEF Readable
    <3> QED BY <1>1, <1>4, <2>1, <2>3, <3>1
  <2> QED BY <2>1, <2>2, <2>3
<1>7. CASE /\ RotateReopen
           /\ IF active' = active THEN UNCHANGED idx ELSE IndexWritten(Head(queue), 0)
           /\ UNCHANGED <<page, pages>>
  <2>1. /\ UNCHANGED <<page, pages, ramVars, issued, forgot, old, zst>>
        /\ phase # "down" /\ phase' # "down" /\ writer' = "idle" /\ writer = "reopen"
        /\ queue' = Tail(queue)
        /\ \/ active' = <<Head(queue)>> /\ tail' = tail
           \/ active' = active /\ tail' \in {"clean", "fragment", tail}
    BY <1>7 DEF RotateReopen, LoseRecord
  <2>2. active = <<>> /\ tail = "clean" /\ queue # <<>> /\ Readable = <<>>
    BY <1>2, <2>1 DEF LogInv, RotationSteps
  <2>3. Head(queue) \in Line
    BY <1>1, <2>2, TailType
  <2>4. CASE active' = <<Head(queue)>> /\ tail' = tail
    <3>1. Readable' = <<Head(queue)>> /\ active' # active
      BY <2>2, <2>4 DEF Readable
    <3>2. Readable' = Append(Readable, Head(queue))
      BY <2>2, <2>3, <3>1
    <3>3. idx' = IF Chained(Head(queue)) THEN IndexWrote(idx, Head(queue).height, 0) ELSE idx
      BY <1>7, <3>1 DEF IndexWritten
    <3>4. Len(Readable) = 0
      BY <2>2
    <3>5. idx' = idx \/ Wrote
      BY <2>2, <3>3, <3>4 DEF Wrote
    <3>6. Chained(Head(queue)) => Wrote
      BY <2>2, <3>3, <3>4 DEF Wrote
    <3>7. \A i \in DOMAIN active' : active'[i] = Head(queue)
      BY <2>3, <2>4
    <3> QED BY <1>1, <2>1, <2>2, <3>2, <3>5, <3>6, <3>7
  <2>5. CASE active' = active /\ tail' \in {"clean", "fragment", tail}
    <3>1. Readable' = Readable /\ idx' = idx
      BY <1>7, <2>2, <2>5 DEF Readable
    <3> QED BY <1>1, <1>4, <2>1, <2>2, <2>5, <3>1
  <2> QED BY <2>1, <2>4, <2>5
<1> QED BY <1>5, <1>6, <1>7 DEF Quiet

(* The index and the files: oldest first, one entry a tier, none for a     *)
(* file that rotate has moved away, and one for every file with messages.  *)
IdxInv ==
  /\ idx \in Seq(Gen) /\ Downward(idx)
  /\ phase = "down" => idx = <<>>
  /\ writer # "idle" => ~HasTier(idx, Active)
  /\ writer \in {"compress", "remove"} => HasTier(idx, Raw)
  /\ phase # "down" /\ writer # "remove" /\ Lines(zst) # <<>> => HasTier(idx, Archive)
  /\ phase # "down" /\ (\E i \in DOMAIN active : Chained(active[i])) => HasTier(idx, Active)

(* Every step keeps the index what the files are.                          *)
LEMMA IdxStep ==
  ASSUME LogInv, LogInv', IdxInv, [SegNext]_allVars PROVE IdxInv'
<1>0. Active = 1 /\ Raw = 2 /\ Archive = 3
  BY DEF Active, Raw, Archive
<1>1. CASE Store
  <2>1. UNCHANGED <<idx, phase, writer, diskVars>>
    BY <1>1 DEF Store, LinkAndStore, StoreSystem
  <2> QED BY <2>1 DEF IdxInv, diskVars, HasTier, Downward, Lines
<1>2. CASE Quiet
  <2>1. /\ zst' = zst /\ phase # "down" /\ phase' # "down" /\ writer' = "idle"
        /\ writer \in {"idle", "reopen"} /\ (idx' = idx \/ Wrote)
        /\ queue # <<>> => Head(queue).height \in Nat /\ Len(Readable) \in Nat
        /\ \A i \in DOMAIN active' :
              Occurs(active'[i], active) \/ ~Chained(active'[i]) \/ Wrote
    <3>1. queue # <<>> => Head(queue) \in Line
      BY TailType DEF LogInv, TypeOK
    <3>2. queue # <<>> => Head(queue).height \in Nat /\ Len(Readable) \in Nat
      BY <1>2, <3>1, QuietStep DEF Line
    <3> QED BY <1>2, <3>2, QuietStep
  <2>2. Wrote => /\ idx' \in Seq(Gen) /\ Downward(idx')
                 /\ \A t : HasTier(idx', t) <=> HasTier(idx, t) \/ t = Active
    <3> SUFFICES ASSUME Wrote
                 PROVE  /\ idx' \in Seq(Gen) /\ Downward(idx')
                        /\ \A t : HasTier(idx', t) <=> HasTier(idx, t) \/ t = Active
      OBVIOUS
    <3> DEFINE h == Head(queue).height
               p == Len(Readable)
    <3>1. h \in Nat /\ p \in Nat /\ idx' = IndexWrote(idx, h, p) /\ idx \in Seq(Gen) /\ Downward(idx)
      BY <2>1 DEF Wrote, IdxInv
    <3> HIDE DEF h, p
    <3> QED BY <3>1, IndexWroteIs
  <2>3. /\ idx' \in Seq(Gen) /\ Downward(idx')
        /\ \A t : HasTier(idx, t) => HasTier(idx', t)
    BY <2>1, <2>2 DEF IdxInv
  <2>4. Lines(zst)' # <<>> => HasTier(idx', Archive)
    <3>1. Lines(zst)' = Lines(zst) /\ writer # "remove"
      BY <2>1 DEF Lines
    <3> QED BY <2>1, <2>3, <3>1 DEF IdxInv
  <2>5. ASSUME NEW i \in DOMAIN active', Chained(active'[i]) PROVE HasTier(idx', Active)
    <3>1. CASE Wrote
      BY <2>2, <3>1
    <3>2. CASE Occurs(active'[i], active)
      <4>1. \E j \in DOMAIN active : Chained(active[j])
        BY <2>5, <3>2 DEF Occurs
      <4> QED BY <2>1, <2>3, <4>1 DEF IdxInv
    <3> QED BY <2>1, <2>5, <3>1, <3>2
  <2>6. Downward(idx)' <=> Downward(idx')
    BY DEF Downward
  <2> QED BY <2>1, <2>3, <2>4, <2>5 DEF IdxInv, HasTier, Downward, Chained
<1>3. CASE Moves
  <2>1. CASE RotateRename /\ idx' = IndexRenamed
    <3>1. /\ IndexRenamed \in Seq(Gen) /\ Downward(IndexRenamed)
          /\ \A t : HasTier(IndexRenamed, t) <=> (HasTier(idx, t) /\ t = Archive) \/ t = Raw
      BY IndexRenamedIs DEF IdxInv
    <3>2. /\ writer = "idle" /\ writer' = "compress" /\ phase # "down" /\ phase' # "down"
          /\ zst' = zst /\ active' = <<>>
      BY <2>1 DEF RotateRename
    <3>3. DOMAIN active' = {}
      BY <3>2
    <3>4. Lines(zst)' # <<>> => HasTier(idx', Archive)
      BY <2>1, <3>1, <3>2 DEF IdxInv, Lines
    <3>5. HasTier(idx', Raw) /\ ~HasTier(idx', Active)
      BY <1>0, <2>1, <3>1
    <3> QED BY <2>1, <3>1, <3>2, <3>3, <3>4, <3>5 DEF IdxInv, HasTier, Downward
  <2>2. CASE RotateCompress /\ UNCHANGED idx
    <3>1. /\ writer = "compress" /\ writer' \in {"remove", "reopen"} /\ phase # "down" /\ phase' # "down"
          /\ (writer' = "reopen" => zst' = zst) /\ active' = active
      BY <2>2 DEF RotateCompress
    <3>2. active = <<>>
      BY <3>1 DEF LogInv, RotationSteps
    <3>3. DOMAIN active' = {}
      BY <3>1, <3>2
    <3>4. writer' # "remove" /\ Lines(zst)' # <<>> => HasTier(idx', Archive)
      BY <2>2, <3>1 DEF IdxInv, Lines
    <3> QED BY <2>2, <3>1, <3>3, <3>4 DEF IdxInv, HasTier, Downward
  <2>3. CASE RotateRemove /\ idx' = IndexArchived
    <3>1. /\ IndexArchived \in Seq(Gen) /\ Downward(IndexArchived)
          /\ \A t : HasTier(IndexArchived, t) <=>
               (HasTier(idx, t) /\ t = Active) \/ (t = Archive /\ HasTier(idx, Raw))
      BY IndexArchivedIs DEF IdxInv
    <3>2. /\ writer = "remove" /\ writer' \in {"idle", "reopen"} /\ phase # "down" /\ phase' # "down"
          /\ active' = active
      BY <2>3 DEF RotateRemove, LoseRecord
    <3>3. active = <<>>
      BY <3>2 DEF LogInv, RotationSteps
    <3>4. DOMAIN active' = {}
      BY <3>2, <3>3
    <3>5. HasTier(idx', Archive) /\ ~HasTier(idx', Active)
      BY <1>0, <2>3, <3>1, <3>2 DEF IdxInv
    <3> QED BY <2>3, <3>1, <3>2, <3>4, <3>5 DEF IdxInv, HasTier, Downward
  <2> QED BY <1>3, <2>1, <2>2, <2>3 DEF Moves
<1>4. CASE Stop
  <2>1. idx' = <<>> /\ phase' = "down" /\ writer' = "idle"
    BY <1>4 DEF Stop, Exit, Kill, PowerLoss, Halt
  <2>2. idx' \in Seq(Gen) /\ DOMAIN idx' = {}
    BY <2>1
  <2> QED BY <2>1, <2>2 DEF IdxInv, Downward
<1>5. CASE Start
  <2>1. /\ BootIndex \in Seq(Gen) /\ Downward(BootIndex)
        /\ HasTier(BootIndex, Active) <=> active # <<>>
        /\ HasTier(BootIndex, Archive) <=> Lines(zst) # <<>>
    <3>1. TypeOK
      BY DEF LogInv
    <3> QED BY <3>1, BootIndexIs
  <2>2. phase' = "up" /\ writer' = writer /\ idx' = BootIndex /\ active' = active /\ zst' = zst
        /\ writer = "idle"
    BY <1>5 DEF Start, Boot, diskVars, LogInv, RotationSteps
  <2>3. (\E i \in DOMAIN active' : Chained(active'[i])) => HasTier(idx', Active)
    <3>1. active = <<>> => DOMAIN active = {}
      OBVIOUS
    <3> QED BY <2>1, <2>2, <3>1
  <2>4. Lines(zst)' # <<>> => HasTier(idx', Archive)
    BY <2>1, <2>2 DEF Lines
  <2> QED BY <2>1, <2>2, <2>3, <2>4 DEF IdxInv, HasTier, Downward, Chained
<1>6. CASE UNCHANGED <<vars, idx>>
  BY <1>6 DEF vars, diskVars, IdxInv, HasTier, Downward, Lines
<1> QED BY <1>1, <1>2, <1>3, <1>4, <1>5, <1>6, LogSteps, PageStepsKeep DEF SegNext, allVars, segVars

(* Order and bounds, by lines. *)
LEMMA ByLines ==
  ASSUME NEW s, NEW t, NEW n
  PROVE  /\ Precedes(s, t) <=> \A x, y : Occurs(x, s) /\ Occurs(y, t) => x.seq < y.seq
         /\ AtMost(s, n) <=> \A x : Occurs(x, s) => x.seq <= n
BY Zenon DEF Precedes, AtMost, Occurs

LEMMA AppendMessageOccurs ==
  ASSUME NEW s \in Seq(Line), NEW x \in Line
  PROVE  \A y : Occurs(y, AppendMessage(s, x)) => Occurs(y, s) \/ y = x
<1> DEFINE t == AppendMessage(s, x)
<1>1. /\ t \in Seq(Line) /\ Len(t) \in 1 .. Len(s) + 1 /\ t[Len(t)] = x
      /\ \A i \in 1 .. Len(t) - 1 :
           i + (Len(s) + 1 - Len(t)) \in DOMAIN s /\ t[i] = s[i + (Len(s) + 1 - Len(t))]
  BY AppendMessageIs
<1> HIDE DEF t
<1>2. ASSUME NEW y, Occurs(y, t) PROVE Occurs(y, s) \/ y = x
  <2>1. PICK i \in 1 .. Len(t) : t[i] = y
    BY <1>1, <1>2 DEF Occurs
  <2>2. i = Len(t) \/ i \in 1 .. Len(t) - 1
    BY <1>1
  <2> QED BY <1>1, <2>1, <2>2 DEF Occurs
<1> QED BY <1>2 DEF t

(* A stored line: the next seq, the next height of the tip or none. *)
Stores(x) ==
  /\ x \in Line /\ x.seq = seq + 1 /\ seq' = seq + 1 /\ x.uid = Len(issued) + 1
  /\ history' = AppendMessage(history, x)
  /\ queue' = queue \/ queue' = Append(queue, x)
  /\ issued' = Append(issued, x)
  /\ UNCHANGED <<phase, writer, diskVars, idx, pages>>
  /\ phase # "down" /\ writer = "idle" /\ CanStore
  /\ IF Evicts THEN Excused("evicted") ELSE UNCHANGED page
  /\ \/ /\ LinkAndStore
        /\ x.height = Resumed.height + 1 /\ ready' = TRUE /\ height' = x.height
        /\ ~forgot' => ~forgot /\ ~Forgets
     \/ StoreSystem /\ x.height = 0 /\ UNCHANGED <<ready, tip, height, forgot>>

LEMMA StoreStep ==
  ASSUME LogInv, Store PROVE \E x : Stores(x)
<1>1. TypeOK /\ Resumed.tip \in Nat /\ Resumed.height \in Nat /\ seq \in Nat
      /\ Len(issued) \in Nat
  BY ResumedType DEF LogInv, TypeOK
<1>2. CASE LinkAndStore
  <2> DEFINE x == ChainedLine(Len(issued) + 1, seq + 1, Resumed.tip, Resumed.height + 1)
  <2>1. /\ x \in Line /\ x.seq = seq + 1 /\ x.height = Resumed.height + 1
        /\ x.uid = Len(issued) + 1
    BY <1>1 DEF ChainedLine, Line
  <2>2. /\ seq' = x.seq /\ history' = AppendMessage(history, x) /\ EnqueueWire(x)
        /\ issued' = Append(issued, x) /\ ready' = TRUE /\ height' = x.height
        /\ forgot' = (forgot \/ Forgets)
        /\ UNCHANGED <<phase, writer, diskVars>> /\ CanStore
    BY <1>2 DEF LinkAndStore
  <2> HIDE DEF x
  <2>3. queue' = queue \/ queue' = Append(queue, x)
    BY <2>2 DEF EnqueueWire
  <2>4. phase # "down" /\ writer = "idle"
    BY <2>2 DEF CanStore
  <2>5. UNCHANGED <<idx, pages>> /\ IF Evicts THEN Excused("evicted") ELSE UNCHANGED page
    BY DEF Store
  <2>6. Stores(x)
    BY <1>2, <2>1, <2>2, <2>3, <2>4, <2>5 DEF Stores
  <2> QED BY <2>6
<1>3. CASE StoreSystem
  <2> DEFINE x == SystemLine(Len(issued) + 1, seq + 1)
  <2>1. x \in Line /\ x.seq = seq + 1 /\ x.height = 0 /\ x.uid = Len(issued) + 1
    BY <1>1 DEF SystemLine, Line, Genesis
  <2>2. /\ seq' = x.seq /\ history' = AppendMessage(history, x) /\ EnqueueWire(x)
        /\ issued' = Append(issued, x) /\ UNCHANGED <<ready, tip, height, forgot>>
        /\ UNCHANGED <<phase, writer, diskVars>> /\ CanStore
    BY <1>3 DEF StoreSystem
  <2> HIDE DEF x
  <2>3. queue' = queue \/ queue' = Append(queue, x)
    BY <2>2 DEF EnqueueWire
  <2>4. phase # "down" /\ writer = "idle"
    BY <2>2 DEF CanStore
  <2>5. UNCHANGED <<idx, pages>> /\ IF Evicts THEN Excused("evicted") ELSE UNCHANGED page
    BY DEF Store
  <2>6. Stores(x)
    BY <1>3, <2>1, <2>2, <2>3, <2>4, <2>5 DEF Stores
  <2> QED BY <2>6
<1> QED BY <1>2, <1>3 DEF Store

LEMMA StoresOccurs ==
  ASSUME LogInv, NEW x, Stores(x)
  PROVE  /\ \A y : Occurs(y, history)' => Occurs(y, history) \/ y = x
         /\ \A y : Occurs(y, queue)' => Occurs(y, queue) \/ y = x
         /\ \A y : Occurs(y, issued)' <=> Occurs(y, issued) \/ y = x
<1>1. history \in Seq(Line) /\ queue \in Seq(Line) /\ issued \in Seq(Line) /\ x \in Line
  BY DEF LogInv, TypeOK, Stores
<1>2. \A y : Occurs(y, history') => Occurs(y, history) \/ y = x
  BY <1>1, AppendMessageOccurs DEF Stores
<1>3. \A y : Occurs(y, Append(queue, x)) => Occurs(y, queue) \/ y = x
  BY <1>1, AppendOccurs
<1>4. \A y : Occurs(y, queue') => Occurs(y, queue) \/ y = x
  BY <1>3 DEF Stores
<1>5. \A y : Occurs(y, issued') <=> Occurs(y, issued) \/ y = x
  BY <1>1, AppendOccurs DEF Stores
<1> QED BY <1>2, <1>4, <1>5 DEF Occurs

LEMMA TailOccurs ==
  ASSUME NEW s \in Seq(Line), s # <<>>
  PROVE  Head(s) \in Line /\ Occurs(Head(s), s) /\ \A y : Occurs(y, Tail(s)) => Occurs(y, s)
BY TailType DEF Occurs

LEMMA QuietOccurs ==
  ASSUME LogInv, Quiet
  PROVE  /\ \A y : Occurs(y, active)' => Occurs(y, active) \/ Occurs(y, queue)
         /\ \A y : Occurs(y, queue)' => Occurs(y, queue)
         /\ \A y : Occurs(y, Readable)' => Occurs(y, Readable) \/ Occurs(y, queue)
<1>1. queue \in Seq(Line)
  BY DEF LogInv, TypeOK
<1>2. queue # <<>> => Head(queue) \in Line /\ Occurs(Head(queue), queue)
                      /\ \A y : Occurs(y, Tail(queue)) => Occurs(y, queue)
  BY <1>1, TailOccurs
<1>3. \A i \in DOMAIN active' : Occurs(active'[i], active) \/ Occurs(active'[i], queue)
  BY <1>2, QuietStep
<1>4. \A y : Occurs(y, queue)' => Occurs(y, queue)
  <2>1. queue' = queue \/ (queue # <<>> /\ queue' = Tail(queue))
    BY QuietStep
  <2>2. \A y : Occurs(y, queue') => Occurs(y, queue)
    BY <1>2, <2>1
  <2> QED BY <2>2 DEF Occurs
<1>5. \A y : Occurs(y, Readable)' => Occurs(y, Readable) \/ Occurs(y, queue)
  <2>1. Readable \in Seq(Line)
        /\ (Readable' = Readable \/ (queue # <<>> /\ Readable' = Append(Readable, Head(queue))))
    BY QuietStep
  <2>2. queue # <<>> =>
          \A y : Occurs(y, Append(Readable, Head(queue))) <=> Occurs(y, Readable) \/ y = Head(queue)
    BY <1>2, <2>1, AppendOccurs
  <2>3. \A y : Occurs(y, Readable') => Occurs(y, Readable) \/ Occurs(y, queue)
    BY <1>2, <2>1, <2>2
  <2> QED BY <2>3 DEF Occurs
<1>6. \A y : Occurs(y, active)' => Occurs(y, active) \/ Occurs(y, queue)
  BY <1>3 DEF Occurs
<1> QED BY <1>4, <1>5, <1>6

(* A raw file that the index shows is one that a boot would have loaded or *)
(* rotate is about to compress: its lines are in order with all others.    *)
OldInv ==
  HasTier(idx, Raw) /\ old # NoFile =>
    /\ InSeqOrder(old) /\ AtMost(old, seq) /\ Precedes(old, active) /\ Precedes(old, queue)
    /\ zst # NoFile /\ writer # "remove" => Precedes(zst, old)

(* The window is in order, and gone with the process.                      *)
WinInv ==
  /\ InSeqOrder(history) /\ AtMost(history, seq)
  /\ phase = "down" => history = <<>>

LEMMA OldStep ==
  ASSUME LogInv, LogInv', IdxInv, OldInv, [SegNext]_allVars PROVE OldInv'
<1> SUFFICES ASSUME HasTier(idx, Raw)', (old # NoFile)'
             PROVE  (/\ InSeqOrder(old) /\ AtMost(old, seq) /\ Precedes(old, active)
                     /\ Precedes(old, queue)
                     /\ zst # NoFile /\ writer # "remove" => Precedes(zst, old))'
  BY DEF OldInv
<1>0. seq \in Nat /\ (old # NoFile => old \in Seq(Line)) /\ Active = 1 /\ Raw = 2 /\ Archive = 3
  BY DEF LogInv, TypeOK, Active, Raw, Archive
<1>a. HasTier(idx', Raw) /\ old' # NoFile
  BY DEF HasTier
<1>1. CASE Store
  <2>1. PICK x : Stores(x)
    BY <1>1, StoreStep
  <2>2. UNCHANGED <<phase, writer, active, old, zst, idx>> /\ seq' = seq + 1 /\ x.seq = seq + 1
    BY <2>1 DEF Stores, diskVars
  <2>3. HasTier(idx, Raw) /\ old # NoFile
    BY <1>a, <2>2 DEF HasTier
  <2>4. /\ InSeqOrder(old) /\ AtMost(old, seq) /\ Precedes(old, active) /\ Precedes(old, queue)
        /\ zst # NoFile /\ writer # "remove" => Precedes(zst, old)
    BY <2>3 DEF OldInv
  <2>5. AtMost(old, seq + 1)
    BY <1>0, <2>3, <2>4, AtMostWeaken
  <2>6. Precedes(old, queue')
    <3>1. \A y : Occurs(y, queue') => Occurs(y, queue) \/ y = x
      BY <2>1, StoresOccurs DEF Occurs
    <3>2. ASSUME NEW a, NEW b, Occurs(a, old), Occurs(b, queue') PROVE a.seq < b.seq
      <4>1. CASE Occurs(b, queue)
        BY <2>4, <3>2, <4>1, ByLines
      <4>2. CASE b = x
        <5>1. a.seq <= seq
          BY <2>4, <3>2, ByLines
        <5>2. a \in Line
          BY <1>0, <2>3, <3>2 DEF Occurs
        <5>3. a.seq \in Nat
          BY <5>2 DEF Line
        <5> QED BY <1>0, <2>2, <4>2, <5>1, <5>3
      <4> QED BY <3>1, <3>2, <4>1, <4>2
    <3> QED BY <3>2, ByLines
  <2> QED BY <2>2, <2>4, <2>5, <2>6 DEF InSeqOrder, AtMost, Precedes
<1>2. CASE Quiet
  <2>1. UNCHANGED <<old, zst, ramVars>> /\ (idx' = idx \/ Wrote) /\ writer \in {"idle", "reopen"}
    BY <1>2, QuietStep
  <2>2. HasTier(idx, Raw)
    <3>1. CASE Wrote
      <4> DEFINE h == Head(queue).height
                 p == Len(Readable)
      <4>1. h \in Nat /\ p \in Nat /\ idx' = IndexWrote(idx, h, p) /\ idx \in Seq(Gen) /\ Downward(idx)
        <5>1. queue # <<>> /\ queue \in Seq(Line) /\ Readable \in Seq(Line)
          BY <1>2, <3>1, QuietStep DEF Wrote, LogInv, TypeOK
        <5>2. Head(queue) \in Line
          BY <5>1, TailType
        <5> QED BY <3>1, <5>1, <5>2 DEF Wrote, IdxInv, Line
      <4> HIDE DEF h, p
      <4>2. HasTier(idx', Raw) <=> HasTier(idx, Raw) \/ Raw = Active
        BY <4>1, IndexWroteIs
      <4> QED BY <1>0, <1>a, <4>2
    <3> QED BY <1>a, <2>1, <3>1
  <2>3. /\ InSeqOrder(old) /\ AtMost(old, seq) /\ Precedes(old, active) /\ Precedes(old, queue)
        /\ zst # NoFile => Precedes(zst, old)
    BY <1>a, <2>1, <2>2 DEF OldInv
  <2>4. \A y : Occurs(y, active') => Occurs(y, active) \/ Occurs(y, queue)
    BY <1>2, QuietOccurs DEF Occurs
  <2>5. \A y : Occurs(y, queue') => Occurs(y, queue)
    BY <1>2, QuietOccurs DEF Occurs
  <2>6. Precedes(old, active')
    BY <2>3, <2>4, ByLines
  <2>7. Precedes(old, queue')
    BY <2>3, <2>5, ByLines
  <2> QED BY <2>1, <2>3, <2>6, <2>7 DEF InSeqOrder, AtMost, Precedes, ramVars
<1>3. CASE Moves
  <2>1. CASE RotateRename
    <3>1. /\ old' = active /\ active' = <<>> /\ UNCHANGED <<queue, zst, seq>> /\ writer' = "compress"
          /\ phase # "down"
      BY <2>1 DEF RotateRename, ramVars
    <3>2. /\ InSeqOrder(active) /\ AtMost(active, seq) /\ Precedes(active, queue)
          /\ zst # NoFile => Precedes(zst, active)
      BY <3>1 DEF LogInv, FilesInSeqOrder, InOrderBefore
    <3>3. Precedes(active, <<>>)
      BY EmptyInOrder
    <3> QED BY <3>1, <3>2, <3>3 DEF InSeqOrder, AtMost, Precedes
  <2>2. CASE RotateCompress /\ UNCHANGED idx
    <3>1. /\ UNCHANGED <<old, active, queue, seq>> /\ writer = "compress"
          /\ writer' # "remove" => zst' = zst
      BY <2>2 DEF RotateCompress, ramVars
    <3>2. HasTier(idx, Raw) /\ old # NoFile
      BY <1>a, <2>2, <3>1
    <3>3. /\ InSeqOrder(old) /\ AtMost(old, seq) /\ Precedes(old, active) /\ Precedes(old, queue)
          /\ zst # NoFile => Precedes(zst, old)
      BY <3>1, <3>2 DEF OldInv
    <3> QED BY <3>1, <3>3 DEF InSeqOrder, AtMost, Precedes
  <2>3. CASE RotateRemove /\ idx' = IndexArchived
    <3>1. HasTier(IndexArchived, Raw) <=>
            (HasTier(idx, Raw) /\ Raw = Active) \/ (Raw = Archive /\ HasTier(idx, Raw))
      BY IndexArchivedIs DEF IdxInv
    <3> QED BY <1>0, <1>a, <2>3, <3>1
  <2> QED BY <1>3, <2>1, <2>2, <2>3 DEF Moves
<1>4. CASE Stop
  <2>1. idx' = <<>>
    BY <1>4 DEF Stop
  <2> QED BY <1>a, <2>1 DEF HasTier
<1>5. CASE Start
  <2>1. TypeOK
    BY DEF LogInv
  <2>2. HasTier(BootIndex, Raw) <=> zst = NoFile /\ Lines(old) # <<>>
    BY <2>1, BootIndexIs
  <2>3. zst' = NoFile /\ phase' # "down"
    BY <1>5, <1>a, <2>2 DEF Start, Boot, diskVars
  <2>4. InOrderBefore(old)'
    BY <1>a, <2>3 DEF LogInv, FilesInSeqOrder
  <2> QED BY <2>3, <2>4 DEF InOrderBefore
<1>6. CASE UNCHANGED <<vars, idx>>
  <2>1. HasTier(idx, Raw) /\ old # NoFile
    BY <1>6, <1>a DEF vars, diskVars
  <2> QED BY <1>6, <2>1 DEF vars, ramVars, diskVars, OldInv, InSeqOrder, AtMost, Precedes
<1> QED BY <1>1, <1>2, <1>3, <1>4, <1>5, <1>6, LogSteps, PageStepsKeep DEF SegNext, allVars, segVars

LEMMA WinStep ==
  ASSUME LogInv, WinInv, [SegNext]_allVars PROVE WinInv'
<1>0. seq \in Nat /\ history \in Seq(Line)
  BY DEF LogInv, TypeOK
<1>1. CASE Store
  <2>1. PICK x : Stores(x)
    BY <1>1, StoreStep
  <2>2. /\ x \in Line /\ x.seq = seq + 1 /\ seq' = seq + 1 /\ history' = AppendMessage(history, x)
        /\ phase' # "down"
    BY <2>1 DEF Stores
  <2> DEFINE t == AppendMessage(history, x)
  <2>3. /\ t \in Seq(Line) /\ Len(t) \in 1 .. Len(history) + 1 /\ t[Len(t)] = x
        /\ \A i \in 1 .. Len(t) - 1 :
             /\ i + (Len(history) + 1 - Len(t)) \in DOMAIN history
             /\ t[i] = history[i + (Len(history) + 1 - Len(t))]
    BY <1>0, <2>2, AppendMessageIs
  <2> HIDE DEF t
  <2>4. \A i \in DOMAIN history : history[i].seq \in Nat /\ history[i].seq <= seq
    BY <1>0, LineInSeq DEF WinInv, AtMost
  <2>5. InSeqOrder(t)
    <3> SUFFICES ASSUME NEW i \in 1 .. Len(t), NEW j \in 1 .. Len(t), i < j PROVE t[i].seq < t[j].seq
      BY <2>3 DEF InSeqOrder
    <3>1. i \in 1 .. Len(t) - 1
      BY <2>3
    <3>2. CASE j = Len(t)
      BY <1>0, <2>2, <2>3, <2>4, <3>1, <3>2
    <3>3. CASE j # Len(t)
      <4>1. j \in 1 .. Len(t) - 1
        BY <2>3, <3>3
      <4> DEFINE d == Len(history) + 1 - Len(t)
      <4>2. i + d \in DOMAIN history /\ j + d \in DOMAIN history /\ i + d < j + d
        BY <2>3, <3>1, <4>1
      <4>3. history[i + d].seq < history[j + d].seq
        BY <4>2 DEF WinInv, InSeqOrder
      <4> QED BY <2>3, <3>1, <4>1, <4>3
    <3> QED BY <3>2, <3>3
  <2>6. AtMost(t, seq + 1)
    <3> SUFFICES ASSUME NEW i \in 1 .. Len(t) PROVE t[i].seq <= seq + 1
      BY <2>3 DEF AtMost
    <3>1. CASE i = Len(t)
      BY <1>0, <2>2, <2>3, <3>1
    <3>2. CASE i # Len(t)
      <4>1. i \in 1 .. Len(t) - 1
        BY <2>3, <3>2
      <4> QED BY <1>0, <2>3, <2>4, <4>1
    <3> QED BY <3>1, <3>2
  <2> QED BY <2>2, <2>5, <2>6 DEF WinInv, InSeqOrder, AtMost, t
<1>2. CASE UNCHANGED ramVars /\ (phase' = "down" => phase = "down")
  BY <1>2 DEF ramVars, WinInv, InSeqOrder, AtMost
<1>3. CASE Stop
  <2>1. history' = <<>>
    BY <1>3 DEF Stop, Exit, Kill, PowerLoss, Halt
  <2> QED BY <2>1, EmptyInOrder DEF WinInv, InSeqOrder, AtMost
<1>4. CASE Start
  <2>1. /\ phase' = "up" /\ seq' = LastSeq(LoadRecords)
        /\ history' = LastLines(LoadRecords, MaxHistoryLines)
    BY <1>4 DEF Start, Boot, BootSeq
  <2> DEFINE l == LoadRecords
             t == LastLines(l, MaxHistoryLines)
  <2>2. l \in Seq(Line) /\ InSeqOrder(l)
    BY LoadedInOrder, LoadRecordsType DEF LogInv
  <2> HIDE DEF l
  <2>3. LastSeq(l) \in Nat /\ AtMost(l, LastSeq(l))
    BY <2>2, LastSeqBounds
  <2>4. /\ t \in Seq(Line) /\ Len(t) = IF Len(l) <= MaxHistoryLines THEN Len(l) ELSE MaxHistoryLines
        /\ \A i \in 1 .. Len(t) : t[i] = l[i + Len(l) - Len(t)]
    BY <2>2, LastLinesIsSuffix, HistoryLogAssumption
  <2>5. \A i \in 1 .. Len(t) : i + Len(l) - Len(t) \in DOMAIN l
    BY <2>2, <2>4, HistoryLogAssumption
  <2> HIDE DEF t
  <2>6. InSeqOrder(t)
    <3> SUFFICES ASSUME NEW i \in 1 .. Len(t), NEW j \in 1 .. Len(t), i < j PROVE t[i].seq < t[j].seq
      BY <2>4 DEF InSeqOrder
    <3>1. i + Len(l) - Len(t) < j + Len(l) - Len(t)
      BY <2>2, <2>4
    <3>2. l[i + Len(l) - Len(t)].seq < l[j + Len(l) - Len(t)].seq
      BY <2>2, <2>5, <3>1 DEF InSeqOrder
    <3> QED BY <2>4, <3>2
  <2>7. AtMost(t, LastSeq(l))
    BY <2>3, <2>4, <2>5 DEF AtMost
  <2> QED BY <2>1, <2>6, <2>7 DEF WinInv, InSeqOrder, AtMost, l, t
<1>5. CASE Quiet
  BY <1>2, <1>5, QuietStep
<1>6. CASE Moves
  <2>1. UNCHANGED ramVars /\ phase' = phase
    BY <1>6 DEF Moves, RotateRename, RotateCompress, RotateRemove
  <2> QED BY <1>2, <2>1
<1>7. CASE UNCHANGED <<vars, idx>>
  BY <1>2, <1>7 DEF vars
<1> QED BY <1>1, <1>3, <1>4, <1>5, <1>6, <1>7, LogSteps, PageStepsKeep DEF SegNext, allVars, segVars

-----------------------------------------------------------------------------
(* The newest message of a window.                                         *)

LEMMA LastChainedFinds ==
  ASSUME NEW s \in Seq(Line)
  PROVE  /\ LastChained(s) = 0 <=> \A x : Occurs(x, s) => ~Chained(x)
         /\ LastChained(s) # 0 => LastChained(s) \in DOMAIN s /\ NewestChained(s, LastChained(s))
<1> DEFINE n == Len(s)
           back == {k \in 0 .. n : n - k \in DOMAIN s /\ Chained(s[n - k])}
<1>1. n \in Nat /\ DOMAIN s = 1 .. n
  OBVIOUS
<1>2. ASSUME NEW i \in DOMAIN s, Chained(s[i]) PROVE \E j \in DOMAIN s : NewestChained(s, j)
  <2>1. n - i \in 0 .. n /\ n - (n - i) = i
    BY <1>1
  <2>2. n - i \in back
    BY <1>2, <2>1
  <2>3. back \in SUBSET Nat
    BY <1>1
  <2> HIDE DEF back
  <2>4. PICK m \in back : \A k \in back : m <= k
    BY <2>2, <2>3, LeastNumber
  <2>5. m \in 0 .. n /\ n - m \in DOMAIN s /\ Chained(s[n - m])
    BY <2>4 DEF back
  <2>6. ASSUME NEW j \in DOMAIN s, j > n - m PROVE ~Chained(s[j])
    <3> SUFFICES ASSUME Chained(s[j]) PROVE FALSE
      OBVIOUS
    <3>1. n - j \in 0 .. n /\ n - (n - j) = j /\ ~(m <= n - j)
      BY <1>1, <2>5, <2>6
    <3>2. n - j \in back
      BY <3>1, <2>6 DEF back
    <3> QED BY <2>4, <3>1, <3>2
  <2>7. NewestChained(s, n - m)
    BY <2>5, <2>6 DEF NewestChained
  <2> QED BY <2>5, <2>7
<1> HIDE DEF back, n
<1>3. ASSUME \E j \in DOMAIN s : NewestChained(s, j)
      PROVE  LastChained(s) \in DOMAIN s /\ NewestChained(s, LastChained(s)) /\ LastChained(s) # 0
  <2>1. PICK j \in DOMAIN s : NewestChained(s, j)
    BY <1>3
  <2>2. LastChained(s) = j /\ j # 0
    BY <2>1, LastChainedIs
  <2> QED BY <2>1, <2>2
<1>4. ASSUME ~ \E j \in DOMAIN s : NewestChained(s, j) PROVE LastChained(s) = 0
  BY <1>4 DEF LastChained
<1>5. (\E j \in DOMAIN s : NewestChained(s, j)) => \E x : Occurs(x, s) /\ Chained(x)
  BY DEF NewestChained, Occurs
<1>6. (\E x : Occurs(x, s) /\ Chained(x)) => \E j \in DOMAIN s : NewestChained(s, j)
  BY <1>2 DEF Occurs
<1> QED BY <1>3, <1>4, <1>5, <1>6

(* A window either shows the newest message of all lines or none at all.   *)
LEMMA NewestInWindow ==
  ASSUME NEW s \in Seq(Line), NEW n \in Nat \ {0}
  PROVE  LET t == LastLines(s, n) IN
         LastChained(t) # 0 => LastChained(s) # 0 /\ t[LastChained(t)] = s[LastChained(s)]
<1> DEFINE t == LastLines(s, n)
           d == Len(s) - Len(t)
           k == LastChained(t)
<1>1. /\ t \in Seq(Line) /\ Len(t) = IF Len(s) <= n THEN Len(s) ELSE n
      /\ \A i \in 1 .. Len(t) : t[i] = s[i + Len(s) - Len(t)]
  BY LastLinesIsSuffix
<1> HIDE DEF t
<1>a. Len(s) \in Nat /\ Len(t) \in Nat /\ Len(t) <= Len(s)
      /\ DOMAIN s = 1 .. Len(s) /\ DOMAIN t = 1 .. Len(t)
  BY <1>1
<1>2. Len(s) \in Nat /\ Len(t) \in Nat /\ d \in Nat /\ DOMAIN s = 1 .. Len(s) /\ DOMAIN t = 1 .. Len(t)
      /\ \A i \in 1 .. Len(t) : i + Len(s) - Len(t) = i + d /\ i + d \in DOMAIN s
  BY <1>a
<1>3. \A i \in 1 .. Len(t) : t[i] = s[i + d]
  BY <1>1, <1>2
<1>4. Len(s) = Len(t) + d
  BY <1>2
<1> HIDE DEF d
<1> SUFFICES ASSUME k # 0 PROVE LastChained(s) # 0 /\ t[k] = s[LastChained(s)]
  BY DEF t
<1>5. k \in 1 .. Len(t) /\ NewestChained(t, k)
  BY <1>1, <1>2, LastChainedFinds
<1> HIDE DEF k
<1>6. NewestChained(s, k + d)
  <2>1. Chained(s[k + d])
    BY <1>3, <1>5 DEF NewestChained
  <2>2. ASSUME NEW j \in DOMAIN s, j > k + d PROVE ~Chained(s[j])
    <3>1. j - d \in 1 .. Len(t) /\ j - d > k /\ (j - d) + d = j
      BY <1>2, <1>4, <1>5, <2>2
    <3>2. ~Chained(t[j - d])
      BY <1>2, <1>5, <3>1 DEF NewestChained
    <3>3. t[j - d] = s[j]
      BY <1>3, <3>1
    <3> QED BY <3>2, <3>3
  <2> QED BY <2>1, <2>2 DEF NewestChained
<1>7. LastChained(s) = k + d /\ k + d # 0
  BY <1>2, <1>5, <1>6, LastChainedIs
<1> QED BY <1>3, <1>5, <1>7

(* A notice does not change which message is the newest. *)
LEMMA NewestAfterNotice ==
  ASSUME NEW s \in Seq(Line), NEW x \in Line, ~Chained(x),
         LastChained(AppendMessage(s, x)) # 0
  PROVE  LastChained(s) # 0
         /\ AppendMessage(s, x)[LastChained(AppendMessage(s, x))] = s[LastChained(s)]
<1> DEFINE a == Append(s, x)
           k == LastChained(a)
<1>1. a \in Seq(Line) /\ Len(a) = Len(s) + 1 /\ DOMAIN s = 1 .. Len(s) /\ DOMAIN a = 1 .. Len(s) + 1
      /\ Len(s) \in Nat /\ (\A i \in 1 .. Len(s) : a[i] = s[i]) /\ a[Len(s) + 1] = x
  OBVIOUS
<1>2. AppendMessage(s, x) = LastLines(a, MaxHistoryLines)
  BY DEF AppendMessage
<1> HIDE DEF a
<1>3. k # 0 /\ AppendMessage(s, x)[LastChained(AppendMessage(s, x))] = a[k]
  BY <1>1, <1>2, NewestInWindow, HistoryLogAssumption
<1>4. k \in 1 .. Len(s) + 1 /\ NewestChained(a, k)
  BY <1>1, <1>3, LastChainedFinds
<1> HIDE DEF k
<1>5. k \in 1 .. Len(s)
  <2>1. k # Len(s) + 1
    BY <1>1, <1>4 DEF NewestChained
  <2> QED BY <1>1, <1>4, <2>1
<1>6. NewestChained(s, k)
  BY <1>1, <1>4, <1>5 DEF NewestChained
<1>7. LastChained(s) = k /\ k # 0
  BY <1>1, <1>5, <1>6, LastChainedIs
<1> QED BY <1>1, <1>3, <1>5, <1>7

LEMMA NewestIsLatest ==
  ASSUME NEW s \in Seq(Line), InSeqOrder(s), LastChained(s) # 0, NEW y, Occurs(y, s), Chained(y)
  PROVE  y = s[LastChained(s)] \/ y.seq < s[LastChained(s)].seq
<1>1. LastChained(s) \in DOMAIN s /\ NewestChained(s, LastChained(s))
  BY LastChainedFinds
<1>2. PICK i \in DOMAIN s : s[i] = y
  BY DEF Occurs
<1>3. ~(i > LastChained(s))
  BY <1>1, <1>2 DEF NewestChained
<1>4. i = LastChained(s) \/ i < LastChained(s)
  BY <1>1, <1>3
<1> QED BY <1>1, <1>2, <1>4 DEF InSeqOrder

LEMMA ResumedHeight ==
  Resumed.height = IF ready THEN height
                   ELSE IF LastChained(history) = 0 THEN 0 ELSE history[LastChained(history)].height
BY DEF Resumed, InitChain

-----------------------------------------------------------------------------
(* The lines that a page can still show.                                   *)
Alive(x) ==
  \/ Held(x)
  \/ Occurs(x, history)
  \/ HasTier(idx, Raw) /\ old # NoFile /\ Occurs(x, old)

(* Before the first message there is none to show.                         *)
BornInv == LastChained(issued) = 0 => \A x : Alive(x) => ~Chained(x)

(* Among them, the later message is the higher one, and the next message   *)
(* will be higher than all of them, unless its link starts a new chain.    *)
RisesInv ==
  ~forgot =>
    /\ \A x, y : Alive(x) /\ Alive(y) /\ Chained(x) /\ Chained(y) /\ x.seq < y.seq
                   => x.height < y.height
    /\ phase # "down" => Forgets \/ \A x : Alive(x) => x.height <= Resumed.height

LEMMA AliveIsLine ==
  ASSUME LogInv, OldInv, WinInv, NEW x, Alive(x)
  PROVE  /\ x \in Line /\ x.seq \in Nat /\ x.height \in Nat /\ x.uid \in Nat
         /\ phase # "down" => x.seq <= seq
<1>1. /\ active \in Seq(Line) /\ queue \in Seq(Line) /\ history \in Seq(Line)
      /\ (zst # NoFile => zst \in Seq(Line)) /\ (old # NoFile => old \in Seq(Line))
  BY DEF LogInv, TypeOK
<1>2. x \in Line
  <2>1. \A s \in Seq(Line) : Occurs(x, s) => x \in Line
    BY DEF Occurs
  <2> QED BY <1>1, <2>1 DEF Alive, Held
<1>3. ASSUME phase # "down" PROVE x.seq <= seq
  <2>1. AtMost(active, seq) /\ AtMost(queue, seq) /\ AtMost(history, seq)
        /\ (zst # NoFile => AtMost(zst, seq))
    BY <1>3 DEF LogInv, FilesInSeqOrder, InOrderBefore, WinInv
  <2>2. old # NoFile /\ (zst = NoFile \/ writer = "compress") => AtMost(old, seq)
    BY <1>3 DEF LogInv, FilesInSeqOrder, InOrderBefore
  <2>3. HasTier(idx, Raw) /\ old # NoFile => AtMost(old, seq)
    BY DEF OldInv
  <2> QED BY <2>1, <2>2, <2>3, ByLines DEF Alive, Held
<1> QED BY <1>2, <1>3 DEF Line

LEMMA AliveStores ==
  ASSUME LogInv, NEW x, Stores(x) PROVE \A y : Alive(y)' => Alive(y) \/ y = x
<1>1. UNCHANGED <<active, old, zst, writer, idx>>
  BY DEF Stores, diskVars
<1>2. \A y : Occurs(y, history)' => Occurs(y, history) \/ y = x
  BY StoresOccurs
<1>3. \A y : Occurs(y, queue)' => Occurs(y, queue) \/ y = x
  BY StoresOccurs
<1>4. ASSUME NEW y, Held(y)' PROVE Held(y) \/ y = x
  BY <1>1, <1>3, <1>4 DEF Held, Occurs
<1>5. ASSUME NEW y, (HasTier(idx, Raw) /\ old # NoFile /\ Occurs(y, old))' PROVE Alive(y)
  BY <1>1, <1>5 DEF Alive, HasTier, Occurs
<1> QED BY <1>2, <1>4, <1>5 DEF Alive

LEMMA LoadedIsHeld ==
  ASSUME LogInv, NEW y, Occurs(y, LoadRecords) PROVE Held(y)
<1>1. active \in Seq(Line) /\ Lines(old) \in Seq(Line) /\ (zst # NoFile => zst \in Seq(Line))
      /\ (old # NoFile => Lines(old) = old) /\ (old = NoFile => Lines(old) = <<>>)
  BY DEF LogInv, TypeOK, Lines
<1>2. CASE zst # NoFile
  <2>1. LoadRecords = zst \o active
    BY <1>2 DEF LoadRecords
  <2> QED BY <1>1, <1>2, <2>1, OccursInConcat DEF Held
<1>3. CASE zst = NoFile
  <2>1. LoadRecords = Lines(old) \o active
    BY <1>3 DEF LoadRecords
  <2>2. ~Occurs(y, <<>>)
    BY DEF Occurs
  <2>3. Occurs(y, Lines(old)) \/ Occurs(y, active)
    BY <1>1, <2>1, OccursInConcat
  <2> QED BY <1>1, <1>3, <2>2, <2>3 DEF Held
<1> QED BY <1>2, <1>3

LEMMA WindowOccurs ==
  ASSUME NEW s \in Seq(Line), NEW n \in Nat \ {0}
  PROVE  \A y : Occurs(y, LastLines(s, n)) => Occurs(y, s)
<1> DEFINE t == LastLines(s, n)
<1>1. /\ t \in Seq(Line) /\ Len(t) = IF Len(s) <= n THEN Len(s) ELSE n
      /\ \A i \in 1 .. Len(t) : t[i] = s[i + Len(s) - Len(t)]
  BY LastLinesIsSuffix
<1> HIDE DEF t
<1>a. Len(s) \in Nat /\ Len(t) \in Nat /\ Len(t) <= Len(s)
      /\ DOMAIN s = 1 .. Len(s) /\ DOMAIN t = 1 .. Len(t)
  BY <1>1
<1>2. \A i \in 1 .. Len(t) : i + Len(s) - Len(t) \in DOMAIN s
  BY <1>a
<1>3. ASSUME NEW y, Occurs(y, t) PROVE Occurs(y, s)
  <2>1. PICK i \in 1 .. Len(t) : t[i] = y
    BY <1>1, <1>3 DEF Occurs
  <2> QED BY <1>1, <1>2, <2>1 DEF Occurs
<1> QED BY <1>3 DEF t

LEMMA AliveShrinks ==
  ASSUME RefInv, IdxInv, Quiet \/ Moves \/ Stop \/ Start
  PROVE  \A y : Alive(y)' => Alive(y)
<1>0. LogInv /\ Raw # Active /\ Raw # Archive /\ issued \in Seq(Line)
  BY DEF RefInv, LogInv, TypeOK, Raw, Active, Archive
<1>1. \A y : Held(y)' => Held(y)
  <2>1. UNCHANGED issued /\ Next
    BY DEF Quiet, Moves, Stop, Start, WriteRecord, WriteFails, SyncTick, Close, RotateAborts,
           RotateReopen, RotateRename, RotateCompress, RotateRemove, Exit, Kill, PowerLoss, Boot,
           ghosts, Next
  <2>2. ~LinkAndStore /\ ~StoreSystem
    <3>1. \A x : Append(issued, x) # issued
      <4>1. \A x : Len(Append(issued, x)) = Len(issued) + 1
        BY <1>0
      <4>2. Len(issued) \in Nat
        BY <1>0
      <4>3. Len(issued) + 1 # Len(issued)
        BY <4>2
      <4> QED BY <4>1, <4>3
    <3> QED BY <2>1, <3>1 DEF LinkAndStore, StoreSystem
  <2>3. Keeps
    BY <2>1, <2>2, OtherStepsKeep
  <2> QED BY <2>3 DEF Keeps
<1>2. ASSUME NEW y, Occurs(y, history)' PROVE Alive(y)
  <2>1. Occurs(y, history')
    BY <1>2 DEF Occurs
  <2>2. CASE history' = history
    BY <2>1, <2>2 DEF Alive
  <2>3. CASE Stop
    <3>1. history' = <<>>
      BY <2>3 DEF Stop, Exit, Kill, PowerLoss, Halt
    <3> QED BY <2>1, <3>1 DEF Occurs
  <2>4. CASE Start
    <3>1. history' = LastLines(LoadRecords, MaxHistoryLines)
      BY <2>4 DEF Start, Boot
    <3>2. LoadRecords \in Seq(Line)
      BY <1>0, LoadRecordsType DEF LogInv
    <3>3. Occurs(y, LoadRecords)
      BY <2>1, <3>1, <3>2, WindowOccurs, HistoryLogAssumption
    <3> QED BY <1>0, <3>3, LoadedIsHeld DEF Alive
  <2>5. Quiet \/ Moves => history' = history
    BY <1>0, QuietStep DEF Moves, RotateRename, RotateCompress, RotateRemove, ramVars
  <2> QED BY <2>2, <2>3, <2>4, <2>5
<1>3. ASSUME NEW y, (HasTier(idx, Raw) /\ old # NoFile /\ Occurs(y, old))' PROVE Alive(y)
  <2>1. HasTier(idx', Raw) /\ old' # NoFile /\ Occurs(y, old')
    BY <1>3 DEF HasTier, Occurs
  <2>2. CASE Quiet
    <3>1. old' = old /\ (idx' = idx \/ Wrote)
      BY <1>0, <2>2, QuietStep
    <3>2. CASE Wrote
      <4> DEFINE h == Head(queue).height
                 p == Len(Readable)
      <4>1. h \in Nat /\ p \in Nat /\ idx' = IndexWrote(idx, h, p) /\ idx \in Seq(Gen) /\ Downward(idx)
        <5>1. queue # <<>> /\ queue \in Seq(Line) /\ Readable \in Seq(Line)
          BY <1>0, <2>2, <3>2, QuietStep DEF Wrote, LogInv, TypeOK
        <5>2. Head(queue) \in Line
          BY <5>1, TailType
        <5> QED BY <3>2, <5>1, <5>2 DEF Wrote, IdxInv, Line
      <4> HIDE DEF h, p
      <4>2. HasTier(idx', Raw) <=> HasTier(idx, Raw) \/ Raw = Active
        BY <4>1, IndexWroteIs
      <4> QED BY <1>0, <2>1, <3>1, <4>2 DEF Alive
    <3> QED BY <2>1, <3>1, <3>2 DEF Alive
  <2>3. CASE Moves
    <3>1. CASE RotateRename
      <4>1. old' = active
        BY <3>1 DEF RotateRename
      <4> QED BY <2>1, <4>1 DEF Alive, Held
    <3>2. CASE RotateCompress /\ UNCHANGED idx
      <4>1. old' = old
        BY <3>2 DEF RotateCompress
      <4> QED BY <2>1, <3>2, <4>1 DEF Alive
    <3>3. CASE RotateRemove /\ idx' = IndexArchived
      <4>1. HasTier(IndexArchived, Raw) <=>
              (HasTier(idx, Raw) /\ Raw = Active) \/ (Raw = Archive /\ HasTier(idx, Raw))
        BY IndexArchivedIs DEF IdxInv
      <4> QED BY <1>0, <2>1, <3>3, <4>1
    <3> QED BY <2>3, <3>1, <3>2, <3>3 DEF Moves
  <2>4. CASE Stop
    <3>1. idx' = <<>>
      BY <2>4 DEF Stop
    <3> QED BY <2>1, <3>1 DEF HasTier
  <2>5. CASE Start
    <3>1. idx' = BootIndex /\ old' = old
      BY <2>5 DEF Start, Boot, diskVars
    <3>2. HasTier(BootIndex, Raw) <=> zst = NoFile /\ Lines(old) # <<>>
      BY <1>0, BootIndexIs DEF LogInv
    <3> QED BY <2>1, <3>1, <3>2 DEF Alive, Held
  <2> QED BY <2>2, <2>3, <2>4, <2>5
<1> QED BY <1>1, <1>2, <1>3 DEF Alive

LEMMA BornStep ==
  ASSUME RefInv, IdxInv, BornInv, [SegNext]_allVars PROVE BornInv'
<1>0. LogInv /\ issued \in Seq(Line)
  BY DEF RefInv, LogInv, TypeOK
<1>1. CASE Store
  <2>1. PICK x : Stores(x)
    BY <1>0, <1>1, StoreStep
  <2>2. issued' \in Seq(Line) /\ \A y : Occurs(y, issued') <=> Occurs(y, issued) \/ y = x
    BY <1>0, <2>1, AppendOccurs DEF Stores
  <2>3. ASSUME LastChained(issued') = 0 PROVE ~Chained(x) /\ LastChained(issued) = 0
    BY <1>0, <2>2, <2>3, LastChainedFinds
  <2>4. \A y : Alive(y)' => Alive(y) \/ y = x
    BY <1>0, <2>1, AliveStores
  <2> QED BY <2>3, <2>4 DEF BornInv, LastChained, NewestChained, Chained
<1>2. CASE Quiet \/ Moves \/ Stop \/ Start
  <2>1. issued' = issued
    BY <1>2 DEF Quiet, Moves, Stop, Start, WriteRecord, WriteFails, SyncTick, Close, RotateAborts,
           RotateReopen, RotateRename, RotateCompress, RotateRemove, Exit, Kill, PowerLoss, Boot, ghosts
  <2>2. \A y : Alive(y)' => Alive(y)
    BY <1>2, AliveShrinks
  <2> QED BY <2>1, <2>2 DEF BornInv, LastChained, NewestChained, Chained
<1>3. CASE UNCHANGED <<vars, idx>>
  <2>1. \A y : Alive(y)' => Alive(y)
    BY <1>3 DEF vars, ramVars, diskVars, Alive, Held, Occurs, HasTier
  <2> QED BY <1>3, <2>1 DEF vars, ghosts, BornInv, LastChained, NewestChained, Chained
<1> QED BY <1>1, <1>2, <1>3, LogSteps, PageStepsKeep DEF SegNext, allVars, segVars

(* What the link of the next message extends, after a notice. *)
LEMMA ResumedAfterNotice ==
  ASSUME LogInv, BornInv, NEW x, Stores(x), StoreSystem, x.height = 0,
         UNCHANGED <<ready, tip, height, forgot>>
  PROVE  \/ Resumed.height' = Resumed.height /\ (Forgets => Forgets')
         \/ Forgets'
<1>0. /\ history \in Seq(Line) /\ issued \in Seq(Line) /\ x \in Line /\ ~Chained(x)
      /\ history' = AppendMessage(history, x) /\ issued' = Append(issued, x)
  BY DEF LogInv, TypeOK, Stores, Chained
<1>1. CASE ready
  BY <1>1, ResumedHeight DEF Forgets, Resumed
<1>2. CASE ~ready
  <2>1. LastChained(issued) # 0 => LastChained(issued') # 0
    <3>1. issued' \in Seq(Line) /\ \A y : Occurs(y, issued') <=> Occurs(y, issued) \/ y = x
      BY <1>0, AppendOccurs
    <3> QED BY <1>0, <3>1, LastChainedFinds
  <2>2. CASE LastChained(history') # 0
    <3>1. LastChained(history) # 0 /\ history'[LastChained(history')] = history[LastChained(history)]
      BY <1>0, <2>2, NewestAfterNotice
    <3>2. Resumed.height = history[LastChained(history)].height
      BY <1>2, <3>1, ResumedHeight
    <3>3. Resumed.height' = history'[LastChained(history')].height
      BY <1>2, <2>2 DEF Resumed, InitChain
    <3> QED BY <3>1, <3>2, <3>3 DEF Forgets
  <2>3. CASE LastChained(history') = 0 /\ LastChained(issued) # 0
    <3>1. Forgets'
      BY <1>2, <2>1, <2>3 DEF Forgets
    <3> QED BY <3>1
  <2>4. CASE LastChained(history') = 0 /\ LastChained(issued) = 0
    <3>1. \A y : Occurs(y, history) => ~Chained(y)
      BY <2>4 DEF BornInv, Alive
    <3>2. LastChained(history) = 0
      BY <1>0, <3>1, LastChainedFinds
    <3>3. Resumed.height = 0 /\ ~Forgets
      BY <1>2, <2>4, <3>2, ResumedHeight DEF Forgets
    <3>4. Resumed.height' = 0
      BY <1>2, <2>4 DEF Resumed, InitChain
    <3> QED BY <3>3, <3>4
  <2> QED BY <2>2, <2>3, <2>4
<1> QED BY <1>1, <1>2

LEMMA RisesStep ==
  ASSUME RefInv, RefInv', IdxInv, OldInv, WinInv, BornInv, RisesInv, [SegNext]_allVars
  PROVE  RisesInv'
<1>0. LogInv /\ history \in Seq(Line) /\ issued \in Seq(Line) /\ seq \in Nat
  BY DEF RefInv, LogInv, TypeOK
<1>r. Resumed.height \in Nat
  BY <1>0, ResumedType DEF LogInv
<1>a. \A y : Alive(y) => /\ y \in Line /\ y.seq \in Nat /\ y.height \in Nat
                         /\ phase # "down" => y.seq <= seq
  BY <1>0, AliveIsLine
<1> SUFFICES ASSUME ~forgot'
             PROVE  (/\ \A x, y : Alive(x) /\ Alive(y) /\ Chained(x) /\ Chained(y) /\ x.seq < y.seq
                                    => x.height < y.height
                     /\ phase # "down" => Forgets \/ \A x : Alive(x) => x.height <= Resumed.height)'
  BY DEF RisesInv
<1>b. ~forgot
  BY SegStepIsStep DEF Next, vars, ghosts, LinkAndStore, StoreSystem, WriteRecord, WriteFails, SyncTick, Close,
     RotateAborts, RotateReopen, RotateRename, RotateCompress, RotateRemove, Exit, Kill, PowerLoss, Boot
<1>c. /\ \A x, y : Alive(x) /\ Alive(y) /\ Chained(x) /\ Chained(y) /\ x.seq < y.seq
                     => x.height < y.height
      /\ phase # "down" => Forgets \/ \A x : Alive(x) => x.height <= Resumed.height
  BY <1>b DEF RisesInv
<1>1. CASE Store
  <2>1. PICK x : Stores(x)
    BY <1>0, <1>1, StoreStep
  <2>2. /\ x \in Line /\ x.seq = seq + 1 /\ phase # "down" /\ phase' # "down"
        /\ x.height \in Nat
    BY <2>1 DEF Stores, Line
  <2>3. \A y : Alive(y)' => Alive(y) \/ y = x
    BY <1>0, <2>1, AliveStores
  <2>4. CASE /\ x.height = Resumed.height + 1 /\ ready' = TRUE /\ height' = x.height /\ ~Forgets
    <3>1. \A y : Alive(y) => y.height <= Resumed.height /\ y.seq <= seq /\ y.height \in Nat /\ y.seq \in Nat
      BY <1>a, <1>c, <2>2, <2>4
    <3>2. ASSUME NEW y, NEW z, Alive(y)', Alive(z)', Chained(y), Chained(z), y.seq < z.seq
          PROVE  y.height < z.height
      <4>1. y # x
        <5> SUFFICES ASSUME y = x PROVE FALSE
          OBVIOUS
        <5>1. z = x \/ (z.seq <= seq /\ z.seq \in Nat)
          BY <2>3, <3>1, <3>2
        <5> QED BY <1>0, <2>2, <3>2, <5>1
      <4>2. Alive(y)
        BY <2>3, <3>2, <4>1
      <4>3. CASE z = x
        BY <1>r, <2>4, <3>1, <4>2, <4>3
      <4>4. CASE Alive(z)
        BY <1>c, <3>2, <4>2, <4>4
      <4> QED BY <2>3, <3>2, <4>3, <4>4
    <3>3. Resumed.height' = Resumed.height + 1
      BY <2>4 DEF Resumed
    <3>4. ASSUME NEW y, Alive(y)' PROVE y.height <= Resumed.height'
      BY <1>r, <2>3, <2>4, <3>1, <3>3, <3>4
    <3> QED BY <3>2, <3>4 DEF Chained
  <2>5. CASE StoreSystem /\ x.height = 0 /\ UNCHANGED <<ready, tip, height, forgot>>
    <3>1. \/ Resumed.height' = Resumed.height /\ (Forgets => Forgets')
          \/ Forgets'
      BY <1>0, <2>1, <2>5, ResumedAfterNotice
    <3>2. ASSUME NEW y, NEW z, Alive(y)', Alive(z)', Chained(y), Chained(z), y.seq < z.seq
          PROVE  y.height < z.height
      <4>1. y # x /\ z # x
        BY <2>5, <3>2 DEF Chained
      <4> QED BY <1>c, <2>3, <3>2, <4>1
    <3>3. Forgets' \/ \A y : Alive(y)' => y.height <= Resumed.height'
      BY <1>c, <1>r, <2>2, <2>3, <2>5, <3>1
    <3> QED BY <3>2, <3>3 DEF Chained
  <2> QED BY <2>1, <2>4, <2>5 DEF Stores
<1>2. CASE Quiet \/ Moves
  <2>1. UNCHANGED <<ramVars, issued>> /\ phase # "down"
    BY <1>0, <1>2, QuietStep DEF Moves, RotateRename, RotateCompress, RotateRemove, ghosts
  <2>2. \A y : Alive(y)' => Alive(y)
    BY <1>2, AliveShrinks
  <2>3. Resumed' = Resumed /\ Forgets' = Forgets
    BY <2>1 DEF ramVars, Resumed, InitChain, Forgets, LastChained, NewestChained, Chained, Hash
  <2>4. Resumed.height' = Resumed.height
    BY <2>3
  <2> QED BY <1>c, <2>1, <2>2, <2>3, <2>4 DEF Chained
<1>3. CASE Stop
  <2>1. phase' = "down"
    BY <1>3 DEF Stop, Exit, Kill, PowerLoss, Halt
  <2>2. \A y : Alive(y)' => Alive(y)
    BY <1>3, AliveShrinks
  <2> QED BY <1>c, <2>1, <2>2 DEF Chained
<1>4. CASE Start
  <2> DEFINE l == LoadRecords
             t == LastLines(l, MaxHistoryLines)
  <2>1. /\ history' = t /\ issued' = issued /\ ready' = ready /\ phase = "down"
        /\ UNCHANGED <<queue, writer, active, old, zst>>
    BY <1>4 DEF Start, Boot, ghosts, diskVars
  <2>2. ~ready /\ queue = <<>> /\ writer = "idle"
    BY <1>0, <2>1 DEF LogInv, RotationSteps
  <2>3. l \in Seq(Line) /\ InSeqOrder(l)
    BY <1>0, LoadedInOrder, LoadRecordsType DEF LogInv
  <2>4. \A y : Alive(y)' => Alive(y)
    BY <1>4, AliveShrinks
  <2>5. ASSUME NEW y, Alive(y)' PROVE Occurs(y, l)
    <3>1. Held(y)' => Held(y)
      BY <2>1 DEF Held, Occurs
    <3>2. ~Occurs(y, <<>>)
      BY DEF Occurs
    <3>3. Lines(old) \in Seq(Line) /\ active \in Seq(Line) /\ (zst # NoFile => zst \in Seq(Line))
          /\ (old # NoFile => Lines(old) = old)
      BY <1>0 DEF LogInv, TypeOK, Lines
    <3>4. Held(y) => Occurs(y, l)
      <4>1. ASSUME zst # NoFile PROVE Occurs(y, l) <=> Occurs(y, zst) \/ Occurs(y, active)
        <5>1. l = zst \o active
          BY <4>1 DEF LoadRecords
        <5>2. Occurs(y, zst \o active) <=> Occurs(y, zst) \/ Occurs(y, active)
          BY <3>3, <4>1, OccursInConcat
        <5> QED BY <5>1, <5>2
      <4>2. ASSUME zst = NoFile PROVE Occurs(y, l) <=> Occurs(y, Lines(old)) \/ Occurs(y, active)
        <5>1. l = Lines(old) \o active
          BY <4>2 DEF LoadRecords
        <5>2. Occurs(y, Lines(old) \o active) <=> Occurs(y, Lines(old)) \/ Occurs(y, active)
          BY <3>3, OccursInConcat
        <5> QED BY <5>1, <5>2
      <4> HIDE DEF l
      <4> QED BY <2>2, <3>2, <3>3, <4>1, <4>2 DEF Held
    <3>5. Occurs(y, history)' => Occurs(y, l)
      <4>1. Occurs(y, history)' => Occurs(y, t)
        BY <2>1 DEF Occurs
      <4> HIDE DEF l
      <4> QED BY <2>3, <4>1, WindowOccurs, HistoryLogAssumption
    <3>6. (HasTier(idx, Raw) /\ old # NoFile /\ Occurs(y, old))' => Held(y)
      <4>1. HasTier(BootIndex, Raw) <=> zst = NoFile /\ Lines(old) # <<>>
        BY <1>0, BootIndexIs DEF LogInv
      <4>2. idx' = BootIndex
        BY <1>4 DEF Start
      <4>3. HasTier(idx, Raw)' => HasTier(BootIndex, Raw)
        BY <4>2 DEF HasTier
      <4> QED BY <2>1, <4>1, <4>3 DEF Held, Occurs
    <3> QED BY <2>5, <3>1, <3>4, <3>5, <3>6 DEF Alive
  <2> HIDE DEF l
  <2>6. CASE LastChained(t) # 0
    <3> DEFINE w == t[LastChained(t)]
    <3>1. LastChained(l) # 0 /\ w = l[LastChained(l)]
      BY <2>3, <2>6, NewestInWindow, HistoryLogAssumption
    <3>2. Resumed.height' = w.height
      BY <2>1, <2>2, <2>6 DEF Resumed, InitChain
    <3>3. Alive(w) /\ Chained(w) /\ w.height \in Nat
      <4>1. LastChained(l) \in DOMAIN l /\ NewestChained(l, LastChained(l))
        BY <2>3, <3>1, LastChainedFinds
      <4>2. Occurs(w, l) /\ Chained(w)
        BY <3>1, <4>1 DEF NewestChained, Occurs
      <4>3. Held(w)
        BY <1>0, <4>2, LoadedIsHeld DEF l
      <4>4. Alive(w)
        BY <4>3 DEF Alive
      <4> QED BY <1>a, <4>2, <4>4
    <3> HIDE DEF w, t
    <3>4. ASSUME NEW y, Alive(y)' PROVE y.height <= w.height
      <4>1. Alive(y) /\ Occurs(y, l) /\ y.height \in Nat
        BY <1>a, <2>4, <2>5, <3>4
      <4>2. CASE Chained(y)
        <5>1. y = w \/ y.seq < w.seq
          BY <2>3, <3>1, <4>1, <4>2, NewestIsLatest
        <5>2. y = w \/ y.height < w.height
          BY <1>c, <3>3, <4>1, <4>2, <5>1
        <5> QED BY <3>3, <4>1, <5>2
      <4>3. CASE ~Chained(y)
        BY <3>3, <4>1, <4>3 DEF Chained
      <4> QED BY <4>2, <4>3
    <3> QED BY <1>c, <2>4, <3>2, <3>4 DEF Chained
  <2>7. CASE LastChained(t) = 0 /\ LastChained(issued) # 0
    <3>1. Forgets'
      BY <2>1, <2>2, <2>7 DEF Forgets
    <3> QED BY <1>c, <2>4, <3>1 DEF Chained
  <2>8. CASE LastChained(t) = 0 /\ LastChained(issued) = 0
    <3>1. Resumed.height' = 0
      BY <2>1, <2>2, <2>8 DEF Resumed, InitChain
    <3>2. \A y : Alive(y)' => y.height = 0
      BY <2>4, <2>8 DEF BornInv, Chained
    <3> QED BY <1>c, <2>4, <3>1, <3>2 DEF Chained
  <2> QED BY <2>6, <2>7, <2>8
<1>5. CASE UNCHANGED <<vars, idx>>
  <2>1. \A y : Alive(y)' => Alive(y)
    BY <1>5 DEF vars, ramVars, diskVars, Alive, Held, Occurs, HasTier
  <2>2. Resumed' = Resumed /\ Forgets' = Forgets /\ phase' = phase
    BY <1>5 DEF vars, ramVars, ghosts, Resumed, InitChain, Forgets, LastChained, NewestChained, Chained, Hash
  <2>3. Resumed.height' = Resumed.height
    BY <2>2
  <2> QED BY <1>c, <2>1, <2>2, <2>3 DEF Chained
<1> QED BY <1>1, <1>2, <1>3, <1>4, <1>5, LogSteps, PageStepsKeep DEF SegNext, allVars, segVars

-----------------------------------------------------------------------------
(* What a sample promises seekOffset: everything before it is lower.       *)
SampleFits(s, lines) == s.pos <= Len(lines) /\ \A j \in 1 .. s.pos : lines[j].height < s.height

SamplesGood(gens) ==
  \A s, t : SampleOf(s, gens, t) => t \in {Active, Raw} /\ SampleFits(s, GenLines(t))

(* All samples of the index keep that promise.                             *)
SampleInv == ~forgot => SamplesGood(idx)

LEMMA SampleType ==
  ASSUME NEW gens \in Seq(Gen), NEW s, NEW t, SampleOf(s, gens, t)
  PROVE  s.height \in Nat /\ s.pos \in Nat /\ HasTier(gens, t)
<1>1. PICK i \in DOMAIN gens : gens[i].tier = t /\ Occurs(s, gens[i].samples)
  BY DEF SampleOf
<1>2. gens[i].samples \in Seq(Sample)
  <2>1. gens[i] \in Gen
    BY <1>1
  <2> QED BY <2>1, GenFields
<1>3. s \in Sample
  BY <1>1, <1>2 DEF Occurs
<1>4. HasTier(gens, t)
  BY <1>1 DEF HasTier
<1> QED BY <1>3, <1>4 DEF Sample

LEMMA FitsLonger ==
  ASSUME NEW a \in Seq(Line), NEW b \in Seq(Line), Len(a) <= Len(b),
         \A i \in 1 .. Len(a) : b[i] = a[i],
         NEW s, s.pos \in Nat, SampleFits(s, a)
  PROVE  SampleFits(s, b)
<1>1. Len(a) \in Nat /\ Len(b) \in Nat /\ s.pos <= Len(a)
  BY DEF SampleFits
<1>2. \A j \in 1 .. s.pos : j \in 1 .. Len(a)
  BY <1>1
<1>3. s.pos <= Len(b)
  BY <1>1
<1> QED BY <1>2, <1>3 DEF SampleFits

LEMMA GenLinesAre ==
  ASSUME LogInv
  PROVE  /\ GenLines(Active) = Readable /\ GenLines(Raw) = Lines(old) /\ GenLines(Archive) = Lines(zst)
         /\ Readable \in Seq(Line) /\ Lines(old) \in Seq(Line) /\ Lines(zst) \in Seq(Line)
         /\ (old # NoFile => Lines(old) = old) /\ (zst # NoFile => Lines(zst) = zst)
         /\ (old = NoFile => Lines(old) = <<>>) /\ (zst = NoFile => Lines(zst) = <<>>)
         /\ Len(Readable) <= Len(active) /\ Len(active) <= Len(Readable) + 1
         /\ \A i \in DOMAIN Readable : i \in DOMAIN active /\ Readable[i] = active[i]
<1>1. GenLines(Active) = Readable /\ GenLines(Raw) = Lines(old) /\ GenLines(Archive) = Lines(zst)
  BY DEF GenLines, Active, Raw, Archive
<1>2. /\ Readable \in Seq(Line) /\ Len(Readable) <= Len(active)
      /\ \A i \in DOMAIN Readable : i \in DOMAIN active /\ Readable[i] = active[i]
  BY ReadableType DEF LogInv
<1>3. /\ Lines(old) \in Seq(Line) /\ Lines(zst) \in Seq(Line) /\ active \in Seq(Line)
      /\ (old # NoFile => Lines(old) = old) /\ (zst # NoFile => Lines(zst) = zst)
      /\ (old = NoFile => Lines(old) = <<>>) /\ (zst = NoFile => Lines(zst) = <<>>)
  BY DEF LogInv, TypeOK, Lines
<1>4. Len(active) <= Len(Readable) + 1
  <2>1. CASE tail = "unterminated"
    <3>1. active # <<>>
      BY <2>1 DEF LogInv, RotationSteps
    <3>2. Len(active) \in Nat \ {0}
      BY <1>3, <3>1
    <3>3. Len(SubSeq(active, 1, Len(active) - 1)) = Len(active) - 1
      <4> DEFINE n == Len(active)
                 r == SubSeq(active, 1, n - 1)
      <4>1. n \in Nat \ {0} /\ n - 1 \in Int /\ 1 \in Int /\ \A i \in 1 .. n - 1 : active[i] \in Line
        BY <1>3, <3>2
      <4>2. Len(r) = IF 1 <= n - 1 THEN (n - 1) - 1 + 1 ELSE 0
        <5> HIDE DEF n
        <5> QED BY <4>1, SubSeqProperties
      <4> HIDE DEF n, r
      <4>3. Len(r) = n - 1
        BY <4>1, <4>2
      <4> QED BY <4>3 DEF n, r
    <3> QED BY <2>1, <3>2, <3>3 DEF Readable
  <2>2. CASE tail # "unterminated"
    <3>1. Readable = active /\ Len(active) \in Nat
      BY <1>3, <2>2 DEF Readable
    <3> QED BY <3>1
  <2> QED BY <2>1, <2>2
<1> QED BY <1>1, <1>2, <1>3, <1>4

LEMMA GenLinesKept ==
  ASSUME UNCHANGED <<active, tail, old, zst>>
  PROVE  \A t : GenLines(t)' = GenLines(t)
BY DEF GenLines, Readable, Lines

(* Quiet steps only make the active file longer. *)
LEMMA QuietLonger ==
  ASSUME LogInv, LogInv', Quiet, NEW t \in Tiers
  PROVE  /\ GenLines(t) \in Seq(Line) /\ GenLines(t)' \in Seq(Line)
         /\ Len(GenLines(t)) <= Len(GenLines(t)')
         /\ \A i \in 1 .. Len(GenLines(t)) : GenLines(t)'[i] = GenLines(t)[i]
         /\ t # Active => GenLines(t)' = GenLines(t)
<1>1. /\ UNCHANGED <<old, zst>> /\ Readable \in Seq(Line)
      /\ Readable' = Readable \/ (queue # <<>> /\ Readable' = Append(Readable, Head(queue)))
  BY QuietStep
<1>2. t \in {Active, Raw, Archive} /\ Active = 1 /\ Raw = 2 /\ Archive = 3
  BY DEF Tiers, Active, Raw, Archive
<1>3. CASE t = Active
  <2>1. GenLines(t) = Readable /\ GenLines(t)' = Readable'
    BY <1>3 DEF GenLines, Active, Raw, Archive
  <2>2. queue # <<>> => Head(queue) \in Line
    BY TailType DEF LogInv, TypeOK
  <2>3. CASE Readable' = Readable
    <3>1. Len(Readable) \in Nat
      BY <1>1
    <3> QED BY <1>1, <1>3, <2>1, <2>3, <3>1
  <2>4. CASE queue # <<>> /\ Readable' = Append(Readable, Head(queue))
    <3> DEFINE r == Readable
               h == Head(queue)
    <3>1. r \in Seq(Line) /\ h \in Line
      BY <1>1, <2>2, <2>4
    <3> HIDE DEF r, h
    <3>2. /\ Append(r, h) \in Seq(Line) /\ Len(r) <= Len(Append(r, h))
          /\ \A i \in 1 .. Len(r) : Append(r, h)[i] = r[i]
      BY <3>1
    <3> QED BY <1>1, <1>3, <2>1, <2>4, <3>2 DEF r, h
  <2> QED BY <1>1, <2>3, <2>4
<1>4. CASE t # Active
  <2>1. GenLines(t)' = GenLines(t)
    BY <1>1, <1>2, <1>4 DEF GenLines, Lines
  <2>2. GenLines(t) \in Seq(Line)
    BY <1>2, <1>4, GenLinesAre
  <2>3. Len(GenLines(t)) \in Nat
    BY <2>2
  <2> QED BY <1>4, <2>1, <2>2, <2>3
<1> QED BY <1>3, <1>4

LEMMA SamplesStayGood ==
  ASSUME LogInv, LogInv', Quiet, NEW gens \in Seq(Gen), SamplesGood(gens),
         NEW s, NEW t, SampleOf(s, gens, t)
  PROVE  t \in {Active, Raw} /\ SampleFits(s, GenLines(t)')
<1>1. t \in {Active, Raw} /\ SampleFits(s, GenLines(t)) /\ s.pos \in Nat
  BY SampleType DEF SamplesGood
<1>2. t \in Tiers
  BY <1>1 DEF Tiers
<1> DEFINE a == GenLines(t)
           b == GenLines(t)'
<1>3. a \in Seq(Line) /\ b \in Seq(Line) /\ Len(a) <= Len(b) /\ \A i \in 1 .. Len(a) : b[i] = a[i]
  BY <1>2, QuietLonger
<1>4. SampleFits(s, a)
  BY <1>1
<1> HIDE DEF a, b
<1>5. SampleFits(s, b)
  BY <1>1, <1>3, <1>4, FitsLonger
<1> QED BY <1>1, <1>5 DEF b

LEMMA LowerBefore ==
  ASSUME LogInv, OldInv, WinInv, RisesInv, ~forgot, NEW x, NEW y, Alive(x), Alive(y), Chained(y),
         x.seq < y.seq
  PROVE  x.height < y.height
<1>1. x.height \in Nat /\ y.height \in Nat
  BY AliveIsLine
<1>2. CASE Chained(x)
  BY <1>2 DEF RisesInv
<1>3. CASE ~Chained(x)
  BY <1>1, <1>3 DEF Chained
<1> QED BY <1>2, <1>3

LEMMA SampleStep ==
  ASSUME RefInv, RefInv', IdxInv, OldInv, WinInv, RisesInv, SampleInv, [SegNext]_allVars
  PROVE  SampleInv'
<1>0. LogInv /\ LogInv' /\ Active = 1 /\ Raw = 2 /\ Archive = 3
      /\ active \in Seq(Line) /\ queue \in Seq(Line) /\ idx \in Seq(Gen)
  BY DEF RefInv, LogInv, TypeOK, Active, Raw, Archive, IdxInv
<1> SUFFICES ASSUME ~forgot' PROVE SamplesGood(idx)'
  BY DEF SampleInv
<1>b. ~forgot
  BY SegStepIsStep DEF Next, vars, ghosts, LinkAndStore, StoreSystem, WriteRecord, WriteFails, SyncTick, Close,
     RotateAborts, RotateReopen, RotateRename, RotateCompress, RotateRemove, Exit, Kill, PowerLoss, Boot
<1>c. SamplesGood(idx)
  BY <1>b DEF SampleInv
<1> SUFFICES ASSUME NEW s, NEW t, SampleOf(s, idx, t)'
             PROVE  t \in {Active, Raw} /\ SampleFits(s, GenLines(t)')
  BY DEF SamplesGood, SampleFits
<1>d. SampleOf(s, idx', t)
  BY DEF SampleOf, Occurs
<1>1. CASE Store
  <2>1. UNCHANGED <<idx, active, tail, old, zst>>
    BY <1>1 DEF Store, LinkAndStore, StoreSystem, diskVars
  <2>2. GenLines(t)' = GenLines(t)
    BY <2>1, GenLinesKept
  <2> QED BY <1>c, <1>d, <2>1, <2>2 DEF SamplesGood
<1>2. CASE Quiet
  <2>1. idx' = idx \/ Wrote
    BY <1>0, <1>2, QuietStep
  <2>2. CASE SampleOf(s, idx, t)
    BY <1>0, <1>2, <1>c, <2>2, SamplesStayGood
  <2>3. CASE Wrote /\ ~SampleOf(s, idx, t)
    <3> DEFINE q == Head(queue)
               h == q.height
               p == Len(Readable)
    <3>1. queue # <<>> /\ Chained(q) /\ Readable \in Seq(Line)
      BY <1>0, <1>2, <2>3, QuietStep DEF Wrote
    <3>2. q \in Line /\ Occurs(q, queue)
      BY <1>0, <3>1, TailOccurs
    <3>3. h \in Nat /\ p \in Nat /\ idx' = IndexWrote(idx, h, p) /\ Downward(idx)
      BY <2>3, <3>1, <3>2 DEF Wrote, Line, IdxInv
    <3> HIDE DEF h, p
    <3>4. t = Active /\ s = [height |-> h, pos |-> p]
      BY <1>0, <1>d, <2>3, <3>3, IndexWroteIs
    <3>5. s.height = h /\ s.pos = p
      BY <3>4
    <3>6. \A j \in 1 .. p : Readable[j].height < h
      <4> SUFFICES ASSUME NEW j \in 1 .. p PROVE Readable[j].height < h
        OBVIOUS
      <4>1. j \in DOMAIN Readable
        BY <3>1 DEF p
      <4>2. j \in DOMAIN active /\ Readable[j] = active[j]
        BY <1>0, <4>1, GenLinesAre
      <4>3. Occurs(active[j], active) /\ Alive(active[j]) /\ Alive(q)
        BY <3>2, <4>2 DEF Occurs, Alive, Held
      <4>4. active[j].seq < q.seq
        <5>1. Precedes(active, queue)
          BY <1>0 DEF LogInv, FilesInSeqOrder
        <5> QED BY <3>2, <4>3, <5>1, ByLines
      <4> QED BY <1>0, <1>b, <3>1, <4>2, <4>3, <4>4, LowerBefore DEF h
    <3>7. Active \in Tiers
      BY DEF Tiers
    <3>8. /\ GenLines(Active) = Readable /\ Len(GenLines(Active)) <= Len(GenLines(Active)')
          /\ \A i \in 1 .. Len(GenLines(Active)) : GenLines(Active)'[i] = GenLines(Active)[i]
      BY <1>0, <1>2, <3>7, QuietLonger, GenLinesAre
    <3>9. p <= Len(GenLines(t)') /\ \A j \in 1 .. p : GenLines(t)'[j].height < h
      BY <3>4, <3>6, <3>8 DEF p
    <3> QED BY <3>4, <3>5, <3>9 DEF SampleFits
  <2> QED BY <1>d, <2>1, <2>2, <2>3
<1>3. CASE Moves
  <2>1. CASE RotateRename /\ idx' = IndexRenamed
    <3>1. \/ t = Archive /\ SampleOf(s, idx, Archive)
          \/ t = Raw /\ SampleOf(s, idx, Active)
      BY <1>0, <1>d, <2>1, IndexRenamedIs DEF IdxInv
    <3>2. t = Raw /\ SampleOf(s, idx, Active)
      BY <1>0, <1>c, <3>1 DEF SamplesGood
    <3>3. SampleFits(s, Readable) /\ s.pos \in Nat
      BY <1>0, <1>c, <3>2, GenLinesAre, SampleType DEF SamplesGood
    <3>4. GenLines(t)' = active
      <4>1. old' = active /\ active # NoFile
        BY <1>0, <2>1, HistoryLogAssumption DEF RotateRename, Line
      <4> QED BY <1>0, <3>2, <4>1 DEF GenLines, Lines
    <3>5. /\ Readable \in Seq(Line) /\ Len(Readable) <= Len(active)
          /\ \A i \in 1 .. Len(Readable) : active[i] = Readable[i]
      BY <1>0, GenLinesAre
    <3>6. SampleFits(s, active)
      <4> DEFINE r == Readable
      <4> HIDE DEF r
      <4>1. /\ r \in Seq(Line) /\ Len(r) <= Len(active)
            /\ \A i \in 1 .. Len(r) : active[i] = r[i]
            /\ SampleFits(s, r)
        BY <3>3, <3>5 DEF r
      <4> QED BY <1>0, <3>3, <4>1, FitsLonger
    <3> QED BY <3>2, <3>4, <3>6
  <2>2. CASE RotateCompress /\ UNCHANGED idx
    <3>1. UNCHANGED <<active, tail, old>>
      BY <2>2 DEF RotateCompress
    <3>2. t \in {Active, Raw} /\ SampleFits(s, GenLines(t))
      BY <1>c, <1>d, <2>2 DEF SamplesGood
    <3>3. GenLines(t)' = GenLines(t)
      BY <1>0, <3>1, <3>2 DEF GenLines, Readable, Lines
    <3> QED BY <3>2, <3>3
  <2>3. CASE RotateRemove /\ idx' = IndexArchived
    <3>1. SampleOf(s, idx, Active)
      BY <1>0, <1>d, <2>3, IndexArchivedIs DEF IdxInv
    <3>2. HasTier(idx, Active)
      BY <1>0, <3>1, SampleType
    <3>3. writer # "idle"
      BY <2>3 DEF RotateRemove
    <3> QED BY <3>2, <3>3 DEF IdxInv
  <2> QED BY <1>3, <2>1, <2>2, <2>3 DEF Moves
<1>4. CASE Stop
  <2>1. idx' = <<>>
    BY <1>4 DEF Stop
  <2> QED BY <1>d, <2>1 DEF SampleOf
<1>5. CASE Start
  <2>1. idx' = BootIndex /\ UNCHANGED <<active, tail, old, zst>> /\ phase = "down"
    BY <1>5 DEF Start, Boot, diskVars
  <2>2. GenLines(t)' = GenLines(t)
    BY <2>1, GenLinesKept
  <2> DEFINE lines == IF t = Raw THEN Lines(old) ELSE active
  <2>3. /\ t \in {Active, Raw} /\ HasTier(BootIndex, t)
        /\ HasTier(BootIndex, Raw) <=> zst = NoFile /\ Lines(old) # <<>>
        /\ \E i \in DOMAIN lines : Chained(lines[i]) /\ s = [height |-> lines[i].height, pos |-> i - 1]
    BY <1>0, <1>d, <2>1, BootIndexIs DEF LogInv
  <2>4. /\ lines \in Seq(Line) /\ InSeqOrder(lines)
        /\ \A i \in DOMAIN lines : Alive(lines[i])
    <3>1. CASE t = Raw
      <4>1. zst = NoFile /\ old # NoFile /\ Lines(old) = old
        BY <1>0, <2>3, <3>1, GenLinesAre
      <4>2. InSeqOrder(old) /\ old \in Seq(Line)
        BY <1>0, <4>1 DEF LogInv, FilesInSeqOrder, InOrderBefore, TypeOK
      <4>3. \A i \in DOMAIN old : Alive(old[i])
        BY <4>1 DEF Alive, Held, Occurs
      <4> QED BY <3>1, <4>1, <4>2, <4>3
    <3>2. CASE t # Raw
      <4>1. \A i \in DOMAIN active : Alive(active[i])
        BY DEF Alive, Held, Occurs
      <4>2. InSeqOrder(active)
        BY <1>0 DEF LogInv, FilesInSeqOrder
      <4> QED BY <1>0, <3>2, <4>1, <4>2
    <3> QED BY <3>1, <3>2
  <2>5. GenLines(t) \in Seq(Line) /\ Len(lines) <= Len(GenLines(t)) + 1
        /\ \A j \in DOMAIN GenLines(t) : j \in DOMAIN lines /\ GenLines(t)[j] = lines[j]
    <3>1. CASE t = Raw
      <4>1. GenLines(t) = lines /\ lines \in Seq(Line)
        BY <1>0, <3>1, GenLinesAre
      <4>2. Len(lines) \in Nat
        BY <4>1
      <4> HIDE DEF lines
      <4> QED BY <4>1, <4>2
    <3>2. CASE t # Raw
      <4>1. t = Active /\ lines = active
        BY <2>3, <3>2
      <4>2. GenLines(t) = Readable
        BY <1>0, <4>1, GenLinesAre
      <4> HIDE DEF lines
      <4> QED BY <1>0, <4>1, <4>2, GenLinesAre
    <3> QED BY <3>1, <3>2
  <2> HIDE DEF lines
  <2>6. PICK i \in DOMAIN lines : Chained(lines[i]) /\ s = [height |-> lines[i].height, pos |-> i - 1]
    BY <2>3
  <2>7. s.height = lines[i].height /\ s.pos = i - 1 /\ i \in 1 .. Len(lines) /\ Len(lines) \in Nat
        /\ Len(GenLines(t)) \in Nat
    BY <2>4, <2>5, <2>6
  <2>8. s.pos <= Len(GenLines(t))
    BY <2>5, <2>7
  <2>9. \A j \in 1 .. s.pos : GenLines(t)[j].height < s.height
    <3> SUFFICES ASSUME NEW j \in 1 .. s.pos PROVE GenLines(t)[j].height < s.height
      OBVIOUS
    <3>1. j \in DOMAIN GenLines(t) /\ j < i
      BY <2>5, <2>7, <2>8
    <3>2. j \in DOMAIN lines /\ GenLines(t)[j] = lines[j]
      BY <2>5, <3>1
    <3>3. lines[j].seq < lines[i].seq
      BY <2>4, <2>6, <3>1, <3>2 DEF InSeqOrder
    <3>4. lines[j].height < lines[i].height
      BY <1>0, <1>b, <2>4, <2>6, <3>2, <3>3, LowerBefore
    <3> QED BY <2>7, <3>2, <3>4
  <2> QED BY <2>2, <2>3, <2>8, <2>9 DEF SampleFits
<1>6. CASE UNCHANGED <<vars, idx>>
  <2>1. UNCHANGED <<idx, active, tail, old, zst>>
    BY <1>6 DEF vars, diskVars
  <2>2. GenLines(t)' = GenLines(t)
    BY <2>1, GenLinesKept
  <2> QED BY <1>c, <1>d, <2>1, <2>2 DEF SamplesGood
<1> QED BY <1>1, <1>2, <1>3, <1>4, <1>5, <1>6, LogSteps, PageStepsKeep DEF SegNext, allVars, segVars

-----------------------------------------------------------------------------
(* A page in the making.                                                   *)
Reasons == {"behind", "evicted", "rotated"}

PageRec ==
  [step : {"index", "scan", "ram", "done"}, before : Nat, limit : Nat \ {0}, level : 0 .. 3,
   bound : Nat, gens : Seq(Gen), lines : Seq(Line), top : Nat, owed : SUBSET Nat,
   excuses : SUBSET Reasons]

(* A page is none or a record of its fields, and dies with the process.    *)
PageShape == (page = NoPage \/ page \in PageRec) /\ (phase = "down" => page = NoPage)

LEMMA PageFields ==
  ASSUME NEW p \in PageRec
  PROVE  /\ p.step \in {"index", "scan", "ram", "done"} /\ p.before \in Nat /\ p.limit \in Nat \ {0}
         /\ p.level \in 0 .. 3 /\ p.bound \in Nat /\ p.gens \in Seq(Gen) /\ p.lines \in Seq(Line)
         /\ p.top \in Nat /\ p.owed \in SUBSET Nat /\ p.excuses \in SUBSET Reasons
         /\ p = [step |-> p.step, before |-> p.before, limit |-> p.limit, level |-> p.level,
                 bound |-> p.bound, gens |-> p.gens, lines |-> p.lines, top |-> p.top,
                 owed |-> p.owed, excuses |-> p.excuses]
BY DEF PageRec

(* Two pages with the same question. *)
SamePage(p, q) ==
  /\ q \in PageRec
  /\ q.before = p.before /\ q.limit = p.limit /\ q.level = p.level /\ q.bound = p.bound
  /\ q.top = p.top /\ q.owed = p.owed

(* A page with a new step, new files to read and new lines.                *)
PageWith(p, st, g, l) ==
  [step |-> st, before |-> p.before, limit |-> p.limit, level |-> p.level,
   bound |-> p.bound, gens |-> g, lines |-> l, top |-> p.top,
   owed |-> p.owed, excuses |-> p.excuses]

LEMMA PageUpdate ==
  ASSUME NEW p \in PageRec, NEW st \in {"index", "scan", "ram", "done"}, NEW g \in Seq(Gen),
         NEW l \in Seq(Line), NEW q, q = PageWith(p, st, g, l)
  PROVE  SamePage(p, q) /\ q.step = st /\ q.gens = g /\ q.lines = l /\ q.excuses = p.excuses
<1>1. q \in PageRec
  <2>1. /\ p.before \in Nat /\ p.limit \in Nat \ {0}
        /\ p.level \in 0 .. 3 /\ p.bound \in Nat
        /\ p.top \in Nat /\ p.owed \in SUBSET Nat /\ p.excuses \in SUBSET Reasons
    BY PageFields
  <2> QED BY <2>1 DEF PageRec, PageWith
<1> QED BY <1>1 DEF SamePage, PageWith

LEMMA PageSpelt ==
  ASSUME NEW p \in PageRec PROVE p = PageWith(p, p.step, p.gens, p.lines)
BY PageFields DEF PageWith

LEMMA ExcusedIs ==
  ASSUME page \in PageRec, NEW why \in Reasons, Excused(why)
  PROVE  /\ SamePage(page, page') /\ page'.step = page.step /\ page'.gens = page.gens
         /\ page'.lines = page.lines /\ page.excuses \subseteq page'.excuses
         /\ IF Collecting THEN why \in page'.excuses ELSE page' = page
<1>1. CASE ~Collecting
  BY <1>1 DEF Excused, SamePage
<1>2. CASE Collecting
  <2> DEFINE e == page.excuses \cup {why}
             r == [step |-> page.step, before |-> page.before, limit |-> page.limit,
                   level |-> page.level, bound |-> page.bound, gens |-> page.gens,
                   lines |-> page.lines, top |-> page.top, owed |-> page.owed, excuses |-> e]
  <2>1. page = [step |-> page.step, before |-> page.before, limit |-> page.limit,
                level |-> page.level, bound |-> page.bound, gens |-> page.gens,
                lines |-> page.lines, top |-> page.top, owed |-> page.owed,
                excuses |-> page.excuses]
    BY PageFields
  <2>2. page' = [page EXCEPT !.excuses = @ \cup {why}]
    BY <1>2 DEF Excused
  <2>3. page' = r
    BY <2>1, <2>2
  <2>4. e \in SUBSET Reasons
    BY PageFields
  <2> HIDE DEF e
  <2>5. r \in PageRec
    <3>1. /\ page.step \in {"index", "scan", "ram", "done"} /\ page.before \in Nat
          /\ page.limit \in Nat \ {0} /\ page.level \in 0 .. 3 /\ page.bound \in Nat
          /\ page.gens \in Seq(Gen) /\ page.lines \in Seq(Line)
          /\ page.top \in Nat /\ page.owed \in SUBSET Nat
      BY PageFields
    <3> QED BY <2>4, <3>1 DEF PageRec
  <2>6. SamePage(page, page') /\ page'.step = page.step /\ page'.gens = page.gens
        /\ page'.lines = page.lines /\ page'.excuses = e
    BY <2>3, <2>5 DEF SamePage
  <2> QED BY <1>2, <2>6 DEF e
<1> QED BY <1>1, <1>2

-----------------------------------------------------------------------------
(* Operators on the lines of a page.                                       *)

LEMMA ByMessages ==
  ASSUME NEW a \in Seq(Line), NEW b \in Seq(Line)
  PROVE  /\ a \o b \in Seq(Line)
         /\ \A y : Occurs(y, a \o b) <=> Occurs(y, a) \/ Occurs(y, b)
         /\ (/\ Rising(a) /\ Rising(b)
             /\ \A x, y : Occurs(x, a) /\ Occurs(y, b) /\ Chained(x) /\ Chained(y)
                            => x.height < y.height) => Rising(a \o b)
<1> DEFINE c == a \o b
<1>1. c \in Seq(Line) /\ \A y : Occurs(y, c) <=> Occurs(y, a) \/ Occurs(y, b)
  BY ConcatLines, OccursInConcat
<1>2. /\ Len(a) \in Nat /\ Len(b) \in Nat /\ DOMAIN a = 1 .. Len(a) /\ DOMAIN b = 1 .. Len(b)
      /\ Len(c) = Len(a) + Len(b) /\ DOMAIN c = 1 .. Len(c)
      /\ \A i \in 1 .. Len(a) : c[i] = a[i]
      /\ \A i \in 1 .. Len(b) : c[Len(a) + i] = b[i]
  BY <1>1, ConcatLines
<1> HIDE DEF c
<1>3. ASSUME Rising(a), Rising(b),
             \A x, y : Occurs(x, a) /\ Occurs(y, b) /\ Chained(x) /\ Chained(y) => x.height < y.height,
             NEW i \in DOMAIN c, NEW j \in DOMAIN c, Chained(c[i]), Chained(c[j]), i < j
      PROVE  c[i].height < c[j].height
  <2>1. CASE j \in DOMAIN a
    <3>1. i \in DOMAIN a /\ c[i] = a[i] /\ c[j] = a[j]
      BY <1>2, <1>3, <2>1
    <3> QED BY <1>3, <2>1, <3>1 DEF Rising, Said
  <2>2. CASE j \notin DOMAIN a /\ i \in DOMAIN a
    <3>1. j - Len(a) \in DOMAIN b /\ Len(a) + (j - Len(a)) = j
      BY <1>2, <2>2
    <3>2. c[j] = b[j - Len(a)] /\ c[i] = a[i]
      BY <1>2, <2>2, <3>1
    <3>3. Occurs(c[i], a) /\ Occurs(c[j], b)
      BY <2>2, <3>1, <3>2 DEF Occurs
    <3> QED BY <1>3, <3>3
  <2>3. CASE j \notin DOMAIN a /\ i \notin DOMAIN a
    <3>1. /\ j - Len(a) \in DOMAIN b /\ Len(a) + (j - Len(a)) = j
          /\ i - Len(a) \in DOMAIN b /\ Len(a) + (i - Len(a)) = i
          /\ i - Len(a) < j - Len(a)
      BY <1>2, <1>3, <2>3
    <3>2. c[j] = b[j - Len(a)] /\ c[i] = b[i - Len(a)]
      BY <1>2, <3>1
    <3> QED BY <1>3, <3>1, <3>2 DEF Rising, Said
  <2> QED BY <2>1, <2>2, <2>3
<1>4. (/\ Rising(a) /\ Rising(b)
       /\ \A x, y : Occurs(x, a) /\ Occurs(y, b) /\ Chained(x) /\ Chained(y)
                      => x.height < y.height) => Rising(c)
  BY <1>3 DEF Rising, Said
<1> QED BY <1>1, <1>4 DEF c

LEMMA RisingWindow ==
  ASSUME NEW s \in Seq(Line), NEW n \in Nat \ {0}, Rising(s)
  PROVE  Rising(LastLines(s, n))
<1> DEFINE t == LastLines(s, n)
           d == Len(s) - Len(t)
<1>1. /\ t \in Seq(Line) /\ Len(t) = IF Len(s) <= n THEN Len(s) ELSE n
      /\ \A i \in 1 .. Len(t) : t[i] = s[i + Len(s) - Len(t)]
  BY LastLinesIsSuffix
<1> HIDE DEF t
<1>2. Len(s) \in Nat /\ Len(t) \in Nat /\ Len(t) <= Len(s)
      /\ DOMAIN s = 1 .. Len(s) /\ DOMAIN t = 1 .. Len(t)
  BY <1>1
<1>3. \A i \in 1 .. Len(t) : i + Len(s) - Len(t) = i + d /\ i + d \in DOMAIN s
  BY <1>2
<1>4. \A i, j \in 1 .. Len(t) : i < j => i + d < j + d
  BY <1>2
<1>5. \A i \in 1 .. Len(t) : t[i] = s[i + d]
  BY <1>1, <1>3
<1> HIDE DEF d
<1>6. Rising(t)
  BY <1>2, <1>3, <1>4, <1>5 DEF Rising, Said
<1> QED BY <1>6 DEF t

(* feed, up to the first message at the cutoff: everything before the      *)
(* place the scan starts from is below it anyhow.                          *)
LEMMA UntilIs ==
  ASSUME NEW lines \in Seq(Line), NEW start \in Nat, NEW bound \in Nat \ {0},
         \A j \in DOMAIN lines : j <= start => lines[j].height < bound
  PROVE  LET u == Until(lines, start, bound) IN
         /\ u \in Seq(Line) /\ Len(u) <= Len(lines)
         /\ \A i \in DOMAIN u : i \in DOMAIN lines /\ u[i] = lines[i] /\ u[i].height < bound
         /\ Reached(lines, start, bound) <=> \E x : Occurs(x, lines) /\ x.height >= bound
         /\ ~Reached(lines, start, bound) => u = lines
         /\ Rising(lines) => Rising(u) /\ \A x : Occurs(x, lines) /\ Chained(x) /\ x.height < bound
                                                  => Occurs(x, u)
<1> DEFINE u == Until(lines, start, bound)
           cuts == CutAt(lines, start, bound)
           n == Len(lines)
<1>1. n \in Nat /\ DOMAIN lines = 1 .. n /\ \A i \in 1 .. n : lines[i].height \in Nat
  BY LineInSeq
<1>2. cuts = {i \in 1 .. n : lines[i].height >= bound}
  <2>1. \A i \in 1 .. n : lines[i].height >= bound <=>
          i > start /\ bound # 0 /\ Chained(lines[i]) /\ lines[i].height >= bound
    BY <1>1 DEF Chained
  <2> QED BY <1>1, <2>1 DEF CutAt
<1>3. Reached(lines, start, bound) <=> cuts # {}
  BY DEF Reached
<1>4. Reached(lines, start, bound) <=> \E x : Occurs(x, lines) /\ x.height >= bound
  BY <1>1, <1>2, <1>3 DEF Occurs
<1>5. CASE cuts = {}
  <2>1. u = lines
    BY <1>3, <1>5 DEF Until
  <2>2. \A i \in DOMAIN lines : lines[i].height < bound
    BY <1>1, <1>2, <1>5
  <2> QED BY <1>1, <1>3, <1>4, <1>5, <2>1, <2>2
<1>6. CASE cuts # {}
  <2>1. cuts \in SUBSET Nat
    BY <1>1, <1>2
  <2>2. \E m \in cuts : \A k \in cuts : m <= k
    BY <1>6, <2>1, LeastNumber
  <2> DEFINE c == CHOOSE i \in cuts : \A j \in cuts : i <= j
  <2>3. c \in cuts /\ \A j \in cuts : c <= j
    BY <2>2, Zenon
  <2>4. u = SubSeq(lines, 1, c - 1)
    BY <1>3, <1>6, Zenon DEF Until
  <2> HIDE DEF c, u, cuts, n
  <2>5. c \in 1 .. n /\ lines[c].height >= bound
    BY <1>2, <2>3
  <2>6. /\ u \in Seq(Line) /\ Len(u) = c - 1 /\ DOMAIN u = 1 .. c - 1
        /\ \A i \in 1 .. c - 1 : u[i] = lines[i]
    <3>1. c - 1 \in Int /\ 1 \in Int /\ \A i \in 1 .. c - 1 : i \in DOMAIN lines /\ lines[i] \in Line
      BY <1>1, <2>5
    <3> DEFINE m == c - 1
    <3>2. /\ u \in Seq(Line) /\ Len(u) = (IF 1 <= m THEN m - 1 + 1 ELSE 0)
          /\ \A i \in 1 .. m - 1 + 1 : u[i] = lines[1 + i - 1]
      <4>1. m \in Int /\ \A i \in 1 .. m : lines[i] \in Line
        BY <3>1
      <4>2. u = SubSeq(lines, 1, m)
        BY <2>4
      <4> HIDE DEF m
      <4> QED BY <4>1, <4>2, SubSeqProperties
    <3>3. m \in Nat
      BY <1>1, <2>5
    <3> HIDE DEF m
    <3>4. Len(u) = m
      BY <3>2, <3>3
    <3>5. \A i \in 1 .. m : i \in 1 .. m - 1 + 1 /\ 1 + i - 1 = i
      BY <3>3
    <3>6. \A i \in 1 .. m : u[i] = lines[i]
      BY <3>2, <3>5
    <3> QED BY <3>2, <3>4, <3>6 DEF m
  <2>7. \A i \in 1 .. c - 1 : i \in DOMAIN lines /\ lines[i].height < bound
    <3> SUFFICES ASSUME NEW i \in 1 .. c - 1 PROVE i \in 1 .. n /\ lines[i].height < bound
      BY <1>1
    <3>1. i \in 1 .. n /\ ~(c <= i)
      BY <1>1, <2>5
    <3>2. i \notin cuts
      BY <2>3, <3>1
    <3> QED BY <1>1, <1>2, <3>1, <3>2
  <2>8. Len(u) <= n
    BY <1>1, <2>5, <2>6
  <2>9. ASSUME Rising(lines) PROVE Rising(u)
    BY <2>6, <2>7, <2>9 DEF Rising, Said
  <2>10. ASSUME Rising(lines), NEW x, Occurs(x, lines), Chained(x), x.height < bound
         PROVE  Occurs(x, u)
    <3>1. PICK i \in DOMAIN lines : lines[i] = x
      BY <2>10 DEF Occurs
    <3>2. i \in 1 .. n /\ i # c /\ lines[c].height \in Nat /\ x.height \in Nat
      BY <1>1, <2>5, <2>10, <3>1
    <3>3. ~(c < i)
      <4> SUFFICES ASSUME c < i PROVE FALSE
        OBVIOUS
      <4>1. Chained(lines[c])
        BY <2>5, <3>2 DEF Chained
      <4>2. lines[c].height < lines[i].height
        BY <1>1, <2>5, <2>10, <3>1, <4>1 DEF Rising, Said
      <4> QED BY <2>5, <2>10, <3>1, <3>2, <4>2
    <3>4. i \in 1 .. c - 1
      BY <1>1, <2>5, <3>2, <3>3
    <3> QED BY <2>6, <3>1, <3>4 DEF Occurs
  <2> QED BY <1>3, <1>4, <1>6, <2>6, <2>7, <2>8, <2>9, <2>10 DEF u, n
<1> QED BY <1>5, <1>6

-----------------------------------------------------------------------------
(* Where a scan starts.                                                    *)
LEMMA SeekIs ==
  ASSUME NEW samples \in Seq(Sample), NEW bound \in Nat
  PROVE  \/ SeekOffset(samples, bound) = 0
         \/ \E s : Occurs(s, samples) /\ s.height < bound /\ SeekOffset(samples, bound) = s.pos
<1> DEFINE above == {i \in DOMAIN samples : samples[i].height >= bound}
           k     == CHOOSE m \in above : \A j \in above : m <= j
           i     == IF above = {} THEN Len(samples) ELSE k - 1
<1>1. SeekOffset(samples, bound) = IF i = 0 THEN 0 ELSE samples[i].pos
  BY Zenon DEF SeekOffset
<1>2. above \in SUBSET Nat
  OBVIOUS
<1>3. above # {} => k \in above /\ \A j \in above : k <= j
  <2> HIDE DEF above
  <2> SUFFICES ASSUME above # {} PROVE k \in above /\ \A j \in above : k <= j
    OBVIOUS
  <2>1. \E m \in above : \A j \in above : m <= j
    BY <1>2, LeastNumber
  <2> QED  BY <2>1, Zenon
<1>4. \A j \in DOMAIN samples : samples[j].height \in Nat
  <2>1. \A j \in DOMAIN samples : samples[j] \in Sample
    OBVIOUS
  <2> QED  BY <2>1 DEF Sample
<1> HIDE DEF k
<1>5. i = 0 \/ (i \in DOMAIN samples /\ i \notin above)
  <2>1. CASE above = {}
    BY <2>1
  <2>2. CASE above # {}
    <3>1. k \in DOMAIN samples /\ k \in 1 .. Len(samples) /\ \A j \in above : k <= j
      BY <2>2, <1>3
    <3>2. i = k - 1
      BY <2>2
    <3>3. k - 1 \notin above
      BY <3>1, <1>2, SMT
    <3> HIDE DEF i, above
    <3> QED  BY <3>1, <3>2, <3>3
  <2> QED  BY <2>1, <2>2
<1>6. ASSUME i # 0 PROVE Occurs(samples[i], samples) /\ samples[i].height < bound
  <2>1. i \in DOMAIN samples /\ ~(samples[i].height >= bound)
    BY <1>5, <1>6
  <2>2. samples[i].height \in Nat
    BY <2>1, <1>4
  <2> HIDE DEF i
  <2> QED  BY <2>1, <2>2 DEF Occurs
<1> HIDE DEF i
<1> QED  BY <1>1, <1>6, Zenon

LEMMA SeekStarts ==
  ASSUME LogInv, NEW gens \in Seq(Gen), gens # <<>>, SamplesGood(gens), NEW bound \in Nat \ {0},
         NEW start \in {0, SeekOffset(Head(gens).samples, bound)}
  PROVE  /\ Head(gens) \in Gen /\ GenLines(Head(gens).tier) \in Seq(Line)
         /\ HasTier(gens, Head(gens).tier)
         /\ start \in Nat
         /\ \A j \in DOMAIN GenLines(Head(gens).tier) :
              j <= start => GenLines(Head(gens).tier)[j].height < bound
<1> DEFINE g == Head(gens)
           lines == GenLines(g.tier)
<1>1. g \in Gen /\ g = gens[1] /\ 1 \in DOMAIN gens
  OBVIOUS
<1>2. g.tier \in {1, 2, 3} /\ g.samples \in Seq(Sample)
  BY <1>1, GenFields
<1>3. lines \in Seq(Line)
  BY <1>2, GenLinesAre DEF Active, Raw, Archive
<1>4. HasTier(gens, g.tier)
  BY <1>1 DEF HasTier
<1>5. CASE start = 0
  <2>1. \A j \in DOMAIN lines : j \in Nat /\ j # 0
    BY <1>3
  <2> HIDE DEF lines
  <2>2. \A j \in DOMAIN lines : j <= start => lines[j].height < bound
    BY <2>1, <1>5
  <2> QED  BY <2>2, <1>1, <1>3, <1>4, <1>5 DEF lines
<1>6. ASSUME NEW s, Occurs(s, g.samples), s.height < bound, start = s.pos
      PROVE  start \in Nat /\ \A j \in DOMAIN lines : j <= start => lines[j].height < bound
  <2>1. SampleOf(s, gens, g.tier)
    BY <1>1, <1>6 DEF SampleOf
  <2>2. s.height \in Nat /\ s.pos \in Nat
    BY <2>1, SampleType
  <2>3. SampleFits(s, lines)
    BY <2>1 DEF SamplesGood
  <2> HIDE DEF lines
  <2>4. \A j \in DOMAIN lines : lines[j].height \in Nat /\ j \in Nat /\ j # 0
    BY <1>3, LineInSeq
  <2>5. \A j \in 1 .. s.pos : lines[j].height < s.height
    BY <2>3 DEF SampleFits
  <2> QED
    <3> SUFFICES ASSUME NEW j \in DOMAIN lines, j <= start PROVE lines[j].height < bound
      BY <2>2, <1>6
    <3>1. j \in 1 .. s.pos
      BY <2>4, <1>6, <2>2
    <3>2. lines[j].height < s.height /\ lines[j].height \in Nat
      BY <3>1, <2>5, <2>4
    <3> QED  BY <3>2, <2>2, <1>6
<1>7. start = 0 \/ \E s : Occurs(s, g.samples) /\ s.height < bound /\ start = s.pos
  BY <1>2, SeekIs
<1> QED  BY <1>1, <1>3, <1>4, <1>5, <1>6, <1>7

(* The files that the index shows, oldest first, are in the order of seq. *)
LEMMA TierLines ==
  ASSUME LogInv, OldInv, NEW t \in Tiers, HasTier(idx, t)
  PROVE  /\ GenLines(t) \in Seq(Line) /\ InSeqOrder(GenLines(t))
         /\ \A x : Occurs(x, GenLines(t)) => Alive(x)
<1> USE DEF Active, Raw, Archive
<1>1. CASE t = Active
  <2>1. GenLines(t) = Readable /\ Readable \in Seq(Line) /\ Len(Readable) \in Nat
        /\ DOMAIN Readable = 1 .. Len(Readable)
        /\ \A i \in DOMAIN Readable : i \in DOMAIN active /\ Readable[i] = active[i]
    BY <1>1, GenLinesAre
  <2>2. InSeqOrder(active)
    BY DEF LogInv, FilesInSeqOrder
  <2>3. InSeqOrder(Readable)
    BY <2>1, <2>2 DEF InSeqOrder
  <2>4. \A x : Occurs(x, Readable) => Occurs(x, active)
    BY <2>1 DEF Occurs
  <2> QED BY <2>1, <2>3, <2>4 DEF Alive, Held
<1>2. CASE t = Raw /\ old # NoFile
  <2>1. GenLines(t) = old /\ old \in Seq(Line)
    BY <1>2, GenLinesAre
  <2> QED BY <1>2, <2>1 DEF OldInv, Alive
<1>3. CASE t = Archive /\ zst # NoFile
  <2>1. GenLines(t) = zst /\ zst \in Seq(Line)
    BY <1>3, GenLinesAre
  <2> QED BY <1>3, <2>1 DEF LogInv, FilesInSeqOrder, InOrderBefore, Alive, Held, Lines
<1>4. CASE (t = Raw /\ old = NoFile) \/ (t = Archive /\ zst = NoFile)
  <2>1. GenLines(t) = <<>>
    BY <1>4, GenLinesAre
  <2> QED BY <2>1 DEF InSeqOrder, Occurs
<1> QED BY <1>1, <1>2, <1>3, <1>4 DEF Tiers

LEMMA TierOrder ==
  ASSUME LogInv, OldInv, writer = "idle", NEW t \in Tiers, NEW u \in Tiers, u > t,
         HasTier(idx, t), HasTier(idx, u),
         NEW x, NEW y, Occurs(x, GenLines(u)), Occurs(y, GenLines(t))
  PROVE  x.seq < y.seq
<1> USE DEF Active, Raw, Archive
<1>1. \A z : Occurs(z, Readable) => Occurs(z, active)
  BY GenLinesAre DEF Occurs
<1>2. GenLines(Active) = Readable /\ (old # NoFile => GenLines(Raw) = old) /\ (zst # NoFile => GenLines(Archive) = zst)
      /\ (old = NoFile => GenLines(Raw) = <<>>) /\ (zst = NoFile => GenLines(Archive) = <<>>)
  BY GenLinesAre
<1>3. \A z : ~Occurs(z, <<>>)
  BY DEF Occurs
<1>4. CASE u = Archive /\ t = Active
  <2>1. zst # NoFile /\ Occurs(x, zst) /\ Occurs(y, active)
    BY <1>1, <1>2, <1>3, <1>4
  <2>2. Precedes(zst, active)
    BY <2>1 DEF LogInv, FilesInSeqOrder, InOrderBefore
  <2> QED BY <2>1, <2>2, ByLines
<1>5. CASE u = Archive /\ t = Raw
  <2>1. zst # NoFile /\ Occurs(x, zst) /\ old # NoFile /\ Occurs(y, old)
    BY <1>2, <1>3, <1>5
  <2>2. Precedes(zst, old)
    BY <2>1, <1>5 DEF OldInv
  <2> QED BY <2>1, <2>2, ByLines
<1>6. CASE u = Raw /\ t = Active
  <2>1. Occurs(y, active) /\ old # NoFile /\ Occurs(x, old)
    BY <1>1, <1>2, <1>3, <1>6
  <2>2. Precedes(old, active)
    BY <2>1, <1>6 DEF OldInv
  <2> QED BY <2>1, <2>2, ByLines
<1> QED BY <1>4, <1>5, <1>6 DEF Tiers

(* So each of them rises, and above the older ones. *)
LEMMA TierRises ==
  ASSUME LogInv, OldInv, WinInv, RisesInv, ~forgot, NEW t \in Tiers, HasTier(idx, t)
  PROVE  Rising(GenLines(t))
<1>1. /\ GenLines(t) \in Seq(Line) /\ InSeqOrder(GenLines(t))
      /\ \A x : Occurs(x, GenLines(t)) => Alive(x)
  BY TierLines
<1> DEFINE s == GenLines(t)
<1> HIDE DEF s
<1> SUFFICES ASSUME NEW i \in DOMAIN s, NEW j \in DOMAIN s, Chained(s[i]), Chained(s[j]), i < j
             PROVE  s[i].height < s[j].height
  BY DEF Rising, Said, s
<1>2. Alive(s[i]) /\ Alive(s[j])
  BY <1>1 DEF Occurs, s
<1>3. s[i].seq < s[j].seq
  BY <1>1 DEF InSeqOrder, s
<1> QED BY <1>2, <1>3, LowerBefore

LEMMA TierAbove ==
  ASSUME LogInv, OldInv, WinInv, RisesInv, ~forgot, writer = "idle",
         NEW t \in Tiers, NEW u \in Tiers, u > t, HasTier(idx, t), HasTier(idx, u),
         NEW x, NEW y, Occurs(x, GenLines(u)), Occurs(y, GenLines(t)), Chained(y)
  PROVE  x.height < y.height
<1>1. x.seq < y.seq
  BY TierOrder
<1>2. Alive(x) /\ Alive(y)
  BY TierLines
<1> QED BY <1>1, <1>2, LowerBefore

-----------------------------------------------------------------------------
(* The steps of a page.                                                    *)
LEMMA UntilType ==
  ASSUME NEW lines \in Seq(Line), NEW start, NEW bound
  PROVE  /\ Until(lines, start, bound) \in Seq(Line)
         /\ \A x : Occurs(x, Until(lines, start, bound)) => Occurs(x, lines)
<1> DEFINE u == Until(lines, start, bound)
           cuts == CutAt(lines, start, bound)
           n == Len(lines)
<1>1. CASE cuts = {}
  <2>1. u = lines
    BY <1>1 DEF Until, Reached
  <2> QED BY <2>1
<1>2. CASE cuts # {}
  <2>0. n \in Nat /\ DOMAIN lines = 1 .. n
    OBVIOUS
  <2>1. cuts \in SUBSET Nat /\ cuts \subseteq 1 .. n
    BY <2>0 DEF CutAt
  <2> HIDE DEF cuts, n
  <2>2. \E m \in cuts : \A k \in cuts : m <= k
    BY <1>2, <2>1, LeastNumber
  <2> DEFINE c == CHOOSE i \in cuts : \A j \in cuts : i <= j
  <2>3. c \in cuts
    BY <2>2, Zenon
  <2>4. u = SubSeq(lines, 1, c - 1)
    BY <1>2, Zenon DEF Until, Reached, cuts
  <2> DEFINE m == c - 1
  <2> HIDE DEF c
  <2>5. m \in Nat /\ m \in Int /\ \A i \in 1 .. m : i \in 1 .. n
    BY <2>0, <2>1, <2>3
  <2>6. u = SubSeq(lines, 1, m)
    BY <2>4
  <2> HIDE DEF m, u
  <2>7. \A i \in 1 .. m : lines[i] \in Line
    BY <2>0, <2>5
  <2>8. /\ u \in Seq(Line) /\ Len(u) = (IF 1 <= m THEN m - 1 + 1 ELSE 0)
        /\ \A i \in 1 .. m - 1 + 1 : u[i] = lines[1 + i - 1]
    BY <2>5, <2>6, <2>7, SubSeqProperties
  <2>9. Len(u) = m /\ DOMAIN u = 1 .. m
    BY <2>5, <2>8
  <2>10. \A i \in 1 .. m : u[i] = lines[i]
    <3> SUFFICES ASSUME NEW i \in 1 .. m PROVE u[i] = lines[i]
      OBVIOUS
    <3>1. i \in 1 .. m - 1 + 1 /\ 1 + i - 1 = i
      BY <2>5
    <3> QED BY <2>8, <3>1
  <2>11. \A x : Occurs(x, u) => Occurs(x, lines)
    BY <2>0, <2>5, <2>9, <2>10 DEF Occurs
  <2> QED BY <2>8, <2>11 DEF u
<1> QED BY <1>1, <1>2

(* A scanned file, cut at the bound and to a page. *)
Cut(lines, start) == LastLines(Until(lines, start, page.bound), page.limit)

LEMMA CutType ==
  ASSUME page \in PageRec, NEW lines \in Seq(Line), NEW start
  PROVE  /\ Cut(lines, start) \in Seq(Line)
         /\ \A x : Occurs(x, Cut(lines, start)) => Occurs(x, lines)
<1>1. page.limit \in Nat \ {0}
  BY PageFields
<1>2. /\ Until(lines, start, page.bound) \in Seq(Line)
      /\ \A x : Occurs(x, Until(lines, start, page.bound)) => Occurs(x, lines)
  BY UntilType
<1> QED BY <1>1, <1>2, LastLinesIsSuffix, WindowOccurs DEF Cut

LEMMA SnapshotIs ==
  ASSUME page \in PageRec, IdxInv, SnapshotIndex
  PROVE  /\ SamePage(page, page') /\ page'.step = "scan" /\ page'.gens = GensOf(idx, 1 .. page.level)
         /\ page'.lines = page.lines /\ page'.excuses = page.excuses
<1>1. GensOf(idx, 1 .. page.level) \in Seq(Gen)
  BY GensOfIs DEF IdxInv
<1>2. page.lines \in Seq(Line)
  BY PageFields
<1>3. page' = [page EXCEPT !.step = "scan", !.gens = GensOf(idx, 1 .. page.level)]
  BY DEF SnapshotIndex
<1> DEFINE g == GensOf(idx, 1 .. page.level)
<1> HIDE DEF g
<1>0. page = PageWith(page, page.step, page.gens, page.lines)
  BY PageSpelt
<1>4. page' = PageWith(page, "scan", g, page.lines)
  BY <1>3, <1>0 DEF PageWith, g
<1>5. SamePage(page, page') /\ page'.step = "scan" /\ page'.gens = g
      /\ page'.lines = page.lines /\ page'.excuses = page.excuses
  BY <1>1, <1>2, <1>4, PageUpdate DEF g
<1> QED BY <1>5 DEF g

LEMMA ScanIs ==
  ASSUME page \in PageRec, LogInv, ScanFile
  PROVE  \E start \in {0, SeekOffset(Head(page.gens).samples, page.bound)} :
           LET lines == GenLines(Head(page.gens).tier) IN
           /\ SamePage(page, page') /\ page'.step = "scan" /\ page.step = "scan" /\ page.gens # <<>>
           /\ page'.gens = IF Reached(lines, start, page.bound) THEN <<>> ELSE Tail(page.gens)
           /\ page'.lines = page.lines \o Cut(lines, start)
           /\ page'.excuses = page.excuses
<1> DEFINE lines == GenLines(Head(page.gens).tier)
<1>0. page.step = "scan" /\ page.gens # <<>> /\ page.gens \in Seq(Gen) /\ page.lines \in Seq(Line)
  BY PageFields DEF ScanFile
<1>1. PICK start \in {0, SeekOffset(Head(page.gens).samples, page.bound)} :
        page' = [page EXCEPT
            !.gens = IF Reached(lines, start, page.bound) THEN <<>> ELSE Tail(page.gens),
            !.lines = page.lines \o Cut(lines, start)]
  BY Zenon DEF ScanFile, Cut
<1> DEFINE g == IF Reached(lines, start, page.bound) THEN <<>> ELSE Tail(page.gens)
           l == page.lines \o Cut(lines, start)
<1>2. g \in Seq(Gen)
  BY <1>0
<1>3. lines \in Seq(Line)
  <2>1. Head(page.gens) \in Gen
    BY <1>0
  <2>2. Head(page.gens).tier \in {1, 2, 3}
    BY <2>1, GenFields
  <2> QED BY <2>2, GenLinesAre DEF Active, Raw, Archive
<1>4. l \in Seq(Line)
  <2>1. Cut(lines, start) \in Seq(Line)
    BY <1>3, CutType
  <2> QED BY <1>0, <2>1, ByMessages
<1>5. page' = [page EXCEPT !.gens = g, !.lines = l]
  BY <1>1
<1> HIDE DEF g, l
<1>6. SamePage(page, page') /\ page'.step = "scan" /\ page'.gens = g /\ page'.lines = l
      /\ page'.excuses = page.excuses
  <2>1. page' = PageWith(page, page.step, g, l)
    <3>1. page = PageWith(page, page.step, page.gens, page.lines)
      BY PageSpelt
    <3> QED BY <1>5, <3>1 DEF PageWith
  <2> QED BY <1>0, <1>2, <1>4, <2>1, PageUpdate
<1> QED BY <1>0, <1>6 DEF g, l

LEMMA MergeIs ==
  ASSUME page \in PageRec, MergeTemps
  PROVE  /\ SamePage(page, page') /\ page.step = "scan" /\ page.gens = <<>>
         /\ page'.step = (IF Reached(page.lines, 0, page.bound) THEN "done" ELSE "ram")
         /\ page'.lines = Cut(page.lines, 0) /\ page'.excuses = page.excuses
         /\ page'.gens = <<>>
<1>0. page.step = "scan" /\ page.gens = <<>> /\ page.gens \in Seq(Gen) /\ page.lines \in Seq(Line)
  BY PageFields DEF MergeTemps
<1> DEFINE st == IF Reached(page.lines, 0, page.bound) THEN "done" ELSE "ram"
           l == Cut(page.lines, 0)
<1>1. page' = [page EXCEPT !.step = st, !.lines = l]
  BY Zenon DEF MergeTemps, Cut
<1>2. st \in {"index", "scan", "ram", "done"} /\ l \in Seq(Line)
  BY <1>0, CutType
<1> HIDE DEF st, l
<1>3. SamePage(page, page') /\ page'.step = st /\ page'.gens = page.gens /\ page'.lines = l
      /\ page'.excuses = page.excuses
  <2>1. page' = PageWith(page, st, page.gens, l)
    <3>1. page = PageWith(page, page.step, page.gens, page.lines)
      BY PageSpelt
    <3> QED BY <1>1, <3>1 DEF PageWith
  <2>2. page.gens \in Seq(Gen) /\ l \in Seq(Line)
    BY <1>0, <1>2
  <2> DEFINE g == page.gens
  <2> HIDE DEF g
  <2>3. page' = PageWith(page, st, g, l)
    BY <2>1 DEF g
  <2>4. g \in Seq(Gen)
    BY <2>2 DEF g
  <2>5. SamePage(page, page') /\ page'.step = st /\ page'.gens = g /\ page'.lines = l
        /\ page'.excuses = page.excuses
    BY <1>2, <2>2, <2>3, <2>4, PageUpdate
  <2> QED BY <2>5 DEF g
<1> QED BY <1>0, <1>3 DEF st, l

LEMMA FeedIs ==
  ASSUME page \in PageRec, LogInv, FeedRam
  PROVE  /\ SamePage(page, page') /\ page.step = "ram" /\ page'.step = "done"
         /\ page'.lines = LastLines(page.lines \o Until(history, 0, page.before), page.limit)
         /\ page'.excuses = page.excuses
<1>0. page.step = "ram" /\ page.gens \in Seq(Gen) /\ page.lines \in Seq(Line) /\ page.limit \in Nat \ {0}
      /\ history \in Seq(Line)
  BY PageFields DEF FeedRam, LogInv, TypeOK
<1> DEFINE r == page.lines \o Until(history, 0, page.before)
           l == LastLines(r, page.limit)
<1>1. page' = [page EXCEPT !.step = "done", !.lines = l]
  BY Zenon DEF FeedRam
<1>2. r \in Seq(Line)
  <2>1. Until(history, 0, page.before) \in Seq(Line)
    BY <1>0, UntilType
  <2> QED BY <1>0, <2>1, ByMessages
<1> HIDE DEF r
<1>3. l \in Seq(Line)
  BY <1>0, <1>2, LastLinesIsSuffix
<1> HIDE DEF l
<1>4. SamePage(page, page') /\ page'.step = "done" /\ page'.gens = page.gens /\ page'.lines = l
      /\ page'.excuses = page.excuses
  <2>1. page' = PageWith(page, "done", page.gens, l)
    <3>1. page = PageWith(page, page.step, page.gens, page.lines)
      BY PageSpelt
    <3> QED BY <1>1, <3>1 DEF PageWith
  <2> QED BY <1>0, <1>3, <2>1, PageUpdate
<1> QED BY <1>0, <1>4 DEF l, r

(* The bound for the disk: no message of the window lies between it and    *)
(* the cursor's other side.                                                *)
LEMMA BoundIs ==
  ASSUME LogInv, NEW before \in Nat
  PROVE  /\ Bound(before) \in Nat /\ Bound(before) <= before /\ (before # 0 => Bound(before) # 0)
         /\ \A x : Occurs(x, history) /\ Chained(x) /\ x.height < before => x.height >= Bound(before)
         /\ Bound(before) = before \/ \E x : Occurs(x, history) /\ Chained(x) /\ x.height = Bound(before)
<1> DEFINE heights == {history[i].height : i \in {j \in DOMAIN history : Chained(history[j])}}
           least == CHOOSE h \in heights : \A k \in heights : h <= k
           oldest == OldestChained(history)
<1>0. history \in Seq(Line)
  BY DEF LogInv, TypeOK
<1>1. \A i \in DOMAIN history : history[i].height \in Nat
  BY <1>0, LineInSeq
<1>2. heights \in SUBSET (Nat \ {0}) /\ heights \in SUBSET Nat
  BY <1>1 DEF Chained
<1>3. \A h \in heights : \E x : Occurs(x, history) /\ Chained(x) /\ x.height = h
  BY Zenon DEF Occurs
<1>4. \A x : Occurs(x, history) /\ Chained(x) => x.height \in heights
  BY DEF Occurs
<1>5. oldest = IF heights = {} THEN 0 ELSE least
  BY Zenon DEF OldestChained
<1> HIDE DEF heights, oldest
<1>6. heights # {} => least \in heights /\ \A k \in heights : least <= k
  <2> SUFFICES ASSUME heights # {} PROVE least \in heights /\ \A k \in heights : least <= k
    OBVIOUS
  <2>1. \E m \in heights : \A k \in heights : m <= k
    BY <1>2, LeastNumber
  <2> QED BY <2>1, Zenon
<1> HIDE DEF least
<1>7. Bound(before) = IF oldest # 0 /\ oldest < before THEN oldest ELSE before
  BY DEF Bound, oldest
<1>8. CASE heights = {}
  <2>1. Bound(before) = before
    BY <1>5, <1>7, <1>8
  <2> QED BY <2>1, <1>4, <1>8
<1>9. CASE heights # {}
  <2>1. oldest \in heights /\ oldest \in Nat /\ oldest # 0 /\ \A k \in heights : k \in Nat /\ oldest <= k
    BY <1>2, <1>5, <1>6, <1>9
  <2>2. CASE oldest < before
    <3>1. Bound(before) = oldest
      BY <1>7, <2>1, <2>2
    <3>2. \A x : Occurs(x, history) /\ Chained(x) /\ x.height < before => x.height >= oldest
      BY <1>4, <2>1
    <3>3. \E x : Occurs(x, history) /\ Chained(x) /\ x.height = oldest
      BY <1>3, <2>1
    <3>4. oldest <= before
      BY <2>1, <2>2
    <3> QED BY <3>1, <3>2, <3>3, <3>4, <2>1
  <2>3. CASE ~(oldest < before)
    <3>1. Bound(before) = before
      BY <1>7, <2>3
    <3>2. \A x : Occurs(x, history) /\ Chained(x) => ~(x.height < before)
      <4> SUFFICES ASSUME NEW x, Occurs(x, history), Chained(x) PROVE ~(x.height < before)
        OBVIOUS
      <4>1. x.height \in Nat /\ oldest <= x.height
        BY <1>4, <2>1
      <4> QED BY <4>1, <2>1, <2>3
    <3> QED BY <3>1, <3>2
  <2> QED BY <2>2, <2>3
<1> QED BY <1>8, <1>9

LEMMA AskIs ==
  ASSUME LogInv, NEW before \in 0 .. Resumed.height, NEW limit \in Limits, NEW level \in Levels,
         AskSegment(before, limit, level)
  PROVE  /\ page' \in PageRec /\ phase = "up"
         /\ page'.step = (IF before # 0 /\ level > 0 THEN "index" ELSE "ram")
         /\ page'.before = before /\ page'.limit = limit /\ page'.level = level
         /\ page'.bound = Bound(before) /\ page'.lines = <<>> /\ page'.top = Resumed.height
         /\ page'.owed = Below(before)
         /\ page'.excuses = (IF Behind THEN {"behind"} ELSE {})
         /\ Resumed.height \in Nat /\ before \in Nat /\ before <= Resumed.height
<1>1. Resumed.height \in Nat
  BY ResumedType DEF LogInv
<1>2. before \in Nat /\ before <= Resumed.height
  BY <1>1
<1>3. Bound(before) \in Nat
  BY <1>2, BoundIs
<1>4. Below(before) \in SUBSET Nat
  <2>1. LoadRecords \in Seq(Line)
    BY LoadRecordsType DEF LogInv
  <2>2. \A i \in DOMAIN LoadRecords : LoadRecords[i].uid \in Nat
    BY <2>1, LineInSeq
  <2> QED BY <2>2 DEF Below
<1>5. limit \in Nat \ {0} /\ level \in 0 .. 3
  BY SegmentsAssumption
<1> DEFINE st == IF before # 0 /\ level > 0 THEN "index" ELSE "ram"
           ex == IF Behind THEN {"behind"} ELSE {}
           b == Bound(before)
           o == Below(before)
           top == Resumed.height
<1>6. page' = [step |-> st, before |-> before, limit |-> limit, level |-> level, bound |-> b,
               gens |-> <<>>, lines |-> <<>>, top |-> top, owed |-> o, excuses |-> ex]
  BY Zenon DEF AskSegment
<1>7. st \in {"index", "scan", "ram", "done"} /\ ex \in SUBSET Reasons
  BY DEF Reasons
<1>8. b \in Nat /\ o \in SUBSET Nat /\ top \in Nat
  BY <1>1, <1>3, <1>4
<1>9. <<>> \in Seq(Gen) /\ <<>> \in Seq(Line)
  OBVIOUS
<1> HIDE DEF st, ex, b, o, top
<1>10. page' \in PageRec
  BY <1>2, <1>5, <1>6, <1>7, <1>8, <1>9 DEF PageRec
<1>11. page'.step = st /\ page'.before = before /\ page'.limit = limit /\ page'.level = level
       /\ page'.bound = b /\ page'.lines = <<>> /\ page'.top = top /\ page'.owed = o
       /\ page'.excuses = ex
  BY <1>6
<1>12. phase = "up"
  BY DEF AskSegment
<1> QED BY <1>1, <1>2, <1>10, <1>11, <1>12 DEF st, ex, b, o, top

LEMMA PageShapeStep ==
  ASSUME LogInv, IdxInv, PageShape, [SegNext]_allVars PROVE PageShape'
<1>0. page = NoPage => page.step = "none"
  BY DEF NoPage
<1>1. CASE UNCHANGED allVars
  BY <1>1 DEF allVars, segVars, vars, PageShape, PageRec, NoPage, Gen, Tiers, Sample, Reasons
<1>2. CASE LogStep
  <2>1. CASE Store
    <3>1. PICK x : Stores(x)
      BY <2>1, StoreStep
    <3>2. phase' = phase /\ phase # "down" /\ IF Evicts THEN Excused("evicted") ELSE UNCHANGED page
      BY <3>1 DEF Stores
    <3>3. CASE page = NoPage
      <4>1. page' = NoPage
        BY <3>2, <3>3, <1>0 DEF Excused, Collecting
      <4> QED BY <4>1, <3>2 DEF PageShape, NoPage
    <3>4. CASE page \in PageRec
      <4>1. page' \in PageRec
        <5>1. CASE Evicts
          BY <5>1, <3>2, <3>4, ExcusedIs DEF SamePage, Reasons
        <5> QED BY <5>1, <3>2, <3>4
      <4> QED BY <4>1, <3>2 DEF PageShape, PageRec, Gen, Tiers, Sample, Reasons
    <3> QED BY <3>3, <3>4 DEF PageShape
  <2>2. CASE Quiet
    <3>1. page' = page /\ phase # "down" /\ phase' # "down"
      BY <2>2, QuietStep
    <3> QED BY <3>1 DEF PageShape, PageRec, NoPage, Gen, Tiers, Sample, Reasons
  <2>3. CASE Moves
    <3>2. Excused("rotated") /\ phase # "down" /\ phase' = phase
      BY <2>3 DEF Moves, RotateRename, RotateCompress, RotateRemove
    <3>3. CASE page = NoPage
      <4>1. page' = NoPage
        BY <3>2, <3>3, <1>0 DEF Excused, Collecting
      <4> QED BY <4>1, <3>2 DEF PageShape, NoPage
    <3>4. CASE page \in PageRec
      <4>1. page' \in PageRec
        BY <3>2, <3>4, ExcusedIs DEF SamePage, Reasons
      <4> QED BY <4>1, <3>2 DEF PageShape, PageRec, Gen, Tiers, Sample, Reasons
    <3> QED BY <3>3, <3>4 DEF PageShape
  <2>4. CASE Stop
    <3>1. page' = NoPage
      BY <2>4 DEF Stop
    <3> QED BY <3>1 DEF PageShape, NoPage
  <2>5. CASE Start
    <3>1. page' = page /\ page = NoPage
      BY <2>5 DEF Start, Boot, PageShape
    <3> QED BY <3>1 DEF PageShape, NoPage
  <2> QED BY <1>2, <2>1, <2>2, <2>3, <2>4, <2>5, LogSteps
<1>3. CASE PageStep
  <2>0. phase' = phase
    BY <1>3, PageStepsKeep DEF vars
  <2>1. ASSUME NEW before \in 0 .. Resumed.height, NEW limit \in Limits, NEW level \in Levels,
               AskSegment(before, limit, level)
        PROVE  page' \in PageRec /\ phase = "up"
    BY <2>1, AskIs
  <2>2. SendReplay => page' = NoPage
    BY DEF SendReplay
  <2>3. SnapshotIndex \/ ScanFile \/ MergeTemps \/ FeedRam => page \in PageRec /\ phase # "down"
    <3>1. SnapshotIndex \/ ScanFile \/ MergeTemps \/ FeedRam => page.step # "none"
      BY DEF SnapshotIndex, ScanFile, MergeTemps, FeedRam
    <3> QED BY <1>0, <3>1 DEF PageShape
  <2>4. SnapshotIndex \/ ScanFile \/ MergeTemps \/ FeedRam => page' \in PageRec
    BY <2>3, SnapshotIs, ScanIs, MergeIs, FeedIs DEF SamePage
  <2>5. page' = NoPage \/ (page' \in PageRec /\ phase # "down")
    BY <1>3, <2>1, <2>2, <2>3, <2>4 DEF PageStep
  <2> QED BY <2>0, <2>5 DEF PageShape, PageRec, NoPage, Gen, Tiers, Sample, Reasons
<1> QED BY <1>1, <1>2, <1>3 DEF SegNext

-----------------------------------------------------------------------------
(* A page that no rotation has touched.                                    *)
Fresh == Collecting /\ "rotated" \notin page.excuses /\ ~forgot

(* The bound is at or below the cursor, no message of the window is below  *)
(* it, and the cursor is a height of the chain.                            *)
CursorInv ==
  Fresh =>
    /\ page.bound <= page.before /\ (page.before # 0 => page.bound # 0)
    /\ page.before = 0 => page.step = "ram" /\ page.lines = <<>>
    /\ page.before # 0 =>
         /\ Forgets \/ page.before <= Resumed.height
         /\ \A x : Occurs(x, history) /\ Chained(x) /\ x.height < page.before => x.height >= page.bound

(* The scan goes from old to new: what it has is from an older file than   *)
(* those it still has to read, which are the ones the index shows.         *)
Scanning ==
  /\ writer = "idle" /\ SamplesGood(page.gens) /\ Downward(page.gens)
  /\ \A t : HasTier(page.gens, t) => HasTier(idx, t)
  /\ \A x, t : Occurs(x, page.lines) /\ HasTier(page.gens, t) =>
       \E u \in {Raw, Archive} : u > t /\ HasTier(idx, u) /\ Occurs(x, GenLines(u))

(* What a page has so far rises and is below the bound.                    *)
CollectInv ==
  Fresh =>
    /\ page.step = "index" => page.lines = <<>>
    /\ Rising(page.lines)
    /\ \A x : Occurs(x, page.lines) => x.height < page.bound
    /\ page.step = "scan" => Scanning

(* The log under a page: it stays what it is, or is excused. *)
LEMMA PageUnderLog ==
  ASSUME LogInv, PageShape, LogStep, page' # NoPage
  PROVE  /\ page \in PageRec /\ SamePage(page, page') /\ page'.step = page.step
         /\ page'.gens = page.gens /\ page'.lines = page.lines /\ page.excuses \subseteq page'.excuses
         /\ ~Collecting => page' = page
         /\ ~forgot' => ~forgot
         /\ \/ \E x : Stores(x) /\ (Evicts /\ Collecting => "evicted" \in page'.excuses)
            \/ Quiet
            \/ Moves /\ (Collecting => "rotated" \in page'.excuses)
<1>0. NoPage.step = "none"
  BY DEF NoPage
<1>1. CASE Store
  <2>1. PICK x : Stores(x)
    BY <1>1, StoreStep
  <2>2. IF Evicts THEN Excused("evicted") ELSE UNCHANGED page
    BY <2>1 DEF Stores
  <2>3. page \in PageRec
    <3> SUFFICES ASSUME page = NoPage PROVE FALSE
      BY DEF PageShape
    <3>1. page' = NoPage
      BY <2>2, <1>0 DEF Excused, Collecting
    <3> QED BY <3>1
  <2>4. ~forgot' => ~forgot
    BY <2>1 DEF Stores
  <2>5. CASE Evicts
    BY <2>1, <2>2, <2>3, <2>4, <2>5, ExcusedIs DEF Reasons
  <2>6. CASE ~Evicts
    BY <2>1, <2>2, <2>3, <2>4, <2>6 DEF SamePage
  <2> QED BY <2>5, <2>6
<1>2. CASE Quiet
  <2>1. page' = page /\ forgot' = forgot
    BY <1>2, QuietStep
  <2>2. page \in PageRec
    BY <2>1 DEF PageShape
  <2> QED BY <1>2, <2>1, <2>2 DEF SamePage
<1>3. CASE Moves
  <2>1. Excused("rotated") /\ forgot' = forgot
    BY <1>3 DEF Moves, RotateRename, RotateCompress, RotateRemove, ghosts
  <2>3. page \in PageRec
    <3> SUFFICES ASSUME page = NoPage PROVE FALSE
      BY DEF PageShape
    <3>1. page' = NoPage
      BY <2>1, <1>0 DEF Excused, Collecting
    <3> QED BY <3>1
  <2> QED BY <1>3, <2>1, <2>3, ExcusedIs DEF Reasons
<1>4. CASE Stop
  BY <1>4 DEF Stop
<1>5. CASE Start
  BY <1>5 DEF Start, Boot, PageShape
<1> QED BY <1>1, <1>2, <1>3, <1>4, <1>5, LogSteps

LEMMA FreshUnderLog ==
  ASSUME LogInv, PageShape, LogStep, Fresh'
  PROVE  /\ Fresh /\ page \in PageRec /\ SamePage(page, page') /\ page'.step = page.step
         /\ page'.gens = page.gens /\ page'.lines = page.lines
         /\ (\E x : Stores(x)) \/ Quiet
<1>1. page' # NoPage
  BY DEF Fresh, Collecting, NoPage
<1>2. Collecting <=> Collecting'
  BY <1>1, PageUnderLog DEF Collecting
<1>3. "rotated" \notin page.excuses /\ ~forgot /\ Collecting
  BY <1>1, <1>2, PageUnderLog DEF Fresh
<1>4. "rotated" \notin page'.excuses
  BY DEF Fresh
<1> QED BY <1>1, <1>3, <1>4, PageUnderLog DEF Fresh

LEMMA CursorStep ==
  ASSUME LogInv, IdxInv, WinInv, BornInv, PageShape, CursorInv, [SegNext]_allVars
  PROVE  CursorInv'
<1> SUFFICES ASSUME Fresh'
             PROVE  /\ page'.bound <= page'.before /\ (page'.before # 0 => page'.bound # 0)
                    /\ page'.before = 0 => page'.step = "ram" /\ page'.lines = <<>>
                    /\ page'.before # 0 =>
                         /\ Forgets' \/ page'.before <= Resumed.height'
                         /\ \A x : Occurs(x, history)' /\ Chained(x) /\ x.height < page'.before
                                     => x.height >= page'.bound
  BY DEF CursorInv, Chained
<1>1. CASE UNCHANGED allVars
  <2>1. Fresh
    BY <1>1 DEF allVars, segVars, vars, ghosts, Fresh, Collecting
  <2>2. UNCHANGED <<Forgets, Resumed, page, history>>
    BY <1>1 DEF allVars, segVars, vars, ramVars, ghosts, Forgets, Resumed, LastChained, NewestChained, InitChain
  <2> QED BY <2>1, <2>2 DEF CursorInv, Occurs
<1>2. CASE LogStep
  <2>1. /\ Fresh /\ page \in PageRec /\ page'.step = page.step /\ page'.lines = page.lines
        /\ page'.before = page.before /\ page'.bound = page.bound
    BY <1>2, FreshUnderLog DEF SamePage
  <2>2. page.before \in Nat /\ page.bound \in Nat
    BY <2>1, PageFields
  <2>3. /\ page.bound <= page.before /\ (page.before # 0 => page.bound # 0)
        /\ page.before = 0 => page.step = "ram" /\ page.lines = <<>>
    BY <2>1 DEF CursorInv
  <2>4. ASSUME page.before # 0
        PROVE  /\ Forgets' \/ page.before <= Resumed.height'
               /\ \A x : Occurs(x, history)' /\ Chained(x) /\ x.height < page.before
                           => x.height >= page.bound
    <3>1. /\ Forgets \/ page.before <= Resumed.height
          /\ \A x : Occurs(x, history) /\ Chained(x) /\ x.height < page.before => x.height >= page.bound
      BY <2>1, <2>4 DEF CursorInv
    <3>2. ASSUME NEW x, Stores(x)
          PROVE  /\ Forgets' \/ page.before <= Resumed.height'
                 /\ \A y : Occurs(y, history)' /\ Chained(y) /\ y.height < page.before
                             => y.height >= page.bound
      <4>1. \A y : Occurs(y, history)' => Occurs(y, history) \/ y = x
        BY <3>2, StoresOccurs
      <4>2. Resumed.height \in Nat
        BY ResumedType DEF LogInv
      <4>3. CASE LinkAndStore /\ x.height = Resumed.height + 1 /\ ready' = TRUE /\ height' = x.height
                 /\ (~forgot' => ~forgot /\ ~Forgets)
        <5>1. ~Forgets
          BY <4>3 DEF Fresh
        <5>2. Resumed.height' = x.height
          BY <4>3 DEF Resumed
        <5>3. page.before <= Resumed.height
          BY <3>1, <5>1
        <5>4. ~(x.height < page.before) /\ page.before <= x.height
          BY <4>2, <4>3, <5>3, <2>2
        <5> QED BY <3>1, <4>1, <5>2, <5>4
      <4>4. CASE StoreSystem /\ x.height = 0 /\ UNCHANGED <<ready, tip, height, forgot>>
        <5>1. \/ Resumed.height' = Resumed.height /\ (Forgets => Forgets')
              \/ Forgets'
          BY <3>2, <4>4, ResumedAfterNotice
        <5>2. Forgets' \/ page.before <= Resumed.height'
          BY <3>1, <5>1
        <5>3. ~Chained(x)
          BY <4>4 DEF Chained
        <5> QED BY <3>1, <4>1, <5>2, <5>3
      <4> QED BY <3>2, <4>3, <4>4 DEF Stores
    <3>3. CASE Quiet
      <4>1. UNCHANGED <<ramVars, issued>>
        BY <3>3, QuietStep
      <4>2. UNCHANGED <<Forgets, Resumed, history>>
        BY <4>1 DEF ramVars, Forgets, Resumed, LastChained, NewestChained, InitChain
      <4> QED BY <3>1, <4>2 DEF Occurs
    <3> QED BY <1>2, <3>2, <3>3, FreshUnderLog
  <2> QED BY <2>1, <2>3, <2>4
<1>3. CASE PageStep
  <2>0. UNCHANGED <<Forgets, Resumed, history, forgot>>
    BY <1>3, PageStepsKeep DEF vars, ramVars, ghosts, Forgets, Resumed, LastChained, NewestChained, InitChain
  <2>1. ASSUME NEW before \in 0 .. Resumed.height, NEW limit \in Limits, NEW level \in Levels,
               AskSegment(before, limit, level)
        PROVE  /\ page'.bound <= page'.before /\ (page'.before # 0 => page'.bound # 0)
               /\ page'.before = 0 => page'.step = "ram" /\ page'.lines = <<>>
               /\ page'.before <= Resumed.height
               /\ \A x : Occurs(x, history) /\ Chained(x) /\ x.height < page'.before => x.height >= page'.bound
    <3>1. /\ page'.step = (IF before # 0 /\ level > 0 THEN "index" ELSE "ram")
          /\ page'.before = before /\ page'.bound = Bound(before) /\ page'.lines = <<>>
          /\ before \in Nat /\ before <= Resumed.height
      BY <2>1, AskIs
    <3> QED BY <3>1, BoundIs
  <2>2. ASSUME SnapshotIndex \/ ScanFile \/ MergeTemps
        PROVE  Fresh /\ page.step # "ram" /\ page'.before = page.before /\ page'.bound = page.bound
    <3>1. page.step \in {"index", "scan"}
      BY <2>2 DEF SnapshotIndex, ScanFile, MergeTemps
    <3>2. page \in PageRec
      BY <3>1 DEF PageShape, NoPage
    <3>3. page'.excuses = page.excuses /\ SamePage(page, page')
      BY <2>2, <3>2, SnapshotIs, ScanIs, MergeIs
    <3> QED BY <2>0, <3>1, <3>3 DEF Fresh, Collecting, SamePage
  <2>3. ~FeedRam /\ ~SendReplay
    <3>1. FeedRam => page'.step = "done"
      <4> SUFFICES ASSUME FeedRam PROVE page'.step = "done"
        OBVIOUS
      <4>1. page \in PageRec
        BY DEF PageShape, NoPage, FeedRam
      <4> QED BY <4>1, FeedIs
    <3>2. SendReplay => page'.step = "none"
      BY DEF SendReplay, NoPage
    <3> QED BY <3>1, <3>2 DEF Fresh, Collecting
  <2>4. CASE SnapshotIndex \/ ScanFile \/ MergeTemps
    BY <2>4, <2>2, <2>0 DEF CursorInv, Occurs
  <2>5. CASE \E before \in 0 .. Resumed.height, limit \in Limits, level \in Levels :
               AskSegment(before, limit, level)
    BY <2>5, <2>1, <2>0 DEF Occurs
  <2> QED BY <1>3, <2>3, <2>4, <2>5 DEF PageStep
<1> QED BY <1>1, <1>2, <1>3 DEF SegNext

(* The window rises towards the tip. *)
LEMMA WindowRises ==
  ASSUME LogInv, OldInv, WinInv, RisesInv, ~forgot
  PROVE  Rising(history)
<1> SUFFICES ASSUME NEW i \in DOMAIN history, NEW j \in DOMAIN history,
                    Chained(history[i]), Chained(history[j]), i < j
             PROVE  history[i].height < history[j].height
  BY DEF Rising, Said
<1>1. Alive(history[i]) /\ Alive(history[j])
  BY DEF Alive, Occurs
<1>2. history[i].seq < history[j].seq
  BY DEF WinInv, InSeqOrder
<1> QED BY <1>1, <1>2, LowerBefore

(* What a scan adds is below the bound, rises, and is newer than what the  *)
(* page has: the files still to be read are newer again.                   *)
LEMMA HeadAndTail ==
  ASSUME NEW gens \in Seq(Gen), gens # <<>>, Downward(gens)
  PROVE  /\ Head(gens) \in Gen /\ HasTier(gens, Head(gens).tier) /\ Tail(gens) \in Seq(Gen)
         /\ Head(gens).tier \in Tiers
         /\ Downward(Tail(gens))
         /\ \A t : HasTier(Tail(gens), t) => HasTier(gens, t) /\ t \in Tiers /\ Head(gens).tier > t
         /\ \A t : HasTier(gens, t) => t = Head(gens).tier \/ HasTier(Tail(gens), t)
         /\ \A s, t : SampleOf(s, Tail(gens), t) => SampleOf(s, gens, t)
<1> DEFINE n == Len(gens)
           tl == Tail(gens)
<1>1. n \in Nat \ {0} /\ DOMAIN gens = 1 .. n /\ \A i \in 1 .. n : gens[i] \in Gen
  OBVIOUS
<1>2. Head(gens) = gens[1]
  OBVIOUS
<1>3. tl \in Seq(Gen) /\ Len(tl) = n - 1 /\ DOMAIN tl = 1 .. n - 1
      /\ \A i \in 1 .. n - 1 : tl[i] = gens[i + 1]
  OBVIOUS
<1>4. \A i \in 1 .. n : gens[i].tier \in {1, 2, 3}
  BY <1>1, GenFields
<1> HIDE DEF n, tl
<1>5. \A i \in 1 .. n - 1 : i + 1 \in 1 .. n /\ 1 < i + 1
  BY <1>1
<1>6. Downward(tl)
  <2>1. \A i, j \in 1 .. n - 1 : i < j => i + 1 < j + 1
    BY <1>1
  <2> QED BY <1>1, <1>3, <1>5, <2>1 DEF Downward
<1>7. 1 \in 1 .. n
  BY <1>1
<1>8. \A t : HasTier(tl, t) => HasTier(gens, t) /\ t \in Tiers /\ Head(gens).tier > t
  <2> SUFFICES ASSUME NEW t, NEW i \in 1 .. n - 1, tl[i].tier = t
               PROVE  HasTier(gens, t) /\ t \in Tiers /\ Head(gens).tier > t
    BY <1>3 DEF HasTier
  <2>1. i + 1 \in 1 .. n /\ 1 < i + 1 /\ tl[i] = gens[i + 1]
    BY <1>3, <1>5
  <2>2. gens[i + 1].tier = t /\ gens[1].tier > gens[i + 1].tier
    BY <2>1, <1>1, <1>7 DEF Downward
  <2>3. HasTier(gens, t)
    BY <2>1, <2>2, <1>1 DEF HasTier
  <2>4. t \in Tiers
    BY <2>1, <2>2, <1>4 DEF Tiers, Active, Raw, Archive
  <2> QED BY <2>2, <2>3, <2>4, <1>2
<1>9. \A t : HasTier(gens, t) => t = Head(gens).tier \/ HasTier(tl, t)
  <2> SUFFICES ASSUME NEW t, NEW i \in 1 .. n, gens[i].tier = t, i # 1 PROVE HasTier(tl, t)
    BY <1>1, <1>2 DEF HasTier
  <2>1. i - 1 \in 1 .. n - 1 /\ (i - 1) + 1 = i
    BY <1>1
  <2>2. tl[i - 1] = gens[i]
    BY <1>3, <2>1
  <2> QED BY <2>1, <2>2, <1>3 DEF HasTier
<1>10. \A s, t : SampleOf(s, tl, t) => SampleOf(s, gens, t)
  BY <1>1, <1>3, <1>5 DEF SampleOf
<1>11. Head(gens) \in Gen /\ HasTier(gens, Head(gens).tier) /\ Head(gens).tier \in Tiers
  BY <1>1, <1>2, <1>4, <1>7 DEF HasTier, Tiers, Active, Raw, Archive
<1> QED BY <1>3, <1>6, <1>8, <1>9, <1>10, <1>11 DEF tl

LEMMA CutIs ==
  ASSUME page \in PageRec, NEW lines \in Seq(Line), NEW start \in Nat, page.bound # 0,
         \A j \in DOMAIN lines : j <= start => lines[j].height < page.bound
  PROVE  /\ Cut(lines, start) \in Seq(Line)
         /\ \A x : Occurs(x, Cut(lines, start)) => Occurs(x, lines) /\ x.height < page.bound
         /\ Rising(lines) => Rising(Cut(lines, start))
         /\ Reached(lines, start, page.bound) <=> \E x : Occurs(x, lines) /\ x.height >= page.bound
<1> DEFINE u == Until(lines, start, page.bound)
<1>1. page.bound \in Nat \ {0} /\ page.limit \in Nat \ {0}
  BY PageFields
<1>2. /\ u \in Seq(Line)
      /\ \A i \in DOMAIN u : i \in DOMAIN lines /\ u[i] = lines[i] /\ u[i].height < page.bound
      /\ Reached(lines, start, page.bound) <=> \E x : Occurs(x, lines) /\ x.height >= page.bound
      /\ Rising(lines) => Rising(u)
  BY <1>1, UntilIs
<1>3. Cut(lines, start) = LastLines(u, page.limit)
  BY DEF Cut
<1> HIDE DEF u
<1>4. \A x : Occurs(x, LastLines(u, page.limit)) => Occurs(x, u)
  BY <1>1, <1>2, WindowOccurs
<1>5. \A x : Occurs(x, u) => Occurs(x, lines) /\ x.height < page.bound
  BY <1>2 DEF Occurs
<1>6. Cut(lines, start) \in Seq(Line)
  BY CutType
<1>7. Rising(u) => Rising(LastLines(u, page.limit))
  BY <1>1, <1>2, RisingWindow
<1> QED BY <1>2, <1>3, <1>4, <1>5, <1>6, <1>7

LEMMA ScanStep ==
  ASSUME LogInv, IdxInv, OldInv, WinInv, RisesInv, SampleInv, page \in PageRec, CursorInv, CollectInv,
         Fresh, ScanFile, UNCHANGED <<vars, idx>>
  PROVE  /\ Rising(page'.lines) /\ Scanning'
         /\ \A x : Occurs(x, page'.lines) => x.height < page'.bound
<1> DEFINE g == Head(page.gens)
           t0 == g.tier
           lines == GenLines(t0)
<1>1. PICK start \in {0, SeekOffset(Head(page.gens).samples, page.bound)} :
        /\ SamePage(page, page') /\ page'.step = "scan" /\ page.step = "scan" /\ page.gens # <<>>
        /\ page'.gens = IF Reached(lines, start, page.bound) THEN <<>> ELSE Tail(page.gens)
        /\ page'.lines = page.lines \o Cut(lines, start)
        /\ page'.excuses = page.excuses
  BY ScanIs
<1>2. /\ writer = "idle" /\ SamplesGood(page.gens) /\ Downward(page.gens)
      /\ \A t : HasTier(page.gens, t) => HasTier(idx, t)
      /\ \A x, t : Occurs(x, page.lines) /\ HasTier(page.gens, t) =>
           \E u \in {Raw, Archive} : u > t /\ HasTier(idx, u) /\ Occurs(x, GenLines(u))
      /\ Rising(page.lines)
      /\ \A x : Occurs(x, page.lines) => x.height < page.bound
  BY <1>1 DEF CollectInv, Scanning
<1>3. page.gens \in Seq(Gen) /\ page.bound \in Nat /\ page.before \in Nat /\ page.lines \in Seq(Line)
  BY PageFields
<1>4. page.bound # 0
  BY <1>1 DEF CursorInv
<1>5. /\ g \in Gen /\ HasTier(page.gens, t0) /\ Tail(page.gens) \in Seq(Gen) /\ t0 \in Tiers
      /\ Downward(Tail(page.gens))
      /\ \A t : HasTier(Tail(page.gens), t) => HasTier(page.gens, t) /\ t \in Tiers /\ t0 > t
      /\ \A s, t : SampleOf(s, Tail(page.gens), t) => SampleOf(s, page.gens, t)
  BY <1>1, <1>2, <1>3, HeadAndTail
<1>6. /\ lines \in Seq(Line) /\ start \in Nat
      /\ \A j \in DOMAIN lines : j <= start => lines[j].height < page.bound
  BY <1>1, <1>2, <1>3, <1>4, SeekStarts
<1>7. HasTier(idx, t0)
  BY <1>2, <1>5
<1>8. Rising(lines)
  BY <1>5, <1>7, TierRises DEF Fresh
<1> DEFINE c == Cut(lines, start)
<1>9. /\ c \in Seq(Line) /\ Rising(c)
      /\ \A x : Occurs(x, c) => Occurs(x, lines) /\ x.height < page.bound
  BY <1>4, <1>6, <1>8, CutIs
<1>10. page'.lines = page.lines \o c
  BY <1>1
<1>11. ASSUME NEW x, NEW y, Occurs(x, page.lines), Occurs(y, c), Chained(y)
       PROVE  x.height < y.height
  <2>1. PICK u \in {Raw, Archive} : u > t0 /\ HasTier(idx, u) /\ Occurs(x, GenLines(u))
    BY <1>2, <1>5, <1>11
  <2>2. Occurs(y, GenLines(t0))
    BY <1>9, <1>11
  <2> HIDE DEF t0
  <2> QED BY <2>1, <2>2, <1>2, <1>5, <1>7, <1>11, TierAbove DEF Fresh, Tiers
<1> HIDE DEF c
<1>12. /\ \A x : Occurs(x, page'.lines) <=> Occurs(x, page.lines) \/ Occurs(x, c)
       /\ Rising(page'.lines)
  BY <1>2, <1>3, <1>9, <1>10, <1>11, ByMessages
<1>13. \A x : Occurs(x, page'.lines) => x.height < page'.bound
  BY <1>1, <1>2, <1>9, <1>12 DEF SamePage
<1>14. \A t : GenLines(t)' = GenLines(t)
  BY GenLinesKept DEF vars, diskVars
<1>15. idx' = idx /\ writer' = writer
  BY DEF vars
<1> HIDE DEF lines, t0, g
<1>16. page'.gens = <<>> \/ page'.gens = Tail(page.gens)
  BY <1>1
<1>17. CASE page'.gens = <<>>
  <2>1. \A t : ~HasTier(page'.gens, t)
    BY <1>17 DEF HasTier
  <2>2. \A s, t : ~SampleOf(s, page'.gens, t)
    BY <1>17 DEF SampleOf
  <2>3. Downward(page'.gens)
    BY <1>17 DEF Downward
  <2>4. SamplesGood(page.gens)' /\ Downward(page.gens)'
    BY <2>2, <2>3 DEF SamplesGood, SampleOf, Downward, Occurs
  <2>5. \A t : ~HasTier(page.gens, t)'
    BY <2>1 DEF HasTier
  <2>6. Scanning'
    BY <1>2, <1>15, <2>4, <2>5 DEF Scanning
  <2> QED BY <1>12, <1>13, <2>6
<1>18. CASE page'.gens = Tail(page.gens)
  <2> DEFINE tl == Tail(page.gens)
  <2>1. SamplesGood(tl)
    BY <1>2, <1>5 DEF SamplesGood
  <2>2. \A t : HasTier(tl, t) => HasTier(idx, t)
    BY <1>2, <1>5
  <2>3. \A x, t : (Occurs(x, page.lines) \/ Occurs(x, c)) /\ HasTier(tl, t) =>
          \E u \in {Raw, Archive} : u > t /\ HasTier(idx, u) /\ Occurs(x, GenLines(u))
    <3>1. ASSUME NEW x, NEW t, Occurs(x, c), HasTier(tl, t)
          PROVE  \E u \in {Raw, Archive} : u > t /\ HasTier(idx, u) /\ Occurs(x, GenLines(u))
      <4>1. t0 > t /\ t \in Tiers /\ t0 \in Tiers
        BY <1>5, <3>1
      <4>2. t0 \in {Raw, Archive}
        BY <4>1 DEF Tiers, Active, Raw, Archive
      <4>3. Occurs(x, GenLines(t0))
        BY <1>9, <3>1 DEF lines
      <4> QED BY <4>1, <4>2, <4>3, <1>7
    <3> QED BY <3>1, <1>2, <1>5
  <2>4. Downward(tl)
    BY <1>5
  <2>5. page'.gens = tl
    BY <1>18
  <2> HIDE DEF tl
  <2>6. SamplesGood(page.gens)' /\ Downward(page.gens)'
    <3>1. SamplesGood(page'.gens) /\ Downward(page'.gens)
      BY <2>1, <2>4, <2>5
    <3>2. Downward(page.gens)'
      BY <3>1 DEF Downward
    <3>3. \A s, t : SampleOf(s, page.gens, t)' => SampleOf(s, page'.gens, t)
      BY DEF SampleOf, Occurs
    <3>4. ASSUME NEW s, NEW t, SampleOf(s, page.gens, t)'
          PROVE  t \in {Active, Raw} /\ SampleFits(s, GenLines(t)')
      BY <3>1, <3>3, <3>4, <1>14 DEF SamplesGood
    <3>5. SamplesGood(page.gens)'
      BY <3>4 DEF SamplesGood, SampleFits, Active, Raw
    <3> QED BY <3>2, <3>5
  <2>7. \A t : HasTier(page.gens, t)' => HasTier(tl, t) /\ HasTier(idx, t)'
    BY <2>2, <2>5, <1>15 DEF HasTier
  <2>8. \A x, t : Occurs(x, page.lines)' /\ HasTier(page.gens, t)' =>
          \E u \in {Raw, Archive} : u > t /\ HasTier(idx, u)' /\ Occurs(x, GenLines(u))'
    <3>1. \A x : Occurs(x, page.lines)' => Occurs(x, page.lines) \/ Occurs(x, c)
      BY <1>12 DEF Occurs
    <3>2. \A x, u : Occurs(x, GenLines(u)) => Occurs(x, GenLines(u))'
      BY <1>14 DEF Occurs
    <3>3. \A u : HasTier(idx, u) => HasTier(idx, u)'
      BY <1>15 DEF HasTier
    <3> SUFFICES ASSUME NEW x, NEW t, Occurs(x, page.lines)', HasTier(page.gens, t)'
                 PROVE  \E u \in {Raw, Archive} : u > t /\ HasTier(idx, u)' /\ Occurs(x, GenLines(u))'
      OBVIOUS
    <3>4. HasTier(tl, t)
      BY <2>7
    <3>5. PICK u \in {Raw, Archive} : u > t /\ HasTier(idx, u) /\ Occurs(x, GenLines(u))
      BY <2>3, <3>1, <3>4
    <3> QED BY <3>2, <3>3, <3>5
  <2>9. Scanning'
    BY <1>2, <1>15, <2>6, <2>7, <2>8 DEF Scanning, Raw, Archive
  <2> QED BY <1>12, <1>13, <2>9
<1> QED BY <1>16, <1>17, <1>18

LEMMA QuietTiers ==
  ASSUME LogInv, IdxInv, Quiet PROVE \A t : HasTier(idx, t) => HasTier(idx', t)
<1>1. idx' = idx \/ Wrote
  BY QuietStep
<1>2. CASE Wrote
  <2>1. queue # <<>> /\ idx' = IndexWrote(idx, Head(queue).height, Len(Readable)) /\ Readable \in Seq(Line)
    BY <1>2, QuietStep DEF Wrote
  <2>2. queue \in Seq(Line)
    BY DEF LogInv, TypeOK
  <2>3. Head(queue) \in Line
    BY <2>1, <2>2, TailOccurs
  <2>4. Head(queue).height \in Nat
    BY <2>3 DEF Line
  <2>5. Len(Readable) \in Nat
    BY <2>1
  <2> QED BY <2>1, <2>4, <2>5, IndexWroteIs DEF IdxInv
<1> QED BY <1>1, <1>2

(* The log under a scan. *)
LEMMA ScanningStays ==
  ASSUME RefInv, RefInv', IdxInv, page \in PageRec, Scanning,
         (\E x : Stores(x)) \/ Quiet, page'.gens = page.gens, page'.lines = page.lines
  PROVE  Scanning'
<1>0. LogInv /\ LogInv'
  BY DEF RefInv
<1>1. page.gens \in Seq(Gen)
  BY PageFields
<1>2. Downward(page.gens)'
  BY DEF Scanning, Downward
<1>3. \A s, t : SampleOf(s, page.gens, t)' => SampleOf(s, page.gens, t)
  BY DEF SampleOf, Occurs
<1>4. \A t : HasTier(page.gens, t)' => HasTier(page.gens, t)
  BY DEF HasTier
<1>5. \A x : Occurs(x, page.lines)' => Occurs(x, page.lines)
  BY DEF Occurs
<1>6. /\ writer' = "idle" /\ \A t : HasTier(idx, t) => HasTier(idx, t)'
      /\ \A s, t : SampleOf(s, page.gens, t) => t \in {Active, Raw} /\ SampleFits(s, GenLines(t)')
      /\ \A u \in {Raw, Archive} : GenLines(u)' = GenLines(u)
  <2>1. CASE \E x : Stores(x)
    <3>1. UNCHANGED <<writer, active, tail, old, zst, idx>>
      BY <2>1 DEF Stores, diskVars
    <3>2. \A t : GenLines(t)' = GenLines(t)
      BY <3>1, GenLinesKept
    <3>3. \A t : HasTier(idx, t) => HasTier(idx, t)'
      BY <3>1 DEF HasTier
    <3> QED BY <3>1, <3>2, <3>3 DEF Scanning, SamplesGood
  <2>2. CASE Quiet
    <3>1. writer' = "idle"
      BY <1>0, <2>2, QuietStep
    <3>2. \A t : HasTier(idx, t) => HasTier(idx, t)'
      BY <1>0, <2>2, QuietTiers DEF HasTier
    <3>3. \A s, t : SampleOf(s, page.gens, t) => t \in {Active, Raw} /\ SampleFits(s, GenLines(t)')
      BY <1>0, <1>1, <2>2, SamplesStayGood DEF Scanning
    <3>4. \A u \in {Raw, Archive} : GenLines(u)' = GenLines(u)
      BY <1>0, <2>2, QuietLonger DEF Tiers, Active, Raw, Archive
    <3> QED BY <3>1, <3>2, <3>3, <3>4
  <2> QED BY <2>1, <2>2
<1>7. SamplesGood(page.gens)'
  BY <1>3, <1>6 DEF SamplesGood, SampleFits, Active, Raw
<1>8. \A x, t : Occurs(x, page.lines)' /\ HasTier(page.gens, t)' =>
        \E u \in {Raw, Archive} : u > t /\ HasTier(idx, u)' /\ Occurs(x, GenLines(u))'
  <2> SUFFICES ASSUME NEW x, NEW t, Occurs(x, page.lines)', HasTier(page.gens, t)'
               PROVE  \E u \in {Raw, Archive} : u > t /\ HasTier(idx, u)' /\ Occurs(x, GenLines(u))'
    OBVIOUS
  <2>1. PICK u \in {Raw, Archive} : u > t /\ HasTier(idx, u) /\ Occurs(x, GenLines(u))
    BY <1>4, <1>5 DEF Scanning
  <2>2. Occurs(x, GenLines(u))'
    BY <1>6, <2>1 DEF Occurs
  <2> QED BY <1>6, <2>1, <2>2
<1> QED BY <1>2, <1>4, <1>6, <1>7, <1>8 DEF Scanning, Raw, Archive

LEMMA CollectStep ==
  ASSUME RefInv, RefInv', IdxInv, OldInv, WinInv, BornInv, RisesInv, SampleInv, PageShape,
         CursorInv, CollectInv, [SegNext]_allVars
  PROVE  CollectInv'
<1>0. LogInv
  BY DEF RefInv
<1> SUFFICES ASSUME Fresh'
             PROVE  /\ page'.step = "index" => page'.lines = <<>>
                    /\ Rising(page'.lines)
                    /\ \A x : Occurs(x, page'.lines) => x.height < page'.bound
                    /\ page'.step = "scan" => Scanning'
  BY DEF CollectInv, Rising, Said, Chained, Occurs
<1>1. CASE UNCHANGED allVars
  <2>1. Fresh
    BY <1>1 DEF allVars, segVars, vars, ghosts, Fresh, Collecting
  <2>2. UNCHANGED <<page, idx, active, tail, old, zst, writer>>
    BY <1>1 DEF allVars, segVars, vars, diskVars
  <2>3. \A t : GenLines(t)' = GenLines(t)
    BY <2>2, GenLinesKept
  <2>4. Scanning => Scanning'
    BY <2>2, <2>3 DEF Scanning, SamplesGood, SampleOf, SampleFits, Downward, HasTier, Occurs, Active, Raw, Archive
  <2> QED BY <2>1, <2>2, <2>4 DEF CollectInv
<1>2. CASE LogStep
  <2>1. /\ Fresh /\ page \in PageRec /\ page'.step = page.step /\ page'.lines = page.lines
        /\ page'.gens = page.gens /\ page'.before = page.before /\ page'.bound = page.bound
        /\ (\E x : Stores(x)) \/ Quiet
    BY <1>0, <1>2, FreshUnderLog DEF SamePage
  <2>2. Scanning => Scanning'
    BY <2>1, ScanningStays
  <2> QED BY <2>1, <2>2 DEF CollectInv
<1>3. CASE PageStep
  <2>0. UNCHANGED <<vars, idx>> /\ forgot' = forgot
    BY <1>3, PageStepsKeep DEF vars, ghosts
  <2>1. CASE \E before \in 0 .. Resumed.height, limit \in Limits, level \in Levels :
               AskSegment(before, limit, level)
    <3>1. page'.lines = <<>> /\ page'.step \in {"index", "ram"}
      BY <1>0, <2>1, AskIs
    <3>2. Rising(<<>>) /\ \A x : ~Occurs(x, <<>>)
      BY DEF Rising, Said, Occurs
    <3> QED BY <3>1, <3>2
  <2>2. ASSUME SnapshotIndex \/ ScanFile \/ MergeTemps
        PROVE  /\ Fresh /\ page \in PageRec /\ page'.before = page.before /\ page'.bound = page.bound
               /\ page.bound # 0
    <3>1. page.step \in {"index", "scan"}
      BY <2>2 DEF SnapshotIndex, ScanFile, MergeTemps
    <3>2. page \in PageRec
      BY <3>1 DEF PageShape, NoPage
    <3>3. page'.excuses = page.excuses /\ SamePage(page, page')
      BY <1>0, <2>2, <3>2, SnapshotIs, ScanIs, MergeIs
    <3>4. Fresh
      BY <2>0, <3>1, <3>3 DEF Fresh, Collecting
    <3>5. page.bound # 0
      BY <3>1, <3>4 DEF CursorInv
    <3> QED BY <3>2, <3>3, <3>4, <3>5 DEF SamePage
  <2>3. CASE SnapshotIndex
    <3>1. /\ page.step = "index" /\ writer = "idle"
      BY <2>3 DEF SnapshotIndex
    <3>2. /\ page'.step = "scan" /\ page'.gens = GensOf(idx, 1 .. page.level) /\ page'.lines = page.lines
      BY <2>2, <2>3, SnapshotIs
    <3>3. page'.lines = <<>>
      BY <2>2, <2>3, <3>1, <3>2 DEF CollectInv
    <3>4. Rising(<<>>) /\ \A x : ~Occurs(x, <<>>)
      BY DEF Rising, Said, Occurs
    <3> DEFINE gs == GensOf(idx, 1 .. page.level)
    <3>5. /\ gs \in Seq(Gen) /\ Downward(gs)
          /\ \A t : HasTier(gs, t) => HasTier(idx, t)
          /\ \A s, t : SampleOf(s, gs, t) => SampleOf(s, idx, t)
      BY GensOfIs, GensOfTiers DEF IdxInv
    <3>6. SamplesGood(gs)
      BY <2>2, <2>3, <3>5 DEF SampleInv, SamplesGood, Fresh
    <3>7. page'.gens = gs
      BY <3>2
    <3> HIDE DEF gs
    <3>8. \A t : GenLines(t)' = GenLines(t)
      BY <2>0, GenLinesKept DEF vars, diskVars
    <3>9. SamplesGood(page.gens)'
      <4>1. \A s, t : SampleOf(s, page.gens, t)' => SampleOf(s, gs, t)
        BY <3>7 DEF SampleOf, Occurs
      <4>2. \A s, t : SampleOf(s, page.gens, t)' => t \in {Active, Raw} /\ SampleFits(s, GenLines(t)')
        BY <3>6, <3>8, <4>1 DEF SamplesGood
      <4> QED BY <4>2 DEF SamplesGood, SampleFits, Active, Raw
    <3>10. Downward(page.gens)' /\ \A t : HasTier(page.gens, t)' => HasTier(idx, t)'
      BY <2>0, <3>5, <3>7 DEF Downward, HasTier
    <3>11. \A x : ~Occurs(x, page.lines)'
      BY <3>3 DEF Occurs
    <3>12. writer' = "idle"
      BY <2>0, <3>1 DEF vars
    <3>13. Scanning'
      BY <3>9, <3>10, <3>11, <3>12 DEF Scanning
    <3> QED BY <3>2, <3>3, <3>4, <3>13
  <2>4. CASE ScanFile
    <3>1. /\ Rising(page'.lines) /\ Scanning'
          /\ \A x : Occurs(x, page'.lines) => x.height < page'.bound
      BY <1>0, <2>0, <2>2, <2>4, ScanStep
    <3>2. page'.step = "scan"
      BY <1>0, <2>2, <2>4, ScanIs
    <3> QED BY <3>1, <3>2
  <2>5. CASE MergeTemps
    <3>1. /\ page'.step \in {"done", "ram"} /\ page'.lines = Cut(page.lines, 0)
      BY <2>2, <2>5, MergeIs
    <3>2. page.lines \in Seq(Line) /\ 0 \in Nat /\ \A j \in DOMAIN page.lines : j <= 0 => page.lines[j].height < page.bound
      <4>1. page.lines \in Seq(Line)
        BY <2>2, <2>5, PageFields
      <4>2. \A j \in DOMAIN page.lines : j \in Nat /\ ~(j <= 0)
        BY <4>1
      <4> QED BY <4>1, <4>2
    <3>3. Rising(page.lines)
      BY <2>2, <2>5 DEF CollectInv
    <3>4. /\ \A x : Occurs(x, Cut(page.lines, 0)) => x.height < page.bound
          /\ Rising(Cut(page.lines, 0))
      BY <2>2, <2>5, <3>2, <3>3, CutIs
    <3> QED BY <2>2, <2>5, <3>1, <3>4
  <2>6. ~FeedRam /\ ~SendReplay
    <3>1. FeedRam => page'.step = "done"
      <4> SUFFICES ASSUME FeedRam PROVE page'.step = "done"
        OBVIOUS
      <4>1. page \in PageRec
        BY DEF PageShape, NoPage, FeedRam
      <4> QED BY <4>1, <1>0, FeedIs
    <3>2. SendReplay => page'.step = "none"
      BY DEF SendReplay, NoPage
    <3> QED BY <3>1, <3>2 DEF Fresh, Collecting
  <2> QED BY <1>3, <2>1, <2>3, <2>4, <2>5, <2>6 DEF PageStep
<1> QED BY <1>1, <1>2, <1>3 DEF SegNext

(* The messages of the window below the cursor. *)
LEMMA FedWindow ==
  ASSUME LogInv, OldInv, WinInv, RisesInv, page \in PageRec, CursorInv, Fresh
  PROVE  LET u == Until(history, 0, page.before) IN
         /\ u \in Seq(Line) /\ Rising(u)
         /\ \A x : Occurs(x, u) => Occurs(x, history)
         /\ page.before # 0 => \A x : Occurs(x, u) => x.height < page.before
         /\ page.before # 0 => \A x : Occurs(x, history) /\ Chained(x) /\ x.height < page.before
                                        => Occurs(x, u)
         /\ page.before = 0 => u = history
<1> DEFINE u == Until(history, 0, page.before)
<1>0. history \in Seq(Line) /\ page.before \in Nat
  BY PageFields DEF LogInv, TypeOK
<1>1. Rising(history)
  BY WindowRises DEF Fresh
<1>2. CASE page.before = 0
  <2>1. u = history
    BY <1>2 DEF Until, Reached, CutAt
  <2> QED BY <1>0, <1>1, <1>2, <2>1
<1>3. CASE page.before # 0
  <2>1. \A j \in DOMAIN history : j <= 0 => history[j].height < page.before
    <3>1. \A j \in DOMAIN history : j \in Nat /\ ~(j <= 0)
      BY <1>0
    <3> QED BY <3>1
  <2> DEFINE h == history
             b == page.before
  <2>2. h \in Seq(Line) /\ b \in Nat \ {0} /\ 0 \in Nat
        /\ \A j \in DOMAIN h : j <= 0 => h[j].height < b
    BY <1>0, <1>3, <2>1
  <2> HIDE DEF h, b
  <2>3. /\ Until(h, 0, b) \in Seq(Line)
        /\ \A i \in DOMAIN Until(h, 0, b) : i \in DOMAIN h /\ Until(h, 0, b)[i] = h[i] /\ Until(h, 0, b)[i].height < b
        /\ Rising(h) => Rising(Until(h, 0, b)) /\ \A x : Occurs(x, h) /\ Chained(x) /\ x.height < b
                                                  => Occurs(x, Until(h, 0, b))
    BY <2>2, UntilIs
  <2>4. /\ u \in Seq(Line) /\ \A i \in DOMAIN u : i \in DOMAIN history /\ u[i] = history[i] /\ u[i].height < page.before
        /\ Rising(u) /\ \A x : Occurs(x, history) /\ Chained(x) /\ x.height < page.before => Occurs(x, u)
    BY <2>3, <1>1 DEF h, b
  <2> HIDE DEF u
  <2>5. \A x : Occurs(x, u) => Occurs(x, history) /\ x.height < page.before
    BY <2>4 DEF Occurs
  <2> QED BY <1>3, <2>4, <2>5 DEF u
<1> QED BY <1>2, <1>3

LEMMA FedPage ==
  ASSUME LogInv, OldInv, WinInv, RisesInv, page \in PageRec, CursorInv, CollectInv, Fresh
  PROVE  LET all == page.lines \o Until(history, 0, page.before) IN
         /\ all \in Seq(Line) /\ Rising(all)
         /\ \A x : Occurs(x, all) <=> Occurs(x, page.lines) \/ Occurs(x, Until(history, 0, page.before))
         /\ page.before # 0 => \A x : Occurs(x, all) => x.height < page.before
<1> DEFINE u == Until(history, 0, page.before)
<1>0. page.lines \in Seq(Line) /\ page.before \in Nat /\ page.bound \in Nat
  BY PageFields
<1>1. /\ u \in Seq(Line) /\ Rising(u)
      /\ \A x : Occurs(x, u) => Occurs(x, history)
      /\ page.before # 0 => \A x : Occurs(x, u) => x.height < page.before
  BY FedWindow
<1>2. /\ Rising(page.lines) /\ \A x : Occurs(x, page.lines) => x.height < page.bound
  BY DEF CollectInv
<1>3. page.before = 0 => \A x : ~Occurs(x, page.lines)
  BY DEF CursorInv, Occurs
<1>4. page.bound <= page.before
      /\ (page.before # 0 => \A x : Occurs(x, history) /\ Chained(x) /\ x.height < page.before => x.height >= page.bound)
  BY DEF CursorInv
<1> HIDE DEF u
<1>5. \A x : Occurs(x, page.lines) \/ Occurs(x, u) => x.height \in Nat
  BY <1>0, <1>1, LineInSeq DEF Occurs
<1>6. ASSUME NEW x, NEW y, Occurs(x, page.lines), Occurs(y, u), Chained(x), Chained(y)
      PROVE  x.height < y.height
  <2>1. page.before # 0
    BY <1>3, <1>6
  <2>2. y.height >= page.bound
    BY <1>1, <1>4, <1>6, <2>1
  <2>3. x.height < page.bound /\ x.height \in Nat /\ y.height \in Nat
    BY <1>2, <1>5, <1>6
  <2> QED BY <1>0, <2>2, <2>3
<1>7. /\ page.lines \o u \in Seq(Line) /\ Rising(page.lines \o u)
      /\ \A x : Occurs(x, page.lines \o u) <=> Occurs(x, page.lines) \/ Occurs(x, u)
  BY <1>0, <1>1, <1>2, <1>6, ByMessages
<1>8. ASSUME page.before # 0, NEW x, Occurs(x, page.lines) \/ Occurs(x, u) PROVE x.height < page.before
  <2>1. CASE Occurs(x, page.lines)
    <3>1. x.height < page.bound /\ x.height \in Nat
      BY <2>1, <1>2, <1>5
    <3> QED BY <3>1, <1>0, <1>4
  <2> QED BY <2>1, <1>1, <1>8
<1> QED BY <1>7, <1>8 DEF u

LEMMA PageRisesStep ==
  ASSUME LogInv, IdxInv, OldInv, WinInv, RisesInv, PageShape, CursorInv, CollectInv, PageRises,
         [SegNext]_allVars
  PROVE  PageRises'
<1> SUFFICES ASSUME page'.step = "done", "rotated" \notin page'.excuses, ~forgot'
             PROVE  /\ Rising(page'.lines)
                    /\ page'.before # 0 => \A x : Occurs(x, page'.lines) /\ Chained(x) => x.height < page'.before
  BY DEF PageRises, Rising, Said, Chained, Occurs
<1>0. page'.step # "none" /\ page' # NoPage
  BY DEF NoPage
<1>1. CASE page' = page /\ forgot' = forgot
  BY <1>1 DEF PageRises, Occurs, Said
<1>2. CASE UNCHANGED allVars
  BY <1>1, <1>2 DEF allVars, segVars, vars, ghosts
<1>3. CASE LogStep
  <2>1. page'.step = page.step /\ (~Collecting => page' = page) /\ (~forgot' => ~forgot)
    BY <1>0, <1>3, PageUnderLog
  <2>2. page' = page
    BY <2>1 DEF Collecting
  <2> QED BY <2>1, <2>2 DEF PageRises, Occurs, Said
<1>4. CASE PageStep
  <2>0. forgot' = forgot
    BY <1>4, PageStepsKeep DEF vars, ghosts
  <2>1. ASSUME NEW before \in 0 .. Resumed.height, NEW limit \in Limits, NEW level \in Levels,
               AskSegment(before, limit, level)
        PROVE  FALSE
    BY <2>1, AskIs
  <2>2. ~SendReplay
    BY <1>0 DEF SendReplay
  <2>3. SnapshotIndex \/ ScanFile \/ MergeTemps \/ FeedRam => page \in PageRec
    BY DEF SnapshotIndex, ScanFile, MergeTemps, FeedRam, PageShape, NoPage
  <2>4. ~SnapshotIndex /\ ~ScanFile
    BY <2>3, SnapshotIs, ScanIs
  <2>5. ~MergeTemps
    <3> SUFFICES ASSUME MergeTemps PROVE FALSE
      OBVIOUS
    <3>1. /\ page \in PageRec /\ SamePage(page, page') /\ page.step = "scan"
          /\ page'.step = (IF Reached(page.lines, 0, page.bound) THEN "done" ELSE "ram")
          /\ page'.excuses = page.excuses
      BY <2>3, MergeIs
    <3>2. Fresh
      BY <2>0, <3>1 DEF Fresh, Collecting
    <3>3. page.bound # 0 /\ \A x : Occurs(x, page.lines) => x.height < page.bound
      BY <3>1, <3>2 DEF CursorInv, CollectInv
    <3>4. page.lines \in Seq(Line) /\ page.bound \in Nat
      BY <3>1, PageFields
    <3>5. \A j \in DOMAIN page.lines : j <= 0 => page.lines[j].height < page.bound
      BY <3>3 DEF Occurs
    <3>6. Reached(page.lines, 0, page.bound)
      BY <3>1
    <3>7. \E x : Occurs(x, page.lines) /\ x.height >= page.bound
      BY <3>1, <3>3, <3>4, <3>5, <3>6, CutIs
    <3>8. \A x : Occurs(x, page.lines) => x.height \in Nat
      BY <3>4, LineInSeq DEF Occurs
    <3> QED BY <3>3, <3>4, <3>7, <3>8
  <2>6. CASE FeedRam
    <3> DEFINE all == page.lines \o Until(history, 0, page.before)
    <3>1. /\ page \in PageRec /\ SamePage(page, page') /\ page.step = "ram"
          /\ page'.lines = LastLines(all, page.limit) /\ page'.excuses = page.excuses
      BY <2>3, <2>6, FeedIs
    <3>2. Fresh
      BY <2>0, <3>1 DEF Fresh, Collecting
    <3>3. /\ all \in Seq(Line) /\ Rising(all)
          /\ page.before # 0 => \A x : Occurs(x, all) => x.height < page.before
      BY <3>1, <3>2, FedPage
    <3>4. page.limit \in Nat \ {0} /\ page'.before = page.before
      BY <3>1, PageFields DEF SamePage
    <3> HIDE DEF all
    <3>5. Rising(LastLines(all, page.limit))
      BY <3>3, <3>4, RisingWindow
    <3>6. \A x : Occurs(x, LastLines(all, page.limit)) => Occurs(x, all)
      BY <3>3, <3>4, WindowOccurs
    <3> QED BY <3>1, <3>3, <3>4, <3>5, <3>6
  <2> QED BY <1>4, <2>1, <2>2, <2>4, <2>5, <2>6 DEF PageStep
<1> QED BY <1>2, <1>3, <1>4 DEF SegNext

-----------------------------------------------------------------------------
(* Without a loss: the messages of all lines ever issued rise without a    *)
(* hole, so a height names a message.                                      *)
Has(s, h) == \E x : Occurs(x, s) /\ x.height = h

IssuedInv ==
  /\ \A i \in DOMAIN issued : issued[i].uid = i
  /\ ready => \E x : Occurs(x, issued) /\ Chained(x)
  /\ Lossless => Rising(issued) /\ \A y, h : Occurs(y, issued) /\ h \in 1 .. y.height => Has(issued, h)

(* An end keeps what is above one of its messages. *)
LEMMA EndKeeps ==
  ASSUME NEW s \in Seq(Line), NEW t \in Seq(Line), IsEndOf(t, s)
  PROVE  /\ \A x : Occurs(x, t) => Occurs(x, s)
         /\ Rising(s) => \A x, y : Occurs(x, t) /\ Occurs(y, s) /\ Chained(x) /\ Chained(y)
                                     /\ x.height < y.height => Occurs(y, t)
<1> DEFINE d == Len(s) - Len(t)
<1>1. /\ Len(s) \in Nat /\ Len(t) \in Nat /\ Len(t) <= Len(s)
      /\ DOMAIN s = 1 .. Len(s) /\ DOMAIN t = 1 .. Len(t)
      /\ \A i \in 1 .. Len(t) : t[i] = s[i + d]
  BY DEF IsEndOf
<1>2. d \in Nat /\ \A i \in 1 .. Len(t) : i + d \in 1 .. Len(s)
  BY <1>1
<1>3. d + Len(t) = Len(s)
  BY <1>1
<1> HIDE DEF d
<1>4. \A x : Occurs(x, t) => Occurs(x, s)
  BY <1>1, <1>2 DEF Occurs
<1>5. ASSUME Rising(s), NEW x, NEW y, Occurs(x, t), Occurs(y, s), Chained(x), Chained(y),
             x.height < y.height
      PROVE  Occurs(y, t)
  <2>1. PICK i \in 1 .. Len(t) : t[i] = x
    BY <1>1, <1>5 DEF Occurs
  <2>2. PICK j \in 1 .. Len(s) : s[j] = y
    BY <1>1, <1>5 DEF Occurs
  <2>3. s[i + d] = x /\ i + d \in 1 .. Len(s)
    BY <1>1, <1>2, <2>1
  <2>4. x.height \in Nat /\ y.height \in Nat
    BY <1>1, <2>2, <2>3, LineInSeq
  <2>5. ~(j < i + d)
    <3> SUFFICES ASSUME j < i + d PROVE FALSE
      OBVIOUS
    <3>1. s[j].height < s[i + d].height
      BY <1>1, <1>5, <2>2, <2>3 DEF Rising, Said
    <3> QED BY <1>5, <2>2, <2>3, <2>4, <3>1
  <2>6. j # i + d
    <3> SUFFICES ASSUME j = i + d PROVE FALSE
      OBVIOUS
    <3>1. x = y
      BY <2>2, <2>3
    <3> QED BY <1>5, <2>4, <3>1
  <2>7. j - d \in 1 .. Len(t) /\ (j - d) + d = j
    BY <1>1, <1>2, <1>3, <2>1, <2>2, <2>5, <2>6
  <2>8. t[j - d] = y
    BY <1>1, <2>2, <2>7
  <2> QED BY <1>1, <2>7, <2>8 DEF Occurs
<1> QED BY <1>4, <1>5

LEMMA WindowIsEnd ==
  ASSUME NEW s \in Seq(Line), NEW n \in Nat \ {0}
  PROVE  LastLines(s, n) \in Seq(Line) /\ IsEndOf(LastLines(s, n), s)
<1> DEFINE t == LastLines(s, n)
<1>1. /\ t \in Seq(Line) /\ Len(t) = IF Len(s) <= n THEN Len(s) ELSE n
      /\ \A i \in 1 .. Len(t) : t[i] = s[i + Len(s) - Len(t)]
  BY LastLinesIsSuffix
<1> HIDE DEF t
<1>2. Len(s) \in Nat /\ Len(t) \in Nat /\ Len(t) <= Len(s)
  BY <1>1
<1>3. \A i \in 1 .. Len(t) : i + Len(s) - Len(t) = i + (Len(s) - Len(t))
  BY <1>2
<1>4. IsEndOf(t, s)
  BY <1>1, <1>2, <1>3 DEF IsEndOf
<1> QED BY <1>1, <1>4 DEF t

LEMMA WindowIssued ==
  ASSUME RefInv, SilentInv, Lossless, phase # "down"
  PROVE  /\ issued \in Seq(Line) /\ history \in Seq(Line)
         /\ history = LastLines(issued, MaxHistoryLines) /\ IsEndOf(history, issued)
         /\ \A x : Occurs(x, history) => Occurs(x, issued)
<1>1. issued \in Seq(Line) /\ history \in Seq(Line) /\ MaxHistoryLines \in Nat \ {0}
  BY HistoryLogAssumption DEF RefInv, LogInv, TypeOK
<1>2. history = LastLines(issued, MaxHistoryLines)
  BY DEF SilentInv, WindowInv
<1>3. IsEndOf(history, issued)
  BY <1>1, <1>2, WindowIsEnd
<1> QED BY <1>1, <1>2, <1>3, EndKeeps

(* What the next message extends is the newest of all. *)
LEMMA ResumedTop ==
  ASSUME RefInv, SilentInv, IssuedInv, Lossless, phase # "down"
  PROVE  /\ ~Forgets => \A y : Occurs(y, issued) => y.height <= Resumed.height
         /\ Resumed.height = 0 \/ Has(issued, Resumed.height)
<1>0. /\ issued \in Seq(Line) /\ history \in Seq(Line) /\ MaxHistoryLines \in Nat \ {0}
      /\ history = LastLines(issued, MaxHistoryLines)
      /\ \A x : Occurs(x, history) => Occurs(x, issued)
  BY WindowIssued, HistoryLogAssumption
<1> DEFINE i == LastChained(issued)
           k == LastChained(history)
<1>1. /\ i = 0 <=> \A x : Occurs(x, issued) => ~Chained(x)
      /\ i # 0 => i \in DOMAIN issued /\ NewestChained(issued, i)
  BY <1>0, LastChainedFinds
<1>2. k # 0 => i # 0 /\ history[k] = issued[i]
  BY <1>0, NewestInWindow
<1>3. Resumed.height = IF ready THEN height ELSE IF k = 0 THEN 0 ELSE history[k].height
  BY ResumedHeight
<1>4. ready => i # 0
  BY <1>1 DEF IssuedInv
<1>5. ready /\ i # 0 => height = issued[i].height
  BY <1>1 DEF SilentInv, TipInv
<1> HIDE DEF i, k
<1>6. \A j \in DOMAIN issued : issued[j].height \in Nat /\ j \in Nat
  BY <1>0, LineInSeq
<1>7. ASSUME i # 0 PROVE \A y : Occurs(y, issued) => y.height <= issued[i].height
  <2> SUFFICES ASSUME NEW j \in DOMAIN issued PROVE issued[j].height <= issued[i].height
    BY DEF Occurs
  <2>1. i \in DOMAIN issued /\ NewestChained(issued, i)
    BY <1>1, <1>7
  <2>2. CASE j = i
    BY <2>2, <1>6
  <2>3. CASE j > i
    <3>1. issued[j].height = 0
      BY <2>1, <2>3 DEF NewestChained, Chained
    <3> QED BY <3>1, <2>1, <1>6
  <2>4. CASE j < i
    <3>1. CASE Chained(issued[j])
      <4>1. issued[j].height < issued[i].height
        BY <2>1, <2>4, <3>1 DEF IssuedInv, Rising, Said, NewestChained
      <4> QED BY <4>1, <2>1, <1>6
    <3>2. CASE ~Chained(issued[j])
      BY <3>2, <2>1, <1>6 DEF Chained
    <3> QED BY <3>1, <3>2
  <2> QED BY <2>1, <2>2, <2>3, <2>4, <1>6
<1>8. i # 0 => Has(issued, issued[i].height)
  BY <1>1 DEF Has, Occurs
<1>9. CASE i = 0
  <2>1. Resumed.height = 0
    BY <1>2, <1>3, <1>4, <1>9
  <2>2. \A y : Occurs(y, issued) => y.height = 0
    BY <1>1, <1>9 DEF Chained
  <2> QED BY <2>1, <2>2
<1>10. CASE i # 0 /\ (ready \/ k # 0)
  <2>1. Resumed.height = issued[i].height
    BY <1>2, <1>3, <1>5, <1>10
  <2> QED BY <2>1, <1>7, <1>8, <1>10
<1>11. CASE i # 0 /\ ~ready /\ k = 0
  <2>1. Forgets /\ Resumed.height = 0
    BY <1>3, <1>11 DEF Forgets, i, k
  <2> QED BY <2>1
<1> QED BY <1>9, <1>10, <1>11

LEMMA IssuedStep ==
  ASSUME RefInv, RefInv', SilentInv, IssuedInv, [SegNext]_allVars PROVE IssuedInv'
<1>0. LogInv /\ issued \in Seq(Line)
  BY DEF RefInv, LogInv, TypeOK
<1>1. Lossless' => Lossless
  BY SegStepIsStep, StillLossless
<1>2. ASSUME issued' = issued, ready' => ready PROVE IssuedInv'
  BY <1>1, <1>2 DEF IssuedInv, Rising, Said, Chained, Has, Occurs
<1>3. ASSUME NEW x, Stores(x) PROVE IssuedInv'
  <2>0. x \in Line /\ x.uid = Len(issued) + 1 /\ issued' = Append(issued, x) /\ phase # "down"
    BY <1>3 DEF Stores
  <2> DEFINE n == Len(issued)
  <2>1. /\ n \in Nat /\ DOMAIN issued = 1 .. n /\ DOMAIN issued' = 1 .. n + 1
        /\ issued'[n + 1] = x /\ \A i \in 1 .. n : issued'[i] = issued[i]
    BY <1>0, <2>0
  <2>2. \A y : Occurs(y, issued)' <=> Occurs(y, issued) \/ y = x
    BY <1>0, <1>3, StoresOccurs
  <2>3. x.height \in Nat
    BY <2>0 DEF Line
  <2> HIDE DEF n
  <2>4. \A i \in DOMAIN issued' : issued'[i].uid = i
    <3> SUFFICES ASSUME NEW i \in 1 .. n + 1 PROVE issued'[i].uid = i
      BY <2>1
    <3>1. i \in 1 .. n \/ i = n + 1
      BY <2>1
    <3> QED BY <3>1, <2>0, <2>1 DEF n, IssuedInv
  <2>5. ready' => \E y : Occurs(y, issued)' /\ Chained(y)
    <3>1. CASE x.height = Resumed.height + 1
      <4>1. Resumed.height \in Nat
        BY <1>0, ResumedType DEF LogInv
      <4>2. Chained(x)
        BY <3>1, <4>1 DEF Chained
      <4> QED BY <2>2, <4>2
    <3>2. CASE ready' = ready
      BY <2>2, <3>2 DEF IssuedInv
    <3> QED BY <1>3, <3>1, <3>2 DEF Stores
  <2>6. ASSUME Lossless' PROVE Rising(issued') /\ \A y, h : Occurs(y, issued)' /\ h \in 1 .. y.height => Has(issued, h)'
    <3>0. Lossless /\ Rising(issued) /\ \A y, h : Occurs(y, issued) /\ h \in 1 .. y.height => Has(issued, h)
      BY <1>1, <2>6 DEF IssuedInv
    <3>1. \A h : Has(issued, h) => Has(issued, h)'
      BY <2>2 DEF Has
    <3>2. \A i \in 1 .. n : issued[i].height \in Nat /\ Occurs(issued[i], issued)
      BY <1>0, <2>1, LineInSeq DEF Occurs
    <3>3. CASE x.height = 0
      <4>1. ~Chained(x)
        BY <3>3 DEF Chained
      <4>2. Rising(issued')
        <5> SUFFICES ASSUME NEW i \in 1 .. n + 1, NEW j \in 1 .. n + 1, Chained(issued'[i]), Chained(issued'[j]), i < j
                     PROVE  issued'[i].height < issued'[j].height
          BY <2>1 DEF Rising, Said
        <5>1. i \in 1 .. n /\ j \in 1 .. n
          <6>1. i # n + 1 /\ j # n + 1
            BY <2>1, <4>1
          <6> QED BY <6>1, <2>1
        <5> QED BY <5>1, <2>1, <3>0 DEF Rising, Said
      <4>3. \A y, h : Occurs(y, issued)' /\ h \in 1 .. y.height => Has(issued, h)'
        <5> SUFFICES ASSUME NEW y, NEW h, Occurs(y, issued)', h \in 1 .. y.height PROVE Has(issued, h)'
          OBVIOUS
        <5>1. y # x
          BY <3>3
        <5> QED BY <5>1, <2>2, <3>0, <3>1
      <4> QED BY <4>2, <4>3
    <3>4. CASE x.height = Resumed.height + 1 /\ ~Forgets
      <4>1. Resumed.height \in Nat
        BY <1>0, ResumedType DEF LogInv
      <4>2. /\ \A y : Occurs(y, issued) => y.height <= Resumed.height
            /\ Resumed.height = 0 \/ Has(issued, Resumed.height)
        BY <2>0, <3>0, <3>4, ResumedTop
      <4>3. Rising(issued')
        <5> SUFFICES ASSUME NEW i \in 1 .. n + 1, NEW j \in 1 .. n + 1, Chained(issued'[i]), Chained(issued'[j]), i < j
                     PROVE  issued'[i].height < issued'[j].height
          BY <2>1 DEF Rising, Said
        <5>1. i \in 1 .. n
          BY <2>1
        <5>2. CASE j \in 1 .. n
          BY <5>1, <5>2, <2>1, <3>0 DEF Rising, Said
        <5>3. CASE j = n + 1
          <6>1. issued[i].height <= Resumed.height /\ issued[i].height \in Nat
            BY <5>1, <3>2, <4>2
          <6>2. issued'[j].height = Resumed.height + 1 /\ issued'[i] = issued[i]
            BY <5>1, <5>3, <2>1, <3>4
          <6> QED BY <6>1, <6>2, <4>1
        <5>4. j \in 1 .. n \/ j = n + 1
          BY <2>1
        <5> QED BY <5>2, <5>3, <5>4
      <4>4. \A y, h : Occurs(y, issued)' /\ h \in 1 .. y.height => Has(issued, h)'
        <5> SUFFICES ASSUME NEW y, NEW h, Occurs(y, issued)', h \in 1 .. y.height PROVE Has(issued, h)'
          OBVIOUS
        <5>1. CASE Occurs(y, issued)
          BY <5>1, <3>0, <3>1
        <5>2. CASE y = x /\ h = x.height
          BY <5>2, <2>2 DEF Has
        <5>3. CASE y = x /\ h # x.height
          <6>1. h \in 1 .. Resumed.height
            BY <5>3, <3>4, <4>1
          <6>2. PICK z : Occurs(z, issued) /\ z.height = Resumed.height
            BY <4>1, <4>2, <6>1 DEF Has
          <6> QED BY <6>1, <6>2, <3>0, <3>1
        <5> QED BY <5>1, <5>2, <5>3, <2>2
      <4> QED BY <4>3, <4>4
    <3>5. ~forgot'
      BY <2>6 DEF Lossless
    <3> QED BY <1>3, <3>3, <3>4, <3>5 DEF Stores
  <2>7. Rising(issued') <=> Rising(issued)'
    BY DEF Rising, Said, Chained
  <2> QED BY <2>4, <2>5, <2>6, <2>7 DEF IssuedInv, Chained
<1>4. CASE UNCHANGED allVars
  BY <1>2, <1>4 DEF allVars, vars, ramVars, ghosts
<1>5. CASE PageStep
  BY <1>2, <1>5, PageStepsKeep DEF vars, ramVars, ghosts
<1>6. CASE LogStep
  <2>1. CASE Store
    BY <1>0, <1>3, <2>1, StoreStep
  <2>2. CASE Quiet
    BY <1>0, <1>2, <2>2, QuietStep DEF ramVars
  <2>3. CASE Moves
    BY <1>2, <2>3 DEF Moves, RotateRename, RotateCompress, RotateRemove, ramVars, ghosts
  <2>4. CASE Stop
    BY <1>2, <2>4 DEF Stop, Exit, Kill, PowerLoss, Halt
  <2>5. CASE Start
    BY <1>2, <2>5 DEF Start, Boot, ghosts
  <2> QED BY <1>6, <2>1, <2>2, <2>3, <2>4, <2>5, LogSteps
<1> QED BY <1>4, <1>5, <1>6 DEF SegNext

-----------------------------------------------------------------------------
(* A page without an excuse, without a loss.                               *)
Exact == Collecting /\ page.excuses = {} /\ Lossless

(* Below the bound, nothing is on its way to the files; from the bound to  *)
(* the cursor, the window has everything.                                  *)
DiskInv ==
  Exact =>
    /\ page.step \in {"index", "scan"} => page.level > 0
    /\ page.before # 0 =>
         /\ \A h \in 1 .. page.before - 1 : Has(issued, h)
         /\ \A x : Occurs(x, queue) /\ Chained(x) => x.height >= page.bound
         /\ \A h \in page.bound .. page.before - 1 : Has(history, h)

LEMMA StoresKeep ==
  ASSUME LogInv, NEW x, Stores(x), ~Evicts, NEW y, Occurs(y, history), Chained(y)
  PROVE  Occurs(y, history)'
<1> DEFINE s == Append(history, x)
           n == Len(history)
           t == LastLines(s, MaxHistoryLines)
           d == Len(s) - Len(t)
<1>0. history \in Seq(Line) /\ x \in Line /\ n <= MaxHistoryLines /\ MaxHistoryLines \in Nat \ {0}
      /\ history' = t
  BY HistoryLogAssumption DEF LogInv, TypeOK, Stores, AppendMessage
<1>1. s \in Seq(Line) /\ n \in Nat /\ Len(s) = n + 1 /\ \A i \in 1 .. n : s[i] = history[i]
  BY <1>0
<1> HIDE DEF s, n
<1>2. /\ t \in Seq(Line) /\ Len(t) = IF Len(s) <= MaxHistoryLines THEN Len(s) ELSE MaxHistoryLines
      /\ \A i \in 1 .. Len(t) : t[i] = s[i + Len(s) - Len(t)]
  BY <1>0, <1>1, LastLinesIsSuffix
<1> HIDE DEF t
<1>3. d \in {0, 1} /\ (d = 1 => n = MaxHistoryLines) /\ Len(t) = n + 1 - d
  BY <1>0, <1>1, <1>2
<1>4. PICK i \in DOMAIN history : history[i] = y
  BY DEF Occurs
<1>5. i \in 1 .. n /\ s[i] = y
  BY <1>0, <1>1, <1>4 DEF n
<1>6. d = 1 => i # 1
  BY <1>3, <1>4 DEF Evicts, n
<1>7. i - d \in 1 .. Len(t) /\ (i - d) + Len(s) - Len(t) = i
  <2>1. Len(s) - Len(t) = d /\ Len(t) \in Nat /\ Len(s) \in Nat
    BY <1>1, <1>2
  <2> HIDE DEF d
  <2> QED BY <2>1, <1>1, <1>3, <1>5, <1>6
<1>8. t[i - d] = y
  BY <1>2, <1>5, <1>7
<1>9. i - d \in DOMAIN t
  BY <1>2, <1>7
<1> HIDE DEF d
<1>10. Occurs(y, t)
  BY <1>8, <1>9 DEF Occurs
<1> QED BY <1>0, <1>10 DEF Occurs

LEMMA ExactIsFresh == Exact => Fresh /\ ~forgot /\ ~lost
BY DEF Exact, Fresh, Lossless

LEMMA ExactUnderLog ==
  ASSUME LogInv, PageShape, LogStep, Exact'
  PROVE  /\ Exact /\ page \in PageRec /\ SamePage(page, page') /\ page'.step = page.step
         /\ page'.gens = page.gens /\ page'.lines = page.lines
         /\ (\E x : Stores(x) /\ ~Evicts) \/ Quiet
<1>1. page' # NoPage
  BY DEF Exact, Collecting, NoPage
<1>2. Collecting <=> Collecting'
  BY <1>1, PageUnderLog DEF Collecting
<1>3. Collecting /\ page'.excuses = {}
  BY <1>2 DEF Exact
<1>4. page.excuses = {}
  BY <1>1, <1>3, PageUnderLog
<1>5. [Next]_vars
  BY SegStepIsStep DEF SegNext
<1>6. Lossless
  BY <1>5, StillLossless DEF Exact
<1>7. Exact
  BY <1>3, <1>4, <1>6 DEF Exact
<1>8. ~(Moves /\ (Collecting => "rotated" \in page'.excuses))
  BY <1>3
<1> QED BY <1>1, <1>3, <1>7, <1>8, PageUnderLog

LEMMA DiskStep ==
  ASSUME RefInv, RefInv', IdxInv, SilentInv, IssuedInv, IssuedInv', WinInv, BornInv, PageShape, CursorInv,
         DiskInv, [SegNext]_allVars
  PROVE  DiskInv'
<1>0. LogInv /\ issued \in Seq(Line) /\ queue \in Seq(Line) /\ history \in Seq(Line)
  BY DEF RefInv, LogInv, TypeOK
<1> SUFFICES ASSUME Exact'
             PROVE  /\ page'.step \in {"index", "scan"} => page'.level > 0
                    /\ page'.before # 0 =>
                         /\ \A h \in 1 .. page'.before - 1 : Has(issued, h)'
                         /\ \A x : Occurs(x, queue)' /\ Chained(x) => x.height >= page'.bound
                         /\ \A h \in page'.bound .. page'.before - 1 : Has(history, h)'
  BY DEF DiskInv, Chained
<1>1. ASSUME Exact, page'.step \in {"index", "scan"} => page.step \in {"index", "scan"}, page'.level = page.level,
             page'.before = page.before, page'.bound = page.bound, page.before # 0 =>
                /\ \A y : Occurs(y, issued) => Occurs(y, issued)'
                /\ \A y : Occurs(y, history) /\ Chained(y) => Occurs(y, history)'
                /\ \A y : Occurs(y, queue)' /\ Chained(y) => Occurs(y, queue) \/ y.height >= page.bound,
             page.before \in Nat, page.bound \in Nat
      PROVE  /\ page'.step \in {"index", "scan"} => page'.level > 0
             /\ page'.before # 0 =>
                  /\ \A h \in 1 .. page'.before - 1 : Has(issued, h)'
                  /\ \A x : Occurs(x, queue)' /\ Chained(x) => x.height >= page'.bound
                  /\ \A h \in page'.bound .. page'.before - 1 : Has(history, h)'
  <2>1. page'.step \in {"index", "scan"} => page'.level > 0
    BY <1>1 DEF DiskInv
  <2>2. ASSUME page.before # 0
        PROVE  /\ \A h \in 1 .. page.before - 1 : Has(issued, h)'
               /\ \A x : Occurs(x, queue)' /\ Chained(x) => x.height >= page.bound
               /\ \A h \in page.bound .. page.before - 1 : Has(history, h)'
    <3>1. /\ \A h \in 1 .. page.before - 1 : Has(issued, h)
          /\ \A x : Occurs(x, queue) /\ Chained(x) => x.height >= page.bound
          /\ \A h \in page.bound .. page.before - 1 : Has(history, h)
      BY <1>1, <2>2 DEF DiskInv
    <3>2. page.bound # 0
      BY <1>1, <2>2, ExactIsFresh DEF CursorInv
    <3>3. \A h \in 1 .. page.before - 1 : Has(issued, h)'
      BY <1>1, <2>2, <3>1 DEF Has
    <3>4. ASSUME NEW h \in page.bound .. page.before - 1 PROVE Has(history, h)'
      <4>1. PICK y : Occurs(y, history) /\ y.height = h
        BY <3>1, <3>4 DEF Has
      <4>2. h # 0
        BY <1>1, <3>2, <3>4
      <4>3. Chained(y)
        BY <4>1, <4>2 DEF Chained
      <4> QED BY <1>1, <2>2, <4>1, <4>3 DEF Has
    <3> QED BY <1>1, <2>2, <3>1, <3>3, <3>4
  <2> QED BY <1>1, <2>1, <2>2
<1>2. CASE UNCHANGED allVars
  <2>1. Exact
    BY <1>2 DEF allVars, segVars, vars, ghosts, Exact, Collecting, Lossless
  <2>2. UNCHANGED <<page, issued, history, queue>>
    BY <1>2 DEF allVars, segVars, vars, ramVars, ghosts
  <2> QED BY <2>1, <2>2 DEF DiskInv, Has, Occurs
<1>3. CASE LogStep
  <2>1. /\ Exact /\ page \in PageRec /\ page'.step = page.step /\ page'.level = page.level
        /\ page'.before = page.before /\ page'.bound = page.bound
        /\ (\E x : Stores(x) /\ ~Evicts) \/ Quiet
    BY <1>0, <1>3, ExactUnderLog DEF SamePage
  <2>2. page.before \in Nat /\ page.bound \in Nat
    BY <2>1, PageFields
  <2>3. ASSUME page.before # 0
        PROVE  /\ \A y : Occurs(y, issued) => Occurs(y, issued)'
               /\ \A y : Occurs(y, history) /\ Chained(y) => Occurs(y, history)'
               /\ \A y : Occurs(y, queue)' /\ Chained(y) => Occurs(y, queue) \/ y.height >= page.bound
    <3>1. ASSUME NEW x, Stores(x), ~Evicts
          PROVE  /\ \A y : Occurs(y, issued) => Occurs(y, issued)'
                 /\ \A y : Occurs(y, history) /\ Chained(y) => Occurs(y, history)'
                 /\ \A y : Occurs(y, queue)' /\ Chained(y) => Occurs(y, queue) \/ y.height >= page.bound
      <4>1. \A y : Occurs(y, history) /\ Chained(y) => Occurs(y, history)'
        BY <1>0, <3>1, StoresKeep
      <4>2. /\ \A y : Occurs(y, queue)' => Occurs(y, queue) \/ y = x
            /\ \A y : Occurs(y, issued) => Occurs(y, issued)'
        BY <1>0, <3>1, StoresOccurs
      <4>3. Chained(x) => x.height >= page.bound
        <5> SUFFICES ASSUME Chained(x) PROVE x.height >= page.bound
          OBVIOUS
        <5>1. x.height = Resumed.height + 1 /\ (~forgot' => ~Forgets)
          BY <3>1 DEF Stores, Chained
        <5>2. ~Forgets
          BY <5>1 DEF Exact, Lossless
        <5>3. page.before <= Resumed.height /\ page.bound <= page.before
          BY <2>1, <2>3, <5>2, ExactIsFresh DEF CursorInv
        <5>4. Resumed.height \in Nat
          BY <1>0, ResumedType DEF LogInv
        <5> QED BY <2>2, <5>1, <5>3, <5>4
      <4> QED BY <4>1, <4>2, <4>3
    <3>2. CASE Quiet
      <4>1. issued' = issued /\ history' = history
        BY <1>0, <3>2, QuietStep DEF ramVars
      <4>2. \A y : Occurs(y, queue)' => Occurs(y, queue)
        BY <1>0, <3>2, QuietOccurs
      <4> QED BY <4>1, <4>2 DEF Occurs
    <3> QED BY <2>1, <3>1, <3>2
  <2> QED BY <1>1, <2>1, <2>2, <2>3
<1>4. CASE PageStep
  <2>0. UNCHANGED <<issued, history, queue, forgot, lost>>
    BY <1>4, PageStepsKeep DEF vars, ramVars, ghosts
  <2>1. CASE SnapshotIndex \/ ScanFile \/ MergeTemps
    <3>1. page.step \in {"index", "scan"}
      BY <2>1 DEF SnapshotIndex, ScanFile, MergeTemps
    <3>2. page \in PageRec
      BY <3>1 DEF PageShape, NoPage
    <3>3. page'.excuses = page.excuses /\ SamePage(page, page')
      BY <1>0, <2>1, <3>2, SnapshotIs, ScanIs, MergeIs
    <3>4. Exact
      BY <2>0, <3>1, <3>3 DEF Exact, Collecting, Lossless
    <3>5. page.before \in Nat /\ page.bound \in Nat
      BY <3>2, PageFields
    <3>6. /\ \A y : Occurs(y, issued) => Occurs(y, issued)'
          /\ \A y : Occurs(y, history) /\ Chained(y) => Occurs(y, history)'
          /\ \A y : Occurs(y, queue)' /\ Chained(y) => Occurs(y, queue) \/ y.height >= page.bound
      BY <2>0 DEF Occurs
    <3> QED BY <1>1, <3>1, <3>3, <3>4, <3>5, <3>6 DEF SamePage
  <2>2. ASSUME NEW before \in 0 .. Resumed.height, NEW limit \in Limits, NEW level \in Levels,
               AskSegment(before, limit, level)
        PROVE  /\ page'.step \in {"index", "scan"} => page'.level > 0
               /\ page'.before # 0 =>
                    /\ \A h \in 1 .. page'.before - 1 : Has(issued, h)
                    /\ \A x : Occurs(x, queue) /\ Chained(x) => x.height >= page'.bound
                    /\ \A h \in page'.bound .. page'.before - 1 : Has(history, h)
    <3>1. /\ page'.step = (IF before # 0 /\ level > 0 THEN "index" ELSE "ram")
          /\ page'.before = before /\ page'.bound = Bound(before) /\ page'.level = level
          /\ page'.excuses = (IF Behind THEN {"behind"} ELSE {})
          /\ phase = "up" /\ Resumed.height \in Nat /\ before \in Nat /\ before <= Resumed.height
      BY <1>0, <2>2, AskIs
    <3>2. page'.step \in {"index", "scan"} => page'.level > 0
      BY <3>1
    <3>3. Lossless /\ ~Behind
      BY <2>0, <3>1 DEF Exact, Lossless
    <3>4. /\ Bound(before) \in Nat /\ Bound(before) <= before /\ (before # 0 => Bound(before) # 0)
          /\ \A x : Occurs(x, history) /\ Chained(x) /\ x.height < before => x.height >= Bound(before)
          /\ Bound(before) = before \/ \E x : Occurs(x, history) /\ Chained(x) /\ x.height = Bound(before)
      BY <1>0, <3>1, BoundIs
    <3>5. /\ Rising(issued) /\ \A y, h : Occurs(y, issued) /\ h \in 1 .. y.height => Has(issued, h)
      BY <3>3 DEF IssuedInv
    <3>6. /\ IsEndOf(history, issued) /\ \A x : Occurs(x, history) => Occurs(x, issued)
      BY <3>1, <3>3, WindowIssued
    <3> SUFFICES ASSUME before # 0
                 PROVE  /\ \A h \in 1 .. before - 1 : Has(issued, h)
                        /\ \A x : Occurs(x, queue) /\ Chained(x) => x.height >= Bound(before)
                        /\ \A h \in Bound(before) .. before - 1 : Has(history, h)
      BY <3>1, <3>2
    <3>7. PICK top : Occurs(top, issued) /\ top.height = Resumed.height
      BY <3>1, <3>3, ResumedTop DEF Has
    <3>8. \A h \in 1 .. before - 1 : Has(issued, h)
      <4>1. \A h \in 1 .. before - 1 : h \in 1 .. top.height
        BY <3>1, <3>7
      <4> QED BY <3>5, <3>7, <4>1
    <3>9. ASSUME NEW x, Occurs(x, queue), Chained(x) PROVE x.height >= Bound(before)
      <4>1. Occurs(x, history)
        <5>1. PICK i \in DOMAIN queue : queue[i] = x
          BY <3>9 DEF Occurs
        <5>2. PICK j \in DOMAIN history : history[j].uid = x.uid
          BY <3>3, <3>9, <5>1 DEF Behind
        <5>3. Occurs(x, issued)
          <6>1. IsEndOf(Stored, issued)
            BY <3>3 DEF SilentInv, FilesInv
          <6>2. Stored = Base \o queue /\ Base \in Seq(Line)
            BY BaseType DEF Stored, Base, RefInv, LogInv
          <6>3. IsEndOf(queue, issued)
            BY <1>0, <6>1, <6>2, EndOfEnd
          <6> QED BY <1>0, <3>9, <6>3, EndKeeps
        <5>4. Occurs(history[j], issued)
          BY <3>6, <5>2 DEF Occurs
        <5>5. history[j] = x
          BY <5>2, <5>3, <5>4 DEF IssuedInv, Occurs
        <5> QED BY <5>2, <5>5 DEF Occurs
      <4>2. x.height \in Nat
        BY <1>0, <3>9, LineInSeq DEF Occurs
      <4>3. CASE x.height < before
        BY <3>4, <3>9, <4>1, <4>3
      <4>4. CASE ~(x.height < before)
        BY <3>1, <3>4, <4>2, <4>4
      <4> QED BY <4>3, <4>4
    <3>10. ASSUME NEW h \in Bound(before) .. before - 1 PROVE Has(history, h)
      <4>1. Bound(before) # before /\ h \in 1 .. before - 1 /\ h \in Nat /\ h # 0
        BY <3>1, <3>4, <3>10
      <4>2. PICK x : Occurs(x, history) /\ Chained(x) /\ x.height = Bound(before)
        BY <3>4, <4>1
      <4>3. CASE h = Bound(before)
        BY <4>2, <4>3 DEF Has
      <4>4. CASE h # Bound(before)
        <5>1. PICK y : Occurs(y, issued) /\ y.height = h
          BY <3>8, <4>1 DEF Has
        <5>2. x.height < y.height /\ Chained(y)
          BY <3>4, <3>10, <4>1, <4>2, <4>4, <5>1 DEF Chained
        <5>3. Occurs(y, history)
          BY <1>0, <3>5, <3>6, <4>2, <5>1, <5>2, EndKeeps
        <5> QED BY <5>1, <5>3 DEF Has
      <4> QED BY <4>3, <4>4
    <3> QED BY <3>8, <3>9, <3>10
  <2>3. ~FeedRam /\ ~SendReplay
    <3>1. FeedRam => page'.step = "done"
      <4> SUFFICES ASSUME FeedRam PROVE page'.step = "done"
        OBVIOUS
      <4>1. page \in PageRec
        BY DEF PageShape, NoPage, FeedRam
      <4> QED BY <1>0, <4>1, FeedIs
    <3>2. SendReplay => page'.step = "none"
      BY DEF SendReplay, NoPage
    <3> QED BY <3>1, <3>2 DEF Exact, Collecting
  <2>4. CASE \E before \in 0 .. Resumed.height, limit \in Limits, level \in Levels :
               AskSegment(before, limit, level)
    BY <2>4, <2>2, <2>0 DEF Occurs, Has
  <2> QED BY <1>4, <2>1, <2>3, <2>4 DEF PageStep
<1> QED BY <1>2, <1>3, <1>4 DEF SegNext

-----------------------------------------------------------------------------
(* No hole in what the scan collects.                                      *)
LEMMA CutTail ==
  ASSUME NEW s \in Seq(Line), NEW c \in Seq(Line), NEW n \in Nat \ {0},
         NEW x, Occurs(x, LastLines(s \o c, n))
  PROVE  Occurs(x, c) \/ (Occurs(x, LastLines(s, n)) /\ Len(c) < n)
<1> DEFINE w == s \o c
           t == LastLines(w, n)
           v == LastLines(s, n)
<1>1. /\ w \in Seq(Line) /\ Len(w) = Len(s) + Len(c) /\ Len(s) \in Nat /\ Len(c) \in Nat
      /\ \A i \in 1 .. Len(s) : w[i] = s[i]
      /\ \A i \in 1 .. Len(c) : w[Len(s) + i] = c[i]
  BY ConcatLines
<1> HIDE DEF w
<1>2. /\ t \in Seq(Line) /\ Len(t) = IF Len(w) <= n THEN Len(w) ELSE n
      /\ \A i \in 1 .. Len(t) : t[i] = w[i + Len(w) - Len(t)]
  BY <1>1, LastLinesIsSuffix
<1>3. /\ v \in Seq(Line) /\ Len(v) = IF Len(s) <= n THEN Len(s) ELSE n
      /\ \A i \in 1 .. Len(v) : v[i] = s[i + Len(s) - Len(v)]
  BY LastLinesIsSuffix
<1>4. Occurs(x, t)
  BY DEF w
<1> HIDE DEF t, v
<1>5. PICK i \in 1 .. Len(t) : t[i] = x
  <2>1. DOMAIN t = 1 .. Len(t)
    BY <1>2
  <2> QED BY <1>4, <2>1 DEF Occurs
<1>6. Len(w) \in Nat /\ Len(t) \in Nat /\ Len(v) \in Nat /\ i \in Nat /\ Len(t) <= n /\ Len(t) <= Len(w)
  BY <1>1, <1>2, <1>3
<1> DEFINE p == i + Len(w) - Len(t)
<1>7. p \in 1 .. Len(w) /\ w[p] = x /\ Len(w) - p < n
  <2>1. w[p] = x
    BY <1>2, <1>5
  <2>2. p \in 1 .. Len(w) /\ Len(w) - p < n
    BY <1>5, <1>6
  <2> QED BY <2>1, <2>2
<1> HIDE DEF p
<1>8. CASE p > Len(s)
  <2>1. p - Len(s) \in 1 .. Len(c) /\ Len(s) + (p - Len(s)) = p
    BY <1>1, <1>7, <1>8
  <2>2. c[p - Len(s)] = x
    BY <1>1, <1>7, <2>1
  <2>3. p - Len(s) \in DOMAIN c
    BY <2>1
  <2> QED BY <2>2, <2>3 DEF Occurs
<1>9. CASE p <= Len(s)
  <2>1. p \in 1 .. Len(s) /\ s[p] = x /\ Len(c) < n
    BY <1>1, <1>7, <1>9
  <2>2. p - (Len(s) - Len(v)) \in 1 .. Len(v)
    <3>1. Len(s) - p < n
      BY <1>1, <1>7, <2>1
    <3> QED BY <1>1, <1>3, <1>6, <2>1, <3>1
  <2> DEFINE q == p - (Len(s) - Len(v))
  <2>3. q + Len(s) - Len(v) = p
    BY <1>1, <1>6, <2>1
  <2> HIDE DEF q
  <2>4. v[q] = x /\ q \in DOMAIN v
    <3>1. q \in 1 .. Len(v)
      BY <2>2 DEF q
    <3>2. v[q] = s[q + Len(s) - Len(v)]
      BY <1>3, <3>1
    <3>3. DOMAIN v = 1 .. Len(v)
      BY <1>3
    <3> QED BY <2>1, <2>3, <3>1, <3>2, <3>3
  <2>5. Occurs(x, v)
    BY <2>4 DEF Occurs
  <2> QED BY <2>1, <2>5 DEF v
<1> QED BY <1>1, <1>7, <1>8, <1>9

LEMMA ShortWindow ==
  ASSUME NEW s \in Seq(Line), NEW n \in Nat \ {0}, Len(LastLines(s, n)) < n
  PROVE  LastLines(s, n) = s
<1>1. Len(LastLines(s, n)) = IF Len(s) <= n THEN Len(s) ELSE n
  BY LastLinesIsSuffix
<1>2. Len(s) \in Nat
  OBVIOUS
<1>3. Len(s) <= n
  BY <1>1, <1>2
<1> QED BY <1>3 DEF LastLines

(* One file more: what it adds, and which files are left. *)
LEMMA ScanFacts ==
  ASSUME LogInv, OldInv, WinInv, RisesInv, page \in PageRec, CursorInv, CollectInv, Fresh, ScanFile
  PROVE  \E c, t0 :
    /\ SamePage(page, page') /\ page.step = "scan" /\ page'.step = "scan" /\ page'.excuses = page.excuses
    /\ c \in Seq(Line) /\ page'.lines = page.lines \o c /\ page.gens # <<>>
    /\ t0 \in Tiers /\ HasTier(page.gens, t0) /\ HasTier(idx, t0) /\ writer = "idle"
    /\ \A x : Occurs(x, c) => Occurs(x, GenLines(t0))
    /\ \A x, y : Occurs(x, c) /\ Chained(x) /\ Chained(y) /\ Occurs(y, GenLines(t0))
                   /\ x.height < y.height /\ y.height < page.bound => Occurs(y, c)
    /\ Len(c) < page.limit =>
         \A y : Occurs(y, GenLines(t0)) /\ Chained(y) /\ y.height < page.bound => Occurs(y, c)
    /\ \A t : HasTier(page.gens, t) =>
         \/ t = t0 \/ HasTier(page'.gens, t)
         \/ \A z : Occurs(z, GenLines(t)) /\ Chained(z) => z.height >= page.bound
    /\ \A t : HasTier(page'.gens, t) => t \in Tiers /\ t < t0
<1> DEFINE g == Head(page.gens)
           t0 == g.tier
           lines == GenLines(t0)
<1>1. PICK start \in {0, SeekOffset(Head(page.gens).samples, page.bound)} :
        /\ SamePage(page, page') /\ page'.step = "scan" /\ page.step = "scan" /\ page.gens # <<>>
        /\ page'.gens = IF Reached(lines, start, page.bound) THEN <<>> ELSE Tail(page.gens)
        /\ page'.lines = page.lines \o Cut(lines, start)
        /\ page'.excuses = page.excuses
  BY ScanIs
<1>2. /\ writer = "idle" /\ SamplesGood(page.gens) /\ Downward(page.gens)
      /\ \A t : HasTier(page.gens, t) => HasTier(idx, t)
  BY <1>1 DEF CollectInv, Scanning
<1>3. page.gens \in Seq(Gen) /\ page.bound \in Nat /\ page.limit \in Nat \ {0}
  BY PageFields
<1>4. page.bound # 0
  BY <1>1 DEF CursorInv
<1>5. /\ g \in Gen /\ HasTier(page.gens, t0) /\ Tail(page.gens) \in Seq(Gen) /\ t0 \in Tiers
      /\ \A t : HasTier(Tail(page.gens), t) => HasTier(page.gens, t) /\ t \in Tiers /\ t0 > t
      /\ \A t : HasTier(page.gens, t) => t = t0 \/ HasTier(Tail(page.gens), t)
  BY <1>1, <1>2, <1>3, HeadAndTail
<1>6. /\ lines \in Seq(Line) /\ start \in Nat
      /\ \A j \in DOMAIN lines : j <= start => lines[j].height < page.bound
  BY <1>1, <1>2, <1>3, <1>4, SeekStarts
<1>7. HasTier(idx, t0) /\ ~forgot
  BY <1>2, <1>5 DEF Fresh
<1>8. Rising(lines)
  BY <1>5, <1>7, TierRises
<1> DEFINE c == Cut(lines, start)
           u == Until(lines, start, page.bound)
<1> HIDE DEF lines, t0, g
<1>9. /\ u \in Seq(Line) /\ Rising(u)
      /\ Reached(lines, start, page.bound) <=> \E x : Occurs(x, lines) /\ x.height >= page.bound
      /\ \A x : Occurs(x, lines) /\ Chained(x) /\ x.height < page.bound => Occurs(x, u)
  BY <1>3, <1>4, <1>6, <1>8, UntilIs
<1>10. c = LastLines(u, page.limit) /\ c \in Seq(Line) /\ \A x : Occurs(x, c) => Occurs(x, lines)
  BY <1>6, CutType DEF Cut
<1> HIDE DEF u, c
<1>11. IsEndOf(c, u)
  BY <1>3, <1>9, <1>10, WindowIsEnd
<1>12. \A x, y : Occurs(x, c) /\ Chained(x) /\ Chained(y) /\ Occurs(y, lines)
                   /\ x.height < y.height /\ y.height < page.bound => Occurs(y, c)
  BY <1>9, <1>10, <1>11, EndKeeps
<1>13. Len(c) < page.limit => \A y : Occurs(y, lines) /\ Chained(y) /\ y.height < page.bound => Occurs(y, c)
  BY <1>3, <1>9, <1>10, ShortWindow
<1>14. \A t : ~HasTier(<<>>, t)
  BY DEF HasTier
<1>15. \A t : HasTier(page'.gens, t) => t \in Tiers /\ t < t0
  <2>1. \A t : HasTier(page'.gens, t) => t \in Tiers /\ t0 > t
    BY <1>1, <1>5, <1>14
  <2> QED BY <2>1, <1>5 DEF Tiers, Active, Raw, Archive
<1>16. ASSUME NEW t, HasTier(page.gens, t), t # t0, ~HasTier(page'.gens, t),
              NEW z, Occurs(z, GenLines(t)), Chained(z)
       PROVE  z.height >= page.bound
  <2>1. HasTier(Tail(page.gens), t)
    BY <1>5, <1>16
  <2>2. t \in Tiers /\ t0 > t /\ HasTier(idx, t)
    BY <1>2, <1>5, <2>1
  <2>3. Reached(lines, start, page.bound)
    BY <1>1, <1>16, <2>1
  <2>4. PICK x : Occurs(x, lines) /\ x.height >= page.bound
    BY <1>9, <2>3
  <2>5. x.height < z.height
    <3>1. Occurs(x, GenLines(t0))
      BY <2>4 DEF lines
    <3> QED BY <1>2, <1>5, <1>7, <1>16, <2>2, <3>1, TierAbove
  <2>6. x.height \in Nat
    BY <1>6, <2>4, LineInSeq DEF Occurs
  <2>7. z.height \in Nat
    <3>1. GenLines(t) \in Seq(Line)
      BY <2>2, TierLines
    <3> QED BY <1>16, <3>1, LineInSeq DEF Occurs
  <2> QED BY <1>3, <2>4, <2>5, <2>6, <2>7
<1>17. page'.lines = page.lines \o c
  BY <1>1 DEF c
<1> QED BY <1>1, <1>2, <1>5, <1>7, <1>10, <1>12, <1>13, <1>15, <1>16, <1>17 DEF lines

(* Without a loss, between rotations: the archive, the active file and the *)
(* queue are all there is.                                                 *)
LEMMA LosslessDisk ==
  ASSUME RefInv, SilentInv, Lossless, writer = "idle"
  PROVE  /\ Readable = active /\ GenLines(Active) = active /\ GenLines(Raw) = <<>>
         /\ GenLines(Archive) = Lines(zst)
         /\ active \in Seq(Line) /\ Lines(zst) \in Seq(Line) /\ queue \in Seq(Line)
         /\ Stored \in Seq(Line) /\ issued \in Seq(Line) /\ IsEndOf(Stored, issued)
         /\ \A x : Occurs(x, LoadRecords) <=> Occurs(x, Lines(zst)) \/ Occurs(x, active)
         /\ \A x : Occurs(x, Stored) <=> Occurs(x, LoadRecords) \/ Occurs(x, queue)
<1>0. LogInv /\ TypeOK /\ RotationSteps /\ active \in Seq(Line) /\ queue \in Seq(Line) /\ issued \in Seq(Line)
  BY DEF RefInv, LogInv, TypeOK
<1>1. tail = "clean" /\ old = NoFile /\ IsEndOf(Stored, issued)
  BY DEF SilentInv, FilesInv
<1>2. Readable = active
  BY <1>1 DEF Readable
<1>3. GenLines(Active) = active /\ GenLines(Raw) = <<>> /\ GenLines(Archive) = Lines(zst) /\ Lines(zst) \in Seq(Line)
  BY <1>0, <1>1, <1>2, GenLinesAre
<1>4. LoadRecords = Lines(zst) \o active
  BY <1>1 DEF LoadRecords, Lines
<1>5. \A x : Occurs(x, LoadRecords) <=> Occurs(x, Lines(zst)) \/ Occurs(x, active)
  BY <1>0, <1>3, <1>4, OccursInConcat
<1>6. LoadRecords \in Seq(Line) /\ Stored \in Seq(Line)
  BY <1>0, LoadRecordsType, StoredType
<1>7. Stored = LoadRecords \o queue
  BY DEF Stored
<1>8. \A x : Occurs(x, Stored) <=> Occurs(x, LoadRecords) \/ Occurs(x, queue)
  BY <1>0, <1>6, <1>7, OccursInConcat
<1> QED BY <1>0, <1>1, <1>2, <1>3, <1>5, <1>6, <1>8

(* Above a message of the files, up to the bound, the files have all. *)
LEMMA StoredAbove ==
  ASSUME RefInv, SilentInv, IssuedInv, page \in PageRec, CursorInv, DiskInv, Exact, writer = "idle",
         page.before # 0, NEW x, Occurs(x, LoadRecords), Chained(x),
         NEW h \in x.height + 1 .. page.bound - 1
  PROVE  \E y : y.height = h /\ Chained(y) /\ Occurs(y, LoadRecords)
<1>0. Lossless /\ page.bound \in Nat /\ page.before \in Nat /\ page.bound <= page.before
  BY PageFields, ExactIsFresh DEF CursorInv, Exact
<1>1. /\ Stored \in Seq(Line) /\ issued \in Seq(Line) /\ IsEndOf(Stored, issued)
      /\ \A z : Occurs(z, Stored) <=> Occurs(z, LoadRecords) \/ Occurs(z, queue)
  BY <1>0, LosslessDisk
<1>2. Occurs(x, Stored)
  BY <1>1
<1>3. x.height \in Nat
  BY <1>1, <1>2, LineInSeq DEF Occurs
<1>4. h \in 1 .. page.before - 1 /\ x.height < h /\ h < page.bound /\ h # 0 /\ h \in Nat
  BY <1>0, <1>3
<1>5. PICK y : Occurs(y, issued) /\ y.height = h
  BY <1>0, <1>4 DEF DiskInv, Has
<1>6. Chained(y)
  BY <1>4, <1>5 DEF Chained
<1>7. Rising(issued)
  BY <1>0 DEF IssuedInv
<1>8. Occurs(y, Stored)
  BY <1>1, <1>2, <1>4, <1>5, <1>6, <1>7, EndKeeps
<1>9. ~Occurs(y, queue)
  <2> SUFFICES ASSUME Occurs(y, queue) PROVE FALSE
    OBVIOUS
  <2>1. y.height >= page.bound
    BY <1>6 DEF DiskInv
  <2> QED BY <1>0, <1>4, <1>5, <2>1
<1> QED BY <1>1, <1>5, <1>6, <1>8, <1>9

(* A message that a file still to be read will bring. *)
Ahead(h) == \E t : HasTier(page.gens, t) /\ Has(GenLines(t), h)

(* In the end of what the scan has that fits into the page, each message   *)
(* is followed by the next, there or in a file still to be read.           *)
ClosedScan ==
  /\ \A x, h : Occurs(x, LastLines(page.lines, page.limit)) /\ Chained(x)
                 /\ h \in x.height + 1 .. page.bound - 1 => Has(page.lines, h) \/ Ahead(h)
  /\ page.gens # <<>> /\ (\E x : Occurs(x, active) /\ Chained(x) /\ x.height < page.bound)
       => HasTier(page.gens, Active)

(* Once the files are read, that holds of all it has.                      *)
ClosedInv ==
  Exact =>
    /\ page.step = "scan" => ClosedScan
    /\ page.step = "ram" =>
         \A x, h : Occurs(x, page.lines) /\ Chained(x) /\ h \in x.height + 1 .. page.bound - 1
                     => Has(page.lines, h)

LEMMA HasConcat ==
  ASSUME NEW a \in Seq(Line), NEW b \in Seq(Line), NEW h
  PROVE  Has(a \o b, h) <=> Has(a, h) \/ Has(b, h)
<1>1. \A y : Occurs(y, a \o b) <=> Occurs(y, a) \/ Occurs(y, b)
  BY ByMessages
<1> QED BY <1>1 DEF Has

LEMMA ScanClosed ==
  ASSUME RefInv, IdxInv, OldInv, WinInv, RisesInv, SilentInv, IssuedInv, PageShape, page \in PageRec,
         CursorInv, CollectInv, DiskInv, ClosedInv, Exact, ScanFile, UNCHANGED <<vars, idx>>
  PROVE  ClosedScan'
<1>0. LogInv /\ Fresh /\ ~forgot /\ Lossless /\ phase # "down"
  <2>1. page # NoPage
    BY DEF Exact, Collecting, NoPage
  <2> QED BY <2>1, ExactIsFresh DEF RefInv, Exact, PageShape
<1>1. PICK c, t0 :
    /\ SamePage(page, page') /\ page.step = "scan" /\ page'.step = "scan" /\ page'.excuses = page.excuses
    /\ c \in Seq(Line) /\ page'.lines = page.lines \o c /\ page.gens # <<>>
    /\ t0 \in Tiers /\ HasTier(page.gens, t0) /\ HasTier(idx, t0) /\ writer = "idle"
    /\ \A x : Occurs(x, c) => Occurs(x, GenLines(t0))
    /\ \A x, y : Occurs(x, c) /\ Chained(x) /\ Chained(y) /\ Occurs(y, GenLines(t0))
                   /\ x.height < y.height /\ y.height < page.bound => Occurs(y, c)
    /\ Len(c) < page.limit =>
         \A y : Occurs(y, GenLines(t0)) /\ Chained(y) /\ y.height < page.bound => Occurs(y, c)
    /\ \A t : HasTier(page.gens, t) =>
         \/ t = t0 \/ HasTier(page'.gens, t)
         \/ \A z : Occurs(z, GenLines(t)) /\ Chained(z) => z.height >= page.bound
    /\ \A t : HasTier(page'.gens, t) => t \in Tiers /\ t < t0
  BY <1>0, ScanFacts
<1>2. /\ page.lines \in Seq(Line) /\ page.limit \in Nat \ {0} /\ page.bound \in Nat /\ page'.gens \in Seq(Gen)
      /\ page'.bound = page.bound /\ page'.limit = page.limit
  BY <1>1, PageFields DEF SamePage
<1>3. page.before # 0
  BY <1>0, <1>1 DEF CursorInv
<1>4. /\ GenLines(Active) = active /\ GenLines(Raw) = <<>> /\ GenLines(Archive) = Lines(zst)
      /\ \A x : Occurs(x, LoadRecords) <=> Occurs(x, Lines(zst)) \/ Occurs(x, active)
      /\ Lines(zst) \in Seq(Line) /\ active \in Seq(Line)
  BY <1>0, <1>1, LosslessDisk
<1>5. /\ \A x, h : Occurs(x, LastLines(page.lines, page.limit)) /\ Chained(x)
                     /\ h \in x.height + 1 .. page.bound - 1 => Has(page.lines, h) \/ Ahead(h)
      /\ (\E x : Occurs(x, active) /\ Chained(x) /\ x.height < page.bound) => HasTier(page.gens, Active)
  BY <1>1 DEF ClosedInv, ClosedScan
<1>6. \A h : Has(page'.lines, h) <=> Has(page.lines, h) \/ Has(c, h)
  BY <1>1, <1>2, HasConcat
<1>7. \A x : Occurs(x, GenLines(t0)) => x.height \in Nat
  <2>1. GenLines(t0) \in Seq(Line)
    BY <1>0, <1>1, TierLines
  <2> QED BY <2>1, LineInSeq DEF Occurs
<1>8. ASSUME NEW x, NEW h, Occurs(x, c), Chained(x), h \in x.height + 1 .. page.bound - 1
      PROVE  Has(page'.lines, h) \/ \E t : HasTier(page'.gens, t) /\ Has(GenLines(t), h)
  <2>1. Occurs(x, GenLines(t0)) /\ x.height \in Nat
    BY <1>1, <1>7, <1>8
  <2>2. t0 # Raw
    <3> SUFFICES ASSUME t0 = Raw PROVE FALSE
      OBVIOUS
    <3>1. Occurs(x, <<>>)
      BY <1>4, <2>1
    <3> QED BY <3>1 DEF Occurs
  <2>3. t0 = Active \/ t0 = Archive
    BY <1>1, <2>2 DEF Tiers
  <2>4. Occurs(x, LoadRecords)
    BY <1>4, <2>1, <2>3
  <2>5. PICK y : y.height = h /\ Chained(y) /\ Occurs(y, LoadRecords)
    BY <1>1, <1>3, <1>8, <2>4, StoredAbove
  <2>6. x.height < y.height /\ y.height < page.bound /\ y.height \in Nat
    BY <1>2, <1>8, <2>1, <2>5
  <2>7. CASE Occurs(y, GenLines(t0))
    <3>1. Occurs(y, c)
      BY <1>1, <1>8, <2>5, <2>6, <2>7
    <3> QED BY <1>6, <2>5, <3>1 DEF Has
  <2>8. CASE t0 = Active /\ Occurs(y, Lines(zst))
    <3>1. Lines(zst) # <<>>
      BY <2>8 DEF Occurs
    <3>2. HasTier(idx, Archive)
      BY <1>0, <1>1, <3>1 DEF IdxInv
    <3>3. Archive \in Tiers /\ Active \in Tiers /\ Archive > Active
      BY DEF Tiers, Active, Archive
    <3>4. y.height < x.height
      BY <1>0, <1>1, <1>4, <1>8, <2>1, <2>8, <3>2, <3>3, TierAbove
    <3> QED BY <2>1, <2>6, <3>4
  <2>9. CASE t0 = Archive /\ Occurs(y, active)
    <3>1. HasTier(page.gens, Active)
      BY <1>5, <2>5, <2>6, <2>9
    <3>2. Active # t0
      BY <2>9 DEF Active, Archive
    <3>3. ~(y.height >= page.bound)
      BY <1>2, <2>6
    <3>4. HasTier(page'.gens, Active)
      BY <1>1, <1>4, <2>5, <2>9, <3>1, <3>2, <3>3
    <3> QED BY <1>4, <2>5, <2>9, <3>4 DEF Has
  <2> QED BY <1>4, <2>3, <2>5, <2>7, <2>8, <2>9
<1>9. ASSUME NEW x, NEW h, Occurs(x, LastLines(page.lines, page.limit)), Len(c) < page.limit, Chained(x),
             h \in x.height + 1 .. page.bound - 1
      PROVE  Has(page'.lines, h) \/ \E t : HasTier(page'.gens, t) /\ Has(GenLines(t), h)
  <2>1. CASE Has(page.lines, h)
    BY <1>6, <2>1
  <2>2. CASE Ahead(h)
    <3>1. PICK t, y : HasTier(page.gens, t) /\ Occurs(y, GenLines(t)) /\ y.height = h
      BY <2>2 DEF Ahead, Has
    <3>2. Occurs(x, page.lines)
      BY <1>2, <1>9, WindowOccurs
    <3>3. x.height \in Nat
      BY <1>2, <3>2, LineInSeq DEF Occurs
    <3>4. h # 0 /\ h < page.bound /\ ~(h >= page.bound)
      BY <1>2, <1>9, <3>3
    <3>5. Chained(y)
      BY <3>1, <3>4 DEF Chained
    <3>6. CASE t = t0
      <4>1. Occurs(y, c)
        BY <1>1, <1>9, <3>1, <3>4, <3>5, <3>6
      <4> QED BY <1>6, <3>1, <4>1 DEF Has
    <3>7. CASE HasTier(page'.gens, t)
      BY <3>1, <3>7 DEF Has
    <3> QED BY <1>1, <3>1, <3>4, <3>5, <3>6, <3>7
  <2> QED BY <1>5, <1>9, <2>1, <2>2
<1>10. ASSUME NEW x, NEW h, Occurs(x, LastLines(page'.lines, page.limit)), Chained(x),
              h \in x.height + 1 .. page.bound - 1
       PROVE  Has(page'.lines, h) \/ \E t : HasTier(page'.gens, t) /\ Has(GenLines(t), h)
  <2>1. Occurs(x, c) \/ (Occurs(x, LastLines(page.lines, page.limit)) /\ Len(c) < page.limit)
    BY <1>1, <1>2, <1>10, CutTail
  <2> QED BY <1>8, <1>9, <1>10, <2>1
<1>11. ASSUME page'.gens # <<>>, NEW z, Occurs(z, active), Chained(z), z.height < page.bound
       PROVE  HasTier(page'.gens, Active)
  <2>1. HasTier(page.gens, Active)
    BY <1>5, <1>11
  <2>2. z.height \in Nat
    BY <1>4, <1>11, LineInSeq DEF Occurs
  <2>3. ~(z.height >= page.bound)
    BY <1>2, <1>11, <2>2
  <2>4. t0 # Active
    <3> SUFFICES ASSUME t0 = Active PROVE FALSE
      OBVIOUS
    <3>1. HasTier(page'.gens, page'.gens[1].tier)
      BY <1>2, <1>11 DEF HasTier
    <3> QED BY <1>1, <3>1 DEF Tiers, Active, Raw, Archive
  <2> QED BY <1>1, <1>4, <1>11, <2>1, <2>3, <2>4
<1>12. \A t : GenLines(t)' = GenLines(t)
  BY GenLinesKept DEF vars, diskVars
<1>13. active' = active
  BY DEF vars, diskVars
<1>14. LastLines(page.lines, page.limit)' = LastLines(page'.lines, page.limit)
  BY <1>2 DEF LastLines
<1>15. \A x, h : Occurs(x, LastLines(page.lines, page.limit))' /\ Chained(x)
                   /\ h \in x.height + 1 .. page'.bound - 1 => Has(page.lines, h)' \/ Ahead(h)'
  <2> SUFFICES ASSUME NEW x, NEW h, Occurs(x, LastLines(page.lines, page.limit))', Chained(x),
                      h \in x.height + 1 .. page.bound - 1
               PROVE  Has(page.lines, h)' \/ Ahead(h)'
    BY <1>2
  <2>1. Occurs(x, LastLines(page'.lines, page.limit))
    BY <1>14 DEF Occurs
  <2>2. Has(page'.lines, h) => Has(page.lines, h)'
    BY DEF Has, Occurs
  <2>3. \A t : HasTier(page'.gens, t) => HasTier(page.gens, t)'
    BY DEF HasTier
  <2>4. \A t : Has(GenLines(t), h) => Has(GenLines(t), h)'
    BY <1>12 DEF Has, Occurs
  <2>5. (\E t : HasTier(page'.gens, t) /\ Has(GenLines(t), h)) => Ahead(h)'
    BY <2>3, <2>4 DEF Ahead
  <2> QED BY <1>10, <2>1, <2>2, <2>5
<1>16. page'.gens # <<>> /\ (\E x : Occurs(x, active)' /\ Chained(x) /\ x.height < page'.bound)
         => HasTier(page.gens, Active)'
  BY <1>2, <1>11, <1>13 DEF HasTier, Occurs, Active
<1> QED BY <1>15, <1>16 DEF ClosedScan, Chained, Active

(* A merge keeps the last lines of the page, all below the bound. *)
LEMMA MergeKeeps ==
  ASSUME page \in PageRec, Fresh, CursorInv, CollectInv, MergeTemps
  PROVE  /\ SamePage(page, page') /\ page.step = "scan" /\ page'.step = "ram" /\ page.gens = <<>>
         /\ page'.lines = LastLines(page.lines, page.limit) /\ page'.excuses = page.excuses
<1>1. /\ SamePage(page, page') /\ page.step = "scan" /\ page.gens = <<>>
      /\ page'.step = (IF Reached(page.lines, 0, page.bound) THEN "done" ELSE "ram")
      /\ page'.lines = Cut(page.lines, 0) /\ page'.excuses = page.excuses
  BY MergeIs
<1>2. page.bound # 0 /\ \A x : Occurs(x, page.lines) => x.height < page.bound
  BY <1>1 DEF CursorInv, CollectInv
<1>3. page.lines \in Seq(Line) /\ page.bound \in Nat \ {0} /\ 0 \in Nat
  BY <1>2, PageFields
<1>4. \A j \in DOMAIN page.lines : j <= 0 => page.lines[j].height < page.bound
  BY <1>2 DEF Occurs
<1> DEFINE r == Reached(page.lines, 0, page.bound)
           u == Until(page.lines, 0, page.bound)
<1>5. (r <=> \E x : Occurs(x, page.lines) /\ x.height >= page.bound) /\ (~r => u = page.lines)
  BY <1>3, <1>4, UntilIs
<1>6. \A x : Occurs(x, page.lines) => x.height \in Nat
  BY <1>3, LineInSeq DEF Occurs
<1> HIDE DEF r, u
<1>7. ~r
  BY <1>2, <1>3, <1>5, <1>6
<1>8. page'.step = "ram" /\ page'.lines = LastLines(page.lines, page.limit)
  BY <1>1, <1>5, <1>7 DEF r, u, Cut
<1> QED BY <1>1, <1>8

(* The steps of an exact page that is not complete. *)
LEMMA ExactSteps ==
  ASSUME LogInv, PageShape, PageStep, Exact'
  PROVE  \/ \E before \in 0 .. Resumed.height, limit \in Limits, level \in Levels :
              AskSegment(before, limit, level)
         \/ page \in PageRec /\ Exact /\ (SnapshotIndex \/ ScanFile \/ MergeTemps)
<1>1. Lossless
  BY PageStepsKeep DEF vars, ghosts, Exact, Lossless
<1>2. ~SendReplay
  <2>1. SendReplay => page'.step = "none"
    BY DEF SendReplay, NoPage
  <2> QED BY <2>1 DEF Exact, Collecting
<1>3. SnapshotIndex \/ ScanFile \/ MergeTemps \/ FeedRam => page \in PageRec
  BY DEF SnapshotIndex, ScanFile, MergeTemps, FeedRam, PageShape, NoPage
<1>4. ~FeedRam
  <2>1. FeedRam => page'.step = "done"
    BY <1>3, FeedIs
  <2> QED BY <2>1 DEF Exact, Collecting
<1>5. SnapshotIndex => page'.excuses = page.excuses /\ page.step = "index"
  <2>1. SnapshotIndex => page = PageWith(page, page.step, page.gens, page.lines)
    BY <1>3, PageSpelt
  <2> QED BY <2>1 DEF SnapshotIndex, PageWith
<1>6. ScanFile => page'.excuses = page.excuses /\ page.step = "scan"
  BY <1>3, ScanIs
<1>7. MergeTemps => page'.excuses = page.excuses /\ page.step = "scan"
  BY <1>3, MergeIs
<1>8. SnapshotIndex \/ ScanFile \/ MergeTemps => Exact
  BY <1>1, <1>5, <1>6, <1>7 DEF Exact, Collecting
<1> QED BY <1>2, <1>3, <1>4, <1>8 DEF PageStep

(* Under a page, the files only grow, by what was waiting. *)
LEMMA FilesGrow ==
  ASSUME LogInv, LogInv', (\E x : Stores(x)) \/ Quiet
  PROVE  /\ \A t \in Tiers : \A y : Occurs(y, GenLines(t)) => Occurs(y, GenLines(t))'
         /\ \A y : Occurs(y, active)' => Occurs(y, active) \/ Occurs(y, queue)
<1>1. CASE \E x : Stores(x)
  <2>1. UNCHANGED <<active, tail, old, zst>>
    BY <1>1 DEF Stores, diskVars
  <2>2. \A t : GenLines(t)' = GenLines(t)
    BY <2>1, GenLinesKept
  <2> QED BY <2>1, <2>2 DEF Occurs
<1>2. CASE Quiet
  <2>1. ASSUME NEW t \in Tiers, NEW y, Occurs(y, GenLines(t)) PROVE Occurs(y, GenLines(t))'
    <3> DEFINE a == GenLines(t)
               b == GenLines(t)'
    <3>1. a \in Seq(Line) /\ b \in Seq(Line) /\ Len(a) <= Len(b) /\ \A i \in 1 .. Len(a) : b[i] = a[i]
      BY <1>2, <2>1, QuietLonger
    <3>2. Occurs(y, a)
      BY <2>1
    <3> HIDE DEF a, b
    <3>3. Occurs(y, b)
      <4>1. PICK i \in DOMAIN a : a[i] = y
        BY <3>2 DEF Occurs
      <4>2. i \in 1 .. Len(a) /\ Len(a) \in Nat /\ Len(b) \in Nat
        BY <3>1, <4>1
      <4>3. i \in 1 .. Len(b) /\ b[i] = y
        BY <3>1, <4>1, <4>2
      <4>4. i \in DOMAIN b
        BY <3>1, <4>3
      <4> QED BY <4>3, <4>4 DEF Occurs
    <3> QED BY <3>3 DEF b, Occurs
  <2> QED BY <1>2, <2>1, QuietOccurs
<1> QED BY <1>1, <1>2

LEMMA GenTiers ==
  ASSUME NEW gens \in Seq(Gen), NEW t, HasTier(gens, t) PROVE t \in Tiers
BY GenFields DEF HasTier, Tiers, Active, Raw, Archive

LEMMA ClosedStep ==
  ASSUME RefInv, RefInv', IdxInv, OldInv, WinInv, RisesInv, SilentInv, IssuedInv, PageShape,
         CursorInv, CollectInv, DiskInv, ClosedInv, [SegNext]_allVars
  PROVE  ClosedInv'
<1>0. LogInv /\ LogInv' /\ active \in Seq(Line)
  BY DEF RefInv, LogInv, TypeOK
<1> SUFFICES ASSUME Exact'
             PROVE  /\ page'.step = "scan" => ClosedScan'
                    /\ page'.step = "ram" =>
                         \A x, h : Occurs(x, page'.lines) /\ Chained(x)
                                     /\ h \in x.height + 1 .. page'.bound - 1 => Has(page'.lines, h)
  BY DEF ClosedInv, Has, Occurs, Chained
<1>1. CASE UNCHANGED allVars
  <2>1. Exact
    BY <1>1 DEF allVars, segVars, vars, ghosts, Exact, Collecting, Lossless
  <2>2. UNCHANGED <<page, active, tail, old, zst>>
    BY <1>1 DEF allVars, segVars, vars, diskVars
  <2>3. \A t : GenLines(t)' = GenLines(t)
    BY <2>2, GenLinesKept
  <2>4. ClosedScan => ClosedScan'
    <3>1. LastLines(page.lines, page.limit)' = LastLines(page.lines, page.limit)
      BY <2>2 DEF LastLines
    <3>2. \A h : Has(page.lines, h)' <=> Has(page.lines, h)
      BY <2>2 DEF Has, Occurs
    <3>3. \A h : Ahead(h)' <=> Ahead(h)
      BY <2>2, <2>3 DEF Ahead, HasTier, Has, Occurs
    <3> QED BY <2>2, <3>1, <3>2, <3>3 DEF ClosedScan, HasTier, Occurs, Chained, Active
  <2> QED BY <2>1, <2>2, <2>4 DEF ClosedInv
<1>2. CASE LogStep
  <2>1. /\ Exact /\ page \in PageRec /\ page'.step = page.step /\ page'.lines = page.lines
        /\ page'.gens = page.gens /\ page'.limit = page.limit /\ page'.bound = page.bound
        /\ (\E x : Stores(x)) \/ Quiet
    BY <1>0, <1>2, ExactUnderLog DEF SamePage
  <2>2. ASSUME page.step = "scan" PROVE ClosedScan'
    <3>1. page.before # 0
      BY <2>1, <2>2, ExactIsFresh DEF CursorInv
    <3>2. \A x : Occurs(x, queue) /\ Chained(x) => ~(x.height < page.bound)
      <4>1. \A x : Occurs(x, queue) => x.height \in Nat
        BY LineInSeq DEF RefInv, LogInv, TypeOK, Occurs
      <4>2. page.bound \in Nat
        BY <2>1, PageFields
      <4> QED BY <2>1, <3>1, <4>1, <4>2 DEF DiskInv
    <3>3. /\ \A t \in Tiers : \A y : Occurs(y, GenLines(t)) => Occurs(y, GenLines(t))'
          /\ \A y : Occurs(y, active)' => Occurs(y, active) \/ Occurs(y, queue)
      BY <1>0, <2>1, FilesGrow
    <3>4. ClosedScan
      BY <2>1, <2>2 DEF ClosedInv
    <3>5. LastLines(page.lines, page.limit)' = LastLines(page.lines, page.limit)
      BY <2>1 DEF LastLines
    <3>6. \A h : Has(page.lines, h) => Has(page.lines, h)'
      BY <2>1 DEF Has, Occurs
    <3>7. \A t : HasTier(page.gens, t) => t \in Tiers /\ HasTier(page.gens, t)'
      BY <2>1, PageFields, GenTiers DEF HasTier
    <3>8. \A h : Ahead(h) => Ahead(h)'
      BY <3>3, <3>7 DEF Ahead, Has
    <3>9. \A x : Occurs(x, LastLines(page.lines, page.limit))' => Occurs(x, LastLines(page.lines, page.limit))
      BY <3>5 DEF Occurs
    <3>10. \A x, h : Occurs(x, LastLines(page.lines, page.limit))' /\ Chained(x)
                   /\ h \in x.height + 1 .. page'.bound - 1 => Has(page.lines, h)' \/ Ahead(h)'
      BY <2>1, <3>4, <3>6, <3>8, <3>9 DEF ClosedScan
    <3>11. page'.gens # <<>> /\ (\E x : Occurs(x, active)' /\ Chained(x) /\ x.height < page'.bound)
             => HasTier(page.gens, Active)'
      BY <2>1, <3>2, <3>3, <3>4, <3>7 DEF ClosedScan
    <3> QED BY <3>10, <3>11 DEF ClosedScan, Chained, Active
  <2>3. page.step = "ram" => \A x, h : Occurs(x, page.lines) /\ Chained(x)
                                     /\ h \in x.height + 1 .. page.bound - 1 => Has(page.lines, h)
    BY <2>1 DEF ClosedInv
  <2> QED BY <2>1, <2>2, <2>3
<1>3. CASE PageStep
  <2>0. UNCHANGED <<vars, idx>>
    BY <1>3, PageStepsKeep
  <2>1. ~\E x : Occurs(x, <<>>)
    BY DEF Occurs
  <2>2. CASE \E before \in 0 .. Resumed.height, limit \in Limits, level \in Levels :
               AskSegment(before, limit, level)
    <3>1. page'.lines = <<>> /\ page'.step \in {"index", "ram"}
      BY <1>0, <2>2, AskIs
    <3> QED BY <2>1, <3>1
  <2>3. CASE page \in PageRec /\ Exact /\ SnapshotIndex
    <3>1. /\ SamePage(page, page') /\ page'.step = "scan" /\ page'.gens = GensOf(idx, 1 .. page.level)
          /\ page'.lines = page.lines
      BY <2>3, SnapshotIs
    <3>2. page.step = "index" /\ page.lines = <<>> /\ page.level \in Nat /\ page.level > 0
      <4>1. page.step = "index"
        BY <2>3 DEF SnapshotIndex
      <4> QED BY <2>3, <4>1, ExactIsFresh, PageFields DEF CollectInv, DiskInv
    <3>3. phase # "down"
      BY <2>3, <3>2 DEF PageShape, NoPage
    <3>4. LastLines(page.lines, page.limit)' = LastLines(<<>>, page'.limit)
      BY <3>1, <3>2 DEF LastLines
    <3>5. page'.limit \in Nat \ {0}
      BY <3>1, PageFields DEF SamePage
    <3>6. \A x : ~Occurs(x, LastLines(<<>>, page'.limit))
      <4>1. <<>> \in Seq(Line)
        OBVIOUS
      <4>2. \A s \in Seq(Line) : \A x : Occurs(x, LastLines(s, page'.limit)) => Occurs(x, s)
        BY <3>5, WindowOccurs
      <4> QED BY <2>1, <4>1, <4>2
    <3>7. \A x : ~Occurs(x, LastLines(page.lines, page.limit))'
      BY <3>4, <3>6 DEF Occurs
    <3>8. ASSUME NEW x, Occurs(x, active)', Chained(x) PROVE HasTier(page.gens, Active)'
      <4>1. Occurs(x, active)
        BY <2>0, <3>8 DEF vars, diskVars, Occurs
      <4>2. HasTier(idx, Active)
        BY <3>3, <3>8, <4>1 DEF IdxInv, Occurs
      <4>3. Active \in 1 .. page.level
        BY <3>2 DEF Active
      <4>4. HasTier(page'.gens, Active)
        <5>1. idx \in Seq(Gen)
          BY DEF IdxInv
        <5> DEFINE tiers == 1 .. page.level
        <5>2. \A t : HasTier(GensOf(idx, tiers), t) <=> HasTier(idx, t) /\ t \in tiers
          BY <5>1, GensOfTiers
        <5>3. Active \in tiers /\ page'.gens = GensOf(idx, tiers)
          BY <3>1, <4>3
        <5> HIDE DEF tiers
        <5> QED BY <4>2, <5>2, <5>3
      <4> QED BY <4>4 DEF HasTier, Active
    <3>9. ClosedScan'
      BY <3>7, <3>8 DEF ClosedScan, Chained
    <3> QED BY <3>1, <3>9
  <2>4. CASE page \in PageRec /\ Exact /\ ScanFile
    <3>1. ClosedScan'
      BY <2>0, <2>4, ScanClosed
    <3>2. page'.step = "scan"
      BY <1>0, <2>4, ScanIs
    <3> QED BY <3>1, <3>2
  <2>5. CASE page \in PageRec /\ Exact /\ MergeTemps
    <3>1. /\ SamePage(page, page') /\ page.step = "scan" /\ page'.step = "ram" /\ page.gens = <<>>
          /\ page'.lines = LastLines(page.lines, page.limit)
      BY <2>5, ExactIsFresh, MergeKeeps
    <3>2. page.lines \in Seq(Line) /\ page.limit \in Nat \ {0} /\ page.bound \in Nat /\ page'.bound = page.bound
      BY <2>5, <3>1, PageFields DEF SamePage
    <3>3. Rising(page.lines)
      BY <2>5, ExactIsFresh DEF CollectInv
    <3>4. page'.lines \in Seq(Line) /\ IsEndOf(page'.lines, page.lines)
      BY <3>1, <3>2, WindowIsEnd
    <3>5. ~\E t : HasTier(page.gens, t)
      BY <3>1 DEF HasTier
    <3>6. ASSUME NEW x, NEW h, Occurs(x, page'.lines), Chained(x), h \in x.height + 1 .. page.bound - 1
          PROVE  Has(page'.lines, h)
      <4>1. Has(page.lines, h)
        BY <2>5, <3>1, <3>5, <3>6 DEF ClosedInv, ClosedScan, Ahead
      <4>2. PICK y : Occurs(y, page.lines) /\ y.height = h
        BY <4>1 DEF Has
      <4>3. x.height \in Nat
        BY <3>4, <3>6, LineInSeq DEF Occurs
      <4>4. x.height < y.height /\ h # 0
        BY <3>2, <3>6, <4>2, <4>3
      <4>5. Chained(y)
        BY <4>2, <4>4 DEF Chained
      <4>6. Occurs(y, page'.lines)
        BY <3>2, <3>3, <3>4, <3>6, <4>2, <4>4, <4>5, EndKeeps
      <4> QED BY <4>2, <4>6 DEF Has
    <3> QED BY <3>1, <3>2, <3>6
  <2> QED BY <1>0, <1>3, <2>2, <2>3, <2>4, <2>5, ExactSteps
<1> QED BY <1>1, <1>2, <1>3 DEF SegNext

-----------------------------------------------------------------------------
(* Nothing older is left out of a page that is short.                      *)
Shows(s, u, before) == \E x : Occurs(x, s) /\ Chained(x) /\ x.uid = u /\ x.height < before

(* What a short page owes while it reads the files.                        *)
OwedScan ==
  \A u \in page.owed :
    \/ Shows(history, u, page.before) \/ Shows(page.lines, u, page.before)
    \/ \E t : HasTier(page.gens, t) /\ Shows(GenLines(t), u, page.before)

(* Each message that the page owes is in the window, in what it has, or in *)
(* a file it still has to read.                                            *)
OwedInv ==
  Exact /\ page.level = Archive =>
    /\ page.step = "index" => \A u \in page.owed : Shows(LoadRecords, u, page.before)
    /\ page.step = "scan" /\ Len(page.lines) < page.limit => OwedScan
    /\ page.step = "ram" /\ Len(page.lines) < page.limit =>
         \A u \in page.owed : Shows(history, u, page.before) \/ Shows(page.lines, u, page.before)

LEMMA SameHeight ==
  ASSUME NEW s \in Seq(Line), Rising(s), NEW x, NEW y, Occurs(x, s), Occurs(y, s), Chained(x), Chained(y),
         x.height = y.height
  PROVE  x = y
<1>1. PICK i \in DOMAIN s : s[i] = x
  BY DEF Occurs
<1>2. PICK j \in DOMAIN s : s[j] = y
  BY DEF Occurs
<1>3. i \in Nat /\ j \in Nat /\ s[i].height \in Nat
  BY LineInSeq
<1>4. ~(i < j) /\ ~(j < i)
  BY <1>1, <1>2, <1>3 DEF Rising, Said
<1>5. i = j
  BY <1>3, <1>4
<1> QED BY <1>1, <1>2, <1>5

(* A message of the files from the bound to the cursor is in the window. *)
LEMMA AboveBound ==
  ASSUME RefInv, SilentInv, IssuedInv, PageShape, page \in PageRec, CursorInv, DiskInv, Exact, writer = "idle",
         page.before # 0, NEW t \in Tiers, NEW y, Occurs(y, GenLines(t)), Chained(y),
         y.height < page.before, ~(y.height < page.bound)
  PROVE  Occurs(y, history)
<1>0. Lossless /\ page.bound \in Nat /\ page.before \in Nat /\ phase # "down"
  <2>1. page # NoPage
    BY DEF Exact, Collecting, NoPage
  <2> QED BY <2>1, PageFields DEF Exact, PageShape
<1>1. /\ GenLines(Active) = active /\ GenLines(Raw) = <<>> /\ GenLines(Archive) = Lines(zst)
      /\ Stored \in Seq(Line) /\ issued \in Seq(Line) /\ IsEndOf(Stored, issued)
      /\ \A x : Occurs(x, LoadRecords) <=> Occurs(x, Lines(zst)) \/ Occurs(x, active)
      /\ \A x : Occurs(x, Stored) <=> Occurs(x, LoadRecords) \/ Occurs(x, queue)
  BY <1>0, LosslessDisk
<1>2. ~Occurs(y, <<>>)
  BY DEF Occurs
<1>3. Occurs(y, Stored)
  BY <1>1, <1>2 DEF Tiers
<1>4. Occurs(y, issued)
  BY <1>1, <1>3, EndKeeps
<1>5. y.height \in Nat
  BY <1>1, <1>4, LineInSeq DEF Occurs
<1>6. y.height \in page.bound .. page.before - 1
  BY <1>0, <1>5
<1>7. PICK z : Occurs(z, history) /\ z.height = y.height
  BY <1>6 DEF DiskInv, Has
<1>8. Chained(z) /\ Occurs(z, issued)
  BY <1>0, <1>7, WindowIssued DEF Chained
<1>9. Rising(issued)
  BY <1>0 DEF IssuedInv
<1>10. z = y
  BY <1>1, <1>4, <1>7, <1>8, <1>9, SameHeight
<1> QED BY <1>7, <1>10

LEMMA ScanOwed ==
  ASSUME RefInv, IdxInv, OldInv, WinInv, RisesInv, SilentInv, IssuedInv, PageShape, page \in PageRec,
         CursorInv, CollectInv, DiskInv, OwedInv, Exact, ScanFile, UNCHANGED <<vars, idx>>,
         page.level = Archive, Len(page'.lines) < page'.limit
  PROVE  OwedScan'
<1>0. LogInv /\ Fresh /\ ~forgot /\ Lossless
  BY ExactIsFresh DEF RefInv, Exact
<1>1. PICK c, t0 :
    /\ SamePage(page, page') /\ page.step = "scan"
    /\ c \in Seq(Line) /\ page'.lines = page.lines \o c
    /\ t0 \in Tiers /\ writer = "idle"
    /\ Len(c) < page.limit =>
         \A y : Occurs(y, GenLines(t0)) /\ Chained(y) /\ y.height < page.bound => Occurs(y, c)
    /\ \A t : HasTier(page.gens, t) =>
         \/ t = t0 \/ HasTier(page'.gens, t)
         \/ \A z : Occurs(z, GenLines(t)) /\ Chained(z) => z.height >= page.bound
  BY <1>0, ScanFacts
<1>2. /\ page.lines \in Seq(Line) /\ page.limit \in Nat \ {0} /\ page.bound \in Nat /\ page.gens \in Seq(Gen)
      /\ page'.limit = page.limit /\ page'.before = page.before /\ page'.owed = page.owed
  BY <1>1, PageFields DEF SamePage
<1>3. Len(c) < page.limit /\ Len(page.lines) < page.limit
  <2>1. Len(page'.lines) = Len(page.lines) + Len(c) /\ Len(c) \in Nat /\ Len(page.lines) \in Nat
    BY <1>1, <1>2, ConcatLines
  <2> QED BY <1>2, <2>1
<1>4. \A x : Occurs(x, page'.lines) <=> Occurs(x, page.lines) \/ Occurs(x, c)
  BY <1>1, <1>2, OccursInConcat
<1>5. page.before # 0
  BY <1>0, <1>1 DEF CursorInv
<1>6. OwedScan
  BY <1>1, <1>3 DEF OwedInv
<1>7. ASSUME NEW u \in page.owed
      PROVE  \/ Shows(history, u, page.before) \/ Shows(page'.lines, u, page.before)
             \/ \E t : HasTier(page'.gens, t) /\ Shows(GenLines(t), u, page.before)
  <2>1. CASE Shows(history, u, page.before) \/ Shows(page.lines, u, page.before)
    BY <1>4, <2>1 DEF Shows
  <2>2. CASE \E t : HasTier(page.gens, t) /\ Shows(GenLines(t), u, page.before)
    <3>1. PICK t, y : HasTier(page.gens, t) /\ Occurs(y, GenLines(t)) /\ Chained(y) /\ y.uid = u
                      /\ y.height < page.before
      BY <2>2 DEF Shows
    <3>2. t \in Tiers
      BY <1>2, <3>1, GenTiers
    <3>3. CASE ~(y.height < page.bound)
      <4>1. Occurs(y, history)
        BY <1>1, <1>5, <3>1, <3>2, <3>3, AboveBound
      <4> QED BY <3>1, <4>1 DEF Shows
    <3>4. CASE y.height < page.bound
      <4>1. y.height \in Nat
        <5>1. GenLines(t) \in Seq(Line)
          BY <1>0, <3>2, GenLinesAre DEF Tiers
        <5> QED BY <3>1, <5>1, LineInSeq DEF Occurs
      <4>2. ~(y.height >= page.bound)
        BY <1>2, <3>4, <4>1
      <4>3. CASE t = t0
        <5>1. Occurs(y, page'.lines)
          BY <1>1, <1>3, <1>4, <3>1, <3>4, <4>3
        <5> QED BY <3>1, <5>1 DEF Shows
      <4>4. CASE HasTier(page'.gens, t)
        BY <3>1, <4>4 DEF Shows
      <4> QED BY <1>1, <3>1, <4>2, <4>3, <4>4
    <3> QED BY <3>3, <3>4
  <2> QED BY <1>6, <2>1, <2>2 DEF OwedScan
<1>8. \A t : GenLines(t)' = GenLines(t)
  BY GenLinesKept DEF vars, diskVars
<1>9. history' = history
  BY DEF vars, ramVars
<1>10. \A u : Shows(history, u, page.before) => Shows(history, u, page.before)'
  BY <1>2, <1>9 DEF Shows, Occurs, Chained
<1>11. \A u : Shows(page'.lines, u, page.before) => Shows(page.lines, u, page.before)'
  BY <1>2 DEF Shows, Occurs, Chained
<1>12. \A u, t : Shows(GenLines(t), u, page.before) => Shows(GenLines(t), u, page.before)'
  BY <1>2, <1>8 DEF Shows, Occurs, Chained
<1>13. \A t : HasTier(page'.gens, t) => HasTier(page.gens, t)'
  BY DEF HasTier
<1>14. \A u \in page'.owed :
         \/ Shows(history, u, page.before)' \/ Shows(page.lines, u, page.before)'
         \/ \E t : HasTier(page.gens, t)' /\ Shows(GenLines(t), u, page.before)'
  BY <1>2, <1>7, <1>10, <1>11, <1>12, <1>13
<1> QED BY <1>14 DEF OwedScan

(* Under an exact page, no message leaves the window or the files. *)
LEMMA ExactKeeps ==
  ASSUME RefInv, RefInv', SilentInv, SilentInv', Lossless, Lossless',
         (\E x : Stores(x) /\ ~Evicts) \/ Quiet
  PROVE  /\ \A y : Occurs(y, history) /\ Chained(y) => Occurs(y, history)'
         /\ \A y : Occurs(y, LoadRecords) => Occurs(y, LoadRecords)'
<1>0. LogInv /\ LogInv' /\ TypeOK /\ TypeOK'
  BY DEF RefInv, LogInv
<1>1. CASE \E x : Stores(x) /\ ~Evicts
  <2>1. UNCHANGED <<active, old, zst>>
    BY <1>1 DEF Stores, diskVars
  <2>2. LoadRecords' = LoadRecords
    BY <2>1 DEF LoadRecords, Lines
  <2> QED BY <1>0, <1>1, <2>2, StoresKeep DEF Occurs
<1>2. CASE Quiet
  <2>1. UNCHANGED <<history, old, zst>>
    BY <1>0, <1>2, QuietStep DEF ramVars
  <2>2. tail = "clean" /\ tail' = "clean"
    BY DEF SilentInv, FilesInv
  <2>3. Readable = active /\ Readable' = active'
    BY <2>2 DEF Readable
  <2>4. \A y : Occurs(y, GenLines(Active)) => Occurs(y, GenLines(Active))'
    <3>1. Active \in Tiers
      BY DEF Tiers
    <3> QED BY <1>0, <1>2, <3>1, FilesGrow
  <2>5. GenLines(Active) = active /\ GenLines(Active)' = active'
    BY <2>3 DEF GenLines, Active, Raw, Archive
  <2>6. \A y : Occurs(y, active) => Occurs(y, active')
    BY <2>4, <2>5 DEF Occurs
  <2> DEFINE r == IF zst # NoFile THEN zst ELSE Lines(old)
  <2>7. r \in Seq(Line) /\ active \in Seq(Line) /\ active' \in Seq(Line)
        /\ LoadRecords = r \o active
    BY <1>0 DEF TypeOK, Lines, LoadRecords
  <2>8. LoadRecords' = r \o active'
    BY <2>1 DEF LoadRecords, Lines
  <2> HIDE DEF r
  <2>9. \A y : Occurs(y, r \o active) => Occurs(y, r \o active')
    BY <2>6, <2>7, OccursInConcat
  <2>10. \A y : Occurs(y, LoadRecords) => Occurs(y, LoadRecords)'
    BY <2>7, <2>8, <2>9 DEF Occurs
  <2> QED BY <2>1, <2>10 DEF Occurs
<1> QED BY <1>1, <1>2

LEMMA OwedStep ==
  ASSUME RefInv, RefInv', IdxInv, OldInv, WinInv, RisesInv, SilentInv, SilentInv', IssuedInv, PageShape,
         CursorInv, CollectInv, DiskInv, OwedInv, [SegNext]_allVars
  PROVE  OwedInv'
<1>0. LogInv /\ LogInv'
  BY DEF RefInv
<1>a. Archive' = Archive
  BY DEF Archive
<1> SUFFICES ASSUME Exact', page'.level = Archive
             PROVE  /\ page'.step = "index" => \A u \in page'.owed : Shows(LoadRecords, u, page.before)'
                    /\ page'.step = "scan" /\ Len(page'.lines) < page'.limit => OwedScan'
                    /\ page'.step = "ram" /\ Len(page'.lines) < page'.limit =>
                         \A u \in page'.owed : Shows(history, u, page.before)' \/ Shows(page.lines, u, page.before)'
  BY <1>a DEF OwedInv
<1>1. ASSUME Exact, page \in PageRec, SamePage(page, page'), page'.step = page.step, page'.gens = page.gens,
             page'.lines = page.lines,
             \A y : Occurs(y, history) /\ Chained(y) => Occurs(y, history)',
             \A y : Occurs(y, LoadRecords) => Occurs(y, LoadRecords)',
             \A t \in Tiers : \A y : Occurs(y, GenLines(t)) => Occurs(y, GenLines(t))'
      PROVE  /\ page'.step = "index" => \A u \in page'.owed : Shows(LoadRecords, u, page.before)'
             /\ page'.step = "scan" /\ Len(page'.lines) < page'.limit => OwedScan'
             /\ page'.step = "ram" /\ Len(page'.lines) < page'.limit =>
                  \A u \in page'.owed : Shows(history, u, page.before)' \/ Shows(page.lines, u, page.before)'
  <2>1. page'.before = page.before /\ page'.owed = page.owed /\ page'.limit = page.limit /\ page.level = Archive
    BY <1>1 DEF SamePage
  <2>2. \A u : Shows(history, u, page.before) => Shows(history, u, page.before)'
    BY <1>1, <2>1 DEF Shows, Chained
  <2>3. \A u : Shows(LoadRecords, u, page.before) => Shows(LoadRecords, u, page.before)'
    BY <1>1, <2>1 DEF Shows, Chained
  <2>4. \A u : Shows(page.lines, u, page.before) => Shows(page.lines, u, page.before)'
    BY <1>1, <2>1 DEF Shows, Chained, Occurs
  <2>5. \A t \in Tiers : \A u : Shows(GenLines(t), u, page.before) => Shows(GenLines(t), u, page.before)'
    BY <1>1, <2>1 DEF Shows, Chained
  <2>6. \A t : HasTier(page.gens, t) => t \in Tiers /\ HasTier(page.gens, t)'
    BY <1>1, PageFields, GenTiers DEF HasTier
  <2>7. OwedScan => OwedScan'
    BY <2>1, <2>2, <2>4, <2>5, <2>6 DEF OwedScan
  <2> QED BY <1>1, <2>1, <2>2, <2>3, <2>4, <2>7 DEF OwedInv
<1>2. CASE UNCHANGED allVars
  <2>1. Exact
    BY <1>2 DEF allVars, segVars, vars, ghosts, Exact, Collecting, Lossless
  <2>2. UNCHANGED <<page, active, tail, old, zst, history>>
    BY <1>2 DEF allVars, segVars, vars, diskVars, ramVars
  <2>3. \A t : GenLines(t)' = GenLines(t)
    BY <2>2, GenLinesKept
  <2>4. LoadRecords' = LoadRecords
    BY <2>2 DEF LoadRecords, Lines
  <2>5. page \in PageRec
    BY <2>1 DEF PageShape, Exact, Collecting, NoPage
  <2>6. SamePage(page, page')
    BY <2>2, <2>5 DEF SamePage
  <2>7. /\ \A y : Occurs(y, history) => Occurs(y, history)'
        /\ \A y : Occurs(y, LoadRecords) => Occurs(y, LoadRecords)'
        /\ \A t, y : Occurs(y, GenLines(t)) => Occurs(y, GenLines(t))'
    BY <2>2, <2>3, <2>4 DEF Occurs
  <2> QED BY <1>1, <2>1, <2>2, <2>5, <2>6, <2>7
<1>3. CASE LogStep
  <2>1. /\ Exact /\ page \in PageRec /\ SamePage(page, page') /\ page'.step = page.step
        /\ page'.lines = page.lines /\ page'.gens = page.gens
        /\ (\E x : Stores(x) /\ ~Evicts) \/ Quiet
    BY <1>0, <1>3, ExactUnderLog
  <2>2. Lossless /\ Lossless'
    BY <2>1 DEF Exact
  <2>3. /\ \A y : Occurs(y, history) /\ Chained(y) => Occurs(y, history)'
        /\ \A y : Occurs(y, LoadRecords) => Occurs(y, LoadRecords)'
    BY <2>1, <2>2, ExactKeeps
  <2>4. \A t \in Tiers : \A y : Occurs(y, GenLines(t)) => Occurs(y, GenLines(t))'
    BY <1>0, <2>1, FilesGrow
  <2> QED BY <1>1, <2>1, <2>3, <2>4
<1>4. CASE PageStep
  <2>0. UNCHANGED <<vars, idx>> /\ UNCHANGED <<active, tail, old, zst, history>>
    BY <1>4, PageStepsKeep DEF vars, diskVars, ramVars
  <2>1. CASE \E before \in 0 .. Resumed.height, limit \in Limits, level \in Levels :
               AskSegment(before, limit, level)
    <3>1. PICK before \in 0 .. Resumed.height, limit \in Limits, level \in Levels :
            AskSegment(before, limit, level)
      BY <2>1
    <3>2. /\ page'.step = (IF before # 0 /\ level > 0 THEN "index" ELSE "ram")
          /\ page'.before = before /\ page'.level = level
          /\ page'.owed = Below(before) /\ before \in Nat
      BY <1>0, <3>1, AskIs
    <3>3. LoadRecords' = LoadRecords
      BY <2>0 DEF LoadRecords, Lines
    <3>4. \A u \in Below(before) : Shows(LoadRecords, u, before)
      BY DEF Below, Shows, Occurs
    <3>5. \A u : Shows(LoadRecords, u, before) => Shows(LoadRecords, u, page.before)'
      BY <3>2, <3>3 DEF Shows, Occurs, Chained
    <3>6. page'.step = "ram" => page'.owed = {}
      <4> SUFFICES ASSUME page'.step = "ram", NEW u \in Below(before) PROVE FALSE
        BY <3>2
      <4>1. before = 0
        BY <3>2 DEF Archive
      <4>2. PICK x : Occurs(x, LoadRecords) /\ x.height < before
        BY <3>4 DEF Shows
      <4>3. x.height \in Nat
        BY <1>0, <4>2, LoadRecordsType, LineInSeq DEF LogInv, Occurs
      <4> QED BY <4>1, <4>2, <4>3
    <3> QED BY <3>2, <3>4, <3>5, <3>6
  <2>2. CASE page \in PageRec /\ Exact /\ SnapshotIndex
    <3>1. /\ SamePage(page, page') /\ page'.step = "scan" /\ page'.gens = GensOf(idx, 1 .. page.level)
          /\ page.step = "index" /\ writer = "idle"
      BY <2>2, SnapshotIs DEF SnapshotIndex
    <3>2. page.level = Archive /\ page'.before = page.before /\ page'.owed = page.owed
      BY <3>1 DEF SamePage
    <3>3. phase # "down" /\ Lossless
      BY <2>2, <3>1 DEF PageShape, NoPage, Exact
    <3>4. /\ GenLines(Active) = active /\ GenLines(Archive) = Lines(zst)
          /\ \A x : Occurs(x, LoadRecords) <=> Occurs(x, Lines(zst)) \/ Occurs(x, active)
      BY <3>1, <3>3, LosslessDisk
    <3>5. \A t : HasTier(idx, t) /\ t \in {Active, Archive} => HasTier(page'.gens, t)
      <4>1. idx \in Seq(Gen)
        BY DEF IdxInv
      <4> DEFINE tiers == 1 .. page.level
      <4>2. \A t : HasTier(GensOf(idx, tiers), t) <=> HasTier(idx, t) /\ t \in tiers
        BY <4>1, GensOfTiers
      <4>3. Active \in tiers /\ Archive \in tiers /\ page'.gens = GensOf(idx, tiers)
        BY <3>1, <3>2 DEF Active, Archive
      <4> HIDE DEF tiers
      <4> QED BY <4>2, <4>3
    <3>6. ASSUME NEW u \in page'.owed
          PROVE  \E t : HasTier(page.gens, t)' /\ Shows(GenLines(t), u, page.before)'
      <4>1. PICK x : Occurs(x, LoadRecords) /\ Chained(x) /\ x.uid = u /\ x.height < page.before
        BY <2>2, <3>1, <3>2, <3>6 DEF OwedInv, Shows
      <4>2. \E t \in {Active, Archive} : HasTier(idx, t) /\ Occurs(x, GenLines(t))
        <5>1. CASE Occurs(x, Lines(zst))
          <6>1. Lines(zst) # <<>>
            BY <5>1 DEF Occurs
          <6>2. HasTier(idx, Archive)
            BY <3>1, <3>3, <6>1 DEF IdxInv
          <6> QED BY <3>4, <5>1, <6>2
        <5>2. CASE Occurs(x, active)
          <6>1. HasTier(idx, Active)
            BY <3>3, <4>1, <5>2 DEF IdxInv, Occurs
          <6> QED BY <3>4, <5>2, <6>1
        <5> QED BY <3>4, <4>1, <5>1, <5>2
      <4>3. PICK t \in {Active, Archive} : HasTier(page'.gens, t) /\ Occurs(x, GenLines(t))
        BY <3>5, <4>2
      <4>4. GenLines(t)' = GenLines(t)
        BY <2>0, GenLinesKept
      <4>5. Shows(GenLines(t), u, page.before)'
        BY <3>2, <4>1, <4>3, <4>4 DEF Shows, Occurs, Chained
      <4>6. HasTier(page.gens, t)'
        BY <4>3 DEF HasTier
      <4> QED BY <4>5, <4>6
    <3>7. OwedScan'
      BY <3>6 DEF OwedScan
    <3> QED BY <3>1, <3>7
  <2>3. CASE page \in PageRec /\ Exact /\ ScanFile
    <3>1. page'.step = "scan" /\ SamePage(page, page')
      BY <1>0, <2>3, ScanIs
    <3>2. page.level = Archive
      BY <3>1 DEF SamePage
    <3>3. Len(page'.lines) < page'.limit => OwedScan'
      BY <2>0, <2>3, <3>2, ScanOwed
    <3> QED BY <3>1, <3>3
  <2>4. CASE page \in PageRec /\ Exact /\ MergeTemps
    <3>1. /\ SamePage(page, page') /\ page.step = "scan" /\ page'.step = "ram" /\ page.gens = <<>>
          /\ page'.lines = LastLines(page.lines, page.limit)
      BY <2>4, ExactIsFresh, MergeKeeps
    <3>2. /\ page.lines \in Seq(Line) /\ page.limit \in Nat \ {0} /\ page.level = Archive
          /\ page'.before = page.before /\ page'.owed = page.owed /\ page'.limit = page.limit
      BY <2>4, <3>1, PageFields DEF SamePage
    <3> SUFFICES ASSUME Len(page'.lines) < page.limit
                 PROVE  \A u \in page'.owed :
                          Shows(history, u, page.before)' \/ Shows(page.lines, u, page.before)'
      BY <3>1, <3>2
    <3>3. page'.lines = page.lines
      BY <3>1, <3>2, ShortWindow
    <3>4. OwedScan
      BY <2>4, <3>1, <3>2, <3>3 DEF OwedInv
    <3>5. ~\E t : HasTier(page.gens, t)
      BY <3>1 DEF HasTier
    <3>6. \A u : Shows(history, u, page.before) => Shows(history, u, page.before)'
      BY <2>0, <3>2 DEF Shows, Occurs, Chained
    <3>7. \A u : Shows(page.lines, u, page.before) => Shows(page.lines, u, page.before)'
      BY <3>2, <3>3 DEF Shows, Occurs, Chained
    <3> QED BY <3>2, <3>4, <3>5, <3>6, <3>7 DEF OwedScan
  <2> QED BY <1>0, <1>4, <2>1, <2>2, <2>3, <2>4, ExactSteps
<1> QED BY <1>2, <1>3, <1>4 DEF SegNext

-----------------------------------------------------------------------------
(* The complete page.                                                      *)

(* Messages that rise and skip no height between two of them are           *)
(* consecutive.                                                            *)
LEMMA NoHole ==
  ASSUME NEW s \in Seq(Line), Rising(s),
         \A x, y, h : Occurs(x, s) /\ Occurs(y, s) /\ Chained(x) /\ Chained(y)
                        /\ h \in x.height + 1 .. y.height - 1 => Has(s, h)
  PROVE  Consecutive(s)
<1> SUFFICES ASSUME NEW i \in Said(s), NEW j \in Said(s), i < j, \A k \in i + 1 .. j - 1 : k \notin Said(s)
             PROVE  s[j].height = s[i].height + 1
  BY DEF Consecutive
<1>1. i \in DOMAIN s /\ j \in DOMAIN s /\ Chained(s[i]) /\ Chained(s[j]) /\ i \in Nat /\ j \in Nat
  BY DEF Said
<1>2. s[i].height \in Nat /\ s[j].height \in Nat
  BY <1>1, LineInSeq
<1>3. s[i].height < s[j].height
  BY <1>1 DEF Rising
<1> SUFFICES ASSUME s[j].height # s[i].height + 1 PROVE FALSE
  OBVIOUS
<1> DEFINE h == s[i].height + 1
<1>4. h \in s[i].height + 1 .. s[j].height - 1 /\ h \in Nat /\ h # 0 /\ s[i].height < h /\ h < s[j].height
  BY <1>2, <1>3
<1>5. Occurs(s[i], s) /\ Occurs(s[j], s)
  BY <1>1 DEF Occurs
<1> HIDE DEF h
<1>6. Has(s, h)
  BY <1>1, <1>4, <1>5
<1>7. PICK k \in DOMAIN s : s[k].height = h
  BY <1>6 DEF Has, Occurs
<1>8. k \in Said(s) /\ k \in Nat
  BY <1>4, <1>7 DEF Said, Chained
<1>9. ~(k < i) /\ ~(j < k) /\ k # i /\ k # j
  BY <1>2, <1>4, <1>7, <1>8 DEF Rising
<1>10. k \in i + 1 .. j - 1
  BY <1>1, <1>8, <1>9
<1> QED BY <1>8, <1>10

(* What the window adds leaves no hole below the cursor. *)
LEMMA FedClosed ==
  ASSUME RefInv, OldInv, WinInv, RisesInv, SilentInv, IssuedInv, PageShape, page \in PageRec,
         CursorInv, CollectInv, DiskInv, ClosedInv, Exact, page.step = "ram"
  PROVE  LET all == page.lines \o Until(history, 0, page.before) IN
         /\ page.before # 0 =>
              \A x, h : Occurs(x, all) /\ Chained(x) /\ h \in x.height + 1 .. page.before - 1 => Has(all, h)
         /\ \A x, y, h : Occurs(x, all) /\ Occurs(y, all) /\ Chained(x) /\ Chained(y)
                           /\ h \in x.height + 1 .. y.height - 1 => Has(all, h)
<1> DEFINE u == Until(history, 0, page.before)
           all == page.lines \o u
<1>0. LogInv /\ Fresh /\ Lossless /\ phase # "down" /\ page.before \in Nat /\ page.bound \in Nat
  BY ExactIsFresh, PageFields DEF RefInv, Exact, PageShape, NoPage
<1>1. /\ all \in Seq(Line)
      /\ \A x : Occurs(x, all) <=> Occurs(x, page.lines) \/ Occurs(x, u)
      /\ page.before # 0 => \A x : Occurs(x, all) => x.height < page.before
  BY <1>0, FedPage
<1>2. /\ \A x : Occurs(x, u) => Occurs(x, history)
      /\ page.before # 0 => \A x : Occurs(x, history) /\ Chained(x) /\ x.height < page.before => Occurs(x, u)
      /\ page.before = 0 => u = history
  BY <1>0, FedWindow
<1> HIDE DEF u, all
<1>3. \A x : Occurs(x, all) => x.height \in Nat
  BY <1>1, LineInSeq DEF Occurs
<1>4. ASSUME page.before # 0, NEW x, NEW h, Occurs(x, all), Chained(x), h \in x.height + 1 .. page.before - 1
      PROVE  Has(all, h)
  <2>1. x.height \in Nat /\ h \in Nat /\ h # 0 /\ x.height < h /\ h < page.before
    BY <1>0, <1>3, <1>4
  <2>2. page.bound <= page.before /\ \A y : Occurs(y, history) /\ Chained(y) /\ y.height < page.before => y.height >= page.bound
    BY <1>0, <1>4 DEF CursorInv
  <2>3. CASE h >= page.bound
    <3>1. h \in page.bound .. page.before - 1
      BY <1>0, <2>1, <2>3
    <3>2. PICK z : Occurs(z, history) /\ z.height = h
      BY <1>4, <3>1 DEF DiskInv, Has
    <3>3. Chained(z)
      BY <2>1, <3>2 DEF Chained
    <3>4. Occurs(z, all)
      BY <1>1, <1>2, <1>4, <2>1, <3>2, <3>3
    <3> QED BY <3>2, <3>4 DEF Has
  <2>4. CASE ~(h >= page.bound)
    <3>1. ~Occurs(x, u)
      <4> SUFFICES ASSUME Occurs(x, u) PROVE FALSE
        OBVIOUS
      <4>1. x.height >= page.bound
        BY <1>1, <1>2, <1>4, <2>2
      <4> QED BY <1>0, <2>1, <2>4, <4>1
    <3>2. Occurs(x, page.lines)
      BY <1>1, <1>4, <3>1
    <3>3. h \in x.height + 1 .. page.bound - 1
      BY <1>0, <2>1, <2>4
    <3>4. Has(page.lines, h)
      BY <1>4, <3>2, <3>3 DEF ClosedInv
    <3> QED BY <1>1, <3>4 DEF Has
  <2> QED BY <2>3, <2>4
<1>5. ASSUME NEW x, NEW y, NEW h, Occurs(x, all), Occurs(y, all), Chained(x), Chained(y),
             h \in x.height + 1 .. y.height - 1
      PROVE  Has(all, h)
  <2>1. x.height \in Nat /\ y.height \in Nat
    BY <1>3, <1>5
  <2>2. h \in Nat /\ h # 0 /\ x.height < h /\ h < y.height
    BY <1>5, <2>1
  <2>3. CASE page.before # 0
    <3>1. y.height < page.before
      BY <1>1, <1>5, <2>3
    <3>2. h \in x.height + 1 .. page.before - 1
      BY <1>0, <2>1, <2>2, <3>1
    <3> QED BY <1>4, <1>5, <2>3, <3>2
  <2>4. CASE page.before = 0
    <3>1. page.lines = <<>> /\ u = history
      BY <1>0, <1>2, <2>4 DEF CursorInv
    <3>2. \A z : Occurs(z, all) <=> Occurs(z, history)
      <4>1. \A z : ~Occurs(z, page.lines)
        BY <3>1 DEF Occurs
      <4> QED BY <1>1, <3>1, <4>1
    <3>3. /\ issued \in Seq(Line) /\ history \in Seq(Line) /\ IsEndOf(history, issued)
          /\ \A z : Occurs(z, history) => Occurs(z, issued)
      BY <1>0, WindowIssued
    <3>4. h \in 1 .. y.height
      BY <2>1, <2>2
    <3>5. Rising(issued) /\ Has(issued, h)
      BY <1>0, <1>5, <3>2, <3>3, <3>4 DEF IssuedInv
    <3>6. PICK z : Occurs(z, issued) /\ z.height = h
      BY <3>5 DEF Has
    <3>7. Chained(z)
      BY <2>2, <3>6 DEF Chained
    <3>8. Occurs(z, history)
      BY <1>5, <2>2, <3>2, <3>3, <3>5, <3>6, <3>7, EndKeeps
    <3> QED BY <3>2, <3>6, <3>8 DEF Has
  <2> QED BY <2>3, <2>4
<1> QED BY <1>4, <1>5 DEF all, u

(* The end of such lines has no hole either. *)
LEMMA EndClosed ==
  ASSUME NEW s \in Seq(Line), NEW t \in Seq(Line), IsEndOf(t, s), Rising(s), NEW x, NEW h,
         Occurs(x, t), Chained(x), x.height < h, h # 0, Has(s, h)
  PROVE  \E z : Occurs(z, t) /\ Chained(z) /\ z.height = h
<1>1. PICK z : Occurs(z, s) /\ z.height = h
  BY DEF Has
<1>2. Chained(z)
  BY <1>1 DEF Chained
<1>3. Occurs(z, t)
  BY <1>1, <1>2, EndKeeps
<1> QED BY <1>1, <1>2, <1>3

LEMMA ExactStep ==
  ASSUME RefInv, IdxInv, OldInv, WinInv, RisesInv, SilentInv, IssuedInv, PageShape,
         CursorInv, CollectInv, DiskInv, ClosedInv, OwedInv, PageIsExact, [SegNext]_allVars
  PROVE  PageIsExact'
<1>0. LogInv /\ history \in Seq(Line)
  BY DEF RefInv, LogInv, TypeOK
<1> SUFFICES ASSUME page'.step = "done", page'.excuses = {}, Lossless'
             PROVE  /\ Consecutive(page'.lines)
                    /\ page'.before \in 1 .. page'.top =>
                         \A i \in DOMAIN page'.lines :
                           NewestChained(page'.lines, i) => page'.lines[i].height = page'.before - 1
                    /\ page'.level = Archive /\ Len(page'.lines) < page'.limit =>
                         page'.owed \subseteq {page'.lines[i].uid : i \in Said(page'.lines)}
  BY DEF PageIsExact, Consecutive, NewestChained, Said, Chained, Archive
<1>1. page' # NoPage
  BY DEF NoPage
<1>2. Lossless
  BY SegStepIsStep, StillLossless
<1>3. CASE page' = page
  BY <1>2, <1>3 DEF PageIsExact
<1>4. CASE UNCHANGED allVars
  BY <1>3, <1>4 DEF allVars, segVars
<1>5. CASE LogStep
  <2>1. page'.step = page.step /\ (~Collecting => page' = page)
    BY <1>0, <1>1, <1>5, PageUnderLog
  <2>2. page' = page
    BY <2>1 DEF Collecting
  <2> QED BY <1>3, <2>2
<1>6. CASE PageStep
  <2>1. ASSUME NEW before \in 0 .. Resumed.height, NEW limit \in Limits, NEW level \in Levels,
               AskSegment(before, limit, level)
        PROVE  FALSE
    BY <1>0, <2>1, AskIs
  <2>2. ~SendReplay
    BY <1>1 DEF SendReplay
  <2>3. SnapshotIndex \/ ScanFile \/ MergeTemps \/ FeedRam => page \in PageRec
    BY DEF SnapshotIndex, ScanFile, MergeTemps, FeedRam, PageShape, NoPage
  <2>4. ~SnapshotIndex /\ ~ScanFile
    BY <1>0, <2>3, SnapshotIs, ScanIs
  <2>5. ~MergeTemps
    <3> SUFFICES ASSUME MergeTemps PROVE FALSE
      OBVIOUS
    <3>1. page \in PageRec /\ page.step = "scan" /\ page'.excuses = page.excuses
      BY <2>3, MergeIs
    <3>2. Fresh
      BY <1>2, <3>1 DEF Fresh, Collecting, Lossless
    <3> QED BY <3>1, <3>2, MergeKeeps
  <2>6. CASE FeedRam
    <3> DEFINE u == Until(history, 0, page.before)
               all == page.lines \o u
               t == LastLines(all, page.limit)
    <3>1. /\ page \in PageRec /\ SamePage(page, page') /\ page.step = "ram"
          /\ page'.lines = t /\ page'.excuses = page.excuses
      BY <1>0, <2>3, <2>6, FeedIs
    <3>2. Exact /\ Fresh
      BY <1>2, <3>1, ExactIsFresh DEF Exact, Collecting
    <3>3. /\ all \in Seq(Line) /\ Rising(all)
          /\ \A x : Occurs(x, all) <=> Occurs(x, page.lines) \/ Occurs(x, u)
          /\ page.before # 0 => \A x : Occurs(x, all) => x.height < page.before
      BY <1>0, <3>1, <3>2, FedPage
    <3>4. page.before # 0 => \A x : Occurs(x, history) /\ Chained(x) /\ x.height < page.before => Occurs(x, u)
      BY <1>0, <3>1, <3>2, FedWindow
    <3>5. /\ page.before # 0 =>
               \A x, h : Occurs(x, all) /\ Chained(x) /\ h \in x.height + 1 .. page.before - 1 => Has(all, h)
          /\ \A x, y, h : Occurs(x, all) /\ Occurs(y, all) /\ Chained(x) /\ Chained(y)
                            /\ h \in x.height + 1 .. y.height - 1 => Has(all, h)
      BY <3>1, <3>2, FedClosed
    <3>6. /\ page.limit \in Nat \ {0} /\ page.before \in Nat /\ page.top \in Nat /\ page.lines \in Seq(Line)
          /\ page'.before = page.before /\ page'.top = page.top /\ page'.limit = page.limit
          /\ page'.level = page.level /\ page'.owed = page.owed
      BY <3>1, PageFields DEF SamePage
    <3>7. u \in Seq(Line)
      BY <1>0, UntilType
    <3>8. Len(all) = Len(page.lines) + Len(u)
      BY <3>6, <3>7, ConcatLines
    <3> HIDE DEF u, all
    <3>9. t \in Seq(Line) /\ IsEndOf(t, all) /\ Rising(t)
      BY <3>3, <3>6, WindowIsEnd, RisingWindow
    <3>10. Len(t) < page.limit => t = all
      BY <3>3, <3>6, ShortWindow
    <3> HIDE DEF t
    <3>11. \A x : Occurs(x, t) => Occurs(x, all) /\ x.height \in Nat
      <4>1. \A x : Occurs(x, t) => Occurs(x, all)
        BY <3>3, <3>9, EndKeeps
      <4>2. \A x : Occurs(x, t) => x.height \in Nat
        BY <3>9, LineInSeq DEF Occurs
      <4> QED BY <4>1, <4>2
    <3>12. Consecutive(t)
      <4>1. ASSUME NEW x, NEW y, NEW h, Occurs(x, t), Occurs(y, t), Chained(x), Chained(y),
                   h \in x.height + 1 .. y.height - 1
            PROVE  Has(t, h)
        <5>1. Has(all, h)
          BY <3>5, <3>11, <4>1
        <5>2. x.height \in Nat /\ y.height \in Nat
          BY <3>11, <4>1
        <5>3. x.height < h /\ h # 0
          BY <4>1, <5>2
        <5>4. \E z : Occurs(z, t) /\ Chained(z) /\ z.height = h
          BY <3>3, <3>9, <4>1, <5>1, <5>3, EndClosed
        <5> QED BY <5>4 DEF Has
      <4> QED BY <3>9, <4>1, NoHole
    <3>13. ASSUME page.before # 0, NEW i \in DOMAIN t, NewestChained(t, i)
           PROVE  t[i].height = page.before - 1
      <4>1. Occurs(t[i], t) /\ Chained(t[i]) /\ i \in Nat
        BY <3>9, <3>13 DEF Occurs, NewestChained
      <4>2. t[i].height \in Nat /\ t[i].height < page.before /\ Occurs(t[i], all)
        BY <3>3, <3>11, <3>13, <4>1
      <4> SUFFICES ASSUME t[i].height # page.before - 1 PROVE FALSE
        OBVIOUS
      <4> DEFINE h == page.before - 1
      <4>3. h \in t[i].height + 1 .. page.before - 1 /\ t[i].height < h /\ h # 0 /\ h \in Nat
        BY <3>6, <3>13, <4>2
      <4> HIDE DEF h
      <4>4. Has(all, h)
        BY <3>5, <3>13, <4>1, <4>2, <4>3
      <4>5. PICK z : Occurs(z, t) /\ Chained(z) /\ z.height = h
        BY <3>3, <3>9, <4>1, <4>3, <4>4, EndClosed
      <4>6. PICK k \in DOMAIN t : t[k] = z
        BY <4>5 DEF Occurs
      <4>7. k \in Nat /\ k \in Said(t) /\ i \in Said(t)
        BY <3>9, <3>13, <4>1, <4>5, <4>6 DEF Said
      <4>8. ~(k < i) /\ k # i
        BY <3>9, <4>2, <4>3, <4>5, <4>6, <4>7 DEF Rising
      <4>9. k > i
        BY <4>1, <4>7, <4>8
      <4> QED BY <3>13, <4>5, <4>6, <4>9 DEF NewestChained
    <3>14. ASSUME page.level = Archive, Len(t) < page.limit, NEW w \in page.owed
           PROVE  w \in {t[i].uid : i \in Said(t)}
      <4>1. t = all
        BY <3>10, <3>14
      <4>2. Len(page.lines) < page.limit
        <5>1. Len(page.lines) \in Nat /\ Len(u) \in Nat
          BY <3>6, <3>7
        <5> QED BY <3>6, <3>8, <3>14, <4>1, <5>1
      <4>3. Shows(history, w, page.before) \/ Shows(page.lines, w, page.before)
        BY <3>1, <3>2, <3>14, <4>2 DEF OwedInv
      <4>4. \E x : Occurs(x, all) /\ Chained(x) /\ x.uid = w
        <5>1. CASE Shows(page.lines, w, page.before)
          BY <3>3, <5>1 DEF Shows
        <5>2. CASE Shows(history, w, page.before)
          <6>1. PICK x : Occurs(x, history) /\ Chained(x) /\ x.uid = w /\ x.height < page.before
            BY <5>2 DEF Shows
          <6>2. x.height \in Nat
            BY <1>0, <6>1, LineInSeq DEF Occurs
          <6>3. page.before # 0
            BY <6>1, <6>2
          <6> QED BY <3>3, <3>4, <6>1, <6>3
        <5> QED BY <4>3, <5>1, <5>2
      <4> QED BY <4>1, <4>4 DEF Occurs, Said
    <3>15. page.before \in 1 .. page.top => page.before # 0
      BY <3>6
    <3> QED BY <3>1, <3>6, <3>12, <3>13, <3>14, <3>15
  <2> QED BY <1>6, <2>1, <2>2, <2>4, <2>5, <2>6 DEF PageStep
<1> QED BY <1>4, <1>5, <1>6 DEF SegNext

-----------------------------------------------------------------------------
(* The two inductive invariants of the pages: the first without any        *)
(* assumption, the second on top of it where no record was lost.           *)
RunInv ==
  /\ IdxInv /\ OldInv /\ WinInv /\ BornInv /\ RisesInv /\ SampleInv
  /\ PageShape /\ CursorInv /\ CollectInv /\ PageRises

(* ... where no record was lost.                                           *)
ExactInv == SilentInv /\ IssuedInv /\ DiskInv /\ ClosedInv /\ OwedInv /\ PageIsExact

LEMMA RunInit == ASSUME SegInit PROVE RunInv
<1>1. /\ phase = "up" /\ ready = FALSE /\ height = 0 /\ seq = 0 /\ history = <<>> /\ queue = <<>>
      /\ writer = "idle" /\ active = <<>> /\ old = NoFile /\ zst = NoFile /\ issued = <<>>
      /\ idx = <<>> /\ page = NoPage
  BY DEF SegInit, Init
<1>2. page.step = "none"
  BY <1>1 DEF NoPage
<1>3. Lines(zst) = <<>>
  BY <1>1 DEF Lines
<1>4. ~\E x : Alive(x)
  BY <1>1 DEF Alive, Held, Occurs
<1>5. IdxInv
  BY <1>1, <1>3 DEF IdxInv, Downward
<1>6. OldInv /\ WinInv
  BY <1>1 DEF OldInv, WinInv, InSeqOrder, AtMost
<1>7. BornInv /\ RisesInv
  BY <1>4 DEF BornInv, RisesInv
<1>8. SampleInv
  BY <1>1 DEF SampleInv, SamplesGood, SampleOf
<1>9. PageShape
  BY <1>1 DEF PageShape
<1>10. CursorInv /\ CollectInv /\ PageRises
  BY <1>2 DEF CursorInv, CollectInv, PageRises, Fresh, Collecting
<1> QED BY <1>5, <1>6, <1>7, <1>8, <1>9, <1>10 DEF RunInv

LEMMA RunStep ==
  ASSUME RefInv, RefInv', RunInv, [SegNext]_allVars PROVE RunInv'
<1>1. LogInv /\ LogInv'
  BY DEF RefInv
<1>2. /\ IdxInv /\ OldInv /\ WinInv /\ BornInv /\ RisesInv /\ SampleInv
      /\ PageShape /\ CursorInv /\ CollectInv /\ PageRises
  BY DEF RunInv
<1>3. IdxInv' /\ OldInv' /\ WinInv' /\ BornInv'
  BY <1>1, <1>2, IdxStep, OldStep, WinStep, BornStep
<1>4. RisesInv' /\ SampleInv'
  BY <1>2, RisesStep, SampleStep
<1>5. PageShape' /\ CursorInv' /\ CollectInv'
  BY <1>1, <1>2, PageShapeStep, CursorStep, CollectStep
<1>6. PageRises'
  BY <1>1, <1>2, PageRisesStep
<1> QED BY <1>3, <1>4, <1>5, <1>6 DEF RunInv

LEMMA ExactInit == ASSUME SegInit, SilentInv PROVE ExactInv
<1>1. ready = FALSE /\ issued = <<>> /\ page.step = "none"
  BY DEF SegInit, Init, NoPage
<1>2. ~Collecting /\ ~Exact
  BY <1>1 DEF Collecting, Exact
<1>3. IssuedInv
  BY <1>1 DEF IssuedInv, Rising, Said, Occurs
<1>4. DiskInv /\ ClosedInv /\ OwedInv /\ PageIsExact
  BY <1>1, <1>2 DEF DiskInv, ClosedInv, OwedInv, PageIsExact
<1> QED BY <1>3, <1>4 DEF ExactInv

LEMMA ExactInvStep ==
  ASSUME RefInv, RefInv', RunInv, ExactInv, SilentInv', [SegNext]_allVars
  PROVE  ExactInv'
<1>1. /\ IdxInv /\ OldInv /\ WinInv /\ BornInv /\ RisesInv
      /\ PageShape /\ CursorInv /\ CollectInv
  BY DEF RunInv
<1>2. SilentInv /\ IssuedInv /\ DiskInv /\ ClosedInv /\ OwedInv /\ PageIsExact
  BY DEF ExactInv
<1>3. IssuedInv'
  BY <1>2, IssuedStep
<1>4. DiskInv'
  BY <1>1, <1>2, <1>3, DiskStep
<1>5. ClosedInv' /\ OwedInv' /\ PageIsExact'
  BY <1>1, <1>2, ClosedStep, OwedStep, ExactStep
<1> QED BY <1>3, <1>4, <1>5 DEF ExactInv

(* collectSegment: a page's messages rise towards its cursor, however the  *)
(* log was written, rotated, killed and started before, unless a rotation  *)
(* runs while the page is being read.                                      *)
THEOREM PagesAlwaysRise == SegSpec => []PageRises
<1>1. SegInit => Init
  BY DEF SegInit
<1>2. [SegNext]_allVars => [Next]_vars
  BY SegStepIsStep
<1>3. SegInit => RunInv
  BY RunInit
<1>4. RefInv /\ RefInv' /\ RunInv /\ [SegNext]_allVars => RunInv'
  BY RunStep
<1>5. RunInv => PageRises
  BY DEF RunInv
<1> QED BY <1>1, <1>2, <1>3, <1>4, <1>5, RefInvariant, PTL DEF SegSpec, Spec

(* collectSegment, "chained content stays exact": a page read from disk    *)
(* and window is one run of the chain: it rises, and with no record lost   *)
(* and nothing evicted or rotated under it, it has no hole, ends right     *)
(* below its cursor and is short only when nothing older is stored.  As    *)
(* for RestartAlwaysSilent, a file holds at least a window.                *)
THEOREM PagesAlwaysRuns ==
  ASSUME MaxHistoryLines <= FileCap PROVE SegSpec => []PagesAreRuns
<1>1. SegInit => Init
  BY DEF SegInit
<1>2. [SegNext]_allVars => [Next]_vars
  BY SegStepIsStep
<1>3. SegInit => RunInv
  BY RunInit
<1>4. RefInv /\ RefInv' /\ RunInv /\ [SegNext]_allVars => RunInv'
  BY RunStep
<1>5. RefInv /\ RefInv' /\ SilentInv /\ [Next]_vars => SilentInv'
  BY SilentStep
<1>6. SegInit => ExactInv
  BY <1>1, SilentInit, ExactInit
<1>7. RefInv /\ RefInv' /\ RunInv /\ ExactInv /\ SilentInv' /\ [SegNext]_allVars => ExactInv'
  BY ExactInvStep
<1>8. ExactInv => SilentInv
  BY DEF ExactInv
<1>9. RunInv /\ ExactInv => PagesAreRuns
  BY DEF RunInv, ExactInv, PagesAreRuns
<1> QED BY <1>1, <1>2, <1>3, <1>4, <1>5, <1>6, <1>7, <1>8, <1>9, RefInvariant, PTL DEF SegSpec, Spec
=============================================================================
