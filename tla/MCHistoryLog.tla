---------------------------- MODULE MCHistoryLog ----------------------------
(* HistoryLog, and Segments above it, for TLC.  Idle is the one state in   *)
(* which the bounds, and not the code, leave nothing to do; every other    *)
(* stuck state is a deadlock.                                              *)
EXTENDS Segments

CONSTANTS
  MaxMeanwhile, \* bound: steps of the log while a page is put together
  PageStops     \* bound: restarts before a page

VARIABLE meanwhile  \* steps of the log since the page was asked for

(* The default limits keep far more lines on disk than in RAM. *)
ASSUME WindowFitsDisk == MaxHistoryLines <= FileCap

(* A page whose files are read goes on to its next step, and one that is   *)
(* complete leaves: nothing the log does makes a difference to either.     *)
Ready == page.step = "done" \/ (page.step = "scan" /\ page.gens = <<>>)

(* Where a page is still to come there are fewer restarts, and a line less *)
(* after one; it is asked for while nothing is queued.                     *)
Paging == pages < MaxPages \/ page # NoPage

WithinPageBounds ==
  /\ pages < MaxPages => stops' <= PageStops /\ (phase' = "closing" => stops < PageStops)
  /\ Paging /\ issued' # issued => Len(issued') + stops <= MaxLines

MCPage ==
  /\ page = NoPage => queue = <<>>
  /\ PageStep
  /\ meanwhile' = IF page' = NoPage THEN 0 ELSE meanwhile

(* A rotation that has begun goes on at no cost. *)
MCLog ==
  /\ ~Ready
  /\ LogStep
  /\ WithinPageBounds
  /\ IF Collecting /\ page' # NoPage
     THEN /\ meanwhile < MaxMeanwhile \/ writer # "idle"
          /\ meanwhile' = IF writer = "idle" THEN meanwhile + 1 ELSE meanwhile
     ELSE meanwhile' = 0

Idle ==
  /\ phase = "up" /\ writer = "idle" /\ queue = <<>> /\ page = NoPage
  /\ Len(issued) = MaxLines /\ stops = MaxStops
  /\ UNCHANGED <<allVars, meanwhile>>

(* Behaviours with a page to come, and, with more restarts, without one. *)
MCInit ==
  /\ Init /\ idx = <<>> /\ page = NoPage /\ meanwhile = 0
  /\ pages \in {0, MaxPages}

MCSpec == MCInit /\ [][MCPage \/ MCLog \/ Idle]_<<allVars, meanwhile>>
MCFairSpec == MCSpec /\ WF_vars(WriterStep)
=============================================================================
