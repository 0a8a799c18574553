--------------------------- MODULE SessionProofs ---------------------------
(***************************************************************************)
(* Proofs about a connected session, on both sides of it.  PowScreen, for  *)
(* any connections, addresses, ids, deadlines and scheduler delay:         *)
(* ScreenInv is inductive and the properties follow from it.  ClientSync,  *)
(* for any log, page sizes, retries, refill budget and number of faults:   *)
(* SyncInv is inductive; it says what every gap window rests on (Anchored) *)
(* and that an open one has a timer (Timed), which the properties alone do *)
(* not carry from one step to the next.                                    *)
(***************************************************************************)
EXTENDS PowScreen, ClientSync, FiniteSetTheorems, WellFoundedInduction, TLAPS

Challenge == [id : Ids, left : Floor .. ScreenDeadline]

LEMMA FloorInt ==
  /\ MaxLag \in Nat /\ Floor \in Int /\ Floor = -(2 * MaxLag + 1)
  /\ ScreenDeadline \in Nat \ {0} /\ RecheckMax \in Nat
  /\ None \notin Conns /\ None \notin Challenge
BY PowScreenAssumption DEF Floor, Challenge

(* What Erase leaves on the books. *)
LEMMA EraseBooks ==
  ASSUME ScreenInv, NEW S \in SUBSET Conns, Erase(S)
  PROVE  /\ screens' \in [Conns -> Challenge \cup {None}]
         /\ byID' \in [Ids -> Conns \cup {None}]
         /\ \A c \in Conns : c \in S => screens'[c] = None
         /\ \A c \in Conns : c \notin S => screens'[c] = screens[c]
         /\ \A c \in Conns, i \in Ids :
              byID'[i] = c <=> (screens'[c] # None /\ screens'[c].id = i)
<1>1. screens \in [Conns -> Challenge \cup {None}] /\ byID \in [Ids -> Conns \cup {None}]
  BY DEF ScreenInv, TypeOK, Challenge
<1>2. screens' \in [Conns -> Challenge \cup {None}] /\ byID' \in [Ids -> Conns \cup {None}]
  BY <1>1 DEF Erase
<1>3. /\ \A c \in Conns : c \in S => screens'[c] = None
      /\ \A c \in Conns : c \notin S => screens'[c] = screens[c]
  BY <1>1 DEF Erase
<1>4. ASSUME NEW c \in Conns, NEW i \in Ids
      PROVE  byID'[i] = c <=> (screens'[c] # None /\ screens'[c].id = i)
  <2>1. byID[i] = c <=> (screens[c] # None /\ screens[c].id = i)
    BY DEF ScreenInv, BooksAgree, Has
  <2>2. byID'[i] = IF byID[i] \in S THEN None ELSE byID[i]
    BY DEF Erase
  <2> QED BY <1>3, <2>1, <2>2, FloorInt
<1> QED BY <1>2, <1>3, <1>4

(* What Issue leaves on the books. *)
LEMMA IssueBooks ==
  ASSUME ScreenInv, NEW c \in Conns, NEW i \in Ids, ~Has(c), byID[i] = None, Issue(c, i)
  PROVE  /\ screens' \in [Conns -> Challenge \cup {None}]
         /\ byID' \in [Ids -> Conns \cup {None}]
         /\ screens'[c] = [id |-> i, left |-> ScreenDeadline - lag]
         /\ \A d \in Conns : d # c => screens'[d] = screens[d]
         /\ \A d \in Conns, j \in Ids :
              byID'[j] = d <=> (screens'[d] # None /\ screens'[d].id = j)
<1> DEFINE new == [id |-> i, left |-> ScreenDeadline - lag]
<1>1. /\ screens \in [Conns -> Challenge \cup {None}] /\ byID \in [Ids -> Conns \cup {None}]
      /\ lag \in 0 .. MaxLag
  BY DEF ScreenInv, TypeOK, Challenge
<1>2. ScreenDeadline - lag \in Floor .. ScreenDeadline
  BY <1>1, FloorInt
<1>3. new \in Challenge /\ new.id = i /\ new # None
  BY <1>2, FloorInt DEF Challenge
<1>4. screens' = [screens EXCEPT ![c] = new]
  BY DEF Issue
<1>5. /\ screens' \in [Conns -> Challenge \cup {None}]
      /\ screens'[c] = new
      /\ \A d \in Conns : d # c => screens'[d] = screens[d]
  <2> HIDE DEF new
  <2> QED BY <1>1, <1>3, <1>4
<1>6. byID' \in [Ids -> Conns \cup {None}]
  BY <1>1 DEF Issue
<1>7. ASSUME NEW d \in Conns, NEW j \in Ids
      PROVE  byID'[j] = d <=> (screens'[d] # None /\ screens'[d].id = j)
  <2>1. byID[j] = d <=> (screens[d] # None /\ screens[d].id = j)
    BY DEF ScreenInv, BooksAgree, Has
  <2>2. byID'[j] = IF j = i THEN c ELSE IF byID[j] = c THEN None ELSE byID[j]
    BY DEF Issue
  <2>3. byID[j] # c
    BY DEF ScreenInv, BooksAgree
  <2>4. CASE d = c
    <3> HIDE DEF new
    <3> QED BY <1>3, <1>5, <2>2, <2>3, <2>4
  <2>5. CASE d # c
    BY <1>5, <2>1, <2>2, <2>3, <2>5, FloorInt
  <2> QED BY <2>4, <2>5
<1> QED BY <1>5, <1>6, <1>7

LEMMA ScreenInit == Init => ScreenInv
<1> SUFFICES ASSUME Init PROVE ScreenInv
  OBVIOUS
<1>1. TypeOK
  <2>1. lag \in 0 .. MaxLag /\ ticker \in (0 .. MaxLag) \cup {None}
    BY FloorInt DEF Init
  <2>2. /\ at \in [Conns -> {"out", "in", "ending", "gone"}]
        /\ screens \in [Conns -> [id : Ids, left : Floor .. ScreenDeadline] \cup {None}]
        /\ byID \in [Ids -> Conns \cup {None}]
        /\ nextCheck \in [IPs -> (Floor .. RecheckMax) \cup {None}]
        /\ offers \in [Conns -> SUBSET Ids]
    BY DEF Init
  <2> QED BY <2>1, <2>2 DEF Init, TypeOK
<1>2. BooksAgree /\ MuteFollowsChallenge /\ \A c \in Conns : ~Has(c)
  BY FloorInt DEF Init, BooksAgree, MuteFollowsChallenge, Has
<1> QED BY <1>1, <1>2 DEF ScreenInv

(* The parts of TypeOK a step that leaves the books alone must re-establish *)
(* are in the scheduler and timer variables.                               *)
BooksType == screens \in [Conns -> Challenge \cup {None}] /\ byID \in [Ids -> Conns \cup {None}]

RestType ==
  /\ at \in [Conns -> {"out", "in", "ending", "gone"}]
  /\ clients \subseteq Conns /\ muted \subseteq Conns
  /\ nextCheck \in [IPs -> (Floor .. RecheckMax) \cup {None}]
  /\ offers \in [Conns -> SUBSET Ids]
  /\ attack \in BOOLEAN /\ under \in BOOLEAN
  /\ ticker \in (0 .. MaxLag) \cup {None} /\ lag \in 0 .. MaxLag
  /\ sched \in {"idle", "scan", "kick"}
  /\ todo \subseteq Conns /\ snap \subseteq Conns /\ kick \subseteq snap
  /\ sched # "kick" => kick = {}

LEMMA TypeParts == TypeOK <=> BooksType /\ RestType
BY DEF TypeOK, BooksType, RestType, Challenge

Bounded == \A c \in Conns : Has(c) => DeadlineBound(c)

(* A step after which the challenges are among those before it, and the    *)
(* clock and the scheduler where they were, keeps every deadline bound.    *)
LEMMA BoundKept ==
  ASSUME ScreenInv, UNCHANGED <<sched, ticker, lag>>,
         \A c \in Conns : screens'[c] = screens[c] \/ screens'[c] = None
  PROVE  Bounded'
BY DEF ScreenInv, Bounded, Has, DeadlineBound

(* Taking connections off the books keeps the invariant, whatever becomes  *)
(* of their mute.                                                          *)
LEMMA EraseKeeps ==
  ASSUME ScreenInv, NEW S \in SUBSET Conns, Erase(S), muted' \subseteq muted \cup S,
         UNCHANGED <<sched, ticker, lag>>
  PROVE  BooksType' /\ BooksAgree' /\ MuteFollowsChallenge' /\ Bounded'
<1>1. BooksType' /\ BooksAgree'
  BY EraseBooks DEF BooksType, BooksAgree, Has
<1>2. MuteFollowsChallenge'
  <2>1. muted \subseteq Conns /\ \A c \in muted : screens[c] = None
    BY DEF ScreenInv, TypeOK, MuteFollowsChallenge, Has
  <2> QED BY <2>1, EraseBooks DEF MuteFollowsChallenge, Has
<1>3. Bounded'
  BY EraseBooks, BoundKept
<1> QED BY <1>1, <1>2, <1>3

(* A step that leaves the books, the clock and the scheduler's place alone. *)
LEMMA BooksKept ==
  ASSUME ScreenInv, UNCHANGED <<books, sched, ticker, lag>>
  PROVE  BooksType' /\ BooksAgree' /\ MuteFollowsChallenge' /\ Bounded'
<1>1. BooksType' /\ BooksAgree' /\ MuteFollowsChallenge'
  BY TypeParts DEF ScreenInv, BooksType, BooksAgree, MuteFollowsChallenge, Has, books
<1>2. Bounded'
  BY BoundKept DEF books
<1> QED BY <1>1, <1>2

LEMMA ScreenStep == ScreenInv /\ [Next]_vars => ScreenInv'
<1> SUFFICES ASSUME ScreenInv, [Next]_vars PROVE ScreenInv'
  OBVIOUS
<1> USE FloorInt
<1>0. BooksType /\ RestType /\ BooksAgree /\ MuteFollowsChallenge /\ Bounded
  BY TypeParts DEF ScreenInv, Bounded
<1> SUFFICES BooksType' /\ RestType' /\ BooksAgree' /\ MuteFollowsChallenge' /\ Bounded'
  <2>1. TypeOK' <=> BooksType' /\ RestType'
    BY DEF TypeOK, BooksType, RestType, Challenge
  <2> QED BY <2>1 DEF ScreenInv, Bounded
<1>1. CASE BeginTick
  <2>1. BooksType' /\ BooksAgree' /\ MuteFollowsChallenge'
    BY <1>0, <1>1 DEF BeginTick, books, BooksType, BooksAgree, MuteFollowsChallenge, Has
  <2>2. RestType'
    <3>1. under' \in BOOLEAN
      BY <1>0, <1>1, Zenon DEF BeginTick, RestType
    <3> QED BY <1>0, <1>1, <3>1 DEF BeginTick, RestType, books
  <2>3. Bounded'
    BY <1>0, <1>1 DEF BeginTick, books, Bounded, DeadlineBound, Has, BooksType, RestType, Challenge
  <2> QED BY <2>1, <2>2, <2>3
<1>2. CASE CheckDeadline
  <2>1. Overdue \in SUBSET Conns
    BY DEF Overdue
  <2>2. BooksType' /\ BooksAgree'
    BY <1>2, <2>1, EraseBooks DEF CheckDeadline, BooksType, BooksAgree, Has
  <2>3. MuteFollowsChallenge'
    BY <1>0, <1>2, <2>1, EraseBooks DEF CheckDeadline, RestType, MuteFollowsChallenge, Has
  <2>4. RestType'
    BY <1>0, <1>2, <2>1 DEF CheckDeadline, Kicked, RestType, timers
  <2>5. ASSUME NEW c \in Conns, screens'[c] # None PROVE screens'[c].left + lag' >= 1
    <3>1. c \notin Overdue /\ screens'[c] = screens[c]
      BY <1>2, <2>1, <2>5, EraseBooks DEF CheckDeadline
    <3>2. screens[c] \in Challenge /\ lag' = lag /\ lag \in Int
      BY <1>0, <1>2, <2>5, <3>1 DEF BooksType, RestType, CheckDeadline, timers
    <3>3. screens[c].left \in Int /\ ~(screens[c].left + lag <= 0)
      BY <2>5, <3>1, <3>2 DEF Overdue, Has, Challenge
    <3> QED BY <3>1, <3>2, <3>3
  <2>6. Bounded'
    BY <1>2, <2>5 DEF CheckDeadline, Bounded, DeadlineBound, Has
  <2> QED BY <2>2, <2>3, <2>4, <2>6
<1>3. CASE EndTick
  <2>1. BooksType' /\ BooksAgree' /\ MuteFollowsChallenge'
    BY <1>0, <1>3 DEF EndTick, books, BooksType, BooksAgree, MuteFollowsChallenge, Has
  <2>2. RestType'
    <3>1. under' \in BOOLEAN
      BY <1>3, Zenon DEF EndTick
    <3> QED BY <1>0, <1>3, <3>1 DEF EndTick, RestType, books
  <2>3. Bounded'
    BY <1>0, <1>3 DEF EndTick, books, Bounded, DeadlineBound, Has, BooksType, RestType, Challenge
  <2> QED BY <2>1, <2>2, <2>3
<1>4. CASE Elapse
  <2>1. ASSUME NEW c \in Conns
        PROVE  /\ screens[c] = None => screens'[c] = None
               /\ screens[c] # None => screens'[c] = [screens[c] EXCEPT !.left = Sooner(@)]
    BY <1>4, <2>1 DEF Elapse, Has
  <2>2. ASSUME NEW c \in Conns, screens[c] # None
        PROVE  /\ screens[c] \in Challenge /\ screens'[c] \in Challenge
               /\ screens'[c].id = screens[c].id
               /\ screens[c].left > Floor
               /\ screens'[c].left = screens[c].left - 1
    <3>1. screens[c] \in Challenge
      BY <1>0, <2>2 DEF BooksType
    <3>2. screens[c].left > Floor
      BY <1>0, <2>2, <3>1 DEF Bounded, DeadlineBound, Has, RestType, Challenge
    <3>3. screens'[c] = [screens[c] EXCEPT !.left = screens[c].left - 1]
      BY <2>1, <2>2, <3>2 DEF Sooner
    <3> QED BY <3>1, <3>2, <3>3 DEF Challenge
  <2>3. BooksType'
    BY <1>0, <1>4, <2>1, <2>2 DEF BooksType, Elapse
  <2>4. BooksAgree' /\ MuteFollowsChallenge'
    <3>1. UNCHANGED <<byID, muted>> /\ muted \subseteq Conns
      BY <1>0, <1>4 DEF Elapse, RestType
    <3>2. \A c \in Conns : screens'[c] # None <=> screens[c] # None
      BY <2>1, <2>2
    <3>3. BooksAgree'
      BY <1>0, <2>2, <3>1, <3>2 DEF BooksAgree, Has
    <3>4. MuteFollowsChallenge'
      BY <1>0, <3>1, <3>2 DEF MuteFollowsChallenge, Has
    <3> QED BY <3>3, <3>4
  <2>5. RestType'
    BY <1>0, <1>4 DEF RestType, Elapse, tick, Sooner
  <2>6. Bounded'
    <3> SUFFICES ASSUME NEW c \in Conns, screens'[c] # None PROVE DeadlineBound(c)'
      BY DEF Bounded, Has
    <3>1. screens[c] # None /\ DeadlineBound(c)
      BY <1>0, <2>1 DEF Bounded, Has
    <3>2. screens'[c].left = screens[c].left - 1 /\ screens[c].left \in Int
      BY <2>2, <3>1 DEF Challenge
    <3>3. /\ sched' = sched /\ lag \in 0 .. MaxLag
          /\ ticker \in (0 .. MaxLag) \cup {None}
          /\ ticker' = IF ticker = None THEN 0 ELSE ticker + 1
          /\ lag' = IF sched = "idle" THEN lag ELSE lag + 1
      BY <1>0, <1>4 DEF Elapse, tick, RestType
    <3>4. ticker' # None
      BY <3>3, PowScreenAssumption
    <3>5. CASE sched = "idle" /\ ticker = None
      BY <3>1, <3>2, <3>3, <3>4, <3>5 DEF DeadlineBound
    <3>6. CASE sched = "idle" /\ ticker # None
      BY <3>1, <3>2, <3>3, <3>4, <3>6 DEF DeadlineBound
    <3>7. CASE sched # "idle"
      BY <3>1, <3>2, <3>3, <3>4, <3>7 DEF DeadlineBound
    <3> QED BY <3>5, <3>6, <3>7
  <2> QED BY <2>3, <2>4, <2>5, <2>6
<1>5. CASE Attack
  <2>1. RestType'
    <3>1. attack' \in BOOLEAN
      BY <1>5, Zenon DEF Attack
    <3> QED BY <1>0, <1>5, <3>1 DEF Attack, RestType, books, timers, tick
  <2> QED BY <1>5, <2>1, BooksKept DEF Attack, timers, tick
<1>6. ASSUME NEW c \in Conns, Scan(c)
      PROVE  BooksType' /\ RestType' /\ BooksAgree' /\ MuteFollowsChallenge' /\ Bounded'
  <2>1. nextCheck' \in [IPs -> (Floor .. RecheckMax) \cup {None}]
    <3>1. CASE UNCHANGED nextCheck
      BY <1>0, <3>1 DEF RestType
    <3>2. CASE \E r \in RecheckMin .. RecheckMax : Defer(IPOf[c], r - lag)
      <4>1. PICK r \in RecheckMin .. RecheckMax : Defer(IPOf[c], r - lag)
        BY <3>2
      <4>2. r - lag \in Floor .. RecheckMax
        BY <1>0, PowScreenAssumption DEF RestType
      <4> QED BY <1>0, <4>1, <4>2 DEF Defer, RestType
    <3> QED BY <1>6, <3>1, <3>2 DEF Scan
  <2>2. CASE UNCHANGED <<books, offers>>
    <3>1. RestType'
      BY <1>0, <1>6, <2>1, <2>2 DEF Scan, RestType, books, timers
    <3> QED BY <1>6, <2>2, <3>1, BooksKept DEF Scan, timers
  <2>3. CASE ~Has(c) /\ \E i \in FreshIds : Issue(c, i) /\ (UNCHANGED offers \/ offers' = [offers EXCEPT ![c] = @ \cup {i}])
    <3>1. PICK i \in FreshIds : Issue(c, i) /\ (UNCHANGED offers \/ offers' = [offers EXCEPT ![c] = @ \cup {i}])
      BY <2>3
    <3>2. i \in Ids /\ byID[i] = None
      BY DEF FreshIds
    <3>3. BooksType' /\ BooksAgree'
      BY <2>3, <3>1, <3>2, IssueBooks DEF BooksType, BooksAgree, Has
    <3>4. MuteFollowsChallenge'
      <4>1. muted' = muted \ {c}
        BY <3>1 DEF Issue
      <4> QED BY <1>0, <2>3, <3>1, <3>2, <4>1, IssueBooks DEF MuteFollowsChallenge, Has, RestType
    <3>5. RestType'
      BY <1>0, <1>6, <2>1, <3>1, <3>2 DEF Scan, Issue, RestType, timers
    <3>6. Bounded'
      <4> SUFFICES ASSUME NEW d \in Conns, screens'[d] # None PROVE DeadlineBound(d)'
        BY DEF Bounded, Has
      <4>1. CASE d # c
        <5>1. screens'[d] = screens[d]
          <6>1. \A e \in Conns : e # c => screens'[e] = screens[e]
            BY <2>3, <3>1, <3>2, IssueBooks
          <6> QED BY <4>1, <6>1
        <5>2. UNCHANGED <<sched, lag, ticker>>
          BY <1>6 DEF Scan, timers
        <5> QED BY <1>0, <5>1, <5>2 DEF Bounded, Has, DeadlineBound
      <4>2. CASE d = c
        <5>1. screens'[d].left = ScreenDeadline - lag
          <6>1. screens'[c] = [id |-> i, left |-> ScreenDeadline - lag]
            BY <2>3, <3>1, <3>2, IssueBooks
          <6> QED BY <4>2, <6>1
        <5>2. sched' = "scan" /\ lag' = lag /\ lag \in 0 .. MaxLag
          BY <1>0, <1>6 DEF Scan, timers, RestType
        <5> QED BY <5>1, <5>2 DEF DeadlineBound
      <4> QED BY <4>1, <4>2
    <3> QED BY <3>3, <3>4, <3>5, <3>6
  <2> QED BY <1>6, <2>2, <2>3 DEF Scan
<1>7. ASSUME NEW c \in Conns, Kick(c) \/ Connect(c) \/ Chat(c) \/ Disconnect(c)
      PROVE  BooksType' /\ RestType' /\ BooksAgree' /\ MuteFollowsChallenge' /\ Bounded'
  <2>1. UNCHANGED <<books, sched, ticker, lag>>
    BY <1>7 DEF Kick, Connect, Chat, Disconnect, timers, tick
  <2>2. CASE Kick(c)
    BY <1>0, <2>1, <2>2, BooksKept DEF Kick, RestType, books
  <2>3. CASE Connect(c) \/ Disconnect(c)
    <3>1. RestType'
      BY <1>0, <2>3 DEF Connect, Disconnect, RestType, books, timers, tick
    <3> QED BY <2>1, <3>1, BooksKept
  <2>4. CASE Chat(c)
    <3>1. RestType'
      <4>1. 0 \in Floor .. RecheckMax
        OBVIOUS
      <4>2. nextCheck' \in [IPs -> (Floor .. RecheckMax) \cup {None}]
        BY <1>0, <2>4, <4>1 DEF Chat, Defer, RestType
      <4> QED BY <1>0, <2>4, <4>2 DEF Chat, RestType, books, timers, tick
    <3> QED BY <2>1, <3>1, BooksKept
  <2> QED BY <1>7, <2>2, <2>3, <2>4
<1>8. ASSUME NEW c \in Conns, DropConn(c)
      PROVE  BooksType' /\ RestType' /\ BooksAgree' /\ MuteFollowsChallenge' /\ Bounded'
  <2>1. Erase({c}) /\ muted' \subseteq muted \cup {c} /\ UNCHANGED <<sched, ticker, lag>>
    BY <1>8 DEF DropConn, timers, tick
  <2>2. BooksType' /\ BooksAgree' /\ MuteFollowsChallenge' /\ Bounded'
    BY <2>1, EraseKeeps
  <2>3. RestType'
    BY <1>0, <1>8 DEF DropConn, RestType, timers, tick
  <2> QED BY <2>2, <2>3
<1>9. ASSUME NEW c \in Conns, NEW i \in Ids, PowResult(c, i) \/ PowDecline(c, i)
      PROVE  BooksType' /\ RestType' /\ BooksAgree' /\ MuteFollowsChallenge' /\ Bounded'
  <2>1. UNCHANGED <<sched, ticker, lag>>
    BY <1>9 DEF PowResult, PowDecline, timers, tick
  <2>2. CASE UNCHANGED books
    <3>1. RestType'
      BY <1>0, <1>9, <2>2 DEF PowResult, PowDecline, RestType, books, timers, tick
    <3> QED BY <2>1, <2>2, <3>1, BooksKept
  <2>3. CASE byID[i] # None
    <3>1. byID[i] \in Conns
      BY <1>0, <2>3 DEF BooksType
    <3>2. /\ Erase({byID[i]})
          /\ muted' \subseteq muted \cup {byID[i]}
      BY <1>9, <2>3 DEF PowResult, PowDecline, Resolve, Decline
    <3>3. RestType'
      BY <1>0, <1>9, <3>1, <3>2 DEF PowResult, PowDecline, RestType, timers, tick
    <3> QED BY <2>1, <3>1, <3>2, <3>3, EraseKeeps
  <2> QED BY <1>9, <2>2, <2>3 DEF PowResult, PowDecline, Resolve, Decline
<1>10. ASSUME NEW c \in Conns, NEW i \in Ids, LetGo(c, i)
       PROVE  BooksType' /\ RestType' /\ BooksAgree' /\ MuteFollowsChallenge' /\ Bounded'
  <2>1. RestType'
    BY <1>0, <1>10 DEF LetGo, RestType, books, timers, tick
  <2> QED BY <1>10, <2>1, BooksKept DEF LetGo, timers, tick
<1>11. CASE UNCHANGED vars
  <2>1. RestType'
    BY <1>0, <1>11 DEF vars, RestType, books, timers, tick
  <2> QED BY <1>11, <2>1, BooksKept DEF vars, timers, tick
<1> QED BY <1>1, <1>2, <1>3, <1>4, <1>5, <1>6, <1>7, <1>8, <1>9, <1>10, <1>11 DEF Next

(* The screener's variables keep their types: timers stay within their     *)
(* limits and only sessions known to the tick are kicked.                  *)
THEOREM ScreenTypes == Spec => []TypeOK
<1>1. ScreenInv => TypeOK
  BY DEF ScreenInv
<1> QED BY <1>1, ScreenInit, ScreenStep, PTL DEF Spec

(* The two indexes of PowScreener agree at all times, whatever answers,    *)
(* refusals, disconnects and ticks interleave.                             *)
THEOREM BooksAlwaysAgree == Spec => []BooksAgree
<1>1. ScreenInv => BooksAgree
  BY DEF ScreenInv
<1> QED BY <1>1, ScreenInit, ScreenStep, PTL DEF Spec

(* No connection is muted while it has a challenge to answer. *)
THEOREM MuteOnlyAfter == Spec => []MuteFollowsChallenge
<1>1. ScreenInv => MuteFollowsChallenge
  BY DEF ScreenInv
<1> QED BY <1>1, ScreenInit, ScreenStep, PTL DEF Spec

(* Whatever SCREEN_DEADLINE and however far the scheduler falls behind, an *)
(* ignored challenge is decided at most twice that delay after its         *)
(* deadline.                                                               *)
THEOREM DeadlineBinds == Spec => []SilenceHasLimit
<1>1. ScreenInv => SilenceHasLimit
  BY FloorInt, TypeParts
  DEF ScreenInv, SilenceHasLimit, Has, DeadlineBound, BooksType, RestType, Challenge
<1> QED BY <1>1, ScreenInit, ScreenStep, PTL DEF Spec

-----------------------------------------------------------------------------
(* ClientSync: heights.  The heights of the log are 1 .. Tallest, and no two *)
(* chat lines share one.                                                   *)
Said(n) == {i \in 1 .. n : Log[i] = "chat"}

Tallest == Cardinality(Said(Len(Log)))

LEMMA SaidIsFinite ==
  ASSUME NEW n \in Nat
  PROVE  IsFiniteSet(Said(n)) /\ Cardinality(Said(n)) \in Nat /\ Cardinality(Said(n)) <= n
<1>1. IsFiniteSet(1 .. n) /\ Cardinality(1 .. n) = n
  BY FS_Interval
<1>2. Said(n) \subseteq 1 .. n
  BY DEF Said
<1>3. IsFiniteSet(Said(n)) /\ Cardinality(Said(n)) <= Cardinality(1 .. n)
  BY <1>1, <1>2, FS_Subset
<1> QED BY <1>1, <1>3, FS_CardinalityType

LEMMA SaidGrows ==
  ASSUME NEW m \in Nat, NEW n \in Nat, m < n, Log[n] = "chat"
  PROVE  Cardinality(Said(m)) < Cardinality(Said(n))
<1>1. Said(m) \subseteq Said(n) /\ n \in Said(n) /\ n \notin Said(m)
  BY DEF Said
<1>2. IsFiniteSet(Said(n)) /\ Cardinality(Said(n)) \in Nat /\ Cardinality(Said(m)) \in Nat
  BY SaidIsFinite
<1>3. Cardinality(Said(m)) <= Cardinality(Said(n))
  BY <1>1, <1>2, FS_Subset
<1>4. Cardinality(Said(m)) # Cardinality(Said(n))
  BY <1>1, <1>2, FS_Subset
<1> QED BY <1>2, <1>3, <1>4

LEMMA SaidUpTo ==
  ASSUME NEW m \in Nat, NEW n \in Nat, m <= n
  PROVE  Cardinality(Said(m)) <= Cardinality(Said(n))
<1>1. Said(m) \subseteq Said(n)
  BY DEF Said
<1> QED BY <1>1, SaidIsFinite, FS_Subset

LEMMA SyncConstants ==
  /\ Log \in Seq({"chat", "note"}) /\ Len(Log) \in Nat /\ AtJoin \in 0 .. Len(Log)
  /\ Target \in Nat /\ Target > 0 /\ Retries \in Nat /\ RecoverCap \in Nat
  /\ MaxFaults \in Nat /\ MaxOlder \in Nat
  BY ClientSyncAssumption DEF ClientSyncAssumption

LEMMA HeightsAre ==
  /\ Heights = 1 .. Tallest /\ Tallest \in Nat /\ Tallest <= Len(Log)
<1>1. Heights = 1 .. Tallest
  BY DEF Heights, Tallest, Said, Lines
<1> QED BY <1>1, SyncConstants, SaidIsFinite DEF Tallest

LEMMA HeightIs ==
  ASSUME NEW n \in Lines
  PROVE  /\ Log[n] = "chat" => Height(n) = Cardinality(Said(n)) /\ Height(n) \in Heights
         /\ Log[n] # "chat" => Height(n) = 0
<1>1. n \in Nat /\ n # 0 /\ n <= Len(Log) /\ n - 1 \in Nat
  BY SyncConstants DEF Lines
<1>2. Height(n) = IF Log[n] = "chat" THEN Cardinality(Said(n)) ELSE 0
  BY <1>1 DEF Height, ChainHeight, Said
<1>3. ASSUME Log[n] = "chat" PROVE Cardinality(Said(n)) \in Heights
  <2>1. Cardinality(Said(n)) \in Nat /\ Cardinality(Said(n - 1)) \in Nat
    BY <1>1, SaidIsFinite
  <2>2. Cardinality(Said(n - 1)) < Cardinality(Said(n))
    BY <1>1, <1>3, SaidGrows
  <2>3. Cardinality(Said(n)) <= Tallest
    BY <1>1, SyncConstants, SaidUpTo DEF Tallest
  <2> QED BY <2>1, <2>2, <2>3, HeightsAre
<1> QED BY <1>2, <1>3

LEMMA HeightTyped == \A n \in Lines \cup {0} : Height(n) \in Heights \cup {0}
<1> SUFFICES ASSUME NEW n \in Lines \cup {0} PROVE Height(n) \in Heights \cup {0}
  OBVIOUS
<1>1. CASE n = 0
  BY <1>1 DEF Height
<1>2. CASE n \in Lines
  BY <1>2, HeightIs
<1> QED BY <1>1, <1>2

LEMMA HeightsDiffer ==
  ASSUME NEW m \in Lines, NEW n \in Lines, Height(m) # 0, Height(m) = Height(n)
  PROVE  m = n
<1>1. m \in Nat /\ n \in Nat
  BY SyncConstants DEF Lines
<1>2. Log[m] = "chat" /\ Log[n] = "chat"
  BY HeightIs
<1>3. Cardinality(Said(m)) = Cardinality(Said(n))
  BY <1>2, HeightIs
<1>4. Cardinality(Said(m)) \in Nat /\ Cardinality(Said(n)) \in Nat
  BY <1>1, SaidIsFinite
<1>5. ~(m < n)
  BY <1>1, <1>2, <1>3, <1>4, SaidGrows
<1>6. ~(n < m)
  BY <1>1, <1>2, <1>3, <1>4, SaidGrows
<1> QED BY <1>1, <1>5, <1>6

-----------------------------------------------------------------------------
(* What a session of the client is, whatever is done to it: its types, and *)
(* among them that it has never warned.                                    *)
Requests ==
  [t : {"after"}, at : Nat] \cup [t : {"ranges"}, at : SUBSET Heights]
    \cup [t : {"before"}, at : Heights]

Olders == [height : Heights, seq : Lines]

ClientSessions ==
  [tip : Heights \cup {0}, base : Heights \cup {0}, warned : {FALSE},
   load : {"off", "on", "flush"}, hold : BOOLEAN,
   start : 0 .. Len(Log) + 1, max : 0 .. Len(Log), loaded : Nat,
   retried : 0 .. Retries, held : Seq(Lines \cup {0}),
   older : Olders \cup {NoWindow}, exhausted : BOOLEAN,
   inRecover : BOOLEAN, pend : Window \cup {NoWindow},
   timer : {"none", "settle", "retry"}, recovered : Nat,
   drawn : SUBSET Lines, lost : SUBSET Heights, out : Seq(Requests)]

(* Every missing height has a missing or a known one below it.             *)
Anchored(p) == \A h \in p.missing : h - 1 \in p.missing \cup p.known

(* A live line is drawn, being refilled or given up.                       *)
Accounted(s, n) ==
  \/ n \in s.drawn
  \/ s.pend # NoWindow /\ Height(n) \in s.pend.missing
  \/ Height(n) \in s.lost

NothingLost(s) ==
  s.load # "on" =>
    \A n \in Lines : s.base < Height(n) /\ Height(n) <= s.tip => Accounted(s, n)

Waiting(s) == IF s.pend = NoWindow THEN 0 ELSE Cardinality(s.pend.live)

Thrifty(s) == RecoverCap > 0 => s.recovered + Waiting(s) <= RecoverCap

Core(s) ==
  /\ s \in ClientSessions
  /\ s.pend # NoWindow => Anchored(s.pend)
  /\ NothingLost(s) /\ Thrifty(s)
  /\ s.loaded <= s.tip

(* An open refill has a timer, a timer has a refill, and a retry is left.  *)
Timed(s) ==
  /\ s.pend # NoWindow <=> s.timer # "none"
  /\ s.timer = "retry" => s.pend.attempts <= Retries

SessionOK(s) == Core(s) /\ Timed(s)

(* What Core says depends on these fields only.                            *)
LEMMA CoreSame ==
  ASSUME NEW s, NEW u, Core(s), u \in ClientSessions,
         u.tip = s.tip, u.base = s.base, u.drawn = s.drawn, u.lost = s.lost,
         u.pend = s.pend, u.recovered = s.recovered, u.loaded = s.loaded,
         u.load = "on" \/ s.load # "on"
  PROVE  Core(u)
<1>1. NothingLost(u)
  BY DEF Core, NothingLost, Accounted
<1>2. Thrifty(u)
  BY DEF Core, Thrifty, Waiting
<1> QED BY <1>1, <1>2 DEF Core

LEMMA TimedSame ==
  ASSUME NEW s, NEW u, Timed(s), u.pend = s.pend, u.timer = s.timer
  PROVE  Timed(u)
  BY DEF Timed

(* An anchored window has no orphans: pruneMissing discards nothing.       *)
LEMMA NoOrphans ==
  ASSUME NEW p, p.missing \in SUBSET Heights, Anchored(p)
  PROVE  Orphans(p) = {}
<1> SUFFICES ASSUME NEW h \in p.missing, NEW f \in RunStarts(p), f - 1 \notin p.known
             PROVE  FALSE
  BY DEF Orphans
<1> QED BY DEF RunStarts, Anchored

Windows == [missing : SUBSET Heights, known : SUBSET Heights, live : SUBSET Heights,
            max : Heights, attempts : 0 .. Retries + 1, failed : BOOLEAN]

LEMMA NothingPruned ==
  ASSUME NEW p \in Windows, Anchored(p)
  PROVE  Pruned(p) = p
<1>1. Orphans(p) = {}
  BY NoOrphans DEF Windows
<1>2. Pruned(p) = [p EXCEPT !.missing = p.missing, !.live = p.live]
  BY <1>1 DEF Pruned
<1> QED BY <1>2 DEF Windows

LEMMA WindowTyped ==
  ASSUME NEW s \in ClientSessions, s.pend # NoWindow
  PROVE  s.pend \in Window /\ s.pend \in Windows
<1>1. s.pend \in Window
  BY DEF ClientSessions
<1> QED BY <1>1, SyncConstants DEF Window, Windows

LEMMA LiveIsFinite ==
  ASSUME NEW S \in SUBSET Heights
  PROVE  IsFiniteSet(S) /\ Cardinality(S) \in Nat
<1>1. IsFiniteSet(Heights)
  BY HeightsAre, FS_Interval
<1> QED BY <1>1, FS_Subset, FS_CardinalityType

LEMMA WindowTried ==
  ASSUME NEW p \in Windows, p.attempts <= Retries,
         NEW q, q = [p EXCEPT !.attempts = @ + 1, !.failed = FALSE]
  PROVE  q \in Window /\ q.missing = p.missing /\ q.known = p.known /\ q.live = p.live
<1>1. p.attempts + 1 \in 1 .. Retries + 1
  BY SyncConstants DEF Windows
<1>2. q.missing = p.missing /\ q.known = p.known /\ q.live = p.live
  BY DEF Windows
<1>3. q \in Window
  BY <1>1 DEF Windows, Window
<1> QED BY <1>2, <1>3

(* sendRecoverLocked, with something left to ask for: only the request and *)
(* its timer are new.                                                      *)
Sent(s, p, u) ==
  /\ u \in ClientSessions /\ u.pend \in Window /\ u.timer = "settle"
  /\ u.pend.missing = p.missing /\ u.pend.known = p.known /\ u.pend.live = p.live
  /\ u.tip = s.tip /\ u.base = s.base /\ u.load = s.load /\ u.loaded = s.loaded
  /\ u.drawn = s.drawn /\ u.lost = s.lost /\ u.recovered = s.recovered

LEMMA SendRecoverIs ==
  ASSUME NEW s \in ClientSessions, NEW p \in Windows, Anchored(p), p.missing # {},
         p.attempts <= Retries
  PROVE  CanSend([s EXCEPT !.pend = p]) /\ Sent(s, p, SendRecover([s EXCEPT !.pend = p]))
<1> DEFINE w == [s EXCEPT !.pend = p]
           u == SendRecover(w)
<1> DEFINE q == [p EXCEPT !.attempts = @ + 1, !.failed = FALSE]
           r == [t |-> "ranges", at |-> p.missing]
<1>0. w.pend = p
  BY DEF ClientSessions
<1>1. w.pend = p /\ Pruned(p) = p
  BY <1>0, NothingPruned
<1>2. q \in Window /\ q.missing = p.missing /\ q.known = p.known /\ q.live = p.live
  BY WindowTried
<1>3. r \in Requests
  BY DEF Requests, Windows
<1>4. u = [w EXCEPT !.pend = q, !.inRecover = TRUE, !.timer = "settle", !.out = Append(@, r)]
  BY <1>1 DEF SendRecover
<1> HIDE DEF q, r, u
<1>5. u = [s EXCEPT !.pend = q, !.inRecover = TRUE, !.timer = "settle", !.out = Append(s.out, r)]
  BY <1>4 DEF ClientSessions
<1>6. s.out \in Seq(Requests)
  BY DEF ClientSessions
<1>7. Append(s.out, r) \in Seq(Requests)
  BY <1>3, <1>6
<1>8. u \in ClientSessions
  BY <1>2, <1>5, <1>7 DEF ClientSessions
<1>9. u.pend = q /\ u.timer = "settle" /\ u.tip = s.tip /\ u.base = s.base /\ u.load = s.load
  BY <1>5 DEF ClientSessions
<1>10. u.loaded = s.loaded /\ u.drawn = s.drawn /\ u.lost = s.lost /\ u.recovered = s.recovered
  BY <1>5 DEF ClientSessions
<1>11. CanSend(w)
  BY <1>1 DEF CanSend
<1> QED BY <1>2, <1>8, <1>9, <1>10, <1>11 DEF Sent, u

(* abandonRecoveryLocked: what was missing is given up.                    *)
LEMMA AbandonKeeps ==
  ASSUME NEW s, Core(s), s.pend # NoWindow
  PROVE  SessionOK(AbandonRecovery(s))
<1> DEFINE u == AbandonRecovery(s)
<1>0. s \in ClientSessions /\ s.pend \in Window
  BY WindowTyped DEF Core
<1>1. s.lost \cup s.pend.missing \in SUBSET Heights
  BY <1>0 DEF ClientSessions, Window
<1>2. u = [s EXCEPT !.pend = NoWindow, !.inRecover = FALSE, !.timer = "none",
                    !.lost = s.lost \cup s.pend.missing, !.hold = FALSE]
  BY <1>0 DEF AbandonRecovery, Release, GiveUp, ClientSessions
<1> HIDE DEF u
<1>3. u \in ClientSessions
  BY <1>0, <1>1, <1>2 DEF ClientSessions
<1>4. /\ u.pend = NoWindow /\ u.timer = "none" /\ u.lost = s.lost \cup s.pend.missing
      /\ u.tip = s.tip /\ u.base = s.base /\ u.load = s.load /\ u.drawn = s.drawn
      /\ u.recovered = s.recovered /\ u.loaded = s.loaded
  BY <1>0, <1>2 DEF ClientSessions
<1>5. NothingLost(u)
  BY <1>4 DEF Core, NothingLost, Accounted
<1>6. Thrifty(u)
  <2>1. s.recovered \in Nat /\ Cardinality(s.pend.live) \in Nat
    BY <1>0, LiveIsFinite DEF ClientSessions, Window
  <2> QED BY <1>4, <2>1, SyncConstants DEF Core, Thrifty, Waiting
<1> QED BY <1>3, <1>4, <1>5, <1>6 DEF SessionOK, Core, Timed, u

(* finishRecovery, whether its timer or a trailer calls it.                *)
LEMMA FinishKeeps ==
  ASSUME NEW s, Core(s), s.pend = NoWindow => s.timer = "none"
  PROVE  SessionOK(FinishRecovery(s))
<1>0. s \in ClientSessions
  BY DEF Core
<1>1. CASE s.pend = NoWindow
  <2> DEFINE u == [s EXCEPT !.inRecover = FALSE]
  <2>1. u \in ClientSessions
    BY <1>0 DEF ClientSessions
  <2>2. /\ u.tip = s.tip /\ u.base = s.base /\ u.drawn = s.drawn /\ u.lost = s.lost
        /\ u.pend = s.pend /\ u.recovered = s.recovered /\ u.loaded = s.loaded
        /\ u.load = s.load /\ u.timer = s.timer
    BY <1>0 DEF ClientSessions
  <2>3. FinishRecovery(s) = u
    BY <1>1 DEF FinishRecovery
  <2> HIDE DEF u
  <2>4. Core(u)
    BY <2>1, <2>2, CoreSame DEF Core, NothingLost, Accounted, Thrifty, Waiting
  <2> QED BY <1>1, <2>2, <2>3, <2>4 DEF SessionOK, Timed
<1>2. CASE s.pend # NoWindow /\ s.pend.missing = {} /\ ~s.pend.failed
  <2> DEFINE u == FinishRecovery(s)
  <2>1. u = [s EXCEPT !.pend = NoWindow, !.inRecover = FALSE, !.timer = "none", !.hold = FALSE]
    BY <1>0, <1>2 DEF FinishRecovery, Release, ClientSessions
  <2> HIDE DEF u
  <2>2. u \in ClientSessions
    BY <1>0, <2>1 DEF ClientSessions
  <2>3. /\ u.pend = NoWindow /\ u.timer = "none" /\ u.lost = s.lost
        /\ u.tip = s.tip /\ u.base = s.base /\ u.load = s.load /\ u.drawn = s.drawn
        /\ u.recovered = s.recovered /\ u.loaded = s.loaded
    BY <1>0, <2>1 DEF ClientSessions
  <2>4. NothingLost(u)
    BY <1>2, <2>3 DEF Core, NothingLost, Accounted
  <2>5. Thrifty(u)
    <3>1. s.recovered \in Nat /\ Cardinality(s.pend.live) \in Nat
      BY <1>0, <1>2, WindowTyped, LiveIsFinite DEF ClientSessions, Window
    <3> QED BY <1>2, <2>3, <3>1, SyncConstants DEF Core, Thrifty, Waiting
  <2> QED BY <2>2, <2>3, <2>4, <2>5 DEF SessionOK, Core, Timed, u
<1>3. CASE s.pend # NoWindow /\ ~(s.pend.missing = {} /\ ~s.pend.failed)
           /\ s.pend.attempts <= Retries
  <2> DEFINE u == [s EXCEPT !.timer = "retry"]
  <2>1. u \in ClientSessions
    BY <1>0 DEF ClientSessions
  <2>2. /\ u.tip = s.tip /\ u.base = s.base /\ u.drawn = s.drawn /\ u.lost = s.lost
        /\ u.pend = s.pend /\ u.recovered = s.recovered /\ u.loaded = s.loaded
        /\ u.load = s.load /\ u.timer = "retry"
    BY <1>0 DEF ClientSessions
  <2>3. FinishRecovery(s) = u
    BY <1>3 DEF FinishRecovery
  <2> HIDE DEF u
  <2>4. Core(u)
    BY <2>1, <2>2, CoreSame DEF Core, NothingLost, Accounted, Thrifty, Waiting
  <2> QED BY <1>3, <2>2, <2>3, <2>4 DEF SessionOK, Timed
<1>4. CASE s.pend # NoWindow /\ ~(s.pend.missing = {} /\ ~s.pend.failed)
           /\ ~(s.pend.attempts <= Retries)
  <2>1. FinishRecovery(s) = AbandonRecovery(s)
    BY <1>4 DEF FinishRecovery
  <2> QED BY <1>4, <2>1, AbandonKeeps
<1> QED BY <1>1, <1>2, <1>3, <1>4

(* The timer of a retry.                                                   *)
LEMMA RetryFires ==
  ASSUME NEW s, SessionOK(s), s.timer = "retry", NEW z, z = [s EXCEPT !.timer = "none"]
  PROVE  SessionOK(IF CanSend(z) THEN SendRecover(z) ELSE AbandonRecovery(SendRecover(z)))
<1>0. s \in ClientSessions /\ s.pend # NoWindow /\ s.pend.attempts <= Retries
  BY DEF SessionOK, Core, Timed
<1>1. s.pend \in Window /\ s.pend \in Windows /\ Anchored(s.pend)
  BY <1>0, WindowTyped DEF SessionOK, Core
<1>2. z \in ClientSessions
  BY <1>0 DEF ClientSessions
<1>3. /\ z.tip = s.tip /\ z.base = s.base /\ z.drawn = s.drawn /\ z.lost = s.lost
      /\ z.pend = s.pend /\ z.recovered = s.recovered /\ z.loaded = s.loaded
      /\ z.load = s.load
  BY <1>0 DEF ClientSessions
<1>4. Core(z)
  <2>1. Core(s)
    BY DEF SessionOK
  <2>2. NothingLost(z)
    BY <1>3, <2>1 DEF Core, NothingLost, Accounted
  <2>3. Thrifty(z)
    BY <1>3, <2>1 DEF Core, Thrifty, Waiting
  <2> QED BY <1>1, <1>2, <1>3, <2>1, <2>2, <2>3 DEF Core
<1>5. z = [z EXCEPT !.pend = z.pend]
  BY <1>2 DEF ClientSessions
<1>6. Pruned(z.pend) = z.pend
  BY <1>1, <1>3, NothingPruned
<1>7. CASE s.pend.missing # {}
  <2> DEFINE u == SendRecover(z)
  <2>1. /\ CanSend(z)
        /\ u \in ClientSessions /\ u.pend \in Window /\ u.timer = "settle"
        /\ u.pend.missing = s.pend.missing /\ u.pend.known = s.pend.known /\ u.pend.live = s.pend.live
        /\ u.tip = s.tip /\ u.base = s.base /\ u.load = s.load /\ u.loaded = s.loaded
        /\ u.drawn = s.drawn /\ u.lost = s.lost /\ u.recovered = s.recovered
    <3>1. /\ z.pend \in Windows /\ Anchored(z.pend) /\ z.pend.missing # {}
          /\ z.pend.attempts <= Retries
      BY <1>0, <1>1, <1>3, <1>7
    <3> HIDE DEF u
    <3>2. CanSend(z) /\ Sent(z, z.pend, u)
      BY <1>2, <1>5, <3>1, SendRecoverIs DEF u
    <3> QED BY <1>3, <3>2 DEF Sent
  <2> HIDE DEF u
  <2>2. u.pend # NoWindow
    BY <2>1, NoWindowAssumption DEF NoWindowAssumption
  <2>3. NothingLost(u)
    BY <1>0, <2>1, <2>2 DEF SessionOK, Core, NothingLost, Accounted
  <2>4. Thrifty(u)
    BY <1>0, <2>1, <2>2 DEF SessionOK, Core, Thrifty, Waiting
  <2>5. Anchored(u.pend)
    BY <1>1, <2>1 DEF Anchored
  <2>6. SessionOK(u)
    BY <2>1, <2>2, <2>3, <2>4, <2>5 DEF SessionOK, Core, Timed
  <2> QED BY <2>1, <2>6 DEF u
<1>8. CASE s.pend.missing = {}
  <2>1. ~CanSend(z)
    BY <1>3, <1>6, <1>8 DEF CanSend
  <2>2. SendRecover(z) = z
    BY <1>3, <1>5, <1>6, <1>8 DEF SendRecover
  <2> QED BY <1>0, <1>3, <1>4, <2>1, <2>2, AbandonKeeps
<1> QED BY <1>7, <1>8

-----------------------------------------------------------------------------
(* One line.                                                               *)
SameLink(s, u) == u.tip = s.tip /\ u.base = s.base /\ u.load = s.load /\ u.loaded = s.loaded
SameRefill(s, u) == u.pend = s.pend /\ u.timer = s.timer /\ u.recovered = s.recovered

LEMMA DrawIs ==
  ASSUME NEW s \in ClientSessions, NEW n \in Lines \cup {0}
  PROVE  /\ Draw(s, n) \in ClientSessions /\ SameLink(s, Draw(s, n))
         /\ SameRefill(s, Draw(s, n)) /\ Draw(s, n).lost = s.lost
         /\ s.drawn \subseteq Draw(s, n).drawn /\ (n # 0 => n \in Draw(s, n).drawn)
<1>1. CASE n = 0
  BY <1>1 DEF Draw, SameLink, SameRefill
<1>2. CASE n # 0
  <2> DEFINE u == [s EXCEPT !.drawn = s.drawn \cup {n}]
  <2>1. s.drawn \cup {n} \in SUBSET Lines
    BY <1>2 DEF ClientSessions
  <2>2. u \in ClientSessions
    BY <2>1 DEF ClientSessions
  <2>3. u.drawn = s.drawn \cup {n} /\ u.lost = s.lost
    BY DEF ClientSessions
  <2>4. SameLink(s, u)
    BY DEF ClientSessions, SameLink
  <2>5. SameRefill(s, u)
    BY DEF ClientSessions, SameRefill
  <2>6. Draw(s, n) = u
    BY <1>2 DEF Draw
  <2> HIDE DEF u
  <2> QED BY <2>2, <2>3, <2>4, <2>5, <2>6
<1> QED BY <1>1, <1>2

LEMMA DrawKeeps ==
  ASSUME NEW s, SessionOK(s), NEW n \in Lines \cup {0}
  PROVE  SessionOK(Draw(s, n))
<1> DEFINE u == Draw(s, n)
<1>1. /\ u \in ClientSessions /\ SameLink(s, u) /\ SameRefill(s, u) /\ u.lost = s.lost
      /\ s.drawn \subseteq u.drawn
  BY DrawIs DEF SessionOK, Core
<1> HIDE DEF u
<1>2. NothingLost(u)
  BY <1>1 DEF SessionOK, Core, NothingLost, Accounted, SameLink, SameRefill
<1>3. Thrifty(u)
  BY <1>1 DEF SessionOK, Core, Thrifty, Waiting, SameRefill
<1>4. Core(u)
  BY <1>1, <1>2, <1>3 DEF SessionOK, Core, SameLink, SameRefill
<1>5. Timed(u)
  BY <1>1, TimedSame DEF SessionOK, SameRefill
<1> QED BY <1>4, <1>5 DEF SessionOK, u

(* A line of the refill.                                                   *)
LEMMA RefillKeeps ==
  ASSUME NEW s, SessionOK(s), NEW n \in Lines \cup {0}, s.pend # NoWindow
  PROVE  SessionOK(Refill(s, n))
<1> DEFINE p == s.pend
           h == Height(n)
<1>0. s \in ClientSessions /\ p \in Window /\ Anchored(p) /\ Core(s)
  BY WindowTyped DEF SessionOK, Core
<1>h. h \in Heights \cup {0}
  BY HeightTyped
<1>f. p.missing \in SUBSET Heights /\ p.known \in SUBSET Heights /\ p.live \in SUBSET Heights
  BY <1>0 DEF Window
<1>1. CASE h \notin p.missing
  BY <1>1 DEF Refill
<1>2. CASE h \in p.missing /\ ~(h - 1 \in p.known /\ Links(h, h - 1))
  <2> DEFINE q == [p EXCEPT !.failed = TRUE]
             u == [s EXCEPT !.pend = q]
  <2>1. q \in Window
    BY <1>0 DEF Window
  <2>2. q.missing = p.missing /\ q.known = p.known /\ q.live = p.live /\ q.attempts = p.attempts
    BY <1>0 DEF Window
  <2>3. Refill(s, n) = u
    BY <1>2 DEF Refill
  <2>4. q # NoWindow
    BY <2>1, NoWindowAssumption DEF NoWindowAssumption
  <2> HIDE DEF q
  <2>5. u \in ClientSessions
    BY <1>0, <2>1 DEF ClientSessions
  <2>6. /\ u.pend = q /\ u.timer = s.timer /\ u.recovered = s.recovered
        /\ u.drawn = s.drawn /\ u.lost = s.lost
    BY <1>0 DEF ClientSessions
  <2>7. SameLink(s, u)
    BY <1>0 DEF ClientSessions, SameLink
  <2> HIDE DEF u
  <2>8. NothingLost(u)
    BY <1>0, <2>2, <2>4, <2>6, <2>7 DEF Core, NothingLost, Accounted, SameLink
  <2>9. Thrifty(u)
    BY <1>0, <2>2, <2>4, <2>6 DEF Core, Thrifty, Waiting
  <2>10. Anchored(u.pend)
    BY <1>0, <2>2, <2>6 DEF Anchored
  <2>11. Core(u)
    BY <1>0, <2>5, <2>7, <2>8, <2>9, <2>10 DEF Core, SameLink
  <2>12. Timed(u)
    BY <2>2, <2>4, <2>6 DEF SessionOK, Timed
  <2> QED BY <2>3, <2>11, <2>12 DEF SessionOK
<1>3. CASE h \in p.missing /\ h - 1 \in p.known /\ Links(h, h - 1)
  <2> DEFINE q == [p EXCEPT !.missing = @ \ {h}, !.live = @ \ {h}, !.known = @ \cup {h}]
             r == IF h \in p.live THEN s.recovered + 1 ELSE s.recovered
             w == [s EXCEPT !.pend = q, !.recovered = r]
             u == Draw(w, n)
  <2>1. q \in Window
    BY <1>0, <1>3, <1>f DEF Window
  <2>2. q.missing = p.missing \ {h} /\ q.live = p.live \ {h} /\ q.known = p.known \cup {h}
        /\ q.attempts = p.attempts
    BY <1>0 DEF Window
  <2>3. Refill(s, n) = u
    BY <1>3 DEF Refill
  <2>4. q # NoWindow
    BY <2>1, NoWindowAssumption DEF NoWindowAssumption
  <2>5. s.recovered \in Nat /\ r \in Nat
    BY <1>0 DEF ClientSessions
  <2>c. Cardinality(p.live) \in Nat /\ Cardinality(q.live) \in Nat
        /\ r + Cardinality(q.live) <= s.recovered + Cardinality(p.live)
    <3>1. IsFiniteSet(p.live) /\ Cardinality(p.live) \in Nat
      BY <1>f, LiveIsFinite
    <3>2. CASE h \in p.live
      <4>1. Cardinality(p.live \ {h}) = Cardinality(p.live) - 1
        BY <3>1, <3>2, FS_RemoveElement
      <4>2. p.live \ {h} \in SUBSET Heights
        BY <1>f
      <4>3. Cardinality(p.live \ {h}) \in Nat
        BY <4>2, LiveIsFinite
      <4> QED BY <2>2, <2>5, <3>1, <3>2, <4>1, <4>3
    <3>3. CASE h \notin p.live
      <4>1. p.live \ {h} = p.live
        BY <3>3
      <4>2. q.live = p.live /\ r = s.recovered
        BY <2>2, <3>3, <4>1
      <4> QED BY <2>5, <3>1, <4>2
    <3> QED BY <3>2, <3>3
  <2> HIDE DEF q, r
  <2>6. w \in ClientSessions
    BY <1>0, <2>1, <2>5 DEF ClientSessions
  <2>7. /\ w.pend = q /\ w.timer = s.timer /\ w.recovered = r
        /\ w.drawn = s.drawn /\ w.lost = s.lost
    BY <1>0 DEF ClientSessions
  <2>8. SameLink(s, w)
    BY <1>0 DEF ClientSessions, SameLink
  <2> HIDE DEF w
  <2>9. n \in Lines
    <3>1. h # 0
      BY <1>3, <1>f, HeightsAre
    <3>2. n # 0
      BY <3>1 DEF Height
    <3> QED BY <3>2
  <2>10. /\ u \in ClientSessions /\ SameLink(w, u) /\ SameRefill(w, u)
         /\ u.lost = s.lost /\ s.drawn \subseteq u.drawn /\ n \in u.drawn
    <3>1. n # 0
      BY <2>9, SyncConstants DEF Lines
    <3> QED BY <2>6, <2>7, <3>1, DrawIs
  <2> HIDE DEF u
  <2>11. SameLink(s, u) /\ u.pend = q /\ u.timer = s.timer /\ u.recovered = r
    BY <2>7, <2>8, <2>10 DEF SameLink, SameRefill
  <2>12. ASSUME NEW m \in Lines, Accounted(s, m) PROVE Accounted(u, m)
    <3>1. CASE Height(m) = h
      <4>1. h # 0
        BY <1>3, <1>f, HeightsAre
      <4>2. m = n
        BY <2>9, <3>1, <4>1, HeightsDiffer
      <4> QED BY <2>10, <4>2 DEF Accounted
    <3>2. CASE Height(m) # h
      BY <2>2, <2>4, <2>10, <2>11, <2>12, <3>2 DEF Accounted
    <3> QED BY <3>1, <3>2
  <2>13. NothingLost(u)
    BY <1>0, <2>11, <2>12 DEF Core, NothingLost, SameLink
  <2>14. Thrifty(u)
    BY <1>0, <2>4, <2>5, <2>c, <2>11, SyncConstants DEF Core, Thrifty, Waiting
  <2>15. Anchored(u.pend)
    BY <1>0, <2>2, <2>11 DEF Anchored
  <2>16. Core(u)
    BY <1>0, <2>10, <2>11, <2>13, <2>14, <2>15 DEF Core, SameLink
  <2>17. Timed(u)
    BY <2>2, <2>4, <2>11 DEF SessionOK, Timed
  <2> QED BY <2>3, <2>16, <2>17 DEF SessionOK
<1> QED BY <1>1, <1>2, <1>3

(* maybeRequestRecovery: the heights of a gap are missing or given up, and *)
(* so is whatever was before.                                              *)
Kept(u, g) == g \in u.lost \/ (u.pend # NoWindow /\ g \in u.pend.missing)

Gapped(s, gap, u) ==
  /\ u \in ClientSessions /\ SameLink(s, u) /\ u.drawn = s.drawn /\ Timed(u)
  /\ u.pend # NoWindow => Anchored(u.pend)
  /\ Thrifty(u)
  /\ \A g \in Heights : g \in gap \/ Kept(s, g) => Kept(u, g)

LEMMA GapIsTyped ==
  ASSUME NEW t \in Heights, NEW h \in Heights, t + 1 < h
  PROVE  /\ t + 1 .. h - 1 \in SUBSET Heights /\ t + 1 .. h - 1 # {}
         /\ (CHOOSE x \in t + 1 .. h - 1 : \A g \in t + 1 .. h - 1 : g <= x) \in Heights
<1>1. t \in Nat /\ h \in Nat /\ t >= 1 /\ h <= Tallest /\ Tallest \in Nat
  BY HeightsAre
<1>2. h - 1 \in t + 1 .. h - 1 /\ \A g \in t + 1 .. h - 1 : g <= h - 1
  BY <1>1
<1>3. t + 1 .. h - 1 \in SUBSET Heights
  BY <1>1, HeightsAre
<1>4. \E x \in t + 1 .. h - 1 : \A g \in t + 1 .. h - 1 : g <= x
  BY <1>2
<1>5. (CHOOSE x \in t + 1 .. h - 1 : \A g \in t + 1 .. h - 1 : g <= x) \in t + 1 .. h - 1
  BY <1>4
<1> QED BY <1>2, <1>3, <1>5

(* The window with the gap in it.                                          *)
Widened(p, gap, anchor, top) ==
  [p EXCEPT !.missing = @ \cup gap, !.live = @ \cup gap, !.known = @ \cup {anchor},
            !.max = IF top > @ THEN top ELSE @]

IsWidened(q, p, gap) ==
  /\ q \in Windows /\ q.missing = p.missing \cup gap /\ q.live = p.live \cup gap
  /\ q.attempts = p.attempts /\ Anchored(q)

WideWindows == [missing : SUBSET Heights, known : SUBSET Heights, live : SUBSET Heights,
                max : Heights \cup {0}, attempts : 0 .. Retries + 1, failed : BOOLEAN]

LEMMA WidenedIs ==
  ASSUME NEW p \in Windows \cup {NewWindow}, p # NewWindow => Anchored(p),
         NEW t \in Heights, NEW h \in Heights, t + 1 < h, NEW top \in Heights
  PROVE  IsWidened(Widened(p, t + 1 .. h - 1, t, top), p, t + 1 .. h - 1)
<1> DEFINE gap == t + 1 .. h - 1
           q == Widened(p, gap, t, top)
<1>1. gap \in SUBSET Heights
  BY GapIsTyped
<1>2. p = NewWindow \/ p \in Windows
  OBVIOUS
<1>n. NewWindow.missing = {} /\ NewWindow \in WideWindows
  BY SyncConstants DEF NewWindow, WideWindows
<1>3. p \in WideWindows
  BY <1>2, <1>n DEF Windows, WideWindows
<1>t. t \in Nat /\ h \in Nat
  BY HeightsAre
<1>x. \A x \in gap : x - 1 = t \/ x - 1 \in gap
  BY <1>t
<1> HIDE DEF gap
<1>5. /\ q.missing = p.missing \cup gap /\ q.live = p.live \cup gap /\ q.known = p.known \cup {t}
      /\ q.attempts = p.attempts
  BY <1>3 DEF Widened, WideWindows
<1>m. (IF top > p.max THEN top ELSE p.max) \in Heights
  <2>1. p.max \in Heights \cup {0}
    BY <1>3 DEF WideWindows
  <2> QED BY <2>1, HeightsAre
<1>7. q \in Windows
  <2> DEFINE y == IF top > p.max THEN top ELSE p.max
  <2>1. q = [p EXCEPT !.missing = p.missing \cup gap, !.live = p.live \cup gap,
                      !.known = p.known \cup {t}, !.max = y]
    BY <1>3 DEF Widened, WideWindows
  <2>2. y \in Heights
    BY <1>m
  <2> HIDE DEF y, q
  <2>3. p.missing \cup gap \in SUBSET Heights /\ p.live \cup gap \in SUBSET Heights
        /\ p.known \cup {t} \in SUBSET Heights
    BY <1>1, <1>3 DEF WideWindows
  <2> QED BY <1>3, <2>1, <2>2, <2>3 DEF Windows, WideWindows
<1> HIDE DEF q
<1>8. Anchored(q)
  <2> SUFFICES ASSUME NEW x \in q.missing PROVE x - 1 \in q.missing \cup q.known
    BY DEF Anchored
  <2>1. CASE x \in p.missing
    BY <1>n, <1>2, <1>5, <2>1 DEF Anchored
  <2>2. CASE x \in gap
    BY <1>5, <1>x, <2>2
  <2> QED BY <1>5, <2>1, <2>2
<1> QED BY <1>5, <1>7, <1>8 DEF IsWidened, q, gap

LEMMA GapKeeps ==
  ASSUME NEW s, SessionOK(s), s.tip \in Heights, NEW h \in Heights, s.tip + 1 < h,
         NEW gap, gap = s.tip + 1 .. h - 1
  PROVE  Gapped(s, gap, MaybeRequestRecovery(s, gap, s.tip))
<1> DEFINE p == IF s.pend = NoWindow THEN NewWindow ELSE s.pend
           top == CHOOSE x \in gap : \A g \in gap : g <= x
           q == Widened(p, gap, s.tip, top)
           w == [s EXCEPT !.pend = q]
           u == MaybeRequestRecovery(s, gap, s.tip)
           over == RecoverCap > 0 /\ s.recovered + Cardinality(p.live) + Cardinality(gap) > RecoverCap
<1>0. s \in ClientSessions /\ Core(s) /\ Timed(s)
  BY DEF SessionOK, Core
<1>1. p \in Windows \cup {NewWindow} /\ (p # NewWindow => Anchored(p))
  BY <1>0, WindowTyped DEF Core
<1>2. gap \in SUBSET Heights /\ gap # {} /\ top \in Heights
  BY GapIsTyped
<1>3. /\ q \in Windows /\ q.missing = p.missing \cup gap /\ q.live = p.live \cup gap
      /\ q.attempts = p.attempts /\ Anchored(q)
  <2>1. IsWidened(Widened(p, s.tip + 1 .. h - 1, s.tip, top), p, s.tip + 1 .. h - 1)
    <3> HIDE DEF p, top
    <3> QED BY <1>1, <1>2, WidenedIs
  <2>2. IsWidened(q, p, gap)
    <3> HIDE DEF p, top
    <3> QED BY <2>1
  <2> HIDE DEF q, p
  <2> QED BY <2>2 DEF IsWidened
<1>n. /\ NewWindow.missing = {} /\ NewWindow.live = {} /\ NewWindow.attempts = 0
  BY DEF NewWindow
<1>4. u = IF over
          THEN GiveUp([s EXCEPT !.pend = IF p.missing = {} THEN NoWindow ELSE @,
                                !.timer = IF p.missing = {} THEN "none" ELSE @], gap)
          ELSE IF p.attempts > 0 THEN w
          ELSE IF CanSend(w) THEN SendRecover(w)
          ELSE GiveUp(SendRecover(w), gap)
  BY DEF MaybeRequestRecovery, Widened
<1>c. /\ s.recovered \in Nat /\ Cardinality(p.live) \in Nat /\ Cardinality(gap) \in Nat
      /\ Cardinality(q.live) \in Nat
      /\ Cardinality(q.live) <= Cardinality(p.live) + Cardinality(gap)
  <2>1. p.live \in SUBSET Heights
    BY <1>1, <1>n DEF Windows
  <2>2. s.recovered \in Nat
    BY <1>0 DEF ClientSessions
  <2>3. IsFiniteSet(p.live) /\ IsFiniteSet(gap) /\ Cardinality(p.live) \in Nat /\ Cardinality(gap) \in Nat
    BY <1>2, <2>1, LiveIsFinite
  <2>4. q.live \in SUBSET Heights
    BY <1>3 DEF Windows
  <2>5. Cardinality(q.live) \in Nat
    BY <2>4, LiveIsFinite
  <2>6. p.live \cap gap \in SUBSET Heights
    BY <2>1
  <2>7. Cardinality(p.live \cap gap) \in Nat
    BY <2>6, LiveIsFinite
  <2>8. Cardinality(p.live \cup gap) = Cardinality(p.live) + Cardinality(gap) - Cardinality(p.live \cap gap)
    BY <2>3, FS_Union
  <2> HIDE DEF p, q
  <2> QED BY <1>3, <2>2, <2>3, <2>5, <2>7, <2>8
<1>5. CASE over
  <2> DEFINE np == IF p.missing = {} THEN NoWindow ELSE s.pend
             nt == IF p.missing = {} THEN "none" ELSE s.timer
  <2>1. np \in Window \cup {NoWindow} /\ nt \in {"none", "settle", "retry"}
    BY <1>0 DEF ClientSessions
  <2>2. s.lost \cup gap \in SUBSET Heights
    BY <1>0, <1>2 DEF ClientSessions
  <2>3. np = NoWindow \/ np = s.pend
    OBVIOUS
  <2>4. (np # NoWindow <=> nt # "none") /\ (nt = "retry" => np.attempts <= Retries)
    BY <1>0, <1>n DEF Timed
  <2>5. ASSUME s.pend # NoWindow, NEW g \in s.pend.missing PROVE np = s.pend
    BY <2>5
  <2> HIDE DEF np, nt
  <2>6. u = [s EXCEPT !.pend = np, !.timer = nt, !.lost = s.lost \cup gap]
    BY <1>0, <1>4, <1>5 DEF GiveUp, np, nt, ClientSessions
  <2> HIDE DEF u
  <2>7. u \in ClientSessions
    BY <1>0, <2>1, <2>2, <2>6 DEF ClientSessions
  <2>8. /\ u.pend = np /\ u.timer = nt /\ u.lost = s.lost \cup gap /\ u.drawn = s.drawn
        /\ u.recovered = s.recovered
    BY <1>0, <2>6 DEF ClientSessions
  <2>9. SameLink(s, u)
    BY <1>0, <2>6 DEF ClientSessions, SameLink
  <2>10. Thrifty(u)
    <3>1. CASE np = s.pend
      BY <1>0, <2>8, <3>1 DEF Core, Thrifty, Waiting
    <3>2. CASE np = NoWindow /\ s.pend # NoWindow
      BY <1>0, <1>c, <2>8, <3>2, SyncConstants DEF Core, Thrifty, Waiting
    <3> QED BY <2>3, <3>1, <3>2
  <2>11. \A g \in Heights : g \in gap \/ Kept(s, g) => Kept(u, g)
    BY <2>5, <2>8 DEF Kept
  <2> QED BY <1>0, <2>3, <2>4, <2>7, <2>8, <2>9, <2>10, <2>11 DEF Gapped, Core, Timed, u
<1>6. CASE ~over /\ s.pend # NoWindow
  <2>1. s.pend \in Window
    BY <1>0, <1>6, WindowTyped
  <2>2. p = s.pend /\ p.attempts > 0
    BY <1>6, <2>1, SyncConstants DEF Window
  <2>3. q \in Window
    <3>1. q.attempts \in 1 .. Retries + 1
      BY <1>3, <2>1, <2>2 DEF Window
    <3> HIDE DEF q
    <3> QED BY <1>3, <3>1 DEF Window, Windows
  <2>4. u = w
    BY <1>4, <1>6, <2>2
  <2>5. q # NoWindow
    BY <2>3, NoWindowAssumption DEF NoWindowAssumption
  <2> HIDE DEF q, u
  <2>6. w \in ClientSessions
    BY <1>0, <2>3 DEF ClientSessions
  <2>7. w.pend = q /\ w.timer = s.timer /\ w.recovered = s.recovered /\ w.drawn = s.drawn /\ w.lost = s.lost
    BY <1>0 DEF ClientSessions
  <2>8. SameLink(s, w)
    BY <1>0 DEF ClientSessions, SameLink
  <2> HIDE DEF w, p
  <2>9. Thrifty(w)
    BY <1>6, <1>c, <2>5, <2>7, SyncConstants DEF Thrifty, Waiting
  <2>10. Timed(w)
    BY <1>0, <1>3, <1>6, <2>2, <2>5, <2>7 DEF Timed
  <2>11. \A g \in Heights : g \in gap \/ Kept(s, g) => Kept(w, g)
    BY <1>3, <2>2, <2>5, <2>7 DEF Kept
  <2> QED BY <1>3, <2>4, <2>6, <2>7, <2>8, <2>9, <2>10, <2>11 DEF Gapped, u
<1>7. CASE ~over /\ s.pend = NoWindow
  <2>1. p = NewWindow
    BY <1>7
  <2>2. q.missing # {} /\ q.attempts <= Retries
    <3>1. q.attempts = 0 /\ q.missing = gap
      <4> HIDE DEF q
      <4> QED BY <1>3, <1>n, <2>1
    <3> HIDE DEF q
    <3> QED BY <1>2, <3>1, SyncConstants
  <2>3. CanSend(w) /\ Sent(s, q, SendRecover(w))
    <3> HIDE DEF q
    <3> QED BY <1>0, <1>3, <2>2, SendRecoverIs
  <2>4. u = SendRecover(w)
    <3> HIDE DEF w, q
    <3> QED BY <1>4, <1>7, <1>n, <2>1, <2>3
  <2>5. Sent(s, q, u)
    BY <2>3, <2>4
  <2> HIDE DEF u, w, q
  <2>6. u.pend # NoWindow
    BY <2>5, NoWindowAssumption DEF NoWindowAssumption, Sent
  <2>7. Thrifty(u)
    <3> HIDE DEF p
    <3> QED BY <1>7, <1>c, <2>5, <2>6, SyncConstants DEF Thrifty, Waiting, Sent
  <2>8. Timed(u)
    BY <2>5, <2>6 DEF Timed, Sent
  <2>9. Anchored(u.pend)
    BY <1>3, <2>5 DEF Anchored, Sent
  <2>10. \A g \in Heights : g \in gap \/ Kept(s, g) => Kept(u, g)
    <3> HIDE DEF p
    <3> QED BY <1>3, <1>7, <2>5, <2>6 DEF Kept, Sent
  <2> QED BY <2>5, <2>7, <2>8, <2>9, <2>10 DEF Gapped, Sent, SameLink, u
<1> HIDE DEF u, over
<1> QED BY <1>5, <1>6, <1>7 DEF u

(* The tip has moved to the line that is about to be drawn.                *)
LEMMA MoveKeeps ==
  ASSUME NEW v \in ClientSessions, NEW n \in Lines, Timed(v),
         v.pend # NoWindow => Anchored(v.pend), Thrifty(v), v.loaded <= v.tip,
         v.load # "on" => \A m \in Lines :
           m # n /\ v.base < Height(m) /\ Height(m) <= v.tip => Accounted(v, m)
  PROVE  SessionOK(Draw(v, n))
<1> DEFINE u == Draw(v, n)
<1>0. n # 0
  BY SyncConstants DEF Lines
<1>1. /\ u \in ClientSessions /\ SameLink(v, u) /\ SameRefill(v, u) /\ u.lost = v.lost
      /\ v.drawn \subseteq u.drawn /\ n \in u.drawn
  BY <1>0, DrawIs
<1> HIDE DEF u
<1>2. NothingLost(u)
  <2> SUFFICES ASSUME u.load # "on", NEW m \in Lines, u.base < Height(m), Height(m) <= u.tip
               PROVE  Accounted(u, m)
    BY DEF NothingLost
  <2>1. CASE m = n
    BY <1>1, <2>1 DEF Accounted
  <2>2. CASE m # n
    <3>1. Accounted(v, m)
      BY <1>1, <2>2 DEF SameLink
    <3> QED BY <1>1, <3>1 DEF Accounted, SameRefill
  <2> QED BY <2>1, <2>2
<1>3. Thrifty(u)
  BY <1>1 DEF Thrifty, Waiting, SameRefill
<1>4. Core(u)
  BY <1>1, <1>2, <1>3 DEF Core, SameLink, SameRefill
<1>5. Timed(u)
  BY <1>1, TimedSame DEF SameRefill
<1> QED BY <1>4, <1>5 DEF SessionOK, u

(* checkChainLink and the draw after it.                                   *)
LEMMA LinkKeeps ==
  ASSUME NEW s, SessionOK(s), NEW n \in Lines \cup {0}
  PROVE  SessionOK(Draw(CheckChainLink(s, n), n))
<1> DEFINE h == Height(n)
           l == IF s.load = "on" THEN s.loaded + 1 ELSE s.loaded
           c == [s EXCEPT !.loaded = IF s.load = "on" THEN @ + 1 ELSE @]
           v == CheckChainLink(s, n)
<1>0. s \in ClientSessions /\ Core(s) /\ Timed(s) /\ h \in Heights \cup {0}
  BY HeightTyped DEF SessionOK, Core
<1>t. /\ s.tip \in Heights \cup {0} /\ s.loaded \in Nat /\ s.base \in Heights \cup {0}
      /\ s.loaded <= s.tip
  BY <1>0 DEF ClientSessions, Core
<1>h. Heights = 1 .. Tallest /\ Tallest \in Nat
  BY HeightsAre
<1>1. CASE h = 0 \/ (s.tip # 0 /\ h <= s.tip)
  <2>1. v = s
    BY <1>1 DEF CheckChainLink
  <2> QED BY <2>1, DrawKeeps
<1>2. ASSUME ~(h = 0 \/ (s.tip # 0 /\ h <= s.tip))
      PROVE  SessionOK(Draw(v, n))
  <2>1. h \in Heights /\ n \in Lines /\ s.tip < h /\ h \in Nat /\ s.tip \in Nat
    <3>1. h # 0
      BY <1>2
    <3>2. n # 0
      BY <3>1 DEF Height
    <3> QED BY <1>0, <1>2, <1>t, <1>h, <3>1, <3>2
  <2>2. l \in Nat /\ l <= h
    BY <1>t, <2>1
  <2>3. c = [s EXCEPT !.loaded = l]
    BY <1>0 DEF ClientSessions
  (* The first line is adopted. *)
  <2>4. CASE s.tip = 0
    <3>1. v = [s EXCEPT !.loaded = l, !.tip = h, !.base = h]
      BY <1>0, <1>2, <2>4 DEF CheckChainLink, ClientSessions
    <3> HIDE DEF v, l, h
    <3>2. v \in ClientSessions
      BY <1>0, <2>1, <2>2, <3>1 DEF ClientSessions
    <3>3. v.tip = h /\ v.base = h /\ v.loaded = l
      BY <1>0, <3>1 DEF ClientSessions
    <3>4. SameRefill(s, v)
      BY <1>0, <3>1 DEF ClientSessions, SameRefill
    <3>5. Timed(v)
      BY <1>0, <3>4, TimedSame DEF SameRefill
    <3>6. Thrifty(v)
      BY <1>0, <3>4 DEF Core, Thrifty, Waiting, SameRefill
    <3>7. v.pend # NoWindow => Anchored(v.pend)
      BY <1>0, <3>4 DEF Core, SameRefill
    <3>8. \A m \in Lines : ~(v.base < Height(m) /\ Height(m) <= v.tip)
      <4>1. \A m \in Lines : Height(m) \in Nat
        BY <1>h, HeightTyped
      <4> QED BY <2>1, <3>3, <4>1
    <3> QED BY <2>1, <2>2, <3>2, <3>3, <3>5, <3>6, <3>7, <3>8, MoveKeeps
  (* The next line, or the load, which is not accounted for. *)
  <2>5. CASE s.tip # 0 /\ (Links(h, s.tip) \/ s.load = "on")
    <3>1. v = [s EXCEPT !.loaded = l, !.tip = h]
      <4>1. h <= s.tip + 1 => Links(h, s.tip)
        BY <2>1 DEF Links
      <4> QED BY <1>0, <1>2, <2>5, <4>1 DEF CheckChainLink, ClientSessions
    <3> HIDE DEF v, l, h
    <3>2. v \in ClientSessions
      BY <1>0, <2>1, <2>2, <3>1 DEF ClientSessions
    <3>3. /\ v.tip = h /\ v.base = s.base /\ v.loaded = l /\ v.load = s.load
          /\ v.drawn = s.drawn /\ v.lost = s.lost
      BY <1>0, <3>1 DEF ClientSessions
    <3>4. SameRefill(s, v)
      BY <1>0, <3>1 DEF ClientSessions, SameRefill
    <3>5. Timed(v)
      BY <1>0, <3>4, TimedSame DEF SameRefill
    <3>6. Thrifty(v)
      BY <1>0, <3>4 DEF Core, Thrifty, Waiting, SameRefill
    <3>7. v.pend # NoWindow => Anchored(v.pend)
      BY <1>0, <3>4 DEF Core, SameRefill
    <3>8. ASSUME v.load # "on", NEW m \in Lines, m # n, v.base < Height(m), Height(m) <= v.tip
          PROVE  Accounted(v, m)
      <4>1. s.tip = h - 1
        BY <2>5, <3>3, <3>8 DEF Links
      <4>2. Height(m) # h
        BY <1>h, <2>1, <3>8, HeightsDiffer DEF h
      <4>3. Height(m) \in Nat
        BY <1>h, HeightTyped
      <4>4. Height(m) <= s.tip
        BY <2>1, <3>3, <3>8, <4>1, <4>2, <4>3
      <4>5. Accounted(s, m)
        BY <1>0, <3>3, <3>8, <4>4 DEF Core, NothingLost
      <4> QED BY <3>3, <3>4, <4>5 DEF Accounted, SameRefill
    <3> QED BY <2>1, <2>2, <3>2, <3>3, <3>5, <3>6, <3>7, <3>8, MoveKeeps
  (* Lost frames. *)
  <2>6. CASE s.tip # 0 /\ ~Links(h, s.tip) /\ s.load # "on"
    <3> DEFINE gap == s.tip + 1 .. h - 1
               g == MaybeRequestRecovery(s, gap, s.tip)
    <3>0. s.tip + 1 < h
      BY <2>1, <2>6 DEF Links
    <3>1. v = [g EXCEPT !.tip = h]
      <4>1. ~(h <= s.tip + 1)
        BY <2>1, <3>0
      <4> QED BY <1>2, <2>6, <4>1 DEF CheckChainLink
    <3>2. Gapped(s, gap, g)
      <4>1. s.tip \in Heights
        BY <1>t, <2>6
      <4> HIDE DEF h
      <4> QED BY <2>1, <3>0, <4>1, GapKeeps
    <3> HIDE DEF g, v
    <3>3. g \in ClientSessions /\ SameLink(s, g) /\ g.drawn = s.drawn
      BY <3>2 DEF Gapped
    <3> HIDE DEF h
    <3>4. v \in ClientSessions
      BY <2>1, <3>1, <3>3 DEF ClientSessions
    <3>5. /\ v.tip = h /\ v.base = g.base /\ v.loaded = g.loaded /\ v.load = g.load
          /\ v.drawn = g.drawn /\ v.lost = g.lost
      BY <3>1, <3>3 DEF ClientSessions
    <3>6. SameRefill(g, v)
      BY <3>1, <3>3 DEF ClientSessions, SameRefill
    <3>7. Timed(v)
      BY <3>2, <3>6, TimedSame DEF SameRefill, Gapped
    <3>8. Thrifty(v)
      BY <3>2, <3>6 DEF Gapped, Thrifty, Waiting, SameRefill
    <3>9. v.pend # NoWindow => Anchored(v.pend)
      BY <3>2, <3>6 DEF Gapped, SameRefill
    <3>10. v.loaded <= v.tip
      BY <1>t, <2>1, <3>3, <3>5 DEF SameLink
    <3>11. ASSUME NEW m \in Lines, m # n, v.base < Height(m), Height(m) <= v.tip
           PROVE  Accounted(v, m)
      <4>1. Height(m) # h
        BY <1>h, <2>1, <3>11, HeightsDiffer DEF h
      <4>2. Height(m) \in Heights \cup {0} /\ Height(m) \in Nat /\ s.base \in Nat
        BY <1>h, <1>t, HeightTyped
      <4>3. v.base = s.base /\ Height(m) \in Heights
        BY <1>h, <3>3, <3>5, <3>11, <4>2 DEF SameLink
      <4>4. CASE Height(m) <= s.tip
        <5>1. Accounted(s, m)
          BY <1>0, <2>6, <3>11, <4>3, <4>4 DEF Core, NothingLost
        <5>2. m \in s.drawn \/ Kept(s, Height(m))
          BY <5>1 DEF Accounted, Kept
        <5>3. m \in g.drawn \/ Kept(g, Height(m))
          BY <3>2, <3>3, <4>3, <5>2 DEF Gapped
        <5> QED BY <3>5, <3>6, <5>3 DEF Accounted, Kept, SameRefill
      <4>5. CASE ~(Height(m) <= s.tip)
        <5>1. Height(m) \in gap
          BY <2>1, <3>5, <3>11, <4>1, <4>2, <4>5
        <5>2. Kept(g, Height(m))
          BY <3>2, <4>3, <5>1 DEF Gapped
        <5> QED BY <3>5, <3>6, <5>2 DEF Accounted, Kept, SameRefill
      <4> QED BY <4>4, <4>5
    <3> QED BY <2>1, <3>4, <3>7, <3>8, <3>9, <3>10, <3>11, MoveKeeps
  <2> QED BY <2>4, <2>5, <2>6
<1> QED BY <1>1, <1>2

-----------------------------------------------------------------------------
(* One frame.                                                              *)
LEMMA SessionSame ==
  ASSUME NEW s, SessionOK(s), NEW u \in ClientSessions, SameLink(s, u), SameRefill(s, u),
         u.drawn = s.drawn, u.lost = s.lost
  PROVE  SessionOK(u)
<1>1. NothingLost(u)
  BY DEF SessionOK, Core, NothingLost, Accounted, SameLink, SameRefill
<1>2. Thrifty(u)
  BY DEF SessionOK, Core, Thrifty, Waiting, SameRefill
<1>3. Core(u)
  BY <1>1, <1>2 DEF SessionOK, Core, SameLink, SameRefill
<1>4. Timed(u)
  BY TimedSame DEF SessionOK, SameRefill
<1> QED BY <1>3, <1>4 DEF SessionOK

LEMMA OlderKeeps ==
  ASSUME NEW s, SessionOK(s), NEW o \in Olders \cup {NoWindow}
  PROVE  SessionOK([s EXCEPT !.older = o]) /\ [s EXCEPT !.older = o].older = o
<1> DEFINE u == [s EXCEPT !.older = o]
<1>0. s \in ClientSessions
  BY DEF SessionOK, Core
<1>1. u \in ClientSessions
  BY <1>0 DEF ClientSessions
<1>2. u.older = o /\ u.drawn = s.drawn /\ u.lost = s.lost
  BY <1>0 DEF ClientSessions
<1>3. SameLink(s, u)
  BY <1>0 DEF ClientSessions, SameLink
<1>4. SameRefill(s, u)
  BY <1>0 DEF ClientSessions, SameRefill
<1> HIDE DEF u
<1>5. SessionOK(u)
  BY <1>1, <1>2, <1>3, <1>4, SessionSame
<1> QED BY <1>2, <1>5 DEF u

LEMMA VerifyKeeps ==
  ASSUME NEW s, SessionOK(s), NEW n \in Lines \cup {0}
  PROVE  SessionOK(VerifyAndDraw(s, n))
<1>0. s \in ClientSessions
  BY DEF SessionOK, Core
<1>1. CASE s.older # NoWindow
  <2>1. VerifyAndDraw(s, n) = Draw(s, n)
    BY <1>1 DEF VerifyAndDraw
  <2> QED BY <2>1, DrawKeeps
<1>2. CASE s.older = NoWindow /\ s.inRecover = TRUE /\ OfRefill(s, n)
  <2>1. VerifyAndDraw(s, n) = Refill(s, n)
    BY <1>2 DEF VerifyAndDraw
  <2> QED BY <1>2, <2>1, RefillKeeps DEF OfRefill
<1>3. CASE s.older = NoWindow /\ s.inRecover = TRUE /\ ~OfRefill(s, n)
  <2> DEFINE u == [s EXCEPT !.inRecover = FALSE]
  <2>1. u \in ClientSessions
    BY <1>0 DEF ClientSessions
  <2>2. u.drawn = s.drawn /\ u.lost = s.lost
    BY <1>0 DEF ClientSessions
  <2>3. SameLink(s, u)
    BY <1>0 DEF ClientSessions, SameLink
  <2>4. SameRefill(s, u)
    BY <1>0 DEF ClientSessions, SameRefill
  <2>5. VerifyAndDraw(s, n) = Draw(CheckChainLink(u, n), n)
    BY <1>3 DEF VerifyAndDraw
  <2> HIDE DEF u
  <2>6. SessionOK(u)
    BY <2>1, <2>2, <2>3, <2>4, SessionSame
  <2> QED BY <2>5, <2>6, LinkKeeps
<1>4. CASE s.older = NoWindow /\ s.inRecover = FALSE
  <2>1. VerifyAndDraw(s, n) = Draw(CheckChainLink(s, n), n)
    BY <1>4 DEF VerifyAndDraw
  <2> QED BY <2>1, LinkKeeps
<1>5. s.inRecover \in BOOLEAN
  BY <1>0 DEF ClientSessions
<1> QED BY <1>1, <1>2, <1>3, <1>4, <1>5

LEMMA PastOlderKeeps ==
  ASSUME NEW s, SessionOK(s), NEW n \in Lines \cup {0}
  PROVE  SessionOK([VerifyAndDraw([s EXCEPT !.older = NoWindow], n) EXCEPT !.older = s.older])
<1>1. SessionOK([s EXCEPT !.older = NoWindow])
  BY OlderKeeps
<1>2. SessionOK(VerifyAndDraw([s EXCEPT !.older = NoWindow], n))
  BY <1>1, VerifyKeeps
<1>3. s.older \in Olders \cup {NoWindow}
  BY DEF SessionOK, Core, ClientSessions
<1> QED BY <1>2, <1>3, OlderKeeps

LEMMA HeldKeeps ==
  ASSUME NEW s, SessionOK(s), NEW q \in Seq(Lines \cup {0})
  PROVE  SessionOK([s EXCEPT !.held = q])
<1> DEFINE u == [s EXCEPT !.held = q]
<1>0. s \in ClientSessions
  BY DEF SessionOK, Core
<1>1. u \in ClientSessions
  BY <1>0 DEF ClientSessions
<1>2. u.drawn = s.drawn /\ u.lost = s.lost
  BY <1>0 DEF ClientSessions
<1>3. SameLink(s, u)
  BY <1>0 DEF ClientSessions, SameLink
<1>4. SameRefill(s, u)
  BY <1>0 DEF ClientSessions, SameRefill
<1> HIDE DEF u
<1>5. SessionOK(u)
  BY <1>1, <1>2, <1>3, <1>4, SessionSame
<1> QED BY <1>5 DEF u

LEMMA OutKeeps ==
  ASSUME NEW s, SessionOK(s), NEW q \in Seq(Requests)
  PROVE  SessionOK([s EXCEPT !.out = q]) /\ [s EXCEPT !.out = q].out = q
<1> DEFINE u == [s EXCEPT !.out = q]
<1>0. s \in ClientSessions
  BY DEF SessionOK, Core
<1>1. u \in ClientSessions
  BY <1>0 DEF ClientSessions
<1>2. u.drawn = s.drawn /\ u.lost = s.lost /\ u.out = q
  BY <1>0 DEF ClientSessions
<1>3. SameLink(s, u)
  BY <1>0 DEF ClientSessions, SameLink
<1>4. SameRefill(s, u)
  BY <1>0 DEF ClientSessions, SameRefill
<1> HIDE DEF u
<1>5. SessionOK(u)
  BY <1>1, <1>2, <1>3, <1>4, SessionSame
<1> QED BY <1>2, <1>5 DEF u

LEMMA ReleaseKeeps ==
  ASSUME NEW s, SessionOK(s)
  PROVE  SessionOK(Release(s))
<1> DEFINE u == Release(s)
<1>0. s \in ClientSessions
  BY DEF SessionOK, Core
<1>1. u \in ClientSessions
  BY <1>0 DEF ClientSessions, Release
<1>2. u.drawn = s.drawn /\ u.lost = s.lost
  BY <1>0 DEF ClientSessions, Release
<1>3. SameLink(s, u)
  BY <1>0 DEF ClientSessions, SameLink, Release
<1>4. SameRefill(s, u)
  BY <1>0 DEF ClientSessions, SameRefill, Release
<1> HIDE DEF u
<1>5. SessionOK(u)
  BY <1>1, <1>2, <1>3, <1>4, SessionSame
<1> QED BY <1>5 DEF u

LEMMA PumpKeeps ==
  ASSUME NEW s, SessionOK(s), NEW n \in Lines \cup {0}
  PROVE  SessionOK(PumpLine(s, n))
<1>1. CASE s.load = "on" /\ ~OfLoad(s, n)
  <2>1. s.held \in Seq(Lines \cup {0})
    BY DEF SessionOK, Core, ClientSessions
  <2>2. Append(s.held, n) \in Seq(Lines \cup {0})
    BY <2>1
  <2>3. SessionOK([s EXCEPT !.held = Append(s.held, n)])
    BY <2>2, HeldKeeps
  <2>4. PumpLine(s, n) = [s EXCEPT !.held = Append(s.held, n)]
    BY <1>1 DEF PumpLine
  <2> QED BY <2>3, <2>4
<1>2. CASE ~(s.load = "on" /\ ~OfLoad(s, n)) /\ s.older # NoWindow /\ ~OfOlder(s, n)
  <2>1. PumpLine(s, n) = [VerifyAndDraw([s EXCEPT !.older = NoWindow], n) EXCEPT !.older = s.older]
    BY <1>2 DEF PumpLine
  <2> QED BY <2>1, PastOlderKeeps
<1>3. CASE ~(s.load = "on" /\ ~OfLoad(s, n)) /\ ~(s.older # NoWindow /\ ~OfOlder(s, n))
  <2>1. PumpLine(s, n) = VerifyAndDraw(s, n)
    BY <1>3 DEF PumpLine
  <2> QED BY <2>1, VerifyKeeps
<1> QED BY <1>1, <1>2, <1>3

LEMMA SendLoadKeeps ==
  ASSUME NEW s, SessionOK(s), NEW after \in Nat
  PROVE  SessionOK(SendLoadPage(s, after))
<1> DEFINE r == [t |-> "after", at |-> after]
<1>1. r \in Requests
  BY DEF Requests
<1>2. s.out \in Seq(Requests)
  BY DEF SessionOK, Core, ClientSessions
<1> HIDE DEF r
<1>3. Append(s.out, r) \in Seq(Requests)
  BY <1>1, <1>2
<1>4. SendLoadPage(s, after) = [s EXCEPT !.out = Append(s.out, r)]
  BY DEF SendLoadPage, r
<1> QED BY <1>3, <1>4, OutKeeps

LEMMA InfoKeeps ==
  ASSUME NEW s, SessionOK(s), NEW max \in 0 .. Len(Log)
  PROVE  SessionOK(HandleHistoryInfo(s, max))
<1> DEFINE after == IF max >= Target THEN max - Target ELSE 0
           u == [s EXCEPT !.load = "on", !.loaded = 0, !.retried = 0, !.held = <<>>,
                          !.max = max, !.start = after + 1, !.hold = TRUE]
<1>0. s \in ClientSessions /\ Core(s) /\ Timed(s)
  BY DEF SessionOK, Core
<1>1. CASE s.load = "on"
  <2>1. HandleHistoryInfo(s, max) = s
    BY <1>1 DEF HandleHistoryInfo
  <2> QED BY <2>1
<1>2. CASE s.load # "on"
  <2>1. after \in Nat /\ after + 1 \in 0 .. Len(Log) + 1
    BY SyncConstants
  <2>2. HandleHistoryInfo(s, max) = SendLoadPage(u, after)
    BY <1>2 DEF HandleHistoryInfo
  <2> HIDE DEF after
  <2>3. u \in ClientSessions
    <3>1. <<>> \in Seq(Lines \cup {0}) /\ 0 \in 0 .. Retries /\ 0 \in Nat
      BY SyncConstants
    <3> QED BY <1>0, <2>1, <3>1 DEF ClientSessions
  <2>4. u.load = "on" /\ u.loaded = 0 /\ u.tip = s.tip
    BY <1>0 DEF ClientSessions
  <2>5. SameRefill(s, u)
    BY <1>0 DEF ClientSessions, SameRefill
  <2> HIDE DEF u
  <2>6. s.tip >= 0
    BY <1>0, HeightsAre DEF ClientSessions
  <2>7. Core(u)
    <3>1. NothingLost(u)
      BY <2>4 DEF NothingLost
    <3>2. Thrifty(u)
      BY <1>0, <2>5 DEF Core, Thrifty, Waiting, SameRefill
    <3> QED BY <1>0, <2>3, <2>4, <2>5, <2>6, <3>1, <3>2 DEF Core, SameRefill
  <2>8. Timed(u)
    BY <1>0, <2>5, TimedSame DEF SameRefill
  <2> QED BY <2>1, <2>2, <2>7, <2>8, SendLoadKeeps DEF SessionOK
<1> QED BY <1>1, <1>2

LEMMA FinishLoadKeeps ==
  ASSUME NEW s, SessionOK(s)
  PROVE  SessionOK(FinishLoad(s))
<1> DEFINE u == FinishLoad(s)
<1>0. s \in ClientSessions /\ Core(s) /\ Timed(s)
  BY DEF SessionOK, Core
<1>t. s.tip \in Heights \cup {0}
  BY <1>0 DEF ClientSessions
<1>1. u \in ClientSessions
  BY <1>0, <1>t DEF ClientSessions, FinishLoad
<1>2. u.tip = s.tip /\ u.base = s.tip /\ u.loaded = s.loaded
  BY <1>0 DEF ClientSessions, FinishLoad
<1>3. SameRefill(s, u)
  BY <1>0 DEF ClientSessions, FinishLoad, SameRefill
<1> HIDE DEF u
<1>4. NothingLost(u)
  <2>1. \A n \in Lines : Height(n) \in Nat
    BY HeightsAre, HeightTyped
  <2>2. u.base \in Nat /\ u.tip = u.base
    BY <1>2, <1>t, HeightsAre
  <2> QED BY <2>1, <2>2 DEF NothingLost
<1>5. Thrifty(u)
  BY <1>0, <1>3 DEF Core, Thrifty, Waiting, SameRefill
<1>6. Core(u)
  BY <1>0, <1>1, <1>2, <1>3, <1>4, <1>5 DEF Core, SameRefill
<1>7. Timed(u)
  BY <1>0, <1>3, TimedSame DEF SameRefill
<1> QED BY <1>6, <1>7 DEF SessionOK, u

LEMMA RetriedKeeps ==
  ASSUME NEW s, SessionOK(s), NEW k \in 0 .. Retries
  PROVE  SessionOK([s EXCEPT !.retried = k])
<1> DEFINE u == [s EXCEPT !.retried = k]
<1>0. s \in ClientSessions
  BY DEF SessionOK, Core
<1>1. u \in ClientSessions
  BY <1>0 DEF ClientSessions
<1>2. u.drawn = s.drawn /\ u.lost = s.lost
  BY <1>0 DEF ClientSessions
<1>3. SameLink(s, u)
  BY <1>0 DEF ClientSessions, SameLink
<1>4. SameRefill(s, u)
  BY <1>0 DEF ClientSessions, SameRefill
<1> HIDE DEF u
<1>5. SessionOK(u)
  BY <1>1, <1>2, <1>3, <1>4, SessionSame
<1> QED BY <1>5 DEF u

Trailers == [t : {"sync"}, dir : {"after", "recover", ""}, first : Nat, next : Nat,
             more : BOOLEAN, total : Nat, dropped : Nat]

LEMMA LoadPageKeeps ==
  ASSUME NEW s, SessionOK(s), NEW f \in Trailers
  PROVE  SessionOK(OnLoadPage(s, f))
<1>0. f.first \in Nat /\ f.next \in Nat /\ s.retried \in 0 .. Retries
  BY DEF Trailers, SessionOK, Core, ClientSessions
<1>1. CASE f.dropped > 0 /\ s.retried < Retries
  <2> DEFINE after == IF f.first > 0 THEN f.first - 1 ELSE 0
  <2>1. after \in Nat
    BY <1>0
  <2>2. s.retried + 1 \in 0 .. Retries
    BY <1>0, <1>1, SyncConstants
  <2>3. OnLoadPage(s, f) = SendLoadPage([s EXCEPT !.retried = s.retried + 1], after)
    BY <1>1 DEF OnLoadPage
  <2> HIDE DEF after
  <2> QED BY <2>1, <2>2, <2>3, RetriedKeeps, SendLoadKeeps
<1>2. CASE ~(f.dropped > 0 /\ s.retried < Retries)
  <2> DEFINE u == [s EXCEPT !.retried = 0]
  <2>1. 0 \in 0 .. Retries
    BY SyncConstants
  <2>2. SessionOK(u)
    BY <2>1, RetriedKeeps
  <2>3. OnLoadPage(s, f) = IF f.more /\ s.loaded < Target /\ f.next < s.max
                           THEN SendLoadPage(u, f.next) ELSE FinishLoad(u)
    BY <1>2 DEF OnLoadPage
  <2> HIDE DEF u
  <2>4. SessionOK(SendLoadPage(u, f.next)) /\ SessionOK(FinishLoad(u))
    BY <1>0, <2>2, SendLoadKeeps, FinishLoadKeeps
  <2> QED BY <2>3, <2>4
<1> QED BY <1>1, <1>2

LEMMA SyncKeeps ==
  ASSUME NEW s, SessionOK(s), NEW f \in Trailers
  PROVE  SessionOK(HandleHistorySync(s, f))
<1>0. s \in ClientSessions /\ Core(s) /\ Timed(s)
  BY DEF SessionOK, Core
<1>1. CASE s.load = "on" /\ f.dir = "after"
  <2>1. HandleHistorySync(s, f) = OnLoadPage(s, f)
    BY <1>1 DEF HandleHistorySync
  <2> QED BY <2>1, LoadPageKeeps
<1>2. CASE ~(s.load = "on" /\ f.dir = "after") /\ s.older # NoWindow
  <2> DEFINE u == [s EXCEPT !.older = NoWindow, !.exhausted = @ \/ f.total = 0]
  <2>1. HandleHistorySync(s, f) = IF u.pend # NoWindow THEN FinishRecovery(u) ELSE u
    BY <1>2 DEF HandleHistorySync
  <2>2. u \in ClientSessions
    BY <1>0 DEF ClientSessions
  <2>3. u.drawn = s.drawn /\ u.lost = s.lost
    BY <1>0 DEF ClientSessions
  <2>4. SameLink(s, u)
    BY <1>0 DEF ClientSessions, SameLink
  <2>5. SameRefill(s, u)
    BY <1>0 DEF ClientSessions, SameRefill
  <2> HIDE DEF u
  <2>6. SessionOK(u)
    BY <2>2, <2>3, <2>4, <2>5, SessionSame
  <2>7. SessionOK(FinishRecovery(u))
    BY <2>6, FinishKeeps DEF SessionOK, Timed
  <2> QED BY <2>1, <2>6, <2>7
<1>3. CASE ~(s.load = "on" /\ f.dir = "after") /\ s.older = NoWindow
           /\ (s.inRecover \/ s.pend # NoWindow \/ f.dir = "recover")
  <2> DEFINE u == [s EXCEPT !.inRecover = FALSE]
  <2>1. HandleHistorySync(s, f) = FinishRecovery(u)
    BY <1>3 DEF HandleHistorySync
  <2>2. u \in ClientSessions
    BY <1>0 DEF ClientSessions
  <2>3. u.drawn = s.drawn /\ u.lost = s.lost
    BY <1>0 DEF ClientSessions
  <2>4. SameLink(s, u)
    BY <1>0 DEF ClientSessions, SameLink
  <2>5. SameRefill(s, u)
    BY <1>0 DEF ClientSessions, SameRefill
  <2> HIDE DEF u
  <2>6. SessionOK(u)
    BY <2>2, <2>3, <2>4, <2>5, SessionSame
  <2> QED BY <2>1, <2>6, FinishKeeps DEF SessionOK, Timed
<1>4. CASE ~(s.load = "on" /\ f.dir = "after") /\ s.older = NoWindow
           /\ ~(s.inRecover \/ s.pend # NoWindow \/ f.dir = "recover")
  <2>1. HandleHistorySync(s, f) = s
    BY <1>4 DEF HandleHistorySync
  <2> QED BY <2>1
<1> QED BY <1>1, <1>2, <1>3, <1>4

-----------------------------------------------------------------------------
(* The server's pages.                                                     *)

(* Induction over the lines: a set of numbers has a least one.             *)
Less == {ss \in Nat \X Nat : ss[1] < ss[2]}

LEMMA LessIsWellFounded == IsWellFoundedOn(Less, Nat)
<1>1. OpToRel(<, Nat) = Less
  BY Zenon DEF OpToRel, Less
<1> QED BY <1>1, NatLessThanWellFounded, Zenon

LEMMA LeastNumber == \A T \in SUBSET Nat : T # {} => \E m \in T : \A k \in T : m <= k
<1> SUFFICES ASSUME NEW T \in SUBSET Nat, T # {} PROVE \E m \in T : \A k \in T : m <= k
  OBVIOUS
<1>1. \E x \in T : \A y \in T : ~(<<y, x>> \in Less)
  BY LessIsWellFounded, WFMin, Zenon
<1>2. PICK m \in T : \A y \in T : ~(<<y, m>> \in Less)
  BY <1>1
<1>3. \A a, b \in Nat : a < b => <<a, b>> \in Less
  BY DEF Less
<1> HIDE DEF Less
<1>4. \A k \in T : ~(k < m)
  BY <1>2, <1>3
<1>5. \A k \in T : m <= k
  BY <1>4
<1> QED BY <1>5

(* A page in the order of its lines, line by line.                         *)
UpTo(S) == CHOOSE f : f = [n \in 0 .. stored |->
             IF n = 0 THEN <<>> ELSE IF n \in S THEN Append(f[n - 1], n) ELSE f[n - 1]]

IsUpTo(f, S, k) == f = [n \in 0 .. k |->
             IF n = 0 THEN <<>> ELSE IF n \in S THEN Append(f[n - 1], n) ELSE f[n - 1]]

LEMMA UpToExists == \A S : \A k \in Nat : \E f : IsUpTo(f, S, k)
<1> SUFFICES ASSUME NEW S PROVE \A k \in Nat : \E f : IsUpTo(f, S, k)
  OBVIOUS
<1> DEFINE T == {k \in Nat : ~\E f : IsUpTo(f, S, k)}
           Step(x, n) == IF n \in S THEN Append(x, n) ELSE x
<1> SUFFICES ASSUME T # {} PROVE FALSE
  OBVIOUS
<1>1. PICK m \in T : \A k \in T : m <= k
  BY LeastNumber
<1>2. m \in Nat /\ ~\E f : IsUpTo(f, S, m)
  BY <1>1
<1>3. CASE m = 0
  <2>1. IsUpTo([i \in 0 .. 0 |-> <<>>], S, 0)
    BY DEF IsUpTo
  <2> QED BY <1>2, <1>3, <2>1
<1>4. CASE m # 0
  <2>1. m - 1 \in Nat /\ m - 1 \notin T
    BY <1>1, <1>2, <1>4
  <2>2. PICK f : IsUpTo(f, S, m - 1)
    BY <2>1
  <2> DEFINE g == [i \in 0 .. m |-> IF i = m THEN Step(f[m - 1], m) ELSE f[i]]
  <2>f. \A i \in 0 .. (m - 1) : f[i] = IF i = 0 THEN <<>> ELSE Step(f[i - 1], i)
    BY <2>2 DEF IsUpTo
  <2> HIDE DEF Step
  <2>3. \A i \in 0 .. m : g[i] = IF i = 0 THEN <<>> ELSE Step(g[i - 1], i)
    <3> SUFFICES ASSUME NEW i \in 0 .. m PROVE g[i] = IF i = 0 THEN <<>> ELSE Step(g[i - 1], i)
      OBVIOUS
    <3>1. CASE i = m
      BY <1>2, <1>4, <3>1
    <3>2. CASE i # m
      <4>1. i \in 0 .. (m - 1) /\ (i # 0 => i - 1 \in 0 .. m /\ i - 1 # m)
        BY <1>2, <3>2
      <4>2. f[i] = IF i = 0 THEN <<>> ELSE Step(f[i - 1], i)
        BY <2>f, <4>1
      <4> QED BY <3>2, <4>1, <4>2
    <3> QED BY <3>1, <3>2
  <2>4. g = [i \in 0 .. m |-> IF i = 0 THEN <<>> ELSE Step(g[i - 1], i)]
    BY <2>3
  <2> HIDE DEF g
  <2>5. IsUpTo(g, S, m)
    BY <2>4 DEF IsUpTo, Step
  <2> QED BY <1>2, <2>5
<1> QED BY <1>3, <1>4

LEMMA InOrderTyped ==
  ASSUME stored \in Nat, NEW S
  PROVE  InOrder(S) \in Seq(1 .. stored)
<1> DEFINE f == UpTo(S)
           T == {n \in 0 .. stored : f[n] \notin Seq(1 .. stored)}
<1>1. \E g : IsUpTo(g, S, stored)
  BY UpToExists
<1>2. IsUpTo(f, S, stored)
  BY <1>1, Zenon DEF UpTo, IsUpTo
<1>3. InOrder(S) = f[stored]
  BY DEF InOrder, UpTo
<1> HIDE DEF f
<1>4. \A n \in 0 .. stored : f[n] = IF n = 0 THEN <<>> ELSE IF n \in S THEN Append(f[n - 1], n) ELSE f[n - 1]
  BY <1>2 DEF IsUpTo
<1>5. T = {}
  <2> SUFFICES ASSUME T # {} PROVE FALSE
    OBVIOUS
  <2>1. T \in SUBSET Nat
    OBVIOUS
  <2>2. PICK n \in T : \A k \in T : n <= k
    BY <2>1, LeastNumber
  <2>3. n \in 0 .. stored /\ f[n] \notin Seq(1 .. stored)
    BY <2>2
  <2>4. n # 0
    <3>1. f[0] = <<>>
      BY <1>4
    <3>2. <<>> \in Seq(1 .. stored)
      OBVIOUS
    <3> QED BY <2>3, <3>1, <3>2
  <2>5. n - 1 \in 0 .. stored /\ n \in 1 .. stored
    BY <2>3, <2>4
  <2>6. f[n - 1] \in Seq(1 .. stored)
    BY <2>2, <2>3, <2>5
  <2>7. Append(f[n - 1], n) \in Seq(1 .. stored)
    BY <2>5, <2>6
  <2> QED BY <1>4, <2>3, <2>4, <2>6, <2>7
<1> QED BY <1>3, <1>5

Frames == [t : {"line"}, n : Lines \cup {0}] \cup [t : {"info"}, max : 0 .. Len(Log)] \cup Trailers

(* What a page is.                                                         *)
LEMMA CollectIs ==
  ASSUME stored \in AtJoin .. Len(Log), NEW req \in Requests
  PROVE  /\ Collect(req).lines \in SUBSET (1 .. stored)
         /\ Collect(req).dir \in {"after", "recover", ""}
         /\ Collect(req).more \in BOOLEAN /\ Collect(req).next \in Nat
<1>0. stored \in Nat /\ IsFiniteSet(1 .. stored)
  BY SyncConstants, FS_Interval
<1>1. CASE req.t = "after" /\ req.at \in Nat
  <2> DEFINE S == {n \in Stored : n > req.at}
             pg == FirstOf(S, Batch)
  <2>1. Collect(req) = [lines |-> pg, dir |-> "after", more |-> (pg # S),
                        next |-> IF pg # S THEN Cardinality(pg) + req.at ELSE 0]
    BY <1>1 DEF Collect, CollectAfter
  <2>2. pg \in SUBSET (1 .. stored)
    BY DEF FirstOf, Stored
  <2>3. Cardinality(pg) \in Nat
    BY <1>0, <2>2, FS_Subset, FS_CardinalityType
  <2> HIDE DEF pg, S
  <2>4. (pg # S) \in BOOLEAN
    OBVIOUS
  <2> QED BY <1>1, <2>1, <2>2, <2>3, <2>4
<1>2. CASE req.t = "ranges"
  BY <1>2 DEF Collect, CollectRanges, Stored
<1>3. CASE req.t = "before"
  <2>1. CollectSegment(req.at).lines \in SUBSET (1 .. stored)
    BY DEF CollectSegment, LastOf, Stored
  <2>2. Collect(req) = CollectSegment(req.at)
    BY <1>3 DEF Collect
  <2>3. CollectSegment(req.at).more = FALSE
    BY DEF CollectSegment
  <2>4. CollectSegment(req.at).next = 0
    BY DEF CollectSegment
  <2>5. CollectSegment(req.at).dir = ""
    BY DEF CollectSegment
  <2>6. Collect(req).more \in BOOLEAN
    BY <2>2, <2>3
  <2>7. Collect(req).next \in Nat
    BY <2>2, <2>4
  <2>8. Collect(req).dir \in {"after", "recover", ""}
    BY <2>2, <2>5
  <2> QED BY <2>1, <2>2, <2>6, <2>7, <2>8
<1> QED BY <1>1, <1>2, <1>3 DEF Requests

LEMMA LeastIs ==
  ASSUME NEW S \in SUBSET Lines, S # {}
  PROVE  Least(S) \in S
<1>1. S \in SUBSET Nat
  BY SyncConstants DEF Lines
<1>2. \E x \in S : \A y \in S : x <= y
  BY <1>1, LeastNumber
<1> QED BY <1>2 DEF Least

LEMMA PageTyped ==
  ASSUME stored \in AtJoin .. Len(Log), NEW req \in Requests,
         NEW sent \in SUBSET Collect(req).lines
  PROVE  /\ ReplayPage(Collect(req), sent) \in Seq(Frames)
         /\ Len(ReplayPage(Collect(req), sent)) > 0
<1> DEFINE pg == Collect(req)
           q == InOrder(sent)
           first == IF pg.lines = {} THEN 0 ELSE Least(pg.lines)
           head == [i \in 1 .. Len(q) |-> Line(q[i])]
           last == [t |-> "sync", dir |-> pg.dir, first |-> first, next |-> pg.next,
                    more |-> pg.more, total |-> Cardinality(pg.lines),
                    dropped |-> Cardinality(pg.lines \ sent)]
<1>0. stored \in Nat /\ 1 .. stored \subseteq Lines
  BY SyncConstants DEF Lines
<1>1. /\ pg.lines \in SUBSET (1 .. stored) /\ pg.dir \in {"after", "recover", ""}
      /\ pg.more \in BOOLEAN /\ pg.next \in Nat
  BY CollectIs
<1>2. q \in Seq(1 .. stored)
  BY <1>0, InOrderTyped
<1>3. ReplayPage(pg, sent) = head \o <<last>>
  BY DEF ReplayPage
<1> HIDE DEF pg, q
<1>4. first \in Nat
  <2>1. CASE pg.lines = {}
    BY <2>1
  <2>2. CASE pg.lines # {}
    <3>1. Least(pg.lines) \in 1 .. stored
      BY <1>0, <1>1, <2>2, LeastIs
    <3> QED BY <1>0, <2>2, <3>1
  <2> QED BY <2>1, <2>2
<1>5. Cardinality(pg.lines) \in Nat /\ Cardinality(pg.lines \ sent) \in Nat
  <2>1. IsFiniteSet(1 .. stored)
    BY <1>0, FS_Interval
  <2>2. IsFiniteSet(pg.lines) /\ IsFiniteSet(pg.lines \ sent)
    BY <1>1, <2>1, FS_Subset
  <2> QED BY <2>2, FS_CardinalityType
<1> HIDE DEF first
<1>6. last \in Trailers
  BY <1>1, <1>4, <1>5 DEF Trailers
<1>7. head \in Seq(Frames)
  <2>1. Len(q) \in Nat /\ \A i \in 1 .. Len(q) : q[i] \in Lines
    BY <1>0, <1>2
  <2>2. \A i \in 1 .. Len(q) : Line(q[i]) \in Frames
    BY <2>1 DEF Line, Frames
  <2> QED BY <2>1, <2>2
<1> HIDE DEF head, last
<1>8. <<last>> \in Seq(Frames) /\ Len(<<last>>) = 1
  BY <1>6 DEF Frames
<1>9. head \o <<last>> \in Seq(Frames) /\ Len(head \o <<last>>) = Len(head) + 1 /\ Len(head) \in Nat
  BY <1>7, <1>8
<1> QED BY <1>3, <1>9 DEF pg

-----------------------------------------------------------------------------
(* The whole system.                                                       *)
SyncInv ==
  /\ stored \in AtJoin .. Len(Log) /\ faults \in 0 .. MaxFaults /\ asked \in 0 .. MaxOlder
  /\ down \in Seq(Frames) /\ up \in Seq(Requests)
  /\ SessionOK(sess) /\ sess.out = <<>>

LEMMA BecomesKeeps ==
  ASSUME NEW s, SessionOK(s), up \in Seq(Requests), Becomes(s)
  PROVE  SessionOK(sess') /\ sess'.out = <<>> /\ up' \in Seq(Requests)
<1>1. s.out \in Seq(Requests)
  BY DEF SessionOK, Core, ClientSessions
<1>2. up' \in Seq(Requests)
  BY <1>1 DEF Becomes
<1>3. <<>> \in Seq(Requests)
  OBVIOUS
<1>4. sess' = [s EXCEPT !.out = <<>>]
  BY DEF Becomes
<1> QED BY <1>2, <1>3, <1>4, OutKeeps

LEMMA SyncInitOK == SyncInit => SyncInv
<1> SUFFICES ASSUME SyncInit PROVE SyncInv
  OBVIOUS
<1>1. stored = AtJoin /\ faults = 0 /\ asked = 0 /\ up = <<>>
  BY DEF SyncInit
<1>2. down \in Seq(Frames)
  <2>1. [t |-> "info", max |-> AtJoin] \in Frames
    BY SyncConstants DEF Frames
  <2>2. down = <<[t |-> "info", max |-> AtJoin]>>
    BY DEF SyncInit
  <2> QED BY <2>1, <2>2
<1>3. sess \in ClientSessions
  <2>1. <<>> \in Seq(Lines \cup {0}) /\ <<>> \in Seq(Requests)
    OBVIOUS
  <2>2. 0 \in 0 .. Retries /\ 0 \in 0 .. Len(Log) /\ 0 \in 0 .. Len(Log) + 1
    BY SyncConstants
  <2> QED BY <2>1, <2>2 DEF SyncInit, ClientSessions
<1>4. /\ sess.tip = 0 /\ sess.base = 0 /\ sess.loaded = 0 /\ sess.pend = NoWindow
      /\ sess.timer = "none" /\ sess.recovered = 0 /\ sess.out = <<>>
  BY DEF SyncInit
<1>5. NothingLost(sess)
  <2>1. \A n \in Lines : Height(n) \in Nat
    BY HeightsAre, HeightTyped
  <2> QED BY <1>4, <2>1 DEF NothingLost
<1>6. Thrifty(sess)
  BY <1>4, SyncConstants DEF Thrifty, Waiting
<1>7. Core(sess) /\ Timed(sess)
  BY <1>3, <1>4, <1>5, <1>6 DEF Core, Timed
<1> QED BY <1>1, <1>2, <1>4, <1>7, SyncConstants DEF SyncInv, SessionOK

(* The client's steps: the session stays as it should be.                  *)
LEMMA ReceiveKeeps == SyncInv /\ Receive => SyncInv'
<1> SUFFICES ASSUME SyncInv, Receive PROVE SyncInv'
  OBVIOUS
<1> DEFINE f == Head(down)
           s == CASE f.t = "line" -> PumpLine(sess, f.n)
                  [] f.t = "info" -> HandleHistoryInfo(sess, f.max)
                  [] f.t = "sync" -> HandleHistorySync(sess, f)
<1>0. SessionOK(sess) /\ down \in Seq(Frames) /\ down # <<>> /\ up \in Seq(Requests)
  BY DEF SyncInv, Receive
<1>1. f \in Frames /\ Tail(down) \in Seq(Frames)
  BY <1>0
<1>2. Becomes(s) /\ down' = Tail(down) /\ UNCHANGED <<stored, faults, asked>>
  BY DEF Receive
<1> HIDE DEF f
<1>3. SessionOK(s)
  <2>1. CASE f \in [t : {"line"}, n : Lines \cup {0}]
    <3>1. f.t = "line" /\ f.n \in Lines \cup {0}
      BY <2>1
    <3>2. s = PumpLine(sess, f.n)
      BY <3>1
    <3> QED BY <1>0, <3>1, <3>2, PumpKeeps
  <2>2. CASE f \in [t : {"info"}, max : 0 .. Len(Log)]
    <3>1. f.t = "info" /\ f.max \in 0 .. Len(Log)
      BY <2>2
    <3>2. s = HandleHistoryInfo(sess, f.max)
      BY <3>1
    <3> QED BY <1>0, <3>1, <3>2, InfoKeeps
  <2>3. CASE f \in Trailers
    <3>1. f.t = "sync"
      BY <2>3 DEF Trailers
    <3>2. s = HandleHistorySync(sess, f)
      BY <3>1
    <3> QED BY <1>0, <2>3, <3>2, SyncKeeps
  <2> QED BY <1>1, <2>1, <2>2, <2>3 DEF Frames
<1> HIDE DEF s
<1>4. SessionOK(sess') /\ sess'.out = <<>> /\ up' \in Seq(Requests)
  BY <1>0, <1>2, <1>3, BecomesKeeps
<1> QED BY <1>1, <1>2, <1>4 DEF SyncInv

(* A step that only takes the session to s.                                *)
LEMMA ClientKeeps ==
  ASSUME SyncInv, NEW s, SessionOK(s), Becomes(s), UNCHANGED <<stored, down, faults>>,
         asked' \in 0 .. MaxOlder
  PROVE  SyncInv'
<1>1. SessionOK(sess') /\ sess'.out = <<>> /\ up' \in Seq(Requests)
  BY BecomesKeeps DEF SyncInv
<1> QED BY <1>1 DEF SyncInv

LEMMA FlushKeeps == SyncInv /\ Flush => SyncInv'
<1> SUFFICES ASSUME SyncInv, Flush PROVE SyncInv'
  OBVIOUS
<1> DEFINE n == Head(sess.held)
           y == VerifyAndDraw([sess EXCEPT !.older = NoWindow], n)
           s == [y EXCEPT !.older = sess.older, !.held = Tail(sess.held)]
<1>0. SessionOK(sess) /\ asked \in 0 .. MaxOlder
  BY DEF SyncInv
<1>1. sess.held \in Seq(Lines \cup {0}) /\ sess.held # <<>> /\ sess.older \in Olders \cup {NoWindow}
  BY <1>0 DEF Flush, SessionOK, Core, ClientSessions
<1>2. n \in Lines \cup {0}
  BY <1>1
<1>3. SessionOK([sess EXCEPT !.older = NoWindow])
  BY <1>0, OlderKeeps
<1>4. SessionOK(y)
  BY <1>2, <1>3, VerifyKeeps
<1>5. Becomes(s) /\ UNCHANGED <<stored, down, faults, asked>>
  BY DEF Flush
<1> HIDE DEF n, y
<1>6. Tail(sess.held) \in Seq(Lines \cup {0})
  BY <1>1
<1>7. SessionOK([y EXCEPT !.older = sess.older])
  BY <1>1, <1>4, OlderKeeps
<1>8. SessionOK([[y EXCEPT !.older = sess.older] EXCEPT !.held = Tail(sess.held)])
  BY <1>6, <1>7, HeldKeeps
<1>9. s = [[y EXCEPT !.older = sess.older] EXCEPT !.held = Tail(sess.held)]
  BY <1>4 DEF SessionOK, Core, ClientSessions
<1>10. SessionOK(s)
  BY <1>8, <1>9
<1> HIDE DEF s
<1> QED BY <1>0, <1>5, <1>10, ClientKeeps

LEMMA LoadedKeeps == SyncInv /\ Loaded => SyncInv'
<1> SUFFICES ASSUME SyncInv, Loaded PROVE SyncInv'
  OBVIOUS
<1> DEFINE u == [sess EXCEPT !.load = "off"]
<1>0. SessionOK(sess) /\ asked \in 0 .. MaxOlder /\ Core(sess) /\ Timed(sess) /\ sess \in ClientSessions
  BY DEF SyncInv, SessionOK, Core
<1>1. u \in ClientSessions
  BY <1>0 DEF ClientSessions
<1>2. /\ u.tip = sess.tip /\ u.base = sess.base /\ u.drawn = sess.drawn /\ u.lost = sess.lost
      /\ u.pend = sess.pend /\ u.recovered = sess.recovered /\ u.loaded = sess.loaded
      /\ u.timer = sess.timer
  BY <1>0 DEF ClientSessions
<1>3. sess.load # "on"
  BY DEF Loaded
<1>4. Becomes(Release(u)) /\ UNCHANGED <<stored, down, faults, asked>>
  BY DEF Loaded
<1> HIDE DEF u
<1>5. Core(u)
  BY <1>0, <1>1, <1>2, <1>3, CoreSame
<1>6. Timed(u)
  BY <1>0, <1>2, TimedSame
<1>7. SessionOK(Release(u))
  BY <1>5, <1>6, ReleaseKeeps DEF SessionOK
<1> QED BY <1>0, <1>4, <1>7, ClientKeeps

LEMMA SettleKeeps == SyncInv /\ SettleTimer => SyncInv'
<1> SUFFICES ASSUME SyncInv, SettleTimer PROVE SyncInv'
  OBVIOUS
<1> DEFINE u == [sess EXCEPT !.timer = "none"]
<1>0. SessionOK(sess) /\ asked \in 0 .. MaxOlder /\ Core(sess) /\ sess \in ClientSessions
  BY DEF SyncInv, SessionOK, Core
<1>1. u \in ClientSessions
  BY <1>0 DEF ClientSessions
<1>2. /\ u.tip = sess.tip /\ u.base = sess.base /\ u.drawn = sess.drawn /\ u.lost = sess.lost
      /\ u.pend = sess.pend /\ u.recovered = sess.recovered /\ u.loaded = sess.loaded
      /\ u.timer = "none" /\ u.load = sess.load
  BY <1>0 DEF ClientSessions
<1>3. Becomes(FinishRecovery(u)) /\ UNCHANGED <<stored, down, faults, asked>>
  BY DEF SettleTimer
<1> HIDE DEF u
<1>4. Core(u)
  <2>1. NothingLost(u)
    BY <1>0, <1>2 DEF Core, NothingLost, Accounted
  <2>2. Thrifty(u)
    BY <1>0, <1>2 DEF Core, Thrifty, Waiting
  <2> QED BY <1>0, <1>1, <1>2, <2>1, <2>2 DEF Core
<1>5. SessionOK(FinishRecovery(u))
  BY <1>2, <1>4, FinishKeeps
<1> QED BY <1>0, <1>3, <1>5, ClientKeeps

LEMMA OlderAsked == SyncInv /\ RequestOlder => SyncInv'
<1> SUFFICES ASSUME SyncInv, RequestOlder PROVE SyncInv'
  OBVIOUS
<1> DEFINE chats == {n \in sess.drawn : Height(n) # 0}
           n == Least(chats)
           o == [height |-> Height(n), seq |-> n]
           r == [t |-> "before", at |-> Height(n)]
           s == [sess EXCEPT !.older = o, !.out = Append(@, r)]
<1>0. SessionOK(sess) /\ sess \in ClientSessions /\ asked \in 0 .. MaxOlder
  BY DEF SyncInv, SessionOK, Core
<1>1. chats # {} /\ Becomes(s) /\ UNCHANGED <<stored, down, faults>> /\ asked < MaxOlder /\ asked' = asked + 1
  BY DEF RequestOlder
<1>2. chats \in SUBSET Lines
  BY <1>0 DEF ClientSessions
<1>3. n \in chats
  BY <1>1, <1>2, LeastIs
<1>4. n \in Lines /\ Height(n) \in Heights
  BY <1>2, <1>3, HeightTyped
<1> HIDE DEF n
<1>5. o \in Olders /\ r \in Requests
  BY <1>4 DEF Olders, Requests
<1> HIDE DEF o, r
<1>6. sess.out \in Seq(Requests)
  BY <1>0 DEF ClientSessions
<1>7. SessionOK([sess EXCEPT !.older = o])
  BY <1>0, <1>5, OlderKeeps
<1>8. Append(sess.out, r) \in Seq(Requests)
  BY <1>5, <1>6
<1>9. SessionOK([[sess EXCEPT !.older = o] EXCEPT !.out = Append(sess.out, r)])
  BY <1>7, <1>8, OutKeeps
<1>10. s = [[sess EXCEPT !.older = o] EXCEPT !.out = Append(sess.out, r)]
  BY <1>0 DEF ClientSessions
<1>11. SessionOK(s)
  BY <1>9, <1>10
<1>12. asked' \in 0 .. MaxOlder
  BY <1>0, <1>1, SyncConstants
<1> HIDE DEF s
<1> QED BY <1>1, <1>11, <1>12, ClientKeeps

(* The server's steps: what they send is well formed.                      *)
LEMMA ServerKeeps == SyncInv /\ (Post \/ Serve \/ Refuse) => SyncInv'
<1> SUFFICES ASSUME SyncInv, Post \/ Serve \/ Refuse PROVE SyncInv'
  OBVIOUS
<1>0. /\ stored \in AtJoin .. Len(Log) /\ faults \in 0 .. MaxFaults
      /\ down \in Seq(Frames) /\ up \in Seq(Requests)
  BY DEF SyncInv
<1>s. UNCHANGED <<sess, asked>>
  BY DEF Post, Serve, Refuse
<1>1. CASE Post
  <2>1. stored < Len(Log) /\ stored' = stored + 1 /\ UNCHANGED up
    BY <1>1 DEF Post
  <2>2. stored' \in AtJoin .. Len(Log) /\ stored + 1 \in Lines
    BY <1>0, <2>1, SyncConstants DEF Lines
  <2>3. Line(stored + 1) \in Frames
    BY <2>2 DEF Line, Frames
  <2>4. Append(down, Line(stored + 1)) \in Seq(Frames)
    BY <1>0, <2>3
  <2>5. down' \in Seq(Frames)
    BY <1>0, <1>1, <2>4 DEF Post
  <2>6. faults' \in 0 .. MaxFaults
    BY <1>0, <1>1, SyncConstants DEF Post
  <2> QED BY <1>s, <2>1, <2>2, <2>5, <2>6 DEF SyncInv
<1>2. CASE Serve
  <2> DEFINE req == Head(up)
             pg == Collect(req)
  <2>1. up # <<>> /\ up' = Tail(up) /\ UNCHANGED stored
    BY <1>2 DEF Serve
  <2>2. req \in Requests /\ Tail(up) \in Seq(Requests)
    BY <1>0, <2>1
  <2>3. PICK sent \in SUBSET pg.lines, trailer \in BOOLEAN :
          LET q == ReplayPage(pg, sent)
              loss == Cardinality(pg.lines \ sent) + (IF trailer THEN 0 ELSE 1)
          IN /\ faults + loss <= MaxFaults
             /\ faults' = faults + loss
             /\ down' = down \o (IF trailer THEN q ELSE SubSeq(q, 1, Len(q) - 1))
    BY <1>2 DEF Serve
  <2> DEFINE q == ReplayPage(pg, sent)
             k == Cardinality(pg.lines \ sent)
  <2>4. q \in Seq(Frames) /\ Len(q) > 0
    BY <1>0, <2>2, PageTyped
  <2>5. k \in Nat
    <3>1. pg.lines \in SUBSET (1 .. stored)
      BY <1>0, <2>2, CollectIs
    <3>2. IsFiniteSet(1 .. stored)
      BY <1>0, SyncConstants, FS_Interval
    <3>3. IsFiniteSet(pg.lines \ sent)
      BY <3>1, <3>2, FS_Subset
    <3> QED BY <3>3, FS_CardinalityType
  <2>6. /\ faults' = faults + k + (IF trailer THEN 0 ELSE 1) /\ faults' <= MaxFaults
        /\ down' = down \o (IF trailer THEN q ELSE SubSeq(q, 1, Len(q) - 1))
    <3>1. faults' = faults + (k + (IF trailer THEN 0 ELSE 1)) /\ faults' <= MaxFaults
          /\ down' = down \o (IF trailer THEN q ELSE SubSeq(q, 1, Len(q) - 1))
      BY <2>3
    <3> HIDE DEF k, q
    <3> QED BY <1>0, <2>5, <3>1
  <2> HIDE DEF q, k
  <2>7. faults' \in 0 .. MaxFaults
    BY <1>0, <2>5, <2>6, SyncConstants
  <2>8. SubSeq(q, 1, Len(q) - 1) \in Seq(Frames)
    BY <2>4
  <2>9. down' \in Seq(Frames)
    BY <1>0, <2>4, <2>6, <2>8
  <2> QED BY <1>0, <1>s, <2>1, <2>2, <2>7, <2>9 DEF SyncInv
<1>3. CASE Refuse
  <2>1. /\ up # <<>> /\ faults < MaxFaults /\ faults' = faults + 1 /\ up' = Tail(up)
        /\ down' = Append(down, Line(0)) /\ UNCHANGED stored
    BY <1>3 DEF Refuse
  <2>2. Line(0) \in Frames
    BY DEF Line, Frames
  <2>3. down' \in Seq(Frames) /\ up' \in Seq(Requests)
    BY <1>0, <2>1, <2>2
  <2>4. faults' \in 0 .. MaxFaults
    BY <1>0, <2>1, SyncConstants
  <2> QED BY <1>0, <1>s, <2>1, <2>3, <2>4 DEF SyncInv
<1> QED BY <1>1, <1>2, <1>3

LEMMA SyncStep == SyncInv /\ [SyncNext]_syncVars => SyncInv'
<1> SUFFICES ASSUME SyncInv, [SyncNext]_syncVars PROVE SyncInv'
  OBVIOUS
<1>0. SessionOK(sess) /\ asked \in 0 .. MaxOlder
  BY DEF SyncInv
<1>1. CASE Receive
  BY <1>1, ReceiveKeeps
<1>2. CASE Flush
  BY <1>2, FlushKeeps
<1>3. CASE Loaded
  BY <1>3, LoadedKeeps
<1>4. CASE HoldTimer
  <2>1. SessionOK(FinishLoad(sess))
    BY <1>0, FinishLoadKeeps
  <2> QED BY <1>0, <1>4, <2>1, ClientKeeps DEF HoldTimer
<1>5. CASE SettleTimer
  BY <1>5, SettleKeeps
<1>6. CASE RetryTimer
  <2> DEFINE z == [sess EXCEPT !.timer = "none"]
             s == IF CanSend(z) THEN SendRecover(z) ELSE AbandonRecovery(SendRecover(z))
  <2>1. Becomes(s) /\ UNCHANGED <<stored, down, faults, asked>> /\ sess.timer = "retry"
    BY <1>6 DEF RetryTimer
  <2>2. SessionOK(s)
    BY <1>0, <2>1, RetryFires
  <2> HIDE DEF s
  <2> QED BY <1>0, <2>1, <2>2, ClientKeeps
<1>7. CASE RequestOlder
  BY <1>7, OlderAsked
<1>8. CASE SwitchTab
  <2>1. SessionOK(Release(sess))
    BY <1>0, ReleaseKeeps
  <2> QED BY <1>0, <1>8, <2>1, ClientKeeps DEF SwitchTab
<1>9. CASE Post \/ Serve \/ Refuse
  BY <1>9, ServerKeeps
<1>10. CASE UNCHANGED syncVars
  BY <1>10 DEF SyncInv, syncVars
<1> QED BY <1>1, <1>2, <1>3, <1>4, <1>5, <1>6, <1>7, <1>8, <1>9, <1>10 DEF SyncNext

LEMMA SyncInvariant == SyncSpec => []SyncInv
  BY SyncInitOK, SyncStep, PTL DEF SyncSpec

(* checkChainLink never calls an honest server's line a forged one, however *)
(* lines are lost, repeated, refilled or paged: NoFalseTamper, for any log. *)
THEOREM NeverFalseTamper == SyncSpec => []NoFalseTamper
<1>1. SyncInv => NoFalseTamper
  BY DEF SyncInv, SessionOK, Core, ClientSessions, NoFalseTamper
<1> QED BY <1>1, SyncInvariant, PTL

(* A live line that does not arrive is drawn later, being refilled or given *)
(* up knowingly: NoSilentLoss, for any log, limits and number of faults.    *)
THEOREM NothingSilentlyLost == SyncSpec => []NoSilentLoss
<1>1. SyncInv => NoSilentLoss
  BY DEF SyncInv, SessionOK, Core, NothingLost, Accounted, NoSilentLoss
<1> QED BY <1>1, SyncInvariant, PTL

(* An open refill always has a timer and its anchors, its attempts end and *)
(* what it fetches stays within history.liveRecoverCap: RefillBounded.     *)
THEOREM RefillAlwaysBounded == SyncSpec => []RefillBounded
<1>1. SyncInv => RefillBounded
  <2> SUFFICES ASSUME SyncInv PROVE RefillBounded
    OBVIOUS
  <2>0. sess \in ClientSessions /\ Core(sess) /\ Timed(sess) /\ sess.out = <<>>
    BY DEF SyncInv, SessionOK, Core
  <2>1. SyncTypes
    <3>1. sess.loaded \in 0 .. Len(Log)
      <4>1. sess.loaded \in Nat /\ sess.tip \in Heights \cup {0} /\ sess.loaded <= sess.tip
        BY <2>0 DEF ClientSessions, Core
      <4> QED BY <4>1, HeightsAre, SyncConstants
    <3>2. /\ sess.tip \in Heights \cup {0} /\ sess.base \in Heights \cup {0}
          /\ sess.load \in {"off", "on", "flush"} /\ sess.timer \in {"none", "settle", "retry"}
          /\ sess.start \in 0 .. Len(Log) + 1 /\ sess.max \in 0 .. Len(Log)
          /\ sess.retried \in 0 .. Retries /\ sess.held \in Seq(Lines \cup {0})
          /\ sess.recovered \in Nat /\ sess.drawn \subseteq Lines /\ sess.lost \subseteq Heights
      BY <2>0 DEF ClientSessions
    <3>3. /\ sess.warned \in {FALSE} /\ sess.hold \in BOOLEAN /\ sess.inRecover \in BOOLEAN
          /\ sess.exhausted \in BOOLEAN
      BY <2>0 DEF ClientSessions
    <3>4. sess.warned \in BOOLEAN
      BY <3>3
    <3>5. (sess.older # NoWindow => sess.older \in [height : Heights, seq : Lines])
          /\ (sess.pend # NoWindow => sess.pend \in Window)
      BY <2>0 DEF ClientSessions, Olders
    <3>6. stored \in AtJoin .. Len(Log) /\ faults \in 0 .. MaxFaults /\ asked \in 0 .. MaxOlder
      BY DEF SyncInv
    <3> QED BY <2>0, <3>1, <3>2, <3>3, <3>4, <3>5, <3>6 DEF SyncTypes
  <2>2. RefillAlive
    <3> SUFFICES ASSUME sess.pend # NoWindow
                 PROVE  sess.timer # "none" /\ Orphans(sess.pend) = {}
      BY DEF RefillAlive
    <3>1. sess.pend.missing \in SUBSET Heights /\ Anchored(sess.pend)
      BY <2>0, WindowTyped DEF Core, Window
    <3>2. Orphans(sess.pend) = {}
      BY <3>1, NoOrphans
    <3> QED BY <2>0, <3>2 DEF Timed
  <2>3. BudgetHolds
    BY <2>0 DEF Core, Thrifty, Waiting, BudgetHolds
  <2> QED BY <2>1, <2>2, <2>3 DEF RefillBounded
<1> QED BY <1>1, SyncInvariant, PTL
=============================================================================
