-------------------------- MODULE AdmissionProofs --------------------------
(***************************************************************************)
(* Proofs about Admission, for any number of handshakes and any limits:    *)
(* no counter leaks, no interleaving of handshakes gets more sessions past *)
(* the re-check than the global limit, and every display name that is      *)
(* taken has one holder.  Then about Limiters, that cooldown, budget and   *)
(* ban hold across their sweeps, and about AttackState, that the flag      *)
(* follows the rejects that were noted.                                    *)
(***************************************************************************)
EXTENDS Admission, Limiters, AttackState, FiniteSetTheorems, WellFoundedInduction, TLAPS

Places == {"arrived", "count", "cap", "reserve", "upgrade", "auth", "hello",
           "registered", "recount", "recheck", "live", "evicted",
           "leaving", "left", "refused", "full"}

CountersType ==
  /\ at \in [Sessions -> Places]
  /\ ipCounts \in [IPs -> Nat]
  /\ inflight \in Nat
  /\ clients \subseteq Sessions
  /\ seen \in [Sessions -> Nat]

Holders(i) == {s \in Sessions : HoldsIP(s) /\ IPOf[s] = i}
Flight == {s \in Sessions : InFlight(s)}

AdmissionInv == CountersType /\ CountersExact /\ CapInv

LEMMA Limits ==
  /\ IsFiniteSet(Sessions) /\ MaxConnectionsPerIP \in Nat \ {0}
  /\ MaxTotalConnections \in Nat \ {0}
  /\ \A s \in Sessions : IPOf[s] \in IPs
BY AdmissionAssumption DEF IPs

(* A finite set of sessions gains or loses at most one element per step. *)
LEMMA OneMore ==
  ASSUME NEW S \in SUBSET Sessions, NEW T \in SUBSET Sessions, NEW s \in Sessions
  PROVE  /\ Cardinality(S) \in Nat
         /\ s \notin S /\ T = S \cup {s} => Cardinality(T) = Cardinality(S) + 1
         /\ s \in S /\ T = S \ {s} => Cardinality(T) = Cardinality(S) - 1
<1>1. IsFiniteSet(S)
  BY Limits, FS_Subset
<1>2. Cardinality(S) \in Nat
  BY <1>1, FS_CardinalityType
<1>3. s \notin S => Cardinality(S \cup {s}) = Cardinality(S) + 1
  BY <1>1, FS_AddElement
<1>4. s \in S => Cardinality(S \ {s}) = Cardinality(S) - 1
  BY <1>1, FS_RemoveElement
<1> QED BY <1>2, <1>3, <1>4

(* One handler moves: the count of its address follows it in and out. *)
LEMMA AddressStep ==
  ASSUME CountersType, CountersExact, NEW s \in Sessions,
         at' \in [Sessions -> Places],
         \A t \in Sessions : t # s => at'[t] = at[t],
         \/ (HoldsIP(s)' <=> HoldsIP(s)) /\ ipCounts' = ipCounts
         \/ ~HoldsIP(s) /\ HoldsIP(s)' /\ ipCounts' = [ipCounts EXCEPT ![IPOf[s]] = @ + 1]
         \/ HoldsIP(s) /\ ~HoldsIP(s)' /\ ReleaseIP(s)
  PROVE  /\ ipCounts' \in [IPs -> Nat]
         /\ \A i \in IPs : ipCounts'[i] = Cardinality(Holders(i)')
<1>1. \A i \in IPs : ipCounts[i] = Cardinality(Holders(i))
  BY DEF CountersExact, Holders
<1>2. \A t \in Sessions : t # s => (HoldsIP(t)' <=> HoldsIP(t))
  BY DEF HoldsIP
<1>3. \A i \in IPs : i # IPOf[s] => Holders(i)' = Holders(i)
  BY <1>2 DEF Holders
<1>4. IPOf[s] \in IPs
  BY Limits
<1>5. ipCounts \in [IPs -> Nat]
  BY DEF CountersType
<1>6. /\ Holders(IPOf[s]) \in SUBSET Sessions
      /\ Holders(IPOf[s])' \in SUBSET Sessions
  BY DEF Holders
<1>7. Cardinality(Holders(IPOf[s])) \in Nat /\ Cardinality(Holders(IPOf[s])') \in Nat
  BY <1>6, OneMore
<1>8. CASE (HoldsIP(s)' <=> HoldsIP(s)) /\ ipCounts' = ipCounts
  <2>1. Holders(IPOf[s])' = Holders(IPOf[s])
    BY <1>2, <1>8 DEF Holders
  <2> QED BY <2>1, <1>1, <1>3, <1>5, <1>8
<1>9. CASE ~HoldsIP(s) /\ HoldsIP(s)' /\ ipCounts' = [ipCounts EXCEPT ![IPOf[s]] = @ + 1]
  <2>1. s \notin Holders(IPOf[s]) /\ Holders(IPOf[s])' = Holders(IPOf[s]) \cup {s}
    BY <1>2, <1>9 DEF Holders
  <2>2. Cardinality(Holders(IPOf[s])') = Cardinality(Holders(IPOf[s])) + 1
    BY <2>1, <1>6, OneMore
  <2>3. ipCounts' = [ipCounts EXCEPT ![IPOf[s]] = @ + 1]
    BY <1>9
  <2>4. ipCounts'[IPOf[s]] = Cardinality(Holders(IPOf[s])')
    BY <2>2, <2>3, <1>1, <1>4, <1>5
  <2>5. \A i \in IPs : i # IPOf[s] => ipCounts'[i] = ipCounts[i]
    BY <2>3, <1>5
  <2> QED BY <2>3, <2>4, <2>5, <1>1, <1>3, <1>4, <1>5
<1>10. CASE HoldsIP(s) /\ ~HoldsIP(s)' /\ ReleaseIP(s)
  <2>1. s \in Holders(IPOf[s]) /\ Holders(IPOf[s])' = Holders(IPOf[s]) \ {s}
    BY <1>2, <1>10 DEF Holders
  <2>2. Cardinality(Holders(IPOf[s])') = Cardinality(Holders(IPOf[s])) - 1
    BY <2>1, <1>6, OneMore
  <2>3. ipCounts' = [ipCounts EXCEPT ![IPOf[s]] = @ - 1]
    BY <1>10 DEF ReleaseIP
  <2>4. ipCounts'[IPOf[s]] = Cardinality(Holders(IPOf[s])')
    BY <2>2, <2>3, <1>1, <1>4, <1>5
  <2>5. \A i \in IPs : i # IPOf[s] => ipCounts'[i] = ipCounts[i]
    BY <2>3, <1>5
  <2>6. ipCounts' \in [IPs -> Nat]
    BY <2>3, <2>4, <2>5, <1>4, <1>5, <1>7
  <2> QED BY <2>4, <2>5, <2>6, <1>1, <1>3
<1> QED BY <1>8, <1>9, <1>10

(* The same for the handshakes in flight. *)
LEMMA FlightStep ==
  ASSUME CountersType, CountersExact, NEW s \in Sessions,
         at' \in [Sessions -> Places],
         \A t \in Sessions : t # s => at'[t] = at[t],
         \/ (InFlight(s)' <=> InFlight(s)) /\ inflight' = inflight
         \/ ~InFlight(s) /\ InFlight(s)' /\ inflight' = inflight + 1
         \/ InFlight(s) /\ ~InFlight(s)' /\ inflight' = inflight - 1
  PROVE  inflight' \in Nat /\ inflight' = Cardinality(Flight')
<1>1. inflight = Cardinality(Flight)
  BY DEF CountersExact, Flight
<1>2. \A t \in Sessions : t # s => (InFlight(t)' <=> InFlight(t))
  BY DEF InFlight
<1>3. Flight \in SUBSET Sessions /\ Flight' \in SUBSET Sessions
  BY DEF Flight
<1>4. Cardinality(Flight) \in Nat /\ Cardinality(Flight') \in Nat
  BY <1>3, OneMore
<1>5. CASE (InFlight(s)' <=> InFlight(s)) /\ inflight' = inflight
  <2>1. Flight' = Flight
    BY <1>2, <1>5 DEF Flight
  <2> QED BY <2>1, <1>1, <1>4, <1>5
<1>6. CASE ~InFlight(s) /\ InFlight(s)' /\ inflight' = inflight + 1
  <2>1. s \notin Flight /\ Flight' = Flight \cup {s}
    BY <1>2, <1>6 DEF Flight
  <2>2. Cardinality(Flight') = Cardinality(Flight) + 1
    BY <2>1, <1>3, OneMore
  <2> QED BY <2>2, <1>1, <1>4, <1>6
<1>7. CASE InFlight(s) /\ ~InFlight(s)' /\ inflight' = inflight - 1
  <2>1. s \in Flight /\ Flight' = Flight \ {s}
    BY <1>2, <1>7 DEF Flight
  <2>2. Cardinality(Flight') = Cardinality(Flight) - 1
    BY <2>1, <1>3, OneMore
  <2> QED BY <2>2, <1>1, <1>4, <1>7
<1> QED BY <1>5, <1>6, <1>7

(* Counted can only shrink, except when a session reads the clients. *)
LEMMA CountedStep ==
  ASSUME CountersType, CapInv, Counted' \subseteq Counted,
         \A t \in Sessions : at'[t] = "live" => seen'[t] < MaxTotalConnections
  PROVE  CapInv'
<1>1. Counted \subseteq Sessions
  BY DEF CountersType, Counted
<1>2. IsFiniteSet(Counted) /\ IsFiniteSet(Counted')
  BY <1>1, Limits, FS_Subset
<1>3. Cardinality(Counted') <= Cardinality(Counted)
  BY <1>2, FS_Subset
<1>4. Cardinality(Counted) \in Nat /\ Cardinality(Counted') \in Nat
  BY <1>2, FS_CardinalityType
<1> QED BY <1>3, <1>4, Limits DEF CapInv

(* What a step of one handler owes the invariant. *)
LEMMA HandlerStep ==
  ASSUME AdmissionInv, NEW s \in Sessions, NEW l \in Places,
         Goto(s, l), clients' \subseteq Sessions, seen' \in [Sessions -> Nat],
         \/ (HoldsIP(s)' <=> HoldsIP(s)) /\ ipCounts' = ipCounts
         \/ ~HoldsIP(s) /\ HoldsIP(s)' /\ ipCounts' = [ipCounts EXCEPT ![IPOf[s]] = @ + 1]
         \/ HoldsIP(s) /\ ~HoldsIP(s)' /\ ReleaseIP(s),
         \/ (InFlight(s)' <=> InFlight(s)) /\ inflight' = inflight
         \/ ~InFlight(s) /\ InFlight(s)' /\ inflight' = inflight + 1
         \/ InFlight(s) /\ ~InFlight(s)' /\ inflight' = inflight - 1,
         CapInv'
  PROVE  AdmissionInv'
<1>1. CountersType /\ CountersExact
  BY DEF AdmissionInv
<1>2. at' \in [Sessions -> Places] /\ \A t \in Sessions : t # s => at'[t] = at[t]
  BY <1>1 DEF CountersType, Goto
<1>3. ipCounts' \in [IPs -> Nat] /\ \A i \in IPs : ipCounts'[i] = Cardinality(Holders(i)')
  BY <1>1, <1>2, AddressStep
<1>4. inflight' \in Nat /\ inflight' = Cardinality(Flight')
  BY <1>1, <1>2, FlightStep
<1>5. CountersType'
  BY <1>2, <1>3, <1>4 DEF CountersType
<1>6. CountersExact'
  BY <1>3, <1>4 DEF CountersExact, Holders, Flight
<1> QED BY <1>5, <1>6 DEF AdmissionInv

(* A session that moves, and neither becomes "live" nor changes what it    *)
(* has seen, leaves CapInv alone.                                          *)
LEMMA CapKept ==
  ASSUME CountersType, CapInv, NEW s \in Sessions, NEW l \in Places \ {"recheck", "live"},
         Goto(s, l), seen' = seen, clients' \subseteq clients \cup {s}
  PROVE  CapInv'
<1>1. at' = [at EXCEPT ![s] = l] /\ at \in [Sessions -> Places]
  BY DEF Goto, CountersType
<1>2. Counted' \subseteq Counted
  BY <1>1 DEF Counted, CountersType
<1>3. \A t \in Sessions : at'[t] = "live" => seen'[t] < MaxTotalConnections
  BY <1>1 DEF CapInv
<1> QED BY <1>2, <1>3, CountedStep

LEMMA AdmissionInit == Init => AdmissionInv
<1> SUFFICES ASSUME Init PROVE AdmissionInv
  OBVIOUS
<1>1. CountersType
  BY DEF Init, CountersType, Places
<1>2. (\A i \in IPs : Holders(i) = {}) /\ Flight = {} /\ Counted = {}
  BY DEF Init, Holders, Flight, Counted, HoldsIP, InFlight
<1>3. Cardinality({}) = 0
  BY FS_EmptySet
<1>4. CountersExact
  BY <1>2, <1>3 DEF Init, CountersExact, Holders, Flight
<1>5. CapInv
  BY <1>2, <1>3, Limits DEF Init, CapInv
<1> QED BY <1>1, <1>4, <1>5 DEF AdmissionInv

LEMMA AdmissionStep == AdmissionInv /\ [Next]_vars => AdmissionInv'
<1> SUFFICES ASSUME AdmissionInv, [Next]_vars PROVE AdmissionInv'
  OBVIOUS
<1>1. CountersType /\ CapInv
  BY DEF AdmissionInv
<1>2. /\ at \in [Sessions -> Places] /\ clients \subseteq Sessions
      /\ seen \in [Sessions -> Nat]
  BY <1>1 DEF CountersType
<1>3. CASE UNCHANGED vars
  BY <1>3 DEF AdmissionInv, CountersType, CountersExact, CapInv, Counted,
              HoldsIP, InFlight, vars
<1>4. ASSUME NEW s \in Sessions, AcquireIP(s) PROVE AdmissionInv'
  <2>1. CASE ipCounts' = ipCounts /\ Goto(s, "refused")
    <3>1. CapInv'
      BY <1>1, <1>2, <1>4, <2>1, CapKept DEF AcquireIP, Places
    <3>2. HoldsIP(s)' <=> HoldsIP(s)
      BY <1>2, <1>4, <2>1 DEF AcquireIP, HoldsIP, Goto
    <3>3. InFlight(s)' <=> InFlight(s)
      BY <1>2, <1>4, <2>1 DEF AcquireIP, InFlight, Goto
    <3> QED BY <1>2, <1>4, <2>1, <3>1, <3>2, <3>3, HandlerStep DEF AcquireIP, Places
  <2>2. CASE /\ ipCounts' = [ipCounts EXCEPT ![IPOf[s]] = @ + 1]
             /\ Goto(s, "count")
    <3>1. CapInv'
      BY <1>1, <1>2, <1>4, <2>2, CapKept DEF AcquireIP, Places
    <3>2. HoldsIP(s)' /\ ~HoldsIP(s)
      BY <1>2, <1>4, <2>2 DEF AcquireIP, HoldsIP, Goto
    <3>3. InFlight(s)' <=> InFlight(s)
      BY <1>2, <1>4, <2>2 DEF AcquireIP, InFlight, Goto
    <3> QED BY <1>2, <1>4, <2>2, <3>1, <3>2, <3>3, HandlerStep DEF AcquireIP, Places
  <2> QED BY <1>4, <2>1, <2>2 DEF AcquireIP
<1>5. ASSUME NEW s \in Sessions, ReadClients(s) PROVE AdmissionInv'
  <2>1. PICK l \in {"cap", "recheck"} :
          Goto(s, l) /\ (l = "cap" <=> at[s] = "count")
    BY <1>5 DEF ReadClients
  <2>2. IsFiniteSet(clients) /\ Cardinality(clients) \in Nat
    BY <1>2, Limits, FS_Subset, FS_CardinalityType
  <2>3. /\ seen' \in [Sessions -> Nat] /\ clients' = clients
        /\ seen'[s] = Cardinality(clients)
        /\ \A t \in Sessions : t # s => seen'[t] = seen[t]
    BY <1>2, <1>5, <2>2 DEF ReadClients
  <2>4. /\ \A t \in Sessions : t # s => at'[t] = at[t]
        /\ at'[s] = l
    BY <1>2, <2>1 DEF Goto
  <2>5. \A t \in Sessions : at'[t] = "live" => seen'[t] < MaxTotalConnections
    BY <1>1, <2>1, <2>3, <2>4 DEF CapInv
  <2>6. CapInv'
    <3>1. CASE l = "recheck" /\ Cardinality(clients) < MaxTotalConnections
      <4>1. Counted' \subseteq clients
        BY <2>3 DEF Counted
      <4>2. IsFiniteSet(Counted') /\ Cardinality(Counted') <= Cardinality(clients)
        BY <2>2, <4>1, FS_Subset
      <4>3. Cardinality(Counted') \in Nat
        BY <4>2, FS_CardinalityType
      <4>4. Cardinality(Counted') < MaxTotalConnections
        BY <2>2, <3>1, <4>2, <4>3, Limits
      <4> QED BY <2>5, <4>4 DEF CapInv
    <3>2. CASE ~(l = "recheck" /\ Cardinality(clients) < MaxTotalConnections)
      <4>1. s \notin Counted'
        BY <2>1, <2>2, <2>3, <2>4, <3>2, Limits DEF Counted
      <4>2. \A t \in Counted' : t \in Counted
        BY <1>2, <2>3, <2>4, <4>1 DEF Counted
      <4> QED BY <1>1, <2>5, <4>2, CountedStep
    <3> QED BY <3>1, <3>2
  <2>7. HoldsIP(s)' <=> HoldsIP(s)
    BY <1>5, <2>4 DEF ReadClients, HoldsIP
  <2>8. InFlight(s)' <=> InFlight(s)
    BY <1>5, <2>4 DEF ReadClients, InFlight
  <2> QED BY <1>2, <1>5, <2>1, <2>3, <2>6, <2>7, <2>8, HandlerStep DEF ReadClients, Places
<1>6. ASSUME NEW s \in Sessions, CheckCap(s) PROVE AdmissionInv'
  <2>1. CASE ReleaseIP(s) /\ Goto(s, "refused")
    <3>1. CapInv'
      BY <1>1, <1>2, <1>6, <2>1, CapKept DEF CheckCap, Places
    <3>2. ~HoldsIP(s)' /\ HoldsIP(s)
      BY <1>2, <1>6, <2>1 DEF CheckCap, HoldsIP, Goto
    <3>3. InFlight(s)' <=> InFlight(s)
      BY <1>2, <1>6, <2>1 DEF CheckCap, InFlight, Goto
    <3> QED BY <1>2, <1>6, <2>1, <3>1, <3>2, <3>3, HandlerStep DEF CheckCap, Places
  <2>2. CASE ipCounts' = ipCounts /\ Goto(s, "reserve")
    <3>1. CapInv'
      BY <1>1, <1>2, <1>6, <2>2, CapKept DEF CheckCap, Places
    <3>2. HoldsIP(s)' <=> HoldsIP(s)
      BY <1>2, <1>6, <2>2 DEF CheckCap, HoldsIP, Goto
    <3>3. InFlight(s)' <=> InFlight(s)
      BY <1>2, <1>6, <2>2 DEF CheckCap, InFlight, Goto
    <3> QED BY <1>2, <1>6, <2>2, <3>1, <3>2, <3>3, HandlerStep DEF CheckCap, Places
  <2> QED BY <1>6, <2>1, <2>2 DEF CheckCap
<1>7. ASSUME NEW s \in Sessions, Reserve(s) PROVE AdmissionInv'
  <2>1. CapInv'
    BY <1>1, <1>2, <1>7, CapKept DEF Reserve, Places
  <2>2. HoldsIP(s)' <=> HoldsIP(s)
    BY <1>2, <1>7 DEF Reserve, HoldsIP, Goto
  <2>3. ~InFlight(s) /\ InFlight(s)'
    BY <1>2, <1>7 DEF Reserve, InFlight, Goto
  <2> QED BY <1>2, <1>7, <2>1, <2>2, <2>3, HandlerStep DEF Reserve, Places
<1>8. ASSUME NEW s \in Sessions, Fail(s) PROVE AdmissionInv'
  <2>1. CapInv'
    BY <1>1, <1>2, <1>8, CapKept DEF Fail, Places
  <2>2. HoldsIP(s) /\ ~HoldsIP(s)'
    BY <1>2, <1>8 DEF Fail, HoldsIP, Goto
  <2>3. InFlight(s) /\ ~InFlight(s)'
    BY <1>2, <1>8 DEF Fail, InFlight, Goto
  <2> QED BY <1>2, <1>8, <2>1, <2>2, <2>3, HandlerStep DEF Fail, Places
<1>9. ASSUME NEW s \in Sessions, Upgrade(s) PROVE AdmissionInv'
  <2>1. CapInv'
    BY <1>1, <1>2, <1>9, CapKept DEF Upgrade, Places
  <2>2. HoldsIP(s)' <=> HoldsIP(s)
    BY <1>2, <1>9 DEF Upgrade, HoldsIP, Goto
  <2>3. InFlight(s)' <=> InFlight(s)
    BY <1>2, <1>9 DEF Upgrade, InFlight, Goto
  <2> QED BY <1>2, <1>9, <2>1, <2>2, <2>3, HandlerStep DEF Upgrade, Places
<1>10. ASSUME NEW s \in Sessions, Authenticate(s) PROVE AdmissionInv'
  <2>1. CapInv'
    BY <1>1, <1>2, <1>10, CapKept DEF Authenticate, Places
  <2>2. HoldsIP(s)' <=> HoldsIP(s)
    BY <1>2, <1>10 DEF Authenticate, HoldsIP, Goto
  <2>3. InFlight(s)' <=> InFlight(s)
    BY <1>2, <1>10 DEF Authenticate, InFlight, Goto
  <2> QED BY <1>2, <1>10, <2>1, <2>2, <2>3, HandlerStep DEF Authenticate, Places
<1>11. ASSUME NEW s \in Sessions, HelloFails(s) PROVE AdmissionInv'
  <2>1. CapInv'
    BY <1>1, <1>2, <1>11, CapKept DEF HelloFails, Places
  <2>2. HoldsIP(s) /\ ~HoldsIP(s)'
    BY <1>2, <1>11 DEF HelloFails, HoldsIP, Goto
  <2>3. InFlight(s) /\ ~InFlight(s)'
    BY <1>2, <1>11 DEF HelloFails, InFlight, Goto
  <2> QED BY <1>2, <1>11, <2>1, <2>2, <2>3, HandlerStep DEF HelloFails, Places
<1>12. ASSUME NEW s \in Sessions, Register(s) PROVE AdmissionInv'
  <2>1. CapInv'
    BY <1>1, <1>2, <1>12, CapKept DEF Register, Places
  <2>2. HoldsIP(s)' <=> HoldsIP(s)
    BY <1>2, <1>12 DEF Register, HoldsIP, Goto
  <2>3. InFlight(s)' <=> InFlight(s)
    BY <1>2, <1>12 DEF Register, InFlight, Goto
  <2> QED BY <1>2, <1>12, <2>1, <2>2, <2>3, HandlerStep DEF Register, Places
<1>13. ASSUME NEW s \in Sessions, ReleaseInflight(s) PROVE AdmissionInv'
  <2>1. CapInv'
    BY <1>1, <1>2, <1>13, CapKept DEF ReleaseInflight, Places
  <2>2. HoldsIP(s)' <=> HoldsIP(s)
    BY <1>2, <1>13 DEF ReleaseInflight, HoldsIP, Goto
  <2>3. InFlight(s) /\ ~InFlight(s)'
    BY <1>2, <1>13 DEF ReleaseInflight, InFlight, Goto
  <2> QED BY <1>2, <1>13, <2>1, <2>2, <2>3, HandlerStep DEF ReleaseInflight, Places
<1>14. ASSUME NEW s \in Sessions, Recheck(s) PROVE AdmissionInv'
  <2>1. CASE clients' = clients \ {s} /\ Goto(s, "evicted") /\ UNCHANGED ipCounts
    <3>1. CapInv'
      BY <1>1, <1>2, <1>14, <2>1, CapKept DEF Recheck, Places
    <3>2. HoldsIP(s)' <=> HoldsIP(s)
      BY <1>2, <1>14, <2>1 DEF Recheck, HoldsIP, Goto
    <3>3. InFlight(s)' <=> InFlight(s)
      BY <1>2, <1>14, <2>1 DEF Recheck, InFlight, Goto
    <3> QED BY <1>2, <1>14, <2>1, <3>1, <3>2, <3>3, HandlerStep DEF Recheck, Places
  <2>2. CASE clients' = clients \ {s} /\ Goto(s, "full") /\ ReleaseIP(s)
    <3>1. CapInv'
      BY <1>1, <1>2, <1>14, <2>2, CapKept DEF Recheck, Places
    <3>2. HoldsIP(s) /\ ~HoldsIP(s)'
      BY <1>2, <1>14, <2>2 DEF Recheck, HoldsIP, Goto
    <3>3. InFlight(s)' <=> InFlight(s)
      BY <1>2, <1>14, <2>2 DEF Recheck, InFlight, Goto
    <3> QED BY <1>2, <1>14, <2>2, <3>1, <3>2, <3>3, HandlerStep DEF Recheck, Places
  <2>3. CASE ~OverCap(s) /\ Goto(s, "live") /\ UNCHANGED <<clients, ipCounts>>
    <3>1. seen[s] < MaxTotalConnections
      BY <1>1, <1>2, <2>3, Limits DEF OverCap, CountersType
    <3>2. /\ at' = [at EXCEPT ![s] = "live"] /\ at[s] = "recheck"
          /\ seen' = seen /\ clients' = clients
      BY <1>14, <2>3 DEF Recheck, Goto
    <3>3. Counted' \subseteq Counted
      BY <1>2, <3>1, <3>2 DEF Counted
    <3>4. \A t \in Sessions : at'[t] = "live" => seen'[t] < MaxTotalConnections
      BY <1>1, <1>2, <3>1, <3>2 DEF CapInv
    <3>5. CapInv'
      BY <1>1, <3>3, <3>4, CountedStep
    <3>6. HoldsIP(s)' <=> HoldsIP(s)
      BY <1>2, <3>2 DEF HoldsIP
    <3>7. InFlight(s)' <=> InFlight(s)
      BY <1>2, <3>2 DEF InFlight
    <3> QED BY <1>2, <1>14, <2>3, <3>5, <3>6, <3>7, HandlerStep DEF Recheck, Places
  <2> QED BY <1>14, <2>1, <2>2, <2>3 DEF Recheck, Unregister
<1>15. ASSUME NEW s \in Sessions, Leave(s) PROVE AdmissionInv'
  <2>1. CASE clients' = clients \ {s} /\ Goto(s, "leaving") /\ UNCHANGED ipCounts
    <3>1. CapInv'
      BY <1>1, <1>2, <1>15, <2>1, CapKept DEF Leave, Places
    <3>2. HoldsIP(s)' <=> HoldsIP(s)
      BY <1>2, <1>15, <2>1 DEF Leave, HoldsIP, Goto
    <3>3. InFlight(s)' <=> InFlight(s)
      BY <1>2, <1>15, <2>1 DEF Leave, InFlight, Goto
    <3> QED BY <1>2, <1>15, <2>1, <3>1, <3>2, <3>3, HandlerStep DEF Leave, Places
  <2>2. CASE clients' = clients \ {s} /\ Goto(s, "left") /\ ReleaseIP(s)
    <3>1. CapInv'
      BY <1>1, <1>2, <1>15, <2>2, CapKept DEF Leave, Places
    <3>2. HoldsIP(s) /\ ~HoldsIP(s)'
      BY <1>2, <1>15, <2>2 DEF Leave, HoldsIP, Goto
    <3>3. InFlight(s)' <=> InFlight(s)
      BY <1>2, <1>15, <2>2 DEF Leave, InFlight, Goto
    <3> QED BY <1>2, <1>15, <2>2, <3>1, <3>2, <3>3, HandlerStep DEF Leave, Places
  <2> QED BY <1>15, <2>1, <2>2 DEF Leave, Unregister
<1>16. ASSUME NEW s \in Sessions, Drop(s) PROVE AdmissionInv'
  <2>1. PICK l \in {"full", "left"} : Goto(s, l)
    BY <1>16 DEF Drop
  <2>2. CapInv'
    BY <1>1, <1>2, <1>16, <2>1, CapKept DEF Drop, Places
  <2>3. HoldsIP(s) /\ ~HoldsIP(s)'
    BY <1>2, <1>16, <2>1 DEF Drop, HoldsIP, Goto
  <2>4. InFlight(s)' <=> InFlight(s)
    BY <1>2, <1>16, <2>1 DEF Drop, InFlight, Goto
  <2> QED BY <1>2, <1>16, <2>1, <2>2, <2>3, <2>4, HandlerStep DEF Drop, Places
<1>17. ASSUME NEW s \in Sessions, Kick(s) PROVE AdmissionInv'
  <2>1. /\ UNCHANGED <<at, ipCounts, inflight, seen>>
        /\ clients' \subseteq clients
    BY <1>17 DEF Kick
  <2>2. CountersType' /\ CountersExact'
    BY <1>2, <2>1 DEF AdmissionInv, CountersType, CountersExact, HoldsIP, InFlight
  <2>3. Counted' \subseteq Counted
    BY <2>1 DEF Counted
  <2>4. CapInv'
    BY <1>1, <2>1, <2>3, CountedStep DEF CapInv
  <2> QED BY <2>2, <2>4 DEF AdmissionInv
<1>18. ASSUME NEW s \in Sessions, KickDrops(s) PROVE AdmissionInv'
  <2>1. /\ UNCHANGED <<at, ipCounts, inflight, seen>>
        /\ clients' \subseteq clients
    BY <1>18 DEF KickDrops
  <2>2. CountersType' /\ CountersExact'
    BY <1>2, <2>1 DEF AdmissionInv, CountersType, CountersExact, HoldsIP, InFlight
  <2>3. Counted' \subseteq Counted
    BY <2>1 DEF Counted
  <2>4. CapInv'
    BY <1>1, <2>1, <2>3, CountedStep DEF CapInv
  <2> QED BY <2>2, <2>4 DEF AdmissionInv
<1> QED BY <1>3, <1>4, <1>5, <1>6, <1>7, <1>8, <1>9, <1>10, <1>11, <1>12, <1>13, <1>14, <1>15, <1>16, <1>17, <1>18 DEF Next

(* No early return, failed write, kick or re-check of ServeWS leaks a slot *)
(* of an address or of the handshakes in flight, or gives one back twice,  *)
(* for any number of handshakes from any addresses.                        *)
THEOREM CountersAlwaysExact == Spec => []CountersExact
<1>1. AdmissionInv => CountersExact
  BY DEF AdmissionInv
<1> QED BY AdmissionInit, AdmissionStep, <1>1, PTL DEF Spec

(* However many handshakes overCap lets through together, serveAuthenti-   *)
(* cated's re-check leaves no more than MAX_TOTAL_CONNECTIONS served.      *)
THEOREM CapAlwaysHolds == Spec => []CapHolds
<1>1. AdmissionInv => CapHolds
  <2> SUFFICES ASSUME AdmissionInv PROVE CapHolds
    OBVIOUS
  <2> DEFINE Live == {s \in clients : at[s] = "live"}
  <2>1. CountersType /\ CapInv
    BY DEF AdmissionInv
  <2>2. Live \subseteq Counted /\ Counted \subseteq Sessions
    BY <2>1 DEF Counted, CapInv, CountersType
  <2>3. IsFiniteSet(Counted)
    BY <2>2, Limits, FS_Subset
  <2>4. IsFiniteSet(Live) /\ Cardinality(Live) <= Cardinality(Counted)
    BY <2>2, <2>3, FS_Subset
  <2>5. Cardinality(Live) \in Nat /\ Cardinality(Counted) \in Nat
    BY <2>3, <2>4, FS_CardinalityType
  <2>6. Cardinality(Live) <= MaxTotalConnections
    BY <2>1, <2>4, <2>5, Limits DEF CapInv
  <2> QED BY <2>6 DEF CapHolds
<1> QED BY AdmissionInit, AdmissionStep, <1>1, PTL DEF Spec

-----------------------------------------------------------------------------
(* The names.  A name is held from its choice to its release, and a free   *)
(* serial is always left: of the named sessions of an address all but the  *)
(* one behaviorTick is releasing hold one of its connections.              *)
Serving == {"registered", "recount", "recheck", "live"}

NamesInv ==
  /\ name \in [Sessions -> 0 .. MaxSerial]
  /\ tick = {} \/ \E s \in Sessions : tick = {s}
  /\ \A s \in clients : at[s] \in Serving /\ s \notin tick
  /\ \A s \in tick : at[s] \in Serving \cup {"left", "full"}
  /\ \A s \in Sessions : Named(s) => name[s] \in 1 .. MaxSerial
  /\ NamesExact
  /\ \A i \in IPs : ipCounts[i] <= MaxConnectionsPerIP

(* A set of numbers has a least one.                                       *)
Less == {ss \in Nat \X Nat : ss[1] < ss[2]}

LEMMA LessIsWellFounded == IsWellFoundedOn(Less, Nat)
<1>1. OpToRel(<, Nat) = Less
  BY Zenon DEF OpToRel, Less
<1> QED BY <1>1, NatLessThanWellFounded, Zenon

LEMMA LeastNumber == \A T \in SUBSET Nat : T # {} => \E m \in T : \A k \in T : m <= k
<1> SUFFICES ASSUME NEW T \in SUBSET Nat, T # {} PROVE \E m \in T : \A k \in T : m <= k
  OBVIOUS
<1>1. \E x \in T : \A y \in T : ~(<<y, x>> \in Less)
  BY LessIsWellFounded, WFMin, Zenon
<1>2. PICK m \in T : \A y \in T : ~(<<y, m>> \in Less)
  BY <1>1
<1>3. \A a, b \in Nat : a < b => <<a, b>> \in Less
  BY DEF Less
<1> HIDE DEF Less
<1>4. \A k \in T : ~(k < m)
  BY <1>2, <1>3
<1>5. \A k \in T : m <= k
  BY <1>4
<1> QED BY <1>5

LEMMA SerialLimit == MaxSerial \in Nat \ {0} /\ MaxSerial > MaxConnectionsPerIP
  BY AdmissionAssumption

(* generateDisplayName finds a free serial, as long as fewer sessions of   *)
(* the address than serials have one.                                      *)
LEMMA SerialIsFree ==
  ASSUME NEW ip, NEW S \in SUBSET Sessions, Cardinality(S) < MaxSerial,
         name \in [Sessions -> 0 .. MaxSerial],
         \A k \in 1 .. MaxSerial : <<ip, k>> \in names => \E s \in S : name[s] = k
  PROVE  FreeSerial(ip) \in 1 .. MaxSerial /\ <<ip, FreeSerial(ip)>> \notin names
<1> DEFINE K == {k \in 1 .. MaxSerial : <<ip, k>> \in names}
           f == [s \in {x \in S : name[x] \in K} |-> name[s]]
           D == {x \in S : name[x] \in K}
<1>0. IsFiniteSet(S) /\ IsFiniteSet(D) /\ Cardinality(D) <= Cardinality(S)
  <2>1. IsFiniteSet(S)
    BY Limits, FS_Subset
  <2>2. D \in SUBSET S
    OBVIOUS
  <2> HIDE DEF D
  <2> QED BY <2>1, <2>2, FS_Subset
<1>1. f \in Surjection(D, K)
  <2>1. f \in [D -> K]
    OBVIOUS
  <2>2. \A k \in K : \E s \in D : f[s] = k
    OBVIOUS
  <2> HIDE DEF f, K, D
  <2> QED BY <2>1, <2>2 DEF Surjection
<1>2. IsFiniteSet(K) /\ Cardinality(K) <= Cardinality(D)
  <2> HIDE DEF f, K, D
  <2> QED BY <1>0, <1>1, FS_Surjection
<1>3. Cardinality(K) \in Nat /\ Cardinality(D) \in Nat /\ Cardinality(S) \in Nat
  <2> HIDE DEF K, D
  <2> QED BY <1>0, <1>2, FS_CardinalityType
<1>4. Cardinality(1 .. MaxSerial) = MaxSerial
  <2>1. 1 \in Int /\ MaxSerial \in Int /\ ~(1 > MaxSerial) /\ MaxSerial - 1 + 1 = MaxSerial
    BY SerialLimit
  <2> QED BY <2>1, FS_Interval
<1>5. K # 1 .. MaxSerial
  <2>1. Cardinality(K) < MaxSerial
    <3> HIDE DEF K, D
    <3> QED BY <1>0, <1>2, <1>3, SerialLimit
  <2> HIDE DEF K
  <2> QED BY <1>3, <1>4, <2>1
<1> DEFINE F == {k \in Nat : k \in 1 .. MaxSerial /\ <<ip, k>> \notin names}
<1>6. F \in SUBSET Nat /\ F # {}
  BY <1>5, SerialLimit
<1>7. PICK m \in F : \A k \in F : m <= k
  <2> HIDE DEF F
  <2> QED BY <1>6, LeastNumber
<1>8. m \in 1 .. MaxSerial /\ <<ip, m>> \notin names
  OBVIOUS
<1>9. \A j \in 1 .. m - 1 : <<ip, j>> \in names
  BY <1>7, <1>8, SerialLimit
<1> QED BY <1>8, <1>9 DEF FreeSerial

(* A step that neither names nor unnames anyone.                           *)
LEMMA NamesStay ==
  ASSUME NamesExact, names' = names, name' = name,
         \A x \in Sessions : Named(x)' <=> Named(x)
  PROVE  NamesExact'
  BY DEF NamesExact

(* A step that releases the name of s.                                     *)
LEMMA NamesDrop ==
  ASSUME NamesExact, NEW s \in Sessions, Named(s), ReleaseName(s),
         name \in [Sessions -> 0 .. MaxSerial],
         \A x \in Sessions : Named(x)' <=> Named(x) /\ x # s
  PROVE  NamesExact' /\ name' \in [Sessions -> 0 .. MaxSerial]
         /\ \A x \in Sessions : x # s => name'[x] = name[x]
<1>1. names' = names \ {<<IPOf[s], name[s]>>} /\ name' = [name EXCEPT ![s] = 0]
  BY DEF ReleaseName
<1>2. name' \in [Sessions -> 0 .. MaxSerial] /\ \A x \in Sessions : x # s => name'[x] = name[x]
  BY <1>1, SerialLimit
<1>3. names = {<<IPOf[x], name[x]>> : x \in {y \in Sessions : Named(y)}}
  BY DEF NamesExact
<1>4. \A x, y \in Sessions : x # y /\ Named(x) /\ Named(y) => <<IPOf[x], name[x]>> # <<IPOf[y], name[y]>>
  BY DEF NamesExact
<1>5. ASSUME NEW p PROVE p \in names' <=> \E x \in Sessions : Named(x)' /\ p = <<IPOf[x], name'[x]>>
  <2>1. ASSUME p \in names' PROVE \E x \in Sessions : Named(x)' /\ p = <<IPOf[x], name'[x]>>
    <3>1. PICK x \in Sessions : Named(x) /\ p = <<IPOf[x], name[x]>>
      BY <1>1, <1>3, <2>1
    <3>2. x # s
      BY <1>1, <2>1, <3>1
    <3>3. name'[x] = name[x]
      BY <1>2, <3>2
    <3> QED BY <3>1, <3>2, <3>3
  <2>2. ASSUME NEW x \in Sessions, Named(x)', p = <<IPOf[x], name'[x]>> PROVE p \in names'
    <3>1. Named(x) /\ x # s
      BY <2>2
    <3>2. p = <<IPOf[x], name[x]>>
      BY <1>2, <2>2, <3>1
    <3>3. p \in names
      BY <1>3, <3>1, <3>2
    <3>4. p # <<IPOf[s], name[s]>>
      BY <1>4, <3>1, <3>2
    <3> QED BY <1>1, <3>3, <3>4
  <2> QED BY <2>1, <2>2
<1>6. names' = {<<IPOf[x], name'[x]>> : x \in {y \in Sessions : Named(y)'}}
  BY <1>5
<1>7. \A x, y \in Sessions : x # y /\ Named(x)' /\ Named(y)' => <<IPOf[x], name'[x]>> # <<IPOf[y], name'[y]>>
  BY <1>2, <1>4
<1>8. NamesExact'
  BY <1>6, <1>7 DEF NamesExact
<1> QED BY <1>2, <1>8

(* Who has a name at an address holds one of its connections or is the one *)
(* being released.                                                         *)
LEMMA FewAreNamed ==
  ASSUME AdmissionInv, NamesInv, NEW s \in Sessions, at[s] = "auth"
  PROVE  LET S == {x \in Sessions : Named(x) /\ IPOf[x] = IPOf[s]} IN
         S \in SUBSET Sessions /\ Cardinality(S) < MaxSerial
<1> DEFINE i == IPOf[s]
           S == {x \in Sessions : Named(x) /\ IPOf[x] = IPOf[s]}
           H == Holders(i) \ {s}
<1>0. i \in IPs /\ ipCounts[i] <= MaxConnectionsPerIP /\ ipCounts[i] \in Nat
  BY Limits DEF NamesInv, AdmissionInv, CountersType
<1>1. Cardinality(Holders(i)) = ipCounts[i] /\ Holders(i) \in SUBSET Sessions /\ s \in Holders(i)
  <2>1. ipCounts[i] = Cardinality(Holders(i))
    BY <1>0 DEF AdmissionInv, CountersExact, Holders
  <2>2. s \in Holders(i)
    BY DEF Holders, HoldsIP
  <2> QED BY <2>1, <2>2 DEF Holders
<1>2. H \in SUBSET Sessions
  BY <1>1
<1>3. Cardinality(H) = Cardinality(Holders(i)) - 1
  <2> DEFINE A == Holders(i)
  <2>1. A \in SUBSET Sessions /\ s \in A
    BY <1>1
  <2> HIDE DEF A
  <2>2. Cardinality(A \ {s}) = Cardinality(A) - 1
    BY <2>1, OneMore
  <2> QED BY <2>2 DEF A
<1>4. \A x \in Sessions : Named(x) => x # s /\ (HoldsIP(x) \/ x \in tick)
  BY DEF NamesInv, Named, HoldsIP, Serving
<1>5. S \subseteq H \cup tick
  BY <1>4 DEF Holders
<1>6. IsFiniteSet(H) /\ Cardinality(H) \in Nat
  <2> HIDE DEF H
  <2> QED BY <1>2, Limits, FS_Subset, FS_CardinalityType
<1>7. IsFiniteSet(H \cup tick) /\ Cardinality(H \cup tick) <= Cardinality(H) + 1
  <2> HIDE DEF H
  <2>1. CASE tick = {}
    <3>1. H \cup tick = H
      BY <2>1
    <3>2. Cardinality(H) <= Cardinality(H) + 1
      BY <1>6
    <3>3. IsFiniteSet(H \cup tick) /\ Cardinality(H \cup tick) = Cardinality(H)
      BY <1>6, <3>1
    <3> QED BY <3>2, <3>3
  <2>2. ASSUME NEW t \in Sessions, tick = {t} PROVE IsFiniteSet(H \cup tick) /\ Cardinality(H \cup tick) <= Cardinality(H) + 1
    <3>1. /\ IsFiniteSet(H \cup {t})
          /\ Cardinality(H \cup {t}) = IF t \in H THEN Cardinality(H) ELSE Cardinality(H) + 1
      BY <1>6, FS_AddElement
    <3> QED BY <1>6, <2>2, <3>1
  <2> QED BY <2>1, <2>2 DEF NamesInv
<1>8. Cardinality(S) <= Cardinality(H \cup tick)
  <2> HIDE DEF S, H
  <2> QED BY <1>5, <1>7, FS_Subset
<1>9. IsFiniteSet(S) /\ Cardinality(S) \in Nat /\ Cardinality(H \cup tick) \in Nat
  <2>1. IsFiniteSet(S)
    BY Limits, FS_Subset
  <2> HIDE DEF S, H
  <2> QED BY <1>7, <2>1, FS_CardinalityType
<1>10. Cardinality(S) < MaxSerial
  <2> HIDE DEF S, H
  <2> QED BY <1>0, <1>1, <1>3, <1>6, <1>7, <1>8, <1>9, SerialLimit, Limits
<1> QED BY <1>10

LEMMA NamesAdd ==
  ASSUME AdmissionInv, NamesInv, NEW s \in Sessions, Authenticate(s)
  PROVE  NamesInv'
<1> DEFINE ip == IPOf[s]
           k == FreeSerial(IPOf[s])
           S == {x \in Sessions : Named(x) /\ IPOf[x] = IPOf[s]}
<1>0. /\ at[s] = "auth" /\ at' = [at EXCEPT ![s] = "hello"]
      /\ names' = names \cup {<<IPOf[s], k>>} /\ name' = [name EXCEPT ![s] = k]
      /\ ipCounts' = ipCounts /\ clients' = clients /\ tick' = tick
  BY DEF Authenticate, Goto
<1>1. at \in [Sessions -> Places] /\ clients \subseteq Sessions
  BY DEF AdmissionInv, CountersType
<1>2. /\ name \in [Sessions -> 0 .. MaxSerial] /\ NamesExact
      /\ tick = {} \/ \E t \in Sessions : tick = {t}
      /\ \A x \in clients : at[x] \in Serving /\ x \notin tick
      /\ \A x \in tick : at[x] \in Serving \cup {"left", "full"}
      /\ \A x \in Sessions : Named(x) => name[x] \in 1 .. MaxSerial
      /\ \A i \in IPs : ipCounts[i] <= MaxConnectionsPerIP
  BY DEF NamesInv
<1>3. names = {<<IPOf[x], name[x]>> : x \in {y \in Sessions : Named(y)}}
  BY <1>2 DEF NamesExact
<1>4. \A n \in 1 .. MaxSerial : <<IPOf[s], n>> \in names => \E x \in S : name[x] = n
  BY <1>3
<1>5. S \in SUBSET Sessions /\ Cardinality(S) < MaxSerial
  BY <1>0, FewAreNamed
<1>6. k \in 1 .. MaxSerial /\ <<IPOf[s], k>> \notin names
  <2> HIDE DEF S
  <2> QED BY <1>2, <1>4, <1>5, SerialIsFree
<1> HIDE DEF k
<1>7. ~Named(s) /\ Named(s)' /\ \A x \in Sessions : x # s => (Named(x)' <=> Named(x))
  BY <1>0, <1>1, <1>2 DEF Named, Serving
<1>8. /\ name' \in [Sessions -> 0 .. MaxSerial] /\ name'[s] = k
      /\ \A x \in Sessions : x # s => name'[x] = name[x]
  BY <1>0, <1>2, <1>6
<1>9. ASSUME NEW p PROVE p \in names' <=> \E x \in Sessions : Named(x)' /\ p = <<IPOf[x], name'[x]>>
  <2>1. ASSUME p \in names' PROVE \E x \in Sessions : Named(x)' /\ p = <<IPOf[x], name'[x]>>
    <3>1. CASE p = <<IPOf[s], k>>
      BY <1>7, <1>8, <3>1
    <3>2. CASE p \in names
      <4>1. PICK x \in Sessions : Named(x) /\ p = <<IPOf[x], name[x]>>
        BY <1>3, <3>2
      <4> QED BY <1>7, <1>8, <4>1
    <3> QED BY <1>0, <2>1, <3>1, <3>2
  <2>2. ASSUME NEW x \in Sessions, Named(x)', p = <<IPOf[x], name'[x]>> PROVE p \in names'
    <3>1. CASE x = s
      BY <1>0, <1>8, <2>2, <3>1
    <3>2. CASE x # s
      BY <1>0, <1>3, <1>7, <1>8, <2>2, <3>2
    <3> QED BY <3>1, <3>2
  <2> QED BY <2>1, <2>2
<1>10. names' = {<<IPOf[x], name'[x]>> : x \in {y \in Sessions : Named(y)'}}
  BY <1>9
<1>11. ASSUME NEW x \in Sessions, NEW y \in Sessions, x # y, Named(x)', Named(y)'
       PROVE  <<IPOf[x], name'[x]>> # <<IPOf[y], name'[y]>>
  <2>1. \A z \in Sessions : z # s /\ Named(z)' => <<IPOf[z], name'[z]>> \in names
    BY <1>3, <1>7, <1>8
  <2>2. CASE x = s
    BY <1>6, <1>8, <1>11, <2>1, <2>2
  <2>3. CASE y = s
    BY <1>6, <1>8, <1>11, <2>1, <2>3
  <2>4. CASE x # s /\ y # s
    BY <1>2, <1>7, <1>8, <1>11, <2>4 DEF NamesExact
  <2> QED BY <2>2, <2>3, <2>4
<1>12. NamesExact'
  BY <1>10, <1>11 DEF NamesExact
<1>13. \A x \in clients' : at'[x] \in Serving /\ x \notin tick'
  BY <1>0, <1>1, <1>2 DEF Serving
<1>14. \A x \in tick' : at'[x] \in Serving \cup {"left", "full"}
  BY <1>0, <1>1, <1>2 DEF Serving
<1>15. \A x \in Sessions : Named(x)' => name'[x] \in 1 .. MaxSerial
  BY <1>2, <1>6, <1>7, <1>8
<1> QED BY <1>0, <1>2, <1>8, <1>12, <1>13, <1>14, <1>15 DEF NamesInv

(* A handler that moves on, named or not.                                  *)
LEMMA MoveKeepsNames ==
  ASSUME AdmissionInv, NamesInv, NEW s \in Sessions, NEW l, Goto(s, l),
         UNCHANGED <<clients, names, name, tick>>,
         \/ at[s] \in Serving /\ l \in Serving
         \/ /\ at[s] \in {"arrived", "count", "cap", "reserve", "upgrade", "auth"}
            /\ l \notin {"hello", "evicted", "leaving"},
         \A i \in IPs : ipCounts'[i] <= MaxConnectionsPerIP
  PROVE  NamesInv'
<1>1. at \in [Sessions -> Places] /\ clients \subseteq Sessions
  BY DEF AdmissionInv, CountersType
<1>2. at'[s] = l /\ \A x \in Sessions : x # s => at'[x] = at[x]
  BY <1>1 DEF Goto
<1>3. tick \subseteq Sessions /\ (s \in clients \cup tick => at[s] \in Serving \cup {"left", "full"})
  BY DEF NamesInv
<1>4. s \in clients \cup tick => l \in Serving
  BY <1>3 DEF Serving
<1>5. \A x \in Sessions : Named(x)' <=> Named(x)
  <2> TAKE x \in Sessions
  <2>1. CASE x = s
    <3>1. at[s] \notin {"hello", "evicted", "leaving"} /\ l \notin {"hello", "evicted", "leaving"}
      BY DEF Serving
    <3> QED BY <1>2, <2>1, <3>1 DEF Named
  <2>2. CASE x # s
    BY <1>2, <2>2 DEF Named
  <2> QED BY <2>1, <2>2
<1>6. NamesExact'
  BY <1>5, NamesStay DEF NamesInv
<1>7. \A x \in clients : at'[x] \in Serving /\ x \notin tick
  BY <1>1, <1>2, <1>4 DEF NamesInv
<1>8. \A x \in tick : at'[x] \in Serving \cup {"left", "full"}
  BY <1>2, <1>3, <1>4 DEF NamesInv
<1> QED BY <1>5, <1>6, <1>7, <1>8 DEF NamesInv

(* unregisterClient, first half: the name stays until its second half, or  *)
(* behaviorTick has taken it over.                                         *)
LEMMA UnregisterKeepsNames ==
  ASSUME AdmissionInv, NamesInv, NEW s \in Sessions, at[s] \in Serving,
         NEW found \in {"evicted", "leaving"}, NEW gone \in {"full", "left"},
         Unregister(s, found, gone), UNCHANGED <<names, name, tick>>
  PROVE  NamesInv'
<1>1. /\ at \in [Sessions -> Places] /\ clients \subseteq Sessions /\ ipCounts \in [IPs -> Nat]
  BY DEF AdmissionInv, CountersType
<1>2. clients' = clients \ {s} /\ tick' = tick /\ names' = names /\ name' = name
  BY DEF Unregister
<1>3. \A i \in IPs : ipCounts'[i] <= MaxConnectionsPerIP
  <2>1. \A i \in IPs : ipCounts[i] <= MaxConnectionsPerIP /\ ipCounts[i] \in Nat
    BY <1>1 DEF NamesInv
  <2> QED BY <1>1, <2>1, Limits DEF Unregister, ReleaseIP
<1>4. /\ \A x \in Sessions : x # s => at'[x] = at[x]
      /\ s \in clients => at'[s] = found
      /\ s \notin clients => at'[s] = gone
  BY <1>1 DEF Unregister, Goto
<1>5. /\ tick \subseteq Sessions /\ (s \in clients => s \notin tick)
      /\ \A x \in clients : at[x] \in Serving /\ x \notin tick
      /\ \A x \in tick : at[x] \in Serving \cup {"left", "full"}
  BY DEF NamesInv
<1>6. \A x \in Sessions : Named(x)' <=> Named(x)
  <2> TAKE x \in Sessions
  <2>1. CASE x = s
    <3>1. Named(s) <=> s \in clients \cup tick
      BY DEF Named, Serving
    <3>2. Named(s)' <=> s \in clients \cup tick
      BY <1>2, <1>4 DEF Named
    <3> QED BY <2>1, <3>1, <3>2
  <2>2. CASE x # s
    BY <1>2, <1>4, <2>2 DEF Named
  <2> QED BY <2>1, <2>2
<1>7. NamesExact'
  BY <1>2, <1>6, NamesStay DEF NamesInv
<1>8. \A x \in clients' : at'[x] \in Serving /\ x \notin tick'
  BY <1>1, <1>2, <1>4, <1>5
<1>9. \A x \in tick' : at'[x] \in Serving \cup {"left", "full"}
  BY <1>2, <1>4, <1>5
<1> QED BY <1>2, <1>3, <1>6, <1>7, <1>8, <1>9 DEF NamesInv

(* A handler gives the name back and moves on to a place without one.      *)
LEMMA DropKeepsNames ==
  ASSUME AdmissionInv, NamesInv, NEW s \in Sessions, at[s] \in {"hello", "evicted", "leaving"},
         NEW l \in {"refused", "full", "left"}, Goto(s, l),
         ReleaseName(s), ReleaseIP(s), UNCHANGED <<clients, tick>>
  PROVE  NamesInv'
<1>1. /\ at \in [Sessions -> Places] /\ clients \subseteq Sessions /\ ipCounts \in [IPs -> Nat]
  BY DEF AdmissionInv, CountersType
<1>2. at'[s] = l /\ \A x \in Sessions : x # s => at'[x] = at[x]
  BY <1>1 DEF Goto
<1>3. \A i \in IPs : ipCounts'[i] <= MaxConnectionsPerIP
  <2>1. \A i \in IPs : ipCounts[i] <= MaxConnectionsPerIP /\ ipCounts[i] \in Nat
    BY <1>1 DEF NamesInv
  <2> QED BY <1>1, <2>1, Limits DEF ReleaseIP
<1>4. s \notin clients /\ s \notin tick /\ tick \subseteq Sessions
  BY DEF NamesInv, Serving
<1>5. Named(s) /\ \A x \in Sessions : Named(x)' <=> Named(x) /\ x # s
  BY <1>2, <1>4 DEF Named
<1>6. NamesExact /\ name \in [Sessions -> 0 .. MaxSerial]
  BY DEF NamesInv
<1>7. NamesExact' /\ name' \in [Sessions -> 0 .. MaxSerial]
         /\ \A x \in Sessions : x # s => name'[x] = name[x]
  BY <1>5, <1>6, NamesDrop
<1>8. \A x \in Sessions : Named(x)' => name'[x] \in 1 .. MaxSerial
  BY <1>5, <1>7 DEF NamesInv
<1>9. \A x \in clients : at'[x] \in Serving /\ x \notin tick
  BY <1>1, <1>2, <1>4 DEF NamesInv
<1>10. \A x \in tick : at'[x] \in Serving \cup {"left", "full"}
  BY <1>2, <1>4 DEF NamesInv
<1> QED BY <1>3, <1>7, <1>8, <1>9, <1>10 DEF NamesInv

LEMMA NamesStep == AdmissionInv /\ NamesInv /\ [Next]_vars => NamesInv'
<1> SUFFICES ASSUME AdmissionInv, NamesInv, [Next]_vars PROVE NamesInv'
  OBVIOUS
<1>0. /\ at \in [Sessions -> Places] /\ clients \subseteq Sessions /\ ipCounts \in [IPs -> Nat]
      /\ \A i \in IPs : ipCounts[i] <= MaxConnectionsPerIP /\ ipCounts[i] \in Nat
  BY DEF AdmissionInv, CountersType, NamesInv
<1>1. \A s \in Sessions : ReleaseIP(s) => \A i \in IPs : ipCounts'[i] <= MaxConnectionsPerIP
  BY <1>0, Limits DEF ReleaseIP
<1>2. CASE UNCHANGED vars
  <2>1. \A x \in Sessions : Named(x)' <=> Named(x)
    BY <1>2 DEF vars, Named
  <2>2. NamesExact'
    BY <1>2, <2>1, NamesStay DEF NamesInv, vars
  <2> QED BY <1>2, <2>1, <2>2 DEF NamesInv, vars
<1>3. ASSUME NEW s \in Sessions, AcquireIP(s) PROVE NamesInv'
  <2>1. at[s] = "arrived" /\ UNCHANGED <<clients, names, name, tick>>
    BY <1>3 DEF AcquireIP
  <2>2. \A i \in IPs : ipCounts'[i] <= MaxConnectionsPerIP
    BY <1>0, <1>3, Limits DEF AcquireIP
  <2>3. PICK l \in {"refused", "count"} : Goto(s, l)
    BY <1>3 DEF AcquireIP
  <2> QED BY <2>1, <2>2, <2>3, MoveKeepsNames
<1>4. ASSUME NEW s \in Sessions, ReadClients(s) PROVE NamesInv'
  <2>1. PICK l \in {"cap", "recheck"} : Goto(s, l) /\ (l = "cap" <=> at[s] = "count")
    BY <1>4 DEF ReadClients
  <2>2. at[s] \in {"count", "recount"} /\ UNCHANGED <<clients, names, name, tick, ipCounts>>
    BY <1>4 DEF ReadClients
  <2>3. \/ at[s] \in Serving /\ l \in Serving
        \/ at[s] \in {"arrived", "count", "cap", "reserve", "upgrade", "auth"}
           /\ l \notin {"hello", "evicted", "leaving"}
    BY <2>1, <2>2 DEF Serving
  <2> QED BY <1>0, <2>1, <2>2, <2>3, MoveKeepsNames
<1>5. ASSUME NEW s \in Sessions, CheckCap(s) PROVE NamesInv'
  <2>1. at[s] = "cap" /\ UNCHANGED <<clients, names, name, tick>>
    BY <1>5 DEF CheckCap
  <2>2. \A i \in IPs : ipCounts'[i] <= MaxConnectionsPerIP
    BY <1>0, <1>1, <1>5 DEF CheckCap
  <2>3. PICK l \in {"refused", "reserve"} : Goto(s, l)
    BY <1>5 DEF CheckCap
  <2> QED BY <2>1, <2>2, <2>3, MoveKeepsNames
<1>6. ASSUME NEW s \in Sessions, Reserve(s) \/ Upgrade(s) PROVE NamesInv'
  <2>1. at[s] \in {"reserve", "upgrade"} /\ UNCHANGED <<clients, names, name, tick, ipCounts>>
    BY <1>6 DEF Reserve, Upgrade
  <2>2. PICK l \in {"upgrade", "auth"} : Goto(s, l)
    BY <1>6 DEF Reserve, Upgrade
  <2> QED BY <1>0, <2>1, <2>2, MoveKeepsNames
<1>7. ASSUME NEW s \in Sessions, Fail(s) PROVE NamesInv'
  <2>1. at[s] \in {"upgrade", "auth"} /\ UNCHANGED <<clients, names, name, tick>>
        /\ Goto(s, "refused") /\ ReleaseIP(s)
    BY <1>7 DEF Fail
  <2> QED BY <1>1, <2>1, MoveKeepsNames
<1>8. ASSUME NEW s \in Sessions, Authenticate(s) PROVE NamesInv'
  BY <1>8, NamesAdd
<1>9. ASSUME NEW s \in Sessions, HelloFails(s) PROVE NamesInv'
  BY <1>9, DropKeepsNames DEF HelloFails
<1>10. ASSUME NEW s \in Sessions, Register(s) PROVE NamesInv'
  <2>1. /\ at[s] = "hello" /\ clients' = clients \cup {s} /\ at' = [at EXCEPT ![s] = "registered"]
        /\ UNCHANGED <<names, name, tick, ipCounts>>
    BY <1>10 DEF Register, Goto
  <2>2. s \notin clients /\ s \notin tick /\ tick \subseteq Sessions
    BY <2>1 DEF NamesInv, Serving
  <2>3. at'[s] = "registered" /\ \A x \in Sessions : x # s => at'[x] = at[x]
    BY <1>0, <2>1
  <2>4. \A x \in Sessions : Named(x)' <=> Named(x)
    BY <2>1, <2>2, <2>3 DEF Named
  <2>5. NamesExact'
    BY <2>1, <2>4, NamesStay DEF NamesInv
  <2>6. \A x \in clients' : at'[x] \in Serving /\ x \notin tick'
    BY <1>0, <2>1, <2>2, <2>3 DEF NamesInv, Serving
  <2>7. \A x \in tick' : at'[x] \in Serving \cup {"left", "full"}
    BY <2>1, <2>2, <2>3 DEF NamesInv
  <2> QED BY <1>0, <2>1, <2>4, <2>5, <2>6, <2>7 DEF NamesInv
<1>11. ASSUME NEW s \in Sessions, ReleaseInflight(s) PROVE NamesInv'
  <2>1. at[s] = "registered" /\ UNCHANGED <<clients, names, name, tick, ipCounts>> /\ Goto(s, "recount")
    BY <1>11 DEF ReleaseInflight
  <2> QED BY <1>0, <2>1, MoveKeepsNames DEF Serving
<1>12. ASSUME NEW s \in Sessions, Recheck(s) PROVE NamesInv'
  <2>1. at[s] \in Serving /\ UNCHANGED <<names, name, tick>>
    BY <1>12 DEF Recheck, Serving
  <2>2. CASE OverCap(s)
    BY <1>12, <2>1, <2>2, UnregisterKeepsNames DEF Recheck
  <2>3. CASE ~OverCap(s)
    <3>1. Goto(s, "live") /\ UNCHANGED <<clients, ipCounts>>
      BY <1>12, <2>3 DEF Recheck
    <3> QED BY <1>0, <2>1, <3>1, MoveKeepsNames DEF Serving
  <2> QED BY <2>2, <2>3
<1>13. ASSUME NEW s \in Sessions, Leave(s) PROVE NamesInv'
  <2>1. at[s] \in Serving /\ UNCHANGED <<names, name, tick>> /\ Unregister(s, "leaving", "left")
    BY <1>13 DEF Leave, Serving
  <2> QED BY <2>1, UnregisterKeepsNames
<1>14. ASSUME NEW s \in Sessions, Drop(s) PROVE NamesInv'
  <2>1. PICK l \in {"full", "left"} : Goto(s, l)
    BY <1>14 DEF Drop
  <2> QED BY <1>14, <2>1, DropKeepsNames DEF Drop
<1>15. ASSUME NEW s \in Sessions, Kick(s) PROVE NamesInv'
  <2>1. /\ s \in clients /\ tick = {} /\ clients' = clients \ {s} /\ tick' = {s}
        /\ UNCHANGED <<at, ipCounts, names, name>>
    BY <1>15 DEF Kick
  <2>2. \A x \in Sessions : Named(x)' <=> Named(x)
    BY <2>1 DEF Named
  <2>3. NamesExact'
    BY <2>1, <2>2, NamesStay DEF NamesInv
  <2> QED BY <1>0, <2>1, <2>2, <2>3 DEF NamesInv
<1>16. ASSUME NEW s \in Sessions, KickDrops(s) PROVE NamesInv'
  <2>1. s \in tick /\ ReleaseName(s) /\ tick' = {} /\ UNCHANGED <<at, ipCounts, clients>>
    BY <1>16 DEF KickDrops
  <2>2. tick = {s} /\ s \notin clients /\ at[s] \in Serving \cup {"left", "full"}
    BY <2>1 DEF NamesInv
  <2>3. Named(s) /\ \A x \in Sessions : Named(x)' <=> Named(x) /\ x # s
    BY <2>1, <2>2 DEF Named, Serving
  <2>4. NamesExact /\ name \in [Sessions -> 0 .. MaxSerial]
    BY DEF NamesInv
  <2>5. NamesExact' /\ name' \in [Sessions -> 0 .. MaxSerial]
         /\ \A x \in Sessions : x # s => name'[x] = name[x]
    BY <2>1, <2>3, <2>4, NamesDrop
  <2>6. \A x \in Sessions : Named(x)' => name'[x] \in 1 .. MaxSerial
    BY <2>3, <2>5 DEF NamesInv
  <2> QED BY <1>0, <2>1, <2>5, <2>6 DEF NamesInv
<1> QED BY <1>2, <1>3, <1>4, <1>5, <1>6, <1>7, <1>8, <1>9, <1>10, <1>11, <1>12, <1>13,
           <1>14, <1>15, <1>16 DEF Next

(* Display names and sessions match, for any handshakes and limits, as     *)
(* long as there are more serials than connections of an address: no early *)
(* return, kick or failed write of ServeWS and unregisterClient leaks a    *)
(* name, frees it twice, or gives it to two sessions.                      *)
THEOREM NamesAlwaysExact == Spec => []NamesExact
<1>1. Init => AdmissionInv /\ NamesInv
  <2> SUFFICES ASSUME Init PROVE NamesInv
    BY AdmissionInit
  <2>1. \A s \in Sessions : ~Named(s)
    BY DEF Init, Named
  <2>2. NamesExact
    BY <2>1 DEF Init, NamesExact
  <2>3. name \in [Sessions -> 0 .. MaxSerial] /\ \A i \in IPs : ipCounts[i] <= MaxConnectionsPerIP
    BY SerialLimit, Limits DEF Init
  <2> QED BY <2>1, <2>2, <2>3 DEF Init, NamesInv
<1>2. AdmissionInv /\ NamesInv /\ [Next]_vars => (AdmissionInv /\ NamesInv)'
  BY AdmissionStep, NamesStep
<1>3. NamesInv => NamesExact
  BY DEF NamesInv
<1> QED BY <1>1, <1>2, <1>3, PTL DEF Spec

-----------------------------------------------------------------------------
(***************************************************************************)
(* Limiters.  A cooldown that is no longer recorded is over; a bucket that *)
(* is no longer recorded would be full; a ban that is no longer recorded   *)
(* has ended.                                                              *)
(***************************************************************************)
Charges == [at : Nat, cost : Nat, sum : Nat]
Levels  == [known : BOOLEAN, tokens : 0 .. Burst, updated : Nat]

(* What the bucket gives back in d units of time. *)
Refund(d) == PerTick * d

Records == [fails : Nat, unlock : Int, seen : Int]

TimesTyped ==
  now \in Nat /\ last \in Int /\ passed \in Int /\ record \in Records /\ banned \in Int

BudgetTyped ==
  /\ bucket \in Levels /\ bucket.updated <= now
  /\ spends \in Seq(Charges) /\ \A i \in DOMAIN spends : spends[i].at <= now

CooldownInv ==
  passed >= 0 => last = passed \/ (last = -1 /\ now - passed > Keep)

BanInv ==
  /\ record.seen <= now
  /\ now < banned => record.unlock = banned /\ record.seen >= 0 /\ banned <= record.seen + BanTime

(* What the key has spent since its i-th charge, and what it could spend   *)
(* next, are within the burst and the refill.                              *)
Since(i) == Charged - spends[i].sum + spends[i].cost

BudgetInv ==
  \A i \in DOMAIN spends :
    /\ bucket.known = TRUE  => /\ spends[i].at <= bucket.updated
                               /\ Since(i) + bucket.tokens <= Burst + Refund(bucket.updated - spends[i].at)
    /\ bucket.known = FALSE => Since(i) <= Refund(now - spends[i].at)

TimesInv  == TimesTyped /\ CooldownInv /\ BanInv
SpendsInv == BudgetTyped /\ BudgetInv /\ SpendBounded
LimitsInv == TimesInv /\ SpendsInv

LEMMA LimitConstants ==
  /\ Cooldown \in Nat /\ Keep \in Nat /\ Burst \in Nat /\ PerTick \in Nat /\ BanTime \in Nat
  /\ FailTTL \in Nat /\ Costs \subseteq Nat
  /\ Cooldown <= Keep /\ BanTime <= FailTTL /\ Burst <= Refund(Keep)
  BY LimitersAssumption DEF Refund

LEMMA RefundIs ==
  /\ \A d \in Nat : Refund(d) \in Nat
  /\ \A d, e \in Nat : Refund(d + e) = Refund(d) + Refund(e)
<1>1. PerTick \in Nat
  BY LimitConstants
<1>2. ASSUME NEW d \in Nat PROVE PerTick * d \in Nat
  BY <1>1
<1>3. ASSUME NEW d \in Nat, NEW e \in Nat PROVE PerTick * (d + e) = PerTick * d + PerTick * e
  BY <1>1
<1> QED BY <1>2, <1>3 DEF Refund

LEMMA RefundSplits ==
  ASSUME NEW a \in Nat, NEW b \in Nat, NEW c \in Nat, a <= b, b <= c
  PROVE  /\ Refund(c - a) = Refund(c - b) + Refund(b - a)
         /\ Refund(c - a) \in Nat /\ Refund(c - b) \in Nat /\ Refund(b - a) \in Nat
<1>1. c - b \in Nat /\ b - a \in Nat /\ c - a \in Nat /\ c - a = (c - b) + (b - a)
  OBVIOUS
<1> QED BY <1>1, RefundIs

LEMMA ChargesTyped ==
  ASSUME LimitsInv
  PROVE  /\ now \in Nat /\ Charged \in Nat /\ DOMAIN spends = 1 .. Len(spends) /\ Len(spends) \in Nat
         /\ \A i \in DOMAIN spends :
              /\ spends[i].at \in Nat /\ spends[i].at <= now /\ now - spends[i].at \in Nat
              /\ spends[i].sum \in Nat /\ spends[i].cost \in Nat
              /\ Since(i) \in Int
<1>1. now \in Nat /\ spends \in Seq(Charges) /\ \A i \in DOMAIN spends : spends[i].at <= now
  BY DEF LimitsInv, TimesInv, TimesTyped, SpendsInv, BudgetTyped
<1>2. \A i \in DOMAIN spends : spends[i] \in Charges
  BY <1>1
<1>3. \A i \in DOMAIN spends :
        spends[i].at \in Nat /\ spends[i].sum \in Nat /\ spends[i].cost \in Nat
  BY <1>2 DEF Charges
<1>4. DOMAIN spends = 1 .. Len(spends) /\ Len(spends) \in Nat /\ (spends # <<>> => Len(spends) > 0)
  BY <1>1
<1>5. Charged \in Nat
  BY <1>3, <1>4 DEF Charged
<1> QED BY <1>1, <1>3, <1>4, <1>5 DEF Since

(* A step that leaves the budget alone and does not turn the clock back.   *)
LEMMA BudgetSame ==
  ASSUME LimitsInv, UNCHANGED <<bucket, spends>>, now' \in {now, now + 1}
  PROVE  SpendsInv'
<1>1. SpendBounded'
  BY DEF LimitsInv, SpendsInv, SpendBounded, Spent
<1>2. ASSUME NEW i \in DOMAIN spends, bucket.known = FALSE
      PROVE  Since(i) <= Refund(now' - spends[i].at)
  <2>1. Since(i) <= Refund(now - spends[i].at)
    BY <1>2 DEF LimitsInv, SpendsInv, BudgetInv
  <2>2. spends[i].at \in Nat /\ now \in Nat /\ spends[i].at <= now /\ Since(i) \in Int
    BY ChargesTyped
  <2>3. now' \in Nat /\ now <= now'
    BY <2>2
  <2>4. /\ Refund(now' - spends[i].at) = Refund(now' - now) + Refund(now - spends[i].at)
        /\ Refund(now' - now) \in Nat /\ Refund(now - spends[i].at) \in Nat
        /\ Refund(now' - spends[i].at) \in Nat
    BY <2>2, <2>3, RefundSplits
  <2> QED BY <2>1, <2>2, <2>4
<1>3. BudgetInv'
  BY <1>2 DEF LimitsInv, SpendsInv, BudgetInv, Since, Charged
<1>4. BudgetTyped'
  <2>1. now \in Nat /\ \A i \in DOMAIN spends : spends[i].at \in Nat /\ spends[i].at <= now
    BY ChargesTyped
  <2>2. bucket.updated \in Nat /\ bucket.updated <= now
    BY DEF LimitsInv, SpendsInv, BudgetTyped, Levels
  <2>3. bucket'.updated <= now' /\ \A i \in DOMAIN spends' : spends'[i].at <= now'
    BY <2>1, <2>2
  <2> QED BY <2>3 DEF LimitsInv, SpendsInv, BudgetTyped
<1> QED BY <1>1, <1>3, <1>4 DEF SpendsInv

LEMMA CooldownKeeps ==
  ASSUME LimitsInv, CooldownNext
  PROVE  LimitsInv' /\ Apart
<1>1. TimesInv' /\ Apart
  <2>0. TimesInv
    BY DEF LimitsInv
  <2>1. CASE Allow
    <3>1. UNCHANGED <<now, record, banned>>
      BY <2>1 DEF Allow
    <3>2. CASE last < 0 \/ now - last >= Cooldown
      <4>1. last' = now /\ passed' = now
        BY <2>1, <3>2 DEF Allow
      <4>2. TimesInv'
        <5>1. TimesTyped' /\ BanInv'
          BY <2>0, <3>1, <4>1 DEF TimesInv, TimesTyped, BanInv
        <5>2. CooldownInv'
          BY <4>1 DEF CooldownInv
        <5> QED BY <5>1, <5>2 DEF TimesInv
      <4>3. Cooldown \in Nat /\ Keep \in Nat /\ Cooldown <= Keep
        BY LimitConstants
      <4>4. now \in Nat /\ last \in Int /\ passed \in Int /\ CooldownInv
        BY <2>0 DEF TimesInv, TimesTyped
      <4>5. Apart
        BY <3>2, <4>1, <4>3, <4>4 DEF CooldownInv, Apart
      <4> QED BY <4>2, <4>5
    <3>3. CASE ~(last < 0 \/ now - last >= Cooldown)
      <4>1. last' = last /\ passed' = passed
        BY <2>1, <3>3 DEF Allow
      <4> QED BY <2>0, <3>1, <4>1 DEF TimesInv, TimesTyped, CooldownInv, BanInv, Apart
    <3> QED BY <3>2, <3>3
  <2>2. CASE SweepCooldown
    BY <2>0, <2>2, LimitConstants
       DEF SweepCooldown, Old, TimesInv, TimesTyped, CooldownInv, BanInv, Apart
  <2> QED BY <2>1, <2>2 DEF CooldownNext
<1>2. UNCHANGED <<bucket, spends>> /\ now' \in {now, now + 1}
  BY DEF CooldownNext, Allow, SweepCooldown
<1> QED BY <1>1, <1>2, BudgetSame DEF LimitsInv

LEMMA PenaltyKeeps ==
  ASSUME LimitsInv, PenaltyNext
  PROVE  LimitsInv' /\ Apart
<1>0. UNCHANGED <<now, last, passed, bucket, spends>>
  BY DEF PenaltyNext, AuthPenalty, RoleLogin, Cleanup
<1>1. TimesInv
  BY DEF LimitsInv
<1>2. record' \in Records /\ banned' \in Int /\ BanInv'
  <2>1. ASSUME NEW i \in BOOLEAN, AuthPenalty(i)
        PROVE  record' \in Records /\ banned' \in Int /\ BanInv'
    <3>0. now \in Nat /\ record \in Records /\ banned \in Int /\ BanTime \in Nat
      BY <1>1, LimitConstants DEF TimesInv, TimesTyped
    <3>1. CASE record.fails + 1 >= FailLimit
      <4>1. /\ record' = [fails |-> 0, unlock |-> now + BanTime, seen |-> now]
            /\ banned' = now + BanTime
        BY <2>1, <3>1 DEF AuthPenalty, NextPenalty
      <4> QED BY <1>0, <3>0, <4>1 DEF Records, BanInv
    <3>2. CASE ~(record.fails + 1 >= FailLimit)
      <4>1. /\ record' = [record EXCEPT !.fails = record.fails + 1, !.seen = now]
            /\ banned' = banned
        BY <2>1, <3>2 DEF AuthPenalty, NextPenalty
      <4>0. record.fails \in Nat /\ record.fails + 1 \in Nat
        BY <3>0 DEF Records
      <4>2. record' \in Records /\ record'.unlock = record.unlock /\ record'.seen = now
        <5> DEFINE f == record.fails + 1
        <5>1. f \in Nat /\ record' = [record EXCEPT !.fails = f, !.seen = now]
          BY <4>0, <4>1
        <5> HIDE DEF f
        <5>2. now \in Int /\ record \in [fails : Nat, unlock : Int, seen : Int]
          BY <3>0 DEF Records
        <5>3. record' \in [fails : Nat, unlock : Int, seen : Int]
          BY <5>1, <5>2
        <5>4. record'.unlock = record.unlock
          BY <5>1, <5>2
        <5>5. record'.seen = now
          BY <5>1, <5>2
        <5> QED BY <5>3, <5>4, <5>5 DEF Records
      <4>3. record.seen \in Int /\ record.unlock \in Int
        BY <3>0 DEF Records
      <4> QED BY <1>0, <1>1, <3>0, <4>1, <4>2, <4>3 DEF TimesInv, BanInv
    <3> QED BY <3>1, <3>2
  <2>2. CASE RoleLogin
    <3>1. record' = NoRecord /\ banned' = -1 /\ now \in Nat
      BY <1>1, <2>2 DEF RoleLogin, TimesInv, TimesTyped
    <3> QED BY <1>0, <3>1 DEF NoRecord, Records, BanInv
  <2>3. CASE Cleanup
    <3>0. /\ now \in Nat /\ record \in Records /\ banned \in Int /\ BanTime \in Nat /\ FailTTL \in Nat
          /\ BanTime <= FailTTL /\ banned' = banned
      BY <1>1, <2>3, LimitConstants DEF TimesInv, TimesTyped, Cleanup
    <3>1. record.unlock \in Int /\ record.seen \in Int
      BY <3>0 DEF Records
    <3>2. CASE ShouldPrune(record)
      <4>1. record' = NoRecord
        BY <2>3, <3>2 DEF Cleanup
      <4>2. ~(now < banned)
        BY <1>1, <3>0, <3>1, <3>2 DEF TimesInv, BanInv, ShouldPrune
      <4> QED BY <1>0, <3>0, <4>1, <4>2 DEF NoRecord, Records, BanInv
    <3>3. CASE ~ShouldPrune(record)
      <4>1. record' = record
        BY <2>3, <3>3 DEF Cleanup
      <4> QED BY <1>0, <1>1, <3>0, <4>1 DEF TimesInv, BanInv
    <3> QED BY <3>2, <3>3
  <2> QED BY <2>1, <2>2, <2>3 DEF PenaltyNext
<1>3. SpendsInv'
  BY <1>0, BudgetSame
<1>4. TimesTyped' /\ CooldownInv' /\ Apart
  BY <1>0, <1>1, <1>2 DEF TimesInv, TimesTyped, CooldownInv, Apart
<1> QED BY <1>2, <1>3, <1>4 DEF LimitsInv, TimesInv

LEMMA TickKeeps ==
  ASSUME LimitsInv, Tick
  PROVE  LimitsInv' /\ Apart
<1>0. now' = now + 1 /\ UNCHANGED <<last, passed, bucket, spends, record, banned>>
  BY DEF Tick
<1>1. TimesInv
  BY DEF LimitsInv
<1>2. TimesInv' /\ Apart
  <2>1. TimesTyped' /\ Apart
    BY <1>0, <1>1 DEF TimesInv, TimesTyped, Apart
  <2>2. now \in Nat /\ passed \in Int /\ banned \in Int /\ record.seen \in Int /\ Keep \in Nat
    BY <1>1, LimitConstants DEF TimesInv, TimesTyped, Records
  <2>3. CooldownInv'
    BY <1>0, <1>1, <2>2 DEF TimesInv, CooldownInv
  <2>4. BanInv'
    BY <1>0, <1>1, <2>2 DEF TimesInv, BanInv
  <2> QED BY <2>1, <2>3, <2>4 DEF TimesInv
<1>3. SpendsInv'
  BY <1>0, BudgetSame
<1> QED BY <1>2, <1>3 DEF LimitsInv

(* The bucket, refilled: what the key has spent and could now spend.       *)
LEMMA RefillKeeps ==
  ASSUME LimitsInv
  PROVE  /\ Refilled(bucket) \in Levels /\ Refilled(bucket).known = TRUE
         /\ Refilled(bucket).updated = now
         /\ \A i \in DOMAIN spends :
              Since(i) + Refilled(bucket).tokens <= Burst + Refund(now - spends[i].at)
<1> DEFINE b == Refilled(bucket)
<1>0. bucket \in Levels /\ now \in Nat /\ Burst \in Nat /\ PerTick \in Nat /\ bucket.updated \in Nat
      /\ bucket.tokens \in 0 .. Burst /\ bucket.known \in BOOLEAN /\ bucket.updated <= now
  BY LimitConstants, ChargesTyped DEF LimitsInv, SpendsInv, BudgetTyped, Levels
<1>1. CASE bucket.known = FALSE
  <2>1. b = [known |-> TRUE, tokens |-> Burst, updated |-> now]
    BY <1>1 DEF Refilled
  <2>2. b \in Levels /\ b.known = TRUE /\ b.updated = now /\ b.tokens = Burst
    BY <1>0, <2>1 DEF Levels
  <2>3. ASSUME NEW i \in DOMAIN spends
        PROVE  Since(i) + Burst <= Burst + Refund(now - spends[i].at)
    <3>1. Since(i) <= Refund(now - spends[i].at)
      BY <1>1 DEF LimitsInv, SpendsInv, BudgetInv
    <3>2. Since(i) \in Int /\ now - spends[i].at \in Nat
      BY ChargesTyped
    <3>3. Refund(now - spends[i].at) \in Nat
      BY <3>2, RefundIs
    <3> QED BY <1>0, <3>1, <3>2, <3>3
  <2> QED BY <2>2, <2>3
<1>2. CASE bucket.known = TRUE
  <2> DEFINE more == bucket.tokens + Refund(now - bucket.updated)
  <2>0. now - bucket.updated \in Nat
    BY <1>0
  <2>1. Refund(now - bucket.updated) \in Nat
    BY <2>0, RefundIs
  <2>2. (now - bucket.updated) * PerTick = Refund(now - bucket.updated)
    BY <1>0 DEF Refund
  <2>3. b = [bucket EXCEPT !.tokens = Least(Burst, more), !.updated = now]
    BY <1>2, <2>2 DEF Refilled
  <2>4. Least(Burst, more) \in 0 .. Burst /\ Least(Burst, more) <= more
    BY <1>0, <2>1 DEF Least
  <2>5. b \in Levels /\ b.updated = now /\ b.tokens = Least(Burst, more)
    BY <1>0, <2>3, <2>4 DEF Levels
  <2>6. b.known = TRUE
    BY <1>0, <1>2, <2>3 DEF Levels
  <2>7. ASSUME NEW i \in DOMAIN spends
        PROVE  Since(i) + b.tokens <= Burst + Refund(now - spends[i].at)
    <3>1. /\ spends[i].at <= bucket.updated
          /\ Since(i) + bucket.tokens <= Burst + Refund(bucket.updated - spends[i].at)
      BY <1>2 DEF LimitsInv, SpendsInv, BudgetInv
    <3>2. Since(i) \in Int /\ spends[i].at \in Nat
      BY ChargesTyped
    <3>3. /\ Refund(now - spends[i].at) = Refund(now - bucket.updated) + Refund(bucket.updated - spends[i].at)
          /\ Refund(now - spends[i].at) \in Nat /\ Refund(bucket.updated - spends[i].at) \in Nat
      BY <1>0, <3>1, <3>2, RefundSplits
    <3> HIDE DEF b
    <3> QED BY <1>0, <2>1, <2>4, <2>5, <3>1, <3>2, <3>3
  <2> QED BY <2>5, <2>6, <2>7
<1> QED BY <1>0, <1>1, <1>2

LEMMA SpendKeeps ==
  ASSUME LimitsInv, NEW cost \in Costs, Spend(cost)
  PROVE  SpendsInv'
<1> DEFINE b == Refilled(bucket)
           e == [at |-> now, cost |-> cost, sum |-> Charged + cost]
           n == Len(spends)
<1>0. /\ spends \in Seq(Charges) /\ n \in Nat /\ now \in Nat /\ now' = now /\ cost \in Nat /\ Burst \in Nat
  BY LimitConstants, ChargesTyped DEF LimitsInv, SpendsInv, BudgetTyped, Spend
<1>1. /\ Charged \in Nat
      /\ \A i \in DOMAIN spends :
           /\ spends[i].at \in Nat /\ spends[i].at <= now /\ now - spends[i].at \in Nat
           /\ spends[i].sum \in Nat /\ spends[i].cost \in Nat /\ Since(i) \in Int
  BY ChargesTyped
<1>2. /\ b \in Levels /\ b.updated = now
      /\ \A i \in DOMAIN spends : Since(i) + b.tokens <= Burst + Refund(now - spends[i].at)
  BY RefillKeeps
<1>3. b.known = TRUE
  BY RefillKeeps
<1>4. SpendBounded
  BY DEF LimitsInv, SpendsInv
<1>5. CASE b.tokens >= cost
  <2>1. bucket' = [b EXCEPT !.tokens = b.tokens - cost] /\ spends' = Append(spends, e)
    BY <1>5 DEF Spend
  <2>2. e \in Charges /\ e.at = now /\ e.cost = cost /\ e.sum = Charged + cost
    BY <1>0, <1>1 DEF Charges
  <2> HIDE DEF b, e
  <2>3. b.tokens \in 0 .. Burst /\ b.tokens - cost \in 0 .. Burst
    BY <1>0, <1>2, <1>5 DEF Levels
  <2>4. bucket' \in Levels /\ bucket'.updated = now /\ bucket'.tokens = b.tokens - cost
    BY <1>2, <2>1, <2>3 DEF Levels
  <2>5. bucket'.known = TRUE
    BY <1>2, <1>3, <2>1 DEF Levels
  <2>6. /\ spends' \in Seq(Charges) /\ Len(spends') = n + 1 /\ spends'[n + 1] = e
        /\ \A i \in 1 .. n : spends'[i] = spends[i]
        /\ DOMAIN spends = 1 .. n /\ DOMAIN spends' = 1 .. n + 1
    BY <1>0, <2>1, <2>2
  <2>7. Charged' = Charged + cost
    BY <1>0, <2>2, <2>6 DEF Charged
  <2> HIDE DEF n
  <2>8. \A i \in 1 .. n + 1 : spends'[i].at \in Nat /\ spends'[i].at <= now
    <3>1. spends'[n + 1].at \in Nat /\ spends'[n + 1].at <= now
      BY <1>0, <2>2, <2>6
    <3>2. \A i \in 1 .. n : spends'[i].at \in Nat /\ spends'[i].at <= now
      BY <1>1, <2>6
    <3>3. \A i \in 1 .. n + 1 : i = n + 1 \/ i \in 1 .. n
      BY <1>0
    <3> QED BY <3>1, <3>2, <3>3
  <2>9. ASSUME NEW i \in 1 .. n + 1
        PROVE  Since(i)' + bucket'.tokens <= Burst + Refund(now - spends'[i].at) /\ Since(i)' \in Int
    <3>1. CASE i = n + 1
      <4>1. Since(i)' = cost
        BY <1>1, <1>0, <2>2, <2>6, <2>7, <3>1 DEF Since
      <4>2. Refund(now - spends'[i].at) \in Nat
        <5>1. spends'[i].at = now
          BY <2>2, <2>6, <3>1
        <5>2. now - spends'[i].at = 0 /\ 0 \in Nat
          BY <1>0, <5>1
        <5>3. Refund(0) \in Nat
          BY <5>2, RefundIs
        <5> QED BY <5>2, <5>3
      <4> QED BY <1>0, <2>3, <2>4, <4>1, <4>2
    <3>2. CASE i \in 1 .. n
      <4>1. Since(i)' = Since(i) + cost /\ Since(i) \in Int /\ spends'[i].at = spends[i].at
        <5>1. spends'[i] = spends[i] /\ i \in DOMAIN spends
          BY <2>6, <3>2
        <5>2. spends[i].sum \in Nat /\ spends[i].cost \in Nat /\ Charged \in Nat
          BY <1>1, <5>1
        <5>3. Since(i)' = Charged' - spends'[i].sum + spends'[i].cost
          BY DEF Since
        <5>4. Since(i) = Charged - spends[i].sum + spends[i].cost
          BY DEF Since
        <5> QED BY <1>0, <2>7, <5>1, <5>2, <5>3, <5>4
      <4>2. Since(i) + b.tokens <= Burst + Refund(now - spends[i].at)
        BY <1>2, <2>6, <3>2
      <4>3. now - spends[i].at \in Nat
        BY <1>1, <2>6, <3>2
      <4>4. Refund(now - spends[i].at) \in Nat
        BY <4>3, RefundIs
      <4> QED BY <1>0, <2>3, <2>4, <4>1, <4>2, <4>4
    <3> QED BY <1>0, <3>1, <3>2
  <2>10. BudgetInv'
    BY <1>0, <2>4, <2>5, <2>6, <2>8, <2>9 DEF BudgetInv
  <2>11. ASSUME NEW i \in 1 .. n + 1, NEW j \in 1 .. n + 1, i <= j
         PROVE  Spent(i, j)' <= Burst + PerTick * (spends'[j].at - spends'[i].at)
    <3>1. CASE j = n + 1
      <4>1. Spent(i, j)' = Since(i)' /\ spends'[j].at = now
        BY <2>2, <2>6, <2>7, <3>1 DEF Spent, Since
      <4>2. spends'[i].at \in Nat /\ spends'[i].at <= now
        BY <2>8
      <4>3. Refund(now - spends'[i].at) \in Nat
        <5>1. now - spends'[i].at \in Nat
          BY <1>0, <4>2
        <5> QED BY <5>1, RefundIs
      <4>4. Since(i)' <= Burst + Refund(now - spends'[i].at)
        BY <1>0, <2>3, <2>4, <2>9, <4>3
      <4> QED BY <4>1, <4>4 DEF Refund
    <3>2. CASE j \in 1 .. n
      BY <1>0, <1>4, <2>6, <2>11, <3>2 DEF SpendBounded, Spent
    <3> QED BY <1>0, <3>1, <3>2
  <2>12. SpendBounded'
    BY <2>6, <2>11 DEF SpendBounded
  <2>13. BudgetTyped'
    BY <1>0, <2>4, <2>6, <2>8 DEF BudgetTyped
  <2> QED BY <2>10, <2>12, <2>13 DEF SpendsInv
<1>6. CASE ~(b.tokens >= cost)
  <2>1. bucket' = b /\ spends' = spends
    BY <1>6 DEF Spend
  <2> HIDE DEF b
  <2>2. SpendBounded'
    BY <1>4, <2>1 DEF SpendBounded, Spent
  <2>3. BudgetInv'
    BY <1>0, <1>1, <1>2, <1>3, <2>1 DEF BudgetInv, Since, Charged
  <2>4. BudgetTyped'
    BY <1>0, <1>1, <1>2, <2>1 DEF BudgetTyped
  <2> QED BY <2>2, <2>3, <2>4 DEF SpendsInv
<1> QED BY <1>5, <1>6

LEMMA EvictKeeps ==
  ASSUME LimitsInv, EvictBucket
  PROVE  SpendsInv'
<1>0. /\ bucket' = NoBucket /\ spends' = spends /\ now' = now /\ bucket.known = TRUE
      /\ now - bucket.updated > Keep
  BY DEF EvictBucket, Old, LimitsInv, SpendsInv, BudgetTyped, Levels
<1>1. NoBucket \in Levels /\ NoBucket.known = FALSE /\ NoBucket.updated = 0
  BY LimitConstants DEF NoBucket, Levels
<1>2. SpendBounded'
  BY <1>0 DEF LimitsInv, SpendsInv, SpendBounded, Spent
<1>3. ASSUME NEW i \in DOMAIN spends PROVE Since(i) <= Refund(now - spends[i].at)
  <2>1. /\ spends[i].at <= bucket.updated
        /\ Since(i) + bucket.tokens <= Burst + Refund(bucket.updated - spends[i].at)
    BY <1>0 DEF LimitsInv, SpendsInv, BudgetInv
  <2>2. /\ Since(i) \in Int /\ spends[i].at \in Nat /\ now \in Nat
        /\ bucket.updated \in Nat /\ bucket.updated <= now /\ bucket.tokens \in 0 .. Burst
    BY ChargesTyped DEF LimitsInv, SpendsInv, BudgetTyped, Levels
  <2>3. /\ Refund(now - spends[i].at) = Refund(now - bucket.updated) + Refund(bucket.updated - spends[i].at)
        /\ Refund(now - spends[i].at) \in Nat /\ Refund(bucket.updated - spends[i].at) \in Nat
    BY <2>1, <2>2, RefundSplits
  <2>4. Burst \in Nat /\ Burst <= Refund(Keep) /\ Keep \in Nat
    BY LimitConstants
  <2>5. /\ Refund((now - bucket.updated) - 0) = Refund((now - bucket.updated) - Keep) + Refund(Keep - 0)
        /\ Refund((now - bucket.updated) - Keep) \in Nat /\ Refund(Keep - 0) \in Nat
    <3>1. now - bucket.updated \in Nat /\ 0 <= Keep /\ Keep <= now - bucket.updated
      BY <1>0, <2>2, <2>4
    <3> QED BY <2>4, <3>1, RefundSplits
  <2>6. (now - bucket.updated) - 0 = now - bucket.updated /\ Keep - 0 = Keep
    BY <2>2, <2>4
  <2>7. Burst <= Refund(now - bucket.updated) /\ Refund(now - bucket.updated) \in Int
    BY <2>4, <2>5, <2>6
  <2> QED BY <2>1, <2>2, <2>3, <2>4, <2>7
<1>4. BudgetInv'
  BY <1>0, <1>1, <1>3 DEF BudgetInv, Since, Charged
<1>5. BudgetTyped'
  BY <1>0, <1>1, ChargesTyped DEF LimitsInv, SpendsInv, BudgetTyped
<1> QED BY <1>2, <1>4, <1>5 DEF SpendsInv

LEMMA BudgetKeeps ==
  ASSUME LimitsInv, BudgetNext
  PROVE  LimitsInv' /\ Apart
<1>0. UNCHANGED <<now, last, passed, record, banned>>
  BY DEF BudgetNext, Spend, EvictBucket
<1>1. SpendsInv'
  BY SpendKeeps, EvictKeeps DEF BudgetNext
<1>2. TimesInv' /\ Apart
  BY <1>0 DEF LimitsInv, TimesInv, TimesTyped, CooldownInv, BanInv, Apart
<1> QED BY <1>1, <1>2 DEF LimitsInv

(* CooldownMap.Allow, BudgetMap.Allow, NextPenalty and the sweeps of their *)
(* tables, for any limits, costs and clock, as long as what a sweep        *)
(* forgets is over: two calls that pass are a cooldown apart, a key spends *)
(* no more than the burst and the refill in any stretch of time, and a ban *)
(* is served.                                                              *)
THEOREM LimitsAlwaysHold ==
  LimitsSpec => LimitsHold
<1>1. LimitsInit => LimitsInv
  <2> SUFFICES ASSUME LimitsInit PROVE LimitsInv
    OBVIOUS
  <2>1. /\ now = 0 /\ last = -1 /\ passed = -1 /\ bucket = NoBucket /\ spends = <<>>
        /\ record = NoRecord /\ banned = -1
    BY DEF LimitsInit
  <2>2. bucket \in Levels /\ bucket.updated = 0
    BY <2>1, LimitConstants DEF NoBucket, Levels
  <2>3. TimesTyped /\ BudgetTyped
    BY <2>1, <2>2 DEF TimesTyped, BudgetTyped, Records, NoRecord
  <2>4. CooldownInv /\ BanInv
    BY <2>1 DEF CooldownInv, BanInv, NoRecord
  <2>5. BudgetInv /\ SpendBounded
    BY <2>1 DEF BudgetInv, SpendBounded
  <2> QED BY <2>3, <2>4, <2>5 DEF LimitsInv, TimesInv, SpendsInv
<1>2. LimitsInv /\ [CooldownNext \/ BudgetNext \/ PenaltyNext \/ Tick]_lvars => LimitsInv' /\ [Apart]_lvars
  <2>1. CASE UNCHANGED lvars
    <3>1. LimitsInv => TimesInv'
      BY <2>1 DEF lvars, LimitsInv, TimesInv, TimesTyped, CooldownInv, BanInv
    <3>2. LimitsInv => SpendsInv'
      BY <2>1, BudgetSame DEF lvars
    <3> QED BY <2>1, <3>1, <3>2 DEF LimitsInv
  <2> QED BY <2>1, CooldownKeeps, BudgetKeeps, PenaltyKeeps, TickKeeps
<1>3. LimitsInv => SpendBounded /\ BanServed
  BY DEF LimitsInv, TimesInv, TimesTyped, SpendsInv, BanInv, BanServed, Banned
<1> QED BY <1>1, <1>2, <1>3, PTL DEF LimitsSpec, LimitsHold, CooldownHolds

-----------------------------------------------------------------------------
(* AttackState.  What Total computes.                                      *)
Totals(n, c) == CHOOSE f : f = [k \in 0 .. n |-> IF k = 0 THEN 0 ELSE f[k - 1] + c[k - 1]]

IsTotals(f, n, c) == f = [k \in 0 .. n |-> IF k = 0 THEN 0 ELSE f[k - 1] + c[k - 1]]

Counts(n) == [0 .. (n - 1) -> Nat]

LEMMA TotalsExist == \A c : \A n \in Nat : \E f : IsTotals(f, n, c)
<1> SUFFICES ASSUME NEW c PROVE \A n \in Nat : \E f : IsTotals(f, n, c)
  OBVIOUS
<1> DEFINE T == {n \in Nat : ~\E f : IsTotals(f, n, c)}
<1> SUFFICES ASSUME T # {} PROVE FALSE
  OBVIOUS
<1>1. PICK m \in T : \A k \in T : m <= k
  BY LeastNumber
<1>2. m \in Nat /\ ~\E f : IsTotals(f, m, c)
  BY <1>1
<1>3. CASE m = 0
  <2>1. IsTotals([i \in 0 .. 0 |-> 0], 0, c)
    BY DEF IsTotals
  <2> QED BY <1>2, <1>3, <2>1
<1>4. CASE m # 0
  <2>1. m - 1 \in Nat /\ m - 1 \notin T
    BY <1>1, <1>2, <1>4
  <2>2. PICK f : IsTotals(f, m - 1, c)
    BY <2>1
  <2> DEFINE g == [i \in 0 .. m |-> IF i = m THEN f[m - 1] + c[m - 1] ELSE f[i]]
  <2>3. \A i \in 0 .. (m - 1) : f[i] = IF i = 0 THEN 0 ELSE f[i - 1] + c[i - 1]
    BY <2>2 DEF IsTotals
  <2>4. \A i \in 0 .. m : g[i] = IF i = 0 THEN 0 ELSE g[i - 1] + c[i - 1]
    <3> SUFFICES ASSUME NEW i \in 0 .. m PROVE g[i] = IF i = 0 THEN 0 ELSE g[i - 1] + c[i - 1]
      OBVIOUS
    <3>1. CASE i = m
      BY <1>2, <1>4, <3>1
    <3>2. CASE i # m
      <4>1. i \in 0 .. (m - 1) /\ (i # 0 => i - 1 \in 0 .. m /\ i - 1 # m)
        BY <1>2, <3>2
      <4>2. f[i] = IF i = 0 THEN 0 ELSE f[i - 1] + c[i - 1]
        BY <2>3, <4>1
      <4> QED BY <3>2, <4>1, <4>2
    <3> QED BY <3>1, <3>2
  <2>5. g = [i \in 0 .. m |-> IF i = 0 THEN 0 ELSE g[i - 1] + c[i - 1]]
    BY <2>4
  <2> HIDE DEF g
  <2>6. IsTotals(g, m, c)
    BY <2>5 DEF IsTotals
  <2> QED BY <1>2, <2>6
<1> QED BY <1>3, <1>4

(* Total by its partial sums. *)
PartialSums(f, n, c) ==
  /\ Total(n, c) = f[n] /\ f[0] = 0
  /\ \A k \in 1 .. n : f[k] = f[k - 1] + c[k - 1]

LEMMA TotalIs ==
  ASSUME NEW n \in Nat, NEW c
  PROVE  \E f : PartialSums(f, n, c)
<1> DEFINE f == Totals(n, c)
<1>1. \E g : IsTotals(g, n, c)
  BY TotalsExist
<1>2. IsTotals(f, n, c)
  BY <1>1, Zenon DEF Totals, IsTotals
<1>3. Total(n, c) = f[n]
  BY DEF Total, Totals
<1> HIDE DEF f
<1>4. \A k \in 0 .. n : f[k] = IF k = 0 THEN 0 ELSE f[k - 1] + c[k - 1]
  BY <1>2 DEF IsTotals
<1>5. f[0] = 0 /\ \A k \in 1 .. n : f[k] = f[k - 1] + c[k - 1]
  BY <1>4
<1> QED BY <1>3, <1>5 DEF PartialSums

(* Counts that agree but for one place have totals that differ by as much. *)
LEMMA TotalsDiffer ==
  ASSUME NEW n \in Nat, NEW c \in Counts(n), NEW d \in Counts(n), NEW p \in 0 .. (n - 1),
         \A i \in 0 .. (n - 1) : i # p => c[i] = d[i]
  PROVE  Total(n, d) = Total(n, c) - c[p] + d[p] /\ Total(n, c) \in Nat /\ Total(n, d) \in Nat
<1>f. PICK f : PartialSums(f, n, c)
  BY TotalIs
<1>1. /\ Total(n, c) = f[n] /\ f[0] = 0
      /\ \A k \in 1 .. n : f[k] = f[k - 1] + c[k - 1]
  BY <1>f DEF PartialSums
<1>g. PICK g : PartialSums(g, n, d)
  BY TotalIs
<1>2. /\ Total(n, d) = g[n] /\ g[0] = 0
      /\ \A k \in 1 .. n : g[k] = g[k - 1] + d[k - 1]
  BY <1>g DEF PartialSums
<1> DEFINE OK(k) == /\ f[k] \in Nat /\ g[k] \in Nat
                    /\ g[k] = IF k <= p THEN f[k] ELSE f[k] - c[p] + d[p]
           T == {k \in 0 .. n : ~OK(k)}
<1>3. T = {}
  <2> SUFFICES ASSUME T # {} PROVE FALSE
    OBVIOUS
  <2>1. T \in SUBSET Nat
    OBVIOUS
  <2>2. PICK k \in T : \A j \in T : k <= j
    BY <2>1, LeastNumber
  <2>3. k \in 0 .. n /\ ~OK(k)
    BY <2>2
  <2>4. k # 0
    BY <1>1, <1>2, <2>3
  <2>5. k - 1 \in 0 .. n /\ k \in 1 .. n /\ k - 1 \in 0 .. (n - 1)
    BY <2>3, <2>4
  <2>6. OK(k - 1)
    BY <2>2, <2>3, <2>5
  <2>7. f[k] = f[k - 1] + c[k - 1] /\ g[k] = g[k - 1] + d[k - 1]
    BY <1>1, <1>2, <2>5
  <2>8. c[k - 1] \in Nat /\ d[k - 1] \in Nat /\ c[p] \in Nat /\ d[p] \in Nat
    BY <2>5 DEF Counts
  <2>9. k - 1 # p => c[k - 1] = d[k - 1]
    BY <2>5
  <2> QED BY <2>3, <2>5, <2>6, <2>7, <2>8, <2>9
<1>4. OK(n)
  BY <1>3
<1>5. ~(n <= p)
  OBVIOUS
<1> QED BY <1>1, <1>2, <1>4, <1>5

(* No counts, no total; a total that is not nothing has a count behind it. *)
LEMMA TotalOfSome ==
  ASSUME NEW n \in Nat, NEW c \in Counts(n), Total(n, c) # 0
  PROVE  \E i \in 0 .. (n - 1) : c[i] # 0
<1> SUFFICES ASSUME \A i \in 0 .. (n - 1) : c[i] = 0 PROVE FALSE
  OBVIOUS
<1>f. PICK f : PartialSums(f, n, c)
  BY TotalIs
<1>1. /\ Total(n, c) = f[n] /\ f[0] = 0
      /\ \A k \in 1 .. n : f[k] = f[k - 1] + c[k - 1]
  BY <1>f DEF PartialSums
<1> DEFINE T == {k \in 0 .. n : f[k] # 0}
<1>2. n \in T /\ T \in SUBSET Nat
  BY <1>1
<1>3. PICK k \in T : \A j \in T : k <= j
  BY <1>2, LeastNumber
<1>4. k \in 0 .. n /\ f[k] # 0 /\ k # 0
  BY <1>1, <1>3
<1>5. k - 1 \in 0 .. n /\ k \in 1 .. n /\ k - 1 \in 0 .. (n - 1)
  BY <1>4
<1>6. f[k - 1] = 0
  BY <1>3, <1>4, <1>5
<1> QED BY <1>1, <1>4, <1>5, <1>6

(* Two numbers less than b apart with the same remainder are the same.     *)
LEMMA SamePlace ==
  ASSUME NEW b \in Nat \ {0}, NEW x \in Nat, NEW y \in Nat, x <= y, y < x + b, x % b = y % b
  PROVE  x = y
<1> DEFINE p == x \div b
           q == y \div b
           r == x % b
<1>1. p \in Nat /\ q \in Nat /\ r \in 0 .. (b - 1) /\ x = b * p + r /\ y = b * q + r
  OBVIOUS
<1> HIDE DEF p, q, r
<1>2. b * p \in Nat /\ b * q \in Nat /\ b * p <= b * q /\ b * q < b * p + b
  BY <1>1
<1>3. CASE q < p
  <2>1. b * (q + 1) <= b * p
    BY <1>1, <1>3
  <2>2. b * (q + 1) = b * q + b
    BY <1>1
  <2> QED BY <1>2, <2>1, <2>2
<1>4. CASE p < q
  <2>1. b * (p + 1) <= b * q
    BY <1>1, <1>4
  <2>2. b * (p + 1) = b * p + b
    BY <1>1
  <2> QED BY <1>2, <2>1, <2>2
<1>5. CASE p = q
  BY <1>1, <1>5
<1> QED BY <1>1, <1>3, <1>4, <1>5
-----------------------------------------------------------------------------
(* The ring: a second that the sampler may still ask for has its bucket,   *)
(* or nothing was noted in it.                                             *)
Bins == [sec : 0 .. MaxClock, n : 0 .. MaxRejects]

RingTyped ==
  /\ clock \in Secs /\ pressure \in 0 .. clock
  /\ buckets \in [Slots -> Bins] /\ \A i \in Slots : buckets[i].sec <= clock
  /\ \A i \in Slots : buckets[i].sec # 0 => buckets[i].sec \in Secs /\ buckets[i].sec % Buckets = i
  /\ rejects \in [Secs -> 0 .. MaxRejects]

Recent(s) == s <= clock /\ clock < s + Buckets
HasBin(s) == buckets[s % Buckets].sec = s

RingInv ==
  /\ RingTyped
  /\ \A s \in Secs : Recent(s) /\ HasBin(s)  => buckets[s % Buckets].n = rejects[s]
  /\ \A s \in Secs : Recent(s) /\ ~HasBin(s) => rejects[s] = 0
  /\ \A s \in Secs : rejects[s] # 0 => s <= pressure

TickInv == /\ fired \in Secs \cup {None}
           /\ fired # None => fired <= clock /\ clock <= fired + MaxLag

LEMMA AttackConstants ==
  /\ AttackWindow \in Nat /\ AttackWindow > 0 /\ Buckets \in Nat \ {0} /\ EnterSecs \in Nat /\ EnterSecs > 0
  /\ AttackTTL \in Nat /\ AttackTTL > 0 /\ EnterRPS \in Nat /\ Epoch \in Nat /\ MaxLag \in Nat
  /\ MaxClock \in Nat /\ MaxRejects \in Nat /\ AttackWindow <= Epoch /\ Epoch <= MaxClock
  /\ AttackWindow + MaxLag <= Buckets /\ None \notin Int
  BY AttackAssumption

LEMMA SecPlaces ==
  /\ \A s \in Secs : s \in Nat /\ s >= 1 /\ s <= MaxClock /\ s % Buckets \in Slots
  /\ None \notin Secs
<1>1. \A s \in Secs : s \in Nat /\ s >= 1 /\ s <= MaxClock
  BY AttackConstants DEF Secs
<1>2. \A s \in Nat : s % Buckets \in 0 .. (Buckets - 1)
  BY AttackConstants
<1>3. None \notin Secs
  BY AttackConstants DEF Secs
<1> QED BY <1>1, <1>2, <1>3 DEF Slots

LEMMA BinIs ==
  ASSUME RingTyped, NEW i \in Slots
  PROVE  /\ buckets[i].sec \in Nat /\ buckets[i].n \in 0 .. MaxRejects /\ buckets[i].n \in Nat
         /\ buckets[i].sec <= clock /\ clock \in Nat
         /\ buckets[i].sec # 0 => buckets[i].sec \in Secs /\ buckets[i].sec % Buckets = i
<1>1. buckets[i] \in Bins
  BY DEF RingTyped
<1>2. buckets[i].sec \in 0 .. MaxClock /\ buckets[i].n \in 0 .. MaxRejects
  BY <1>1 DEF Bins
<1> QED BY <1>2, AttackConstants, SecPlaces DEF RingTyped

(* sample's fold over the ring is what was noted in the window.            *)
LEMMA FoldExact ==
  ASSUME RingInv, NEW t \in Secs, t <= clock, clock <= t + MaxLag
  PROVE  /\ Fold(t) = Noted(t) /\ Fold(t) \in Nat
         /\ Noted(t) # 0 => t < pressure + AttackWindow
<1> DEFINE Part(w) == [i \in Slots |-> IF t - w < buckets[i].sec /\ buckets[i].sec <= t
                                       THEN buckets[i].n ELSE 0]
           c == [d \in 0 .. (AttackWindow - 1) |-> IF t - d \in Secs THEN rejects[t - d] ELSE 0]
<1>0. RingTyped /\ t \in Nat /\ clock \in Nat /\ AttackWindow \in Nat /\ Buckets \in Nat \ {0} /\ MaxLag \in Nat
  BY AttackConstants, SecPlaces DEF RingInv, RingTyped
<1>1. \A w \in Nat : Part(w) \in Counts(Buckets)
  <2>1. \A i \in Slots : buckets[i].n \in Nat
    BY <1>0, BinIs
  <2> QED BY <2>1 DEF Counts, Slots
<1>2. \A d \in 0 .. (AttackWindow - 1) : c[d] \in Nat
  BY <1>0, AttackConstants DEF RingTyped
<1>3. c \in Counts(AttackWindow)
  BY <1>2 DEF Counts
<1>4. Fold(t) = Total(Buckets, Part(AttackWindow)) /\ Noted(t) = Total(AttackWindow, c)
  BY DEF Fold, Noted
<1> HIDE DEF c
<1>w. AttackWindow \in Nat
  BY <1>0
<1>f. PICK f : PartialSums(f, AttackWindow, c)
  BY <1>w, TotalIs
<1>5. /\ Total(AttackWindow, c) = f[AttackWindow] /\ f[0] = 0
      /\ \A k \in 1 .. AttackWindow : f[k] = f[k - 1] + c[k - 1]
  BY <1>f DEF PartialSums
<1>6. Total(Buckets, Part(0)) = 0
  <2>1. \A i \in Slots : Part(0)[i] = 0
    <3> SUFFICES ASSUME NEW i \in Slots PROVE ~(t - 0 < buckets[i].sec /\ buckets[i].sec <= t)
      OBVIOUS
    <3> QED BY <1>0, BinIs
  <2>2. Part(0) \in Counts(Buckets)
    BY <1>1
  <2> HIDE DEF Part
  <2> QED BY <1>0, <2>1, <2>2, TotalOfSome DEF Slots
<1>7. ASSUME NEW k \in 1 .. AttackWindow
      PROVE  Total(Buckets, Part(k)) = Total(Buckets, Part(k - 1)) + c[k - 1]
             /\ Total(Buckets, Part(k - 1)) \in Nat
  <2> DEFINE w == k - 1
             s == t - w
             p == s % Buckets
  <2>0. w \in 0 .. (AttackWindow - 1) /\ k \in Nat /\ w \in Nat /\ k = w + 1
    BY <1>0
  <2>1. s \in Nat /\ s >= 1 /\ s <= t /\ t < s + AttackWindow /\ t <= MaxClock
    BY <1>0, <2>0, AttackConstants DEF Secs
  <2>2. p \in Slots
    BY <1>0, <2>1 DEF Slots
  <2>3. ASSUME NEW i \in Slots, i # p PROVE Part(k)[i] = Part(w)[i]
    <3>1. buckets[i].sec # s
      BY <1>0, <2>1, <2>3, BinIs
    <3>2. buckets[i].sec \in Nat
      BY <1>0, BinIs
    <3>3. t - k < buckets[i].sec <=> t - w < buckets[i].sec
      BY <1>0, <2>0, <3>1, <3>2
    <3> QED BY <3>3
  <2>4. ~(t - w < buckets[p].sec /\ buckets[p].sec <= t)
    <3> SUFFICES ASSUME t - w < buckets[p].sec, buckets[p].sec <= t PROVE FALSE
      OBVIOUS
    <3>1. /\ buckets[p].sec \in Nat
          /\ buckets[p].sec # 0 => buckets[p].sec % Buckets = p
      BY <1>0, <2>2, BinIs
    <3>2. s < buckets[p].sec /\ buckets[p].sec < s + Buckets /\ buckets[p].sec # 0
      BY <1>0, <2>1, <3>1, AttackConstants
    <3> DEFINE y == buckets[p].sec
    <3>3. y \in Nat /\ s <= y /\ y < s + Buckets /\ s % Buckets = y % Buckets /\ s # y
      BY <2>1, <3>1, <3>2
    <3> HIDE DEF y, s
    <3> QED BY <1>0, <2>1, <3>3, SamePlace
  <2>5. Part(w)[p] = 0
    BY <2>2, <2>4
  <2>6. Part(k)[p] = IF HasBin(s) THEN buckets[p].n ELSE 0
    <3>1. buckets[p].sec \in Nat
      BY <1>0, <2>2, BinIs
    <3>2. t - k < buckets[p].sec /\ buckets[p].sec <= t <=> buckets[p].sec = s
      BY <1>0, <2>0, <2>1, <2>4, <3>1
    <3> QED BY <2>2, <3>2 DEF HasBin
  <2>7. c[w] = IF s \in Secs THEN rejects[s] ELSE 0
    BY <2>0 DEF c
  <2>8. Part(k)[p] = c[w]
    <3>1. CASE s \in Secs
      <4>1. Recent(s)
        BY <1>0, <2>1, AttackConstants DEF Recent
      <4> HIDE DEF Part
      <4> QED BY <2>6, <2>7, <3>1, <4>1 DEF RingInv
    <3>2. CASE s \notin Secs
      <4>1. ~HasBin(s)
        BY <1>0, <2>1, <2>2, <3>2, BinIs DEF HasBin
      <4> HIDE DEF Part
      <4> QED BY <2>6, <2>7, <3>2, <4>1
    <3> QED BY <3>1, <3>2
  <2>9. Part(k) \in Counts(Buckets) /\ Part(w) \in Counts(Buckets) /\ c[w] \in Nat
    BY <1>1, <1>2, <2>0
  <2> DEFINE pk == Part(k)
             pw == Part(w)
  <2>10. \A i \in 0 .. (Buckets - 1) : i # p => pw[i] = pk[i]
    BY <2>3 DEF Slots
  <2>11. pk \in Counts(Buckets) /\ pw \in Counts(Buckets) /\ pw[p] = 0 /\ pk[p] = c[w]
    BY <2>5, <2>8, <2>9
  <2>12. p \in 0 .. (Buckets - 1) /\ Buckets \in Nat
    BY <1>0, <2>2 DEF Slots
  <2> HIDE DEF pk, pw, p
  <2>13. Total(Buckets, pk) = Total(Buckets, pw) - pw[p] + pk[p] /\ Total(Buckets, pw) \in Nat
    BY <2>10, <2>11, <2>12, TotalsDiffer
  <2>14. Total(Buckets, pk) = Total(Buckets, pw) + c[w] /\ Total(Buckets, pw) \in Nat
    BY <2>9, <2>11, <2>13
  <2> QED BY <2>14 DEF pk, pw
<1> HIDE DEF Part
<1> DEFINE OK(k) == Total(Buckets, Part(k)) = f[k] /\ f[k] \in Nat
           T == {k \in 0 .. AttackWindow : ~OK(k)}
<1>8. T = {}
  <2> SUFFICES ASSUME T # {} PROVE FALSE
    OBVIOUS
  <2>1. T \in SUBSET Nat
    OBVIOUS
  <2>2. PICK k \in T : \A j \in T : k <= j
    BY <2>1, LeastNumber
  <2>3. k \in 0 .. AttackWindow /\ ~OK(k)
    BY <2>2
  <2>4. k # 0
    BY <1>5, <1>6, <2>3
  <2>5. k - 1 \in 0 .. AttackWindow /\ k \in 1 .. AttackWindow /\ k - 1 \in 0 .. (AttackWindow - 1)
    BY <1>0, <2>3, <2>4
  <2>6. OK(k - 1)
    BY <2>2, <2>3, <2>5
  <2>7. f[k] = f[k - 1] + c[k - 1] /\ c[k - 1] \in Nat
    BY <1>2, <1>5, <2>5
  <2>8. Total(Buckets, Part(k)) = Total(Buckets, Part(k - 1)) + c[k - 1]
    BY <1>7, <2>5
  <2> QED BY <2>3, <2>6, <2>7, <2>8
<1>9. OK(AttackWindow)
  BY <1>0, <1>8
<1>10. ASSUME Noted(t) # 0 PROVE t < pressure + AttackWindow
  <2>1. PICK d \in 0 .. (AttackWindow - 1) : c[d] # 0
    BY <1>0, <1>3, <1>4, <1>10, TotalOfSome
  <2>2. t - d \in Secs /\ rejects[t - d] # 0
    BY <2>1 DEF c
  <2>3. t - d <= pressure
    BY <2>2 DEF RingInv
  <2> QED BY <1>0, <2>1, <2>3 DEF RingTyped
<1> QED BY <1>4, <1>5, <1>9, <1>10
-----------------------------------------------------------------------------
(* The flag: it runs in step with what is owed, and is down in time.       *)
FlagTyped ==
  /\ under \in BOOLEAN /\ until \in 0 .. (clock + AttackTTL) /\ run \in Nat
  /\ force \in {"auto", "on", "off"}
  /\ hotRun \in Nat /\ promise \in 0 .. (clock + AttackTTL)

FlagInv ==
  /\ FlagTyped /\ run = hotRun
  /\ until <= pressure + AttackWindow + AttackTTL
  /\ clock < promise => under = TRUE /\ promise <= until
  /\ fired # None => promise <= fired + AttackTTL

AttackInv == RingInv /\ TickInv /\ FlagInv

LEMMA AttackTyped ==
  ASSUME AttackInv
  PROVE  /\ clock \in Nat /\ clock \in Secs /\ pressure \in Nat /\ pressure <= clock
         /\ until \in Nat /\ promise \in Nat /\ promise <= clock + AttackTTL /\ until <= clock + AttackTTL
         /\ run \in Nat /\ hotRun \in Nat
         /\ fired # None => fired \in Secs /\ fired \in Nat /\ fired <= clock /\ clock <= fired + MaxLag
<1>1. clock \in Secs /\ pressure \in 0 .. clock
  BY DEF AttackInv, RingInv, RingTyped
<1>2. clock \in Nat
  BY <1>1, SecPlaces
<1>3. fired # None => fired \in Secs /\ fired <= clock /\ clock <= fired + MaxLag
  BY DEF AttackInv, TickInv
<1>4. until \in 0 .. (clock + AttackTTL) /\ promise \in 0 .. (clock + AttackTTL) /\ run \in Nat /\ hotRun \in Nat
  BY DEF AttackInv, FlagInv, FlagTyped
<1>5. fired # None => fired \in Nat
  BY <1>3, SecPlaces
<1>6. AttackTTL \in Nat
  BY AttackConstants
<1> QED BY <1>1, <1>2, <1>3, <1>4, <1>5, <1>6

LEMMA NoteKeeps ==
  ASSUME AttackInv, NoteReject
  PROVE  AttackInv'
<1> DEFINE p == clock % Buckets
           old == buckets[p]
           new == [Bucket(clock) EXCEPT !.n = Bucket(clock).n + 1]
<1>0. /\ rejects[clock] < MaxRejects
      /\ buckets' = [buckets EXCEPT ![p] = new]
      /\ rejects' = [rejects EXCEPT ![clock] = rejects[clock] + 1]
      /\ pressure' = clock
      /\ UNCHANGED <<clock, under, until, run, force, fired, hotRun, promise>>
  BY DEF NoteReject
<1>1. /\ RingTyped /\ clock \in Secs /\ clock \in Nat /\ pressure <= clock /\ pressure \in Nat /\ clock <= MaxClock
      /\ p \in Slots /\ Buckets \in Nat \ {0} /\ until \in Nat /\ AttackWindow \in Nat /\ AttackTTL \in Nat
      /\ rejects \in [Secs -> 0 .. MaxRejects] /\ buckets \in [Slots -> Bins] /\ MaxRejects \in Nat
  BY AttackTyped, SecPlaces, AttackConstants DEF AttackInv, RingInv, RingTyped
<1>2. rejects[clock] \in 0 .. MaxRejects /\ rejects[clock] + 1 \in 0 .. MaxRejects
  BY <1>0, <1>1
<1>3. Bucket(clock) = IF old.sec # clock THEN [sec |-> clock, n |-> 0] ELSE old
  BY DEF Bucket
<1>4. Recent(clock)
  BY <1>1 DEF Recent
<1>5. Bucket(clock) \in Bins /\ Bucket(clock).sec = clock /\ Bucket(clock).n = rejects[clock]
  <2>1. CASE old.sec = clock
    <3>1. Bucket(clock) = old /\ HasBin(clock) /\ old \in Bins
      BY <1>1, <1>3, <2>1 DEF HasBin
    <3> QED BY <1>1, <1>4, <2>1, <3>1 DEF AttackInv, RingInv
  <2>2. CASE old.sec # clock
    <3>1. Bucket(clock) = [sec |-> clock, n |-> 0] /\ ~HasBin(clock)
      BY <1>3, <2>2 DEF HasBin
    <3>2. rejects[clock] = 0
      BY <1>1, <1>4, <3>1 DEF AttackInv, RingInv
    <3> QED BY <1>1, <3>1, <3>2 DEF Bins
  <2> QED BY <2>1, <2>2
<1>6. new \in Bins /\ new.sec = clock /\ new.n = rejects[clock] + 1
  <2> DEFINE b == Bucket(clock)
             m == rejects[clock] + 1
  <2>1. b \in [sec : 0 .. MaxClock, n : 0 .. MaxRejects] /\ b.sec = clock /\ b.n + 1 = m /\ m \in 0 .. MaxRejects
    BY <1>2, <1>5 DEF Bins
  <2>2. new = [b EXCEPT !.n = m]
    BY <2>1
  <2> HIDE DEF new, b, m
  <2>3. new \in [sec : 0 .. MaxClock, n : 0 .. MaxRejects] /\ new.sec = clock /\ new.n = m
    BY <2>1, <2>2
  <2> QED BY <2>3 DEF Bins, m
<1> HIDE DEF new, old
<1>7. /\ buckets' \in [Slots -> Bins] /\ buckets'[p] = new
      /\ \A i \in Slots : i # p => buckets'[i] = buckets[i]
  BY <1>0, <1>1, <1>6
<1>8. /\ rejects' \in [Secs -> 0 .. MaxRejects] /\ rejects'[clock] = rejects[clock] + 1
      /\ \A s \in Secs : s # clock => rejects'[s] = rejects[s]
  BY <1>0, <1>1, <1>2
<1>9. RingTyped'
  <2>1. \A i \in Slots : buckets'[i].sec <= clock
    BY <1>1, <1>6, <1>7 DEF RingTyped
  <2>2. \A i \in Slots : buckets'[i].sec # 0 => buckets'[i].sec \in Secs /\ buckets'[i].sec % Buckets = i
    BY <1>1, <1>6, <1>7 DEF RingTyped
  <2>3. Slots' = Slots /\ Secs' = Secs /\ Bins' = Bins
    BY DEF Slots, Secs, Bins
  <2>4. clock' \in Secs /\ pressure' \in 0 .. clock'
    BY <1>0, <1>1
  <2> QED BY <1>0, <1>7, <1>8, <2>1, <2>2, <2>3, <2>4 DEF RingTyped
<1>10. ASSUME NEW s \in Secs, Recent(s)
       PROVE  /\ buckets'[s % Buckets].sec = s => buckets'[s % Buckets].n = rejects'[s]
              /\ buckets'[s % Buckets].sec # s => rejects'[s] = 0
  <2>1. CASE s = clock
    BY <1>6, <1>7, <1>8, <2>1
  <2>2. CASE s # clock
    <3>1. s % Buckets # p /\ s % Buckets \in Slots
      BY <1>1, <1>10, <2>2, SamePlace, SecPlaces DEF Recent
    <3>2. buckets'[s % Buckets] = buckets[s % Buckets] /\ rejects'[s] = rejects[s]
      BY <1>7, <1>8, <2>2, <3>1
    <3> QED BY <1>10, <3>2 DEF AttackInv, RingInv, HasBin
  <2> QED BY <2>1, <2>2
<1>11. ASSUME NEW s \in Secs, rejects'[s] # 0 PROVE s <= clock
  <2>1. CASE s = clock
    BY <1>1, <2>1
  <2>2. CASE s # clock
    <3>1. s <= pressure /\ s \in Nat
      BY <1>8, <1>11, <2>2, SecPlaces DEF AttackInv, RingInv
    <3> QED BY <1>1, <3>1
  <2> QED BY <2>1, <2>2
<1>12. RingInv'
  BY <1>0, <1>9, <1>10, <1>11 DEF RingInv, Recent, HasBin
<1>13. TickInv' /\ FlagTyped'
  BY <1>0 DEF AttackInv, TickInv, FlagInv, FlagTyped
<1>14. until' <= pressure' + AttackWindow + AttackTTL
  BY <1>0, <1>1 DEF AttackInv, FlagInv
<1>15. FlagInv'
  BY <1>0, <1>13, <1>14 DEF AttackInv, FlagInv
<1> QED BY <1>12, <1>13, <1>15 DEF AttackInv

LEMMA SecondKeeps ==
  ASSUME AttackInv, Second
  PROVE  AttackInv'
<1>0. /\ clock < MaxClock /\ clock' = clock + 1 /\ (fired # None => clock - fired < MaxLag)
      /\ fired' = (IF fired = None THEN clock' ELSE fired)
      /\ UNCHANGED <<buckets, under, until, run, force, rejects, hotRun, promise, pressure>>
  BY DEF Second, code, ghosts
<1>1. /\ RingTyped /\ clock \in Secs /\ clock \in Nat /\ pressure <= clock /\ pressure \in Nat
      /\ until \in Nat /\ promise \in Nat /\ promise <= clock + AttackTTL /\ until <= clock + AttackTTL
      /\ fired # None => fired \in Secs /\ fired \in Nat /\ fired <= clock
  BY AttackTyped DEF AttackInv, RingInv
<1>2. clock + 1 \in Secs /\ MaxLag \in Nat /\ AttackTTL \in Nat /\ Buckets \in Nat /\ Epoch \in Nat
  BY <1>0, <1>1, AttackConstants DEF Secs
<1>3. RingTyped'
  <2>1. \A i \in Slots : buckets[i].sec <= clock + 1
    BY <1>1, BinIs
  <2> QED BY <1>0, <1>1, <1>2, <2>1 DEF RingTyped, Slots, Secs, Bins
<1>4. ASSUME NEW s \in Secs, s <= clock + 1, clock + 1 < s + Buckets
      PROVE  /\ HasBin(s) => buckets[s % Buckets].n = rejects[s]
             /\ ~HasBin(s) => rejects[s] = 0
  <2>1. s \in Nat /\ s % Buckets \in Slots
    BY SecPlaces
  <2>2. CASE s = clock + 1
    <3>1. buckets[s % Buckets].sec \in Nat /\ buckets[s % Buckets].sec <= clock
      BY <1>1, <2>1, BinIs
    <3>2. ~HasBin(s)
      BY <1>1, <2>2, <3>1 DEF HasBin
    <3>3. rejects[s] = 0
      BY <1>1, <2>2 DEF AttackInv, RingInv
    <3> QED BY <3>2, <3>3
  <2>3. CASE s # clock + 1
    <3>1. Recent(s)
      BY <1>1, <1>2, <1>4, <2>1, <2>3 DEF Recent
    <3> QED BY <3>1 DEF AttackInv, RingInv
  <2> QED BY <2>2, <2>3
<1>5. RingInv'
  BY <1>0, <1>3, <1>4 DEF AttackInv, RingInv, Recent, HasBin, Secs
<1>6. TickInv'
  <2>1. CASE fired = None
    BY <1>0, <1>1, <1>2, <2>1 DEF TickInv, Secs
  <2>2. CASE fired # None
    BY <1>0, <1>1, <1>2, <2>2 DEF TickInv, Secs
  <2> QED BY <2>1, <2>2
<1>7. FlagTyped'
  <2>1. until' \in 0 .. (clock' + AttackTTL) /\ promise' \in 0 .. (clock' + AttackTTL)
    BY <1>0, <1>1, <1>2
  <2> QED BY <1>0, <2>1 DEF AttackInv, FlagInv, FlagTyped
<1>8. run' = hotRun' /\ until' <= pressure' + AttackWindow + AttackTTL
  BY <1>0 DEF AttackInv, FlagInv
<1>9. clock' < promise' => under' = TRUE /\ promise' <= until'
  BY <1>0, <1>1, <1>2 DEF AttackInv, FlagInv
<1>10. fired' # None => promise' <= fired' + AttackTTL
  <2>1. CASE fired = None
    BY <1>0, <1>1, <1>2, <2>1
  <2>2. CASE fired # None
    BY <1>0, <2>2 DEF AttackInv, FlagInv
  <2> QED BY <2>1, <2>2
<1>11. FlagInv'
  BY <1>7, <1>8, <1>9, <1>10 DEF FlagInv
<1> QED BY <1>5, <1>6, <1>11 DEF AttackInv

(* A sample touches the ring only through the time of the last pressure.   *)
LEMMA RingSame ==
  ASSUME AttackInv, UNCHANGED <<clock, buckets, rejects>>, pressure' \in {pressure, clock}
  PROVE  RingInv' /\ pressure' \in Nat /\ pressure <= pressure' /\ pressure' <= clock
<1>1. pressure \in Nat /\ clock \in Nat /\ pressure <= clock
  BY AttackTyped
<1>2. pressure' \in 0 .. clock /\ pressure <= pressure'
  BY <1>1
<1>3. RingTyped'
  BY <1>2 DEF AttackInv, RingInv, RingTyped, Slots, Secs, Bins
<1>4. ASSUME NEW s \in Secs, rejects[s] # 0 PROVE s <= pressure'
  <2>1. s \in Nat /\ s <= pressure
    BY <1>4, SecPlaces DEF AttackInv, RingInv
  <2> QED BY <1>1, <1>2, <2>1
<1>5. RingInv'
  BY <1>3, <1>4 DEF AttackInv, RingInv, Recent, HasBin, Secs
<1> QED BY <1>1, <1>2, <1>5

(* The arithmetic of a sample. *)
LEMMA LaterPressure ==
  ASSUME NEW a \in Nat, NEW p \in Nat, NEW q \in Nat, NEW w \in Nat, NEW l \in Nat, p <= q
  PROVE  (a < p + w => a < q + w) /\ (a <= p + w + l => a <= q + w + l)
  OBVIOUS

LEMMA FreshUntil ==
  ASSUME NEW a \in Nat, NEW c \in Nat, NEW q \in Nat, NEW w \in Nat, NEW l \in Nat, a <= c, a < q + w
  PROVE  a + l \in 0 .. (c + l) /\ a + l <= q + w + l
  OBVIOUS

LEMMA SampleKeeps ==
  ASSUME AttackInv, NEW full \in BOOLEAN, Sample(full)
  PROVE  AttackInv'
<1>0. /\ fired # None /\ fired' = None /\ UNCHANGED <<clock, buckets, force, rejects>>
  BY DEF Sample
<1>1. /\ clock \in Nat /\ pressure \in Nat /\ pressure <= clock
      /\ until \in Nat /\ promise \in Nat /\ promise <= clock + AttackTTL /\ until <= clock + AttackTTL
      /\ run \in Nat /\ hotRun \in Nat
      /\ fired \in Secs /\ fired \in Nat /\ fired <= clock /\ clock <= fired + MaxLag
  BY <1>0, AttackTyped
<1>2. AttackWindow \in Nat /\ AttackTTL \in Nat /\ AttackTTL > 0 /\ MaxLag \in Nat /\ EnterSecs \in Nat /\ EnterSecs > 0
  BY AttackConstants
<1>3. run = hotRun /\ until <= pressure + AttackWindow + AttackTTL /\ promise <= fired + AttackTTL
      /\ (clock < promise => under = TRUE /\ promise <= until) /\ under \in BOOLEAN
  BY <1>0 DEF AttackInv, FlagInv, FlagTyped
<1> DEFINE Flag == /\ under' \in BOOLEAN /\ until' \in 0 .. (clock + AttackTTL) /\ run' \in Nat
                   /\ hotRun' = run' /\ promise' \in 0 .. (clock + AttackTTL)
                   /\ until' <= pressure' + AttackWindow + AttackTTL
                   /\ clock < promise' => under' = TRUE /\ promise' <= until'
<1>4. pressure' \in {pressure, clock} /\ Flag
  <2>1. CASE under /\ force = "off"
    <3>1. /\ under' = FALSE /\ run' = 0 /\ hotRun' = 0 /\ promise' = 0
          /\ until' = until /\ pressure' = pressure
      BY <2>1 DEF Sample
    <3>2. under' \in BOOLEAN
      BY <3>1
    <3>3. ~(clock < promise')
      BY <1>1, <3>1
    <3> QED BY <1>1, <1>2, <1>3, <3>1, <3>2, <3>3
  <2>2. CASE force = "on"
    <3>1. /\ under' = TRUE /\ until' = fired + AttackTTL /\ run' = 0
          /\ hotRun' = 0 /\ promise' = fired + AttackTTL /\ pressure' = clock
      BY <2>2 DEF Sample
    <3> QED BY <1>1, <1>2, <3>1
  <2>3. CASE force # "on" /\ ~(under /\ force = "off")
    <3> DEFINE sig == Hot(full, Fold(fired))
               sum == Fold(fired)
    <3>1. sum = Noted(fired) /\ sum \in Nat /\ (sum # 0 => fired < pressure + AttackWindow)
      BY <1>1, FoldExact DEF AttackInv
    <3>2. /\ AutoSample(sig, fired) /\ Owe(sig, fired)
          /\ pressure' = IF full THEN clock ELSE pressure
      BY <2>3, <3>1 DEF Sample
    <3>3. pressure' \in {pressure, clock} /\ pressure' \in Nat /\ pressure <= pressure'
      BY <1>1, <3>2
    <3>4. sig => fired < pressure' + AttackWindow
      <4>1. CASE full
        BY <1>1, <1>2, <3>2, <4>1, AttackConstants
      <4>2. CASE ~full /\ sig
        <5>1. sum > EnterRPS * AttackWindow /\ EnterRPS * AttackWindow \in Nat
          BY <4>2, AttackConstants DEF Hot
        <5> HIDE DEF sum
        <5>2. sum # 0
          BY <3>1, <5>1
        <5>3. fired < pressure + AttackWindow
          BY <3>1, <5>2
        <5>4. pressure \in Nat /\ pressure' \in Nat /\ pressure <= pressure' /\ fired \in Nat /\ AttackWindow \in Nat
          BY <1>1, <1>2, <3>3
        <5>5. fired < pressure' + AttackWindow
          BY <1>2, <5>3, <5>4, LaterPressure
        <5> QED BY <5>5
      <4> QED BY <4>1, <4>2
    <3>5. sig \in BOOLEAN
      BY DEF Hot
    <3> HIDE DEF sig, sum
    <3> DEFINE r == IF sig THEN run + 1 ELSE 0
               in == under = FALSE /\ r >= EnterSecs
    <3>6. r \in Nat /\ (r >= EnterSecs => sig)
      BY <1>1, <1>2
    <3>7. hotRun' = r
      BY <1>3, <3>2 DEF Owe
    <3>8. promise' = IF sig /\ (r >= EnterSecs \/ clock < promise) THEN fired + AttackTTL ELSE promise
      BY <3>2, <3>7 DEF Owe
    <3>9. until' = IF (under = TRUE \/ in) /\ (sig \/ in) THEN fired + AttackTTL ELSE until
      BY <1>3, <3>2 DEF AutoSample
    <3>10. CASE under = TRUE /\ ~sig /\ fired > until
      <4>1. under' = FALSE /\ run' = 0 /\ r = 0
        BY <3>2, <3>10 DEF AutoSample
      <4>2. promise' = promise /\ until' = until
        BY <3>6, <3>8, <3>9, <3>10
      <4>3. ~(clock < promise)
        BY <1>1, <1>3, <3>10
      <4>4. under' \in BOOLEAN
        BY <4>1
      <4> HIDE DEF r
      <4>5. until <= pressure + AttackWindow + AttackTTL /\ pressure <= pressure' /\ pressure' \in Nat
        BY <1>3, <3>3
      <4>6. until \in 0 .. (clock + AttackTTL) /\ promise \in 0 .. (clock + AttackTTL)
        BY <1>1, <1>2
      <4>7. until <= pressure' + AttackWindow + AttackTTL
        BY <1>1, <1>2, <4>5, LaterPressure
      <4>8. until' \in 0 .. (clock + AttackTTL) /\ until' <= pressure' + AttackWindow + AttackTTL /\ promise' \in 0 .. (clock + AttackTTL)
        BY <4>2, <4>6, <4>7
      <4>9. run' \in Nat /\ hotRun' = run'
        BY <3>7, <4>1
      <4> QED BY <3>3, <4>2, <4>3, <4>4, <4>8, <4>9
    <3>11. CASE ~(under = TRUE /\ ~sig /\ fired > until)
      <4>1. under' = (under \/ in) /\ run' = r
        BY <1>3, <3>2, <3>11 DEF AutoSample
      <4>2. under' \in BOOLEAN /\ (under = TRUE => under' = TRUE) /\ (in => under' = TRUE)
        BY <4>1
      <4>3. until' \in 0 .. (clock + AttackTTL) /\ until' <= pressure' + AttackWindow + AttackTTL
        <5>1. CASE (under = TRUE \/ in) /\ (sig \/ in)
          <6>1. until' = fired + AttackTTL /\ sig
            BY <3>6, <3>9, <5>1
          <6>2. fired < pressure' + AttackWindow
            BY <3>4, <6>1
          <6>3. until' = fired + AttackTTL /\ pressure' \in Nat
            BY <3>3, <6>1
          <6>4. fired \in Nat /\ clock \in Nat /\ fired <= clock /\ AttackWindow \in Nat /\ AttackTTL \in Nat
            BY <1>1, <1>2
          <6>5. fired + AttackTTL \in 0 .. (clock + AttackTTL) /\ fired + AttackTTL <= pressure' + AttackWindow + AttackTTL
            BY <6>2, <6>3, <6>4, FreshUntil
          <6> QED BY <6>3, <6>5
        <5>2. CASE ~((under = TRUE \/ in) /\ (sig \/ in))
          <6>1. until' = until
            BY <3>9, <5>2
          <6>2. until <= pressure + AttackWindow + AttackTTL /\ pressure <= pressure' /\ pressure' \in Nat
            BY <1>3, <3>3
          <6>3. until \in 0 .. (clock + AttackTTL)
            BY <1>1, <1>2
          <6>4. until <= pressure' + AttackWindow + AttackTTL
            BY <1>1, <1>2, <6>2, LaterPressure
          <6> QED BY <6>1, <6>3, <6>4
        <5> QED BY <5>1, <5>2
      <4>4. promise' \in 0 .. (clock + AttackTTL)
        <5>1. promise' = fired + AttackTTL \/ promise' = promise
          BY <3>8
        <5> QED BY <1>1, <1>2, <5>1
      <4>5. ASSUME clock < promise' PROVE under' = TRUE /\ promise' <= until'
        <5>1. CASE sig /\ (r >= EnterSecs \/ clock < promise)
          <6>1. promise' = fired + AttackTTL
            BY <3>8, <5>1
          <6>2. under = TRUE \/ in
            BY <1>3, <5>1
          <6>3. until' = fired + AttackTTL
            BY <3>9, <5>1, <6>2
          <6> QED BY <1>1, <1>2, <4>2, <6>1, <6>2, <6>3
        <5>2. CASE ~(sig /\ (r >= EnterSecs \/ clock < promise))
          <6>1. promise' = promise /\ clock < promise
            BY <3>8, <4>5, <5>2
          <6>2. under = TRUE /\ promise <= until
            BY <1>3, <6>1
          <6>3. until' = fired + AttackTTL \/ until' = until
            BY <3>9
          <6> QED BY <1>1, <1>2, <1>3, <4>2, <6>1, <6>2, <6>3
        <5> QED BY <5>1, <5>2
      <4> HIDE DEF r, in
      <4> QED BY <3>3, <3>6, <3>7, <4>1, <4>2, <4>3, <4>4, <4>5
    <3> QED BY <3>10, <3>11
  <2> QED BY <2>1, <2>2, <2>3
<1>5. RingInv'
  BY <1>0, <1>4, RingSame
<1>6. TickInv'
  BY <1>0 DEF TickInv
<1>7. FlagInv'
  <2>1. force \in {"auto", "on", "off"}
    BY DEF AttackInv, FlagInv, FlagTyped
  <2>2. FlagTyped'
    BY <1>0, <1>4, <2>1 DEF FlagTyped
  <2> QED BY <1>0, <1>4, <2>2 DEF FlagInv
<1> QED BY <1>5, <1>6, <1>7 DEF AttackInv

LEMMA AttackStep ==
  ASSUME AttackInv, [AttackNext]_attackVars
  PROVE  AttackInv'
<1>1. CASE Reload
  <2>1. UNCHANGED <<clock, buckets, under, until, run, fired, rejects, hotRun, promise, pressure>>
        /\ force' \in {"auto", "on", "off"}
    BY <1>1 DEF Reload, code, ghosts
  <2>2. RingInv' /\ TickInv'
    BY <2>1, RingSame DEF AttackInv, TickInv, Secs
  <2>3. FlagTyped'
    BY <2>1 DEF AttackInv, FlagInv, FlagTyped
  <2>4. FlagInv'
    BY <2>1, <2>3 DEF AttackInv, FlagInv
  <2> QED BY <2>2, <2>4 DEF AttackInv
<1>2. CASE UNCHANGED attackVars
  <2>1. UNCHANGED <<clock, buckets, under, until, run, force, fired, rejects, hotRun, promise, pressure>>
    BY <1>2 DEF attackVars, code, ghosts
  <2>2. RingInv' /\ TickInv'
    BY <2>1, RingSame DEF AttackInv, TickInv, Secs
  <2>3. FlagInv'
    BY <2>1 DEF AttackInv, FlagInv, FlagTyped
  <2> QED BY <2>2, <2>3 DEF AttackInv
<1> QED BY <1>1, <1>2, NoteKeeps, SecondKeeps, SampleKeeps DEF AttackNext

LEMMA AttackStart ==
  ASSUME AttackInit
  PROVE  AttackInv
<1>1. /\ clock = Epoch /\ buckets = [i \in Slots |-> [sec |-> 0, n |-> 0]]
      /\ under = FALSE /\ until = 0 /\ run = 0 /\ force = "auto" /\ fired = None
      /\ rejects = [s \in Secs |-> 0] /\ hotRun = 0 /\ promise = 0 /\ pressure = 0
  BY DEF AttackInit
<1>2. clock \in Secs /\ clock \in Nat /\ MaxClock \in Nat /\ MaxRejects \in Nat /\ AttackTTL \in Nat /\ AttackWindow \in Nat
  BY <1>1, AttackConstants DEF Secs
<1>3. [sec |-> 0, n |-> 0] \in Bins
  BY <1>2 DEF Bins
<1>4. RingTyped
  BY <1>1, <1>2, <1>3 DEF RingTyped
<1>5. RingInv
  <2>1. \A s \in Secs : rejects[s] = 0 /\ s \in Nat /\ s >= 1 /\ s % Buckets \in Slots
    BY <1>1, SecPlaces
  <2>2. \A s \in Secs : ~HasBin(s)
    BY <1>1, <2>1 DEF HasBin
  <2> QED BY <1>4, <2>1, <2>2 DEF RingInv
<1>6. TickInv
  BY <1>1 DEF TickInv
<1>7. under \in BOOLEAN
  BY <1>1
<1>8. FlagInv
  BY <1>1, <1>2, <1>7 DEF FlagInv, FlagTyped
<1> QED BY <1>5, <1>6, <1>8 DEF AttackInv

(* sample and its goroutine, for any window, ring, thresholds, AttackTTL and     *)
(* delay of the sampler within the spare buckets: FlagFollows.             *)
THEOREM FlagAlwaysFollows ==
  AttackSpec => []FlagFollows
<1>1. AttackInit => AttackInv
  BY AttackStart
<1>2. AttackInv /\ [AttackNext]_attackVars => AttackInv'
  BY AttackStep
<1>3. AttackInv => FlagFollows
  <2> SUFFICES ASSUME AttackInv PROVE FlagFollows
    OBVIOUS
  <2>0. /\ clock \in Nat /\ clock \in Secs /\ pressure \in Nat /\ pressure <= clock
        /\ until \in Nat /\ promise \in Nat
        /\ fired # None => fired \in Secs /\ fired \in Nat /\ fired <= clock /\ clock <= fired + MaxLag
    BY AttackTyped
  <2>1. AttackTypes
    <3>1. buckets \in [Slots -> [sec : 0 .. clock, n : 0 .. MaxRejects]]
      <4>1. buckets \in [Slots -> Bins] /\ \A i \in Slots : buckets[i].sec <= clock
        BY DEF AttackInv, RingInv, RingTyped
      <4>2. \A i \in Slots : buckets[i] \in [sec : 0 .. clock, n : 0 .. MaxRejects]
        <5> SUFFICES ASSUME NEW i \in Slots PROVE buckets[i] \in [sec : 0 .. clock, n : 0 .. MaxRejects]
          OBVIOUS
        <5>1. buckets[i] \in Bins /\ buckets[i].sec <= clock
          BY <4>1
        <5> QED BY <2>0, <5>1 DEF Bins
      <4> QED BY <4>1, <4>2
    <3>2. /\ \A i \in Slots : buckets[i].sec # 0 => buckets[i].sec % Buckets = i
          /\ rejects \in [Secs -> 0 .. MaxRejects] /\ pressure \in 0 .. clock
      BY DEF AttackInv, RingInv, RingTyped
    <3>3. /\ under \in BOOLEAN /\ until \in 0 .. (clock + AttackTTL) /\ run \in Nat
          /\ force \in {"auto", "on", "off"} /\ hotRun \in Nat /\ promise \in 0 .. (clock + AttackTTL)
      BY DEF AttackInv, FlagInv, FlagTyped
    <3>4. fired \in Secs \cup {None}
      BY DEF AttackInv, TickInv
    <3> QED BY <2>0, <3>1, <3>2, <3>3, <3>4 DEF AttackTypes
  <2>2. FoldIsExact
    BY <2>0, FoldExact DEF FoldIsExact, AttackInv
  <2>3. HoldsFullTTL
    <3> SUFFICES ASSUME clock < promise PROVE under /\ clock < until
      BY DEF HoldsFullTTL, IsUnderAttack
    <3>1. under = TRUE /\ promise <= until
      BY DEF AttackInv, FlagInv
    <3> QED BY <2>0, <3>1
  <2>4. QuietEnds
    <3>1. until <= pressure + AttackWindow + AttackTTL
      BY DEF AttackInv, FlagInv
    <3> QED BY <2>0, <3>1, AttackConstants DEF QuietEnds, IsUnderAttack
  <2> QED BY <2>1, <2>2, <2>3, <2>4 DEF FlagFollows
<1> QED BY <1>1, <1>2, <1>3, PTL DEF AttackSpec
=============================================================================
