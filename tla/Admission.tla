----------------------------- MODULE Admission -----------------------------
(***************************************************************************)
(* Admission of a websocket session: ServeWS and serveAuthenticated        *)
(* (server/main.go), the per-IP and global limits (clientHandler.go,       *)
(* blocklist.go) and the display-name serials (auth.go).  Each handler is  *)
(* a goroutine; the counters have locks of their own, so every check and   *)
(* every update is a step of its own, and overCap is two reads.            *)
(*                                                                         *)
(* The blocklist, the join gate and CheckConnectionRate refuse before any  *)
(* slot is taken: a handler starts here once they have let it pass.  All   *)
(* users of an address ask for the same name, the worst case for serials.  *)
(***************************************************************************)
EXTENDS Naturals, FiniteSets

CONSTANTS
  Sessions,            \* handshakes, each arriving once
  IPOf,                \* the client address of a session
  MaxConnectionsPerIP,
  MaxTotalConnections,
  MaxSerial            \* display-name serials, 999 in the code

IPs == {IPOf[s] : s \in Sessions}

ASSUME AdmissionAssumption ==
  /\ IsFiniteSet(Sessions) /\ DOMAIN IPOf = Sessions
  /\ MaxConnectionsPerIP \in Nat \ {0}
  /\ MaxTotalConnections \in Nat \ {0}
  /\ MaxSerial \in Nat \ {0} /\ MaxSerial > MaxConnectionsPerIP

VARIABLES
  at,       \* where each handler is
  ipCounts, \* ChatServer.IpCounts
  inflight, \* ChatServer.Inflight
  clients,  \* the sessions in Hub.Clients
  names,    \* Hub.DisplayNameCount: <<address, serial>> pairs taken
  name,     \* the serial of a session's display name, 0 before it has one
  seen,     \* the client count overCap has read
  tick      \* the session behaviorTick is unregistering, as a set

vars == <<at, ipCounts, inflight, clients, names, name, seen, tick>>

Goto(s, l) == at' = [at EXCEPT ![s] = l]

-----------------------------------------------------------------------------
(* Limits.                                                                 *)

(* acquireIPConnection, under IpCountsMu. *)
AcquireIP(s) ==
  /\ at[s] = "arrived"
  /\ IF ipCounts[IPOf[s]] >= MaxConnectionsPerIP
     THEN Goto(s, "refused") /\ UNCHANGED ipCounts
     ELSE Goto(s, "count") /\ ipCounts' = [ipCounts EXCEPT ![IPOf[s]] = @ + 1]
  /\ UNCHANGED <<inflight, clients, names, name, seen, tick>>

(* releaseIPConnection, deferred by ServeWS. *)
ReleaseIP(s) == ipCounts' = [ipCounts EXCEPT ![IPOf[s]] = @ - 1]

(* overCap reads the clients under their lock, then the atomic Inflight. *)
ReadClients(s) ==
  /\ at[s] \in {"count", "recount"}
  /\ seen' = [seen EXCEPT ![s] = Cardinality(clients)]
  /\ Goto(s, IF at[s] = "count" THEN "cap" ELSE "recheck")
  /\ UNCHANGED <<ipCounts, inflight, clients, names, name, tick>>

OverCap(s) == seen[s] + inflight >= MaxTotalConnections

CheckCap(s) ==
  /\ at[s] = "cap"
  /\ IF OverCap(s) THEN ReleaseIP(s) /\ Goto(s, "refused")
                   ELSE UNCHANGED ipCounts /\ Goto(s, "reserve")
  /\ UNCHANGED <<inflight, clients, names, name, seen, tick>>

Reserve(s) ==
  /\ at[s] = "reserve"
  /\ inflight' = inflight + 1
  /\ Goto(s, "upgrade")
  /\ UNCHANGED <<ipCounts, clients, names, name, seen, tick>>

Mut_FailKeepsSlot(s) ==
  /\ at[s] \in {"upgrade", "auth"}
  /\ UNCHANGED inflight /\ ReleaseIP(s)
  /\ Goto(s, "refused")
  /\ UNCHANGED <<clients, names, name, seen, tick>>

(* Upgrade or authentication fails: releaseInflight, then the deferred     *)
(* releaseIPConnection.                                                    *)
Fail(s) ==
  /\ at[s] \in {"upgrade", "auth"}
  /\ inflight' = inflight - 1 /\ ReleaseIP(s)
  /\ Goto(s, "refused")
  /\ UNCHANGED <<clients, names, name, seen, tick>>

Upgrade(s) ==
  /\ at[s] = "upgrade"
  /\ Goto(s, "auth")
  /\ UNCHANGED <<ipCounts, inflight, clients, names, name, seen, tick>>

-----------------------------------------------------------------------------
(* generateDisplayName and the auth_success frame.                         *)

Mut_CountNames(ip) == Cardinality({k \in 1 .. MaxSerial : <<ip, k>> \in names}) + 1

(* The bare name first, then name-2, name-3, ... *)
FreeSerial(ip) ==
  CHOOSE k \in 1 .. MaxSerial :
    /\ <<ip, k>> \notin names
    /\ \A j \in 1 .. k - 1 : <<ip, j>> \in names

Authenticate(s) ==
  /\ at[s] = "auth"
  /\ LET k == FreeSerial(IPOf[s]) IN
     /\ names' = names \cup {<<IPOf[s], k>>}
     /\ name' = [name EXCEPT ![s] = k]
  /\ Goto(s, "hello")
  /\ UNCHANGED <<ipCounts, inflight, clients, seen, tick>>

ReleaseName(s) ==
  /\ names' = names \ {<<IPOf[s], name[s]>>}
  /\ name' = [name EXCEPT ![s] = 0]

(* Writing auth_success fails: authenticateClient gives the name back, and *)
(* ServeWS the rest.                                                       *)
HelloFails(s) ==
  /\ at[s] = "hello"
  /\ ReleaseName(s)
  /\ inflight' = inflight - 1 /\ ReleaseIP(s)
  /\ Goto(s, "refused")
  /\ UNCHANGED <<clients, seen, tick>>

-----------------------------------------------------------------------------
(* serveAuthenticated and the end of a session.                            *)

Register(s) ==
  /\ at[s] = "hello"
  /\ clients' = clients \cup {s}
  /\ Goto(s, "registered")
  /\ UNCHANGED <<ipCounts, inflight, names, name, seen, tick>>

ReleaseInflight(s) ==
  /\ at[s] = "registered"
  /\ inflight' = inflight - 1
  /\ Goto(s, "recount")
  /\ UNCHANGED <<ipCounts, clients, names, name, seen, tick>>

(* unregisterClient, first half, under ClientsMu: only the caller that     *)
(* finds the session there goes on to release its name.                    *)
Unregister(s, found, gone) ==
  /\ clients' = clients \ {s}
  /\ IF s \in clients THEN Goto(s, found) /\ UNCHANGED ipCounts
                      ELSE Goto(s, gone) /\ ReleaseIP(s)

Mut_NoRecheck(s) ==
  /\ at[s] = "recheck"
  /\ Goto(s, "live")
  /\ UNCHANGED <<ipCounts, inflight, clients, names, name, seen, tick>>

(* The re-check: over the cap the session unregisters itself. *)
Recheck(s) ==
  /\ at[s] = "recheck"
  /\ IF OverCap(s) THEN Unregister(s, "evicted", "full")
                   ELSE Goto(s, "live") /\ UNCHANGED <<clients, ipCounts>>
  /\ UNCHANGED <<inflight, names, name, seen, tick>>

(* ReadPump ends. *)
Leave(s) ==
  /\ at[s] = "live"
  /\ Unregister(s, "leaving", "left")
  /\ UNCHANGED <<inflight, names, name, seen, tick>>

(* The second half: the name, then the deferred release of the address. *)
Drop(s) ==
  /\ at[s] \in {"evicted", "leaving"}
  /\ ReleaseName(s) /\ ReleaseIP(s)
  /\ Goto(s, IF at[s] = "evicted" THEN "full" ELSE "left")
  /\ UNCHANGED <<inflight, clients, seen, tick>>

(* behaviorTick, one goroutine, unregisters a session that is still being  *)
(* served: its handler, which holds the address, has yet to notice.        *)
Kick(s) ==
  /\ s \in clients /\ tick = {}
  /\ clients' = clients \ {s} /\ tick' = {s}
  /\ UNCHANGED <<at, ipCounts, inflight, names, name, seen>>

KickDrops(s) ==
  /\ s \in tick
  /\ ReleaseName(s) /\ tick' = {}
  /\ UNCHANGED <<at, ipCounts, inflight, clients, seen>>

-----------------------------------------------------------------------------
Init ==
  /\ at = [s \in Sessions |-> "arrived"]
  /\ ipCounts = [i \in IPs |-> 0]
  /\ inflight = 0 /\ clients = {} /\ names = {}
  /\ name = [s \in Sessions |-> 0]
  /\ seen = [s \in Sessions |-> 0]
  /\ tick = {}

Next ==
  \E s \in Sessions :
    \/ AcquireIP(s) \/ ReadClients(s) \/ CheckCap(s) \/ Reserve(s)
    \/ Upgrade(s) \/ Fail(s) \/ Authenticate(s) \/ HelloFails(s)
    \/ Register(s) \/ ReleaseInflight(s) \/ Recheck(s)
    \/ Leave(s) \/ Drop(s) \/ Kick(s) \/ KickDrops(s)

Spec == Init /\ [][Next]_vars

-----------------------------------------------------------------------------
(* Properties.                                                             *)

HoldsIP(s) == at[s] \notin {"arrived", "refused", "full", "left"}
InFlight(s) == at[s] \in {"upgrade", "auth", "hello", "registered"}
Named(s) == at[s] \in {"hello", "evicted", "leaving"} \/ s \in clients \cup tick

(* No early return, failed write, kick or re-check leaks a slot or gives   *)
(* one back twice: the counters equal the handlers that hold them.         *)
CountersExact ==
  /\ \A i \in IPs : ipCounts[i] = Cardinality({s \in Sessions : HoldsIP(s) /\ IPOf[s] = i})
  /\ inflight = Cardinality({s \in Sessions : InFlight(s)})

(* The taken names are exactly those of sessions still using them, and no  *)
(* two of these are called the same.                                       *)
NamesExact ==
  /\ names = {<<IPOf[s], name[s]>> : s \in {x \in Sessions : Named(x)}}
  /\ \A s, t \in Sessions :
       (s # t /\ Named(s) /\ Named(t)) => <<IPOf[s], name[s]>> # <<IPOf[t], name[t]>>

(* However a burst interleaves, never more sessions than the global limit  *)
(* get past the re-check.                                                  *)
CapHolds == Cardinality({s \in clients : at[s] = "live"}) <= MaxTotalConnections

(* The strengthening that makes CapHolds inductive.  A session counts      *)
(* every session registered before it, itself included, so of those whose  *)
(* count stayed below the limit there are fewer than the limit, however    *)
(* the counting interleaved.                                               *)
Counted == {s \in clients : at[s] \in {"recheck", "live"} /\ seen[s] < MaxTotalConnections}

CapInv ==
  /\ Cardinality(Counted) < MaxTotalConnections
  /\ \A s \in Sessions : at[s] = "live" => seen[s] < MaxTotalConnections
=============================================================================
