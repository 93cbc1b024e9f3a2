------------------------- MODULE PublicationProofs -------------------------
(***************************************************************************)
(* Proofs about the raw TCP publications, for any publications, ports,     *)
(* ranges, requests and clients: no two publications share a port, a       *)
(* tunnel ends with the listener it came through, and a tunnel leads to    *)
(* the publication that its port belongs to.                               *)
(***************************************************************************)
EXTENDS Publication, WellFoundedInduction, TLAPS

---------------------------------------------------------------------------
(* The first free port *)

LEMMA MinOfNats ==
  ASSUME NEW S, S \subseteq Nat, S # {}
  PROVE  Min(S) \in S
<1> DEFINE Less == {pair \in Nat \X Nat : pair[1] < pair[2]}
<1>1. IsWellFoundedOn(Less, Nat)
  BY NatLessThanWellFounded DEF OpToRel
<1>2. PICK x \in S : \A y \in S : <<y, x>> \notin Less
  <2> HIDE DEF Less
  <2> QED
    BY <1>1, WFMin
<1>3. ASSUME NEW y \in S, y < x
      PROVE  FALSE
  <2>1. <<y, x>> \in Nat \X Nat
    OBVIOUS
  <2>2. <<y, x>> \in Less
    BY <1>3, <2>1
  <2>3. QED
    BY <1>2, <2>2
<1>4. \E m \in S : \A y \in S : m <= y
  BY <1>3
<1>5. QED
  BY <1>4 DEF Min

---------------------------------------------------------------------------
(* The parts of the invariant *)

\* The rows, with a port for tcp only and no port twice.
RowInv ==
  /\ row \in [Service -> Row]
  /\ \A s \in Service : row[s].port # None <=> row[s].protocol = "tcp"
  /\ \A s, t \in Service : row[s].port = row[t].port => s = t \/ row[s].port = None

\* A port is being bound by exactly the calls that wait for it.
HolderInv ==
  /\ holder \in [Port -> Holder]
  /\ request \in [Request -> Awaiting]
  /\ \A r \in Request : \A p \in Port :
       holder[p] = r <=> request[r].step = "binding" /\ request[r].port = p
  /\ round \in Round
  /\ \A p \in Port :
       holder[p] = "reconciler" <=> round.step = "binding" /\ p = NextMissing

\* A live tunnel has a port; with NoOrphanTunnel and TunnelKeepsPort this
\* makes up what the steps preserve of tunnels.
TunnelInv ==
  /\ tunnel \in [Connection -> Tunnel]
  /\ \A c \in Connection : Live(c) => tunnel[c].port \in Port
  /\ NoOrphanTunnel
  /\ TunnelKeepsPort

Inv ==
  /\ RowInv
  /\ HolderInv
  /\ TunnelInv
  /\ up \in {"down", "starting", "serving"}
  /\ range \in Ranges

LEMMA InvTypes == Inv => TypeOK
  BY DEF Inv, RowInv, HolderInv, TunnelInv, TypeOK

---------------------------------------------------------------------------
(* Rows *)

LEMMA AllocatedEffect ==
  ASSUME RowInv, range \in Ranges, NEW s \in Service, NEW port \in Allocated(s)
  PROVE  /\ port \in Port
         /\ \A t \in Service \ {s} : row[t].port # port
<1>1. range \subseteq Port /\ range \subseteq Nat
  BY PortAssumption
<1>2. CASE row[s].protocol = "tcp" /\ row[s].port \in range
  BY <1>1, <1>2, NoneAssumption DEF Allocated, RowInv
<1>3. CASE ~(row[s].protocol = "tcp" /\ row[s].port \in range)
  <2> DEFINE free == range \ Reserved
  <2>1. free # {} /\ port = Min(free)
    BY <1>3 DEF Allocated
  <2>2. port \in free
    BY <1>1, <2>1, MinOfNats
  <2>3. QED
    BY <1>1, <2>2, NoneAssumption DEF Reserved
<1>4. QED
  BY <1>2, <1>3

\* The row that a publication writes.
LEMMA UpsertEffect ==
  ASSUME RowInv, range \in Ranges, NEW r \in Request, NEW s \in Service,
         NEW state \in {"active", "limited"}, NEW protocol, NEW port,
         \/ protocol = "http" /\ port = None
         \/ protocol = "tcp" /\ port \in Allocated(s),
         Upsert(r, s, protocol, port, state)
  PROVE  /\ RowInv'
         /\ row'[s].port = port
         /\ port \in Port \cup {None}
         /\ \A t \in Service \ {s} : row'[t] = row[t]
<1> DEFINE new == [state |-> state, protocol |-> protocol, port |-> port]
<1>1. row' = [row EXCEPT ![s] = new]
  BY DEF Upsert
<1>2. /\ port \in Port \cup {None}
      /\ port # None <=> protocol = "tcp"
      /\ port # None => \A t \in Service \ {s} : row[t].port # port
      /\ protocol \in {"http", "tcp"}
  BY AllocatedEffect, NoneAssumption
<1>3. /\ new \in Row
      /\ new.port = port
      /\ new.protocol = protocol
  BY <1>2 DEF Row
<1> HIDE DEF new
<1>4. row' \in [Service -> Row]
  BY <1>1, <1>3 DEF RowInv
<1>5. row'[s] = new /\ \A t \in Service \ {s} : row'[t] = row[t]
  BY <1>1 DEF RowInv
<1>6. QED
  BY <1>2, <1>3, <1>4, <1>5 DEF RowInv

\* A row that only changes its state.
LEMMA StateEffect ==
  ASSUME RowInv, row' \in [Service -> Row],
         \A s \in Service : /\ row'[s].port = row[s].port
                            /\ row'[s].protocol = row[s].protocol
  PROVE  RowInv'
  BY DEF RowInv

LEMMA RevokedEffect ==
  ASSUME RowInv, NEW s \in Service
  PROVE  /\ Revoked(s) \in Row
         /\ Revoked(s).port = row[s].port
         /\ Revoked(s).protocol = row[s].protocol
  BY DEF RowInv, Revoked, Row

---------------------------------------------------------------------------
(* Listeners and tunnels *)

LEMMA FinishedEffect ==
  ASSUME NEW t \in Tunnel
  PROVE  /\ Finished(t) \in Tunnel
         /\ Finished(t).step \notin {"handshake", "open"}
  BY DEF Finished, Tunnel, NoTunnel

\* After some ports were left, what is live was live and is as it was.
Survivors(left) ==
  /\ tunnel' \in [Connection -> Tunnel]
  /\ \A c \in Connection :
       Live(c)' => Live(c) /\ tunnel'[c] = tunnel[c] /\ tunnel[c].port \notin left

\* After some ports were left, only their listeners are gone.
Unbinds(left) ==
  /\ holder' \in [Port -> Holder]
  /\ \A p \in Port : IF holder[p] = "listener" /\ p \in left
                       THEN holder'[p] = None
                       ELSE holder'[p] = holder[p]

LEMMA DeactivateEffect ==
  ASSUME holder \in [Port -> Holder], tunnel \in [Connection -> Tunnel], NEW p,
         Deactivate(p)
  PROVE  Survivors({p}) /\ Unbinds({p})
<1>1. /\ tunnel' = Closed(p)
      /\ holder' = Unbound(p)
  BY DEF Deactivate
<1>2. \A c \in Connection : /\ Finished(tunnel[c]) \in Tunnel
                            /\ Finished(tunnel[c]).step \notin {"handshake", "open"}
  BY FinishedEffect
<1>3. \A c \in Connection :
        tunnel'[c] = IF Live(c) /\ tunnel[c].port = p THEN Finished(tunnel[c]) ELSE tunnel[c]
  BY <1>1 DEF Closed
<1>4. tunnel' \in [Connection -> Tunnel]
  BY <1>1, <1>2 DEF Closed
<1>5. Survivors({p})
  BY <1>2, <1>3, <1>4 DEF Survivors, Live
<1>6. Unbinds({p})
  BY <1>1 DEF Unbound, Unbinds, Holder
<1>7. QED
  BY <1>5, <1>6

LEMMA DeactivateAllEffect ==
  ASSUME holder \in [Port -> Holder], tunnel \in [Connection -> Tunnel], NEW ports,
         DeactivateAll(ports)
  PROVE  Survivors(ports) /\ Unbinds(ports)
<1>1. \A c \in Connection : /\ Finished(tunnel[c]) \in Tunnel
                            /\ Finished(tunnel[c]).step \notin {"handshake", "open"}
  BY FinishedEffect
<1>2. tunnel' = [c \in Connection |->
                   IF tunnel[c].port \in ports THEN Closed(tunnel[c].port)[c] ELSE tunnel[c]]
  BY DEF DeactivateAll
<1>3. \A c \in Connection :
        Closed(tunnel[c].port)[c] = IF Live(c) THEN Finished(tunnel[c]) ELSE tunnel[c]
  BY DEF Closed
<1>4. \A c \in Connection :
        tunnel'[c] = IF Live(c) /\ tunnel[c].port \in ports THEN Finished(tunnel[c])
                                                            ELSE tunnel[c]
  BY <1>2, <1>3
<1>5. tunnel' \in [Connection -> Tunnel]
  BY <1>1, <1>2, <1>3
<1>6. Survivors(ports)
  BY <1>1, <1>4, <1>5 DEF Survivors, Live
<1>7. holder' = [p \in Port |-> IF p \in ports THEN Unbound(p)[p] ELSE holder[p]]
  BY DEF DeactivateAll
<1>8. \A p \in Port : Unbound(p)[p] = IF holder[p] = "listener" THEN None ELSE holder[p]
  BY DEF Unbound
<1>9. Unbinds(ports)
  BY <1>7, <1>8 DEF Unbinds, Holder
<1>10. QED
  BY <1>6, <1>9

\* A step that leaves the ports of the rows it moves, and no other listener,
\* keeps what is true of the tunnels.
LEMMA TunnelsKept ==
  ASSUME TunnelInv, NEW left, Survivors(left),
         \A p \in Port \ left : holder[p] = "listener" => holder'[p] = "listener",
         \A s \in Service : \/ row'[s].port = row[s].port
                            \/ row[s].port \in left \cup {None}
  PROVE  TunnelInv'
<1>1. \A c \in Connection :
        Live(c)' => Live(c) /\ tunnel'[c] = tunnel[c] /\ tunnel[c].port \in Port \ left
  BY DEF Survivors, TunnelInv
<1>2. NoOrphanTunnel'
  BY <1>1 DEF TunnelInv, NoOrphanTunnel
<1>3. TunnelKeepsPort'
  BY <1>1, NoneAssumption DEF TunnelInv, TunnelKeepsPort, Leads
<1>4. QED
  BY <1>1, <1>2, <1>3 DEF TunnelInv, Survivors

\* A step that closes no listener, moves no row and leaves the tunnels alone.
LEMMA TunnelsUndisturbed ==
  ASSUME TunnelInv, UNCHANGED tunnel,
         \A p \in Port : holder[p] = "listener" => holder'[p] = "listener",
         \A s \in Service : row'[s].port = row[s].port \/ row[s].port = None
  PROVE  TunnelInv'
<1>1. Survivors({})
  BY DEF Survivors, TunnelInv, Live
<1>2. QED
  BY <1>1, TunnelsKept

---------------------------------------------------------------------------
(* Calls of activate *)

\* A call that awaits something else than a listener of its own.
LEMMA AwaitEffect ==
  ASSUME HolderInv, NEW r \in Request, request[r].step # "binding",
         NEW step \in {"leaving", "failing"}, NEW s \in Service \cup {None},
         NEW port \in Port \cup {None}, NEW left, Unbinds(left),
         Await(r, step, s, port), UNCHANGED round
  PROVE  HolderInv'
<1> DEFINE new == [step |-> step, service |-> s, port |-> port]
<1>1. request' = [request EXCEPT ![r] = new]
  BY DEF Await
<1>2. new \in Awaiting /\ new.step # "binding"
  BY DEF Awaiting
<1> HIDE DEF new
<1>3. request' \in [Request -> Awaiting]
  BY <1>1, <1>2 DEF HolderInv
<1>4. \A q \in Request : request'[q].step = "binding" <=> request[q].step = "binding"
  BY <1>1, <1>2 DEF HolderInv
<1>5. \A q \in Request : request[q].step = "binding" => request'[q] = request[q]
  BY <1>1, <1>2 DEF HolderInv
<1>6. \A p \in Port, q \in Request \cup {"reconciler"} : holder'[p] = q <=> holder[p] = q
  BY NoneAssumption, CallerAssumption DEF Unbinds
<1>7. NextMissing' = NextMissing
  BY DEF NextMissing
<1>8. QED
  BY <1>3, <1>4, <1>5, <1>6, <1>7 DEF HolderInv, Unbinds

LEMMA UnbindsEffect ==
  ASSUME HolderInv, NEW left, Unbinds(left), UNCHANGED request,
         round' \in Round, round'.step = "binding" <=> round.step = "binding",
         round'.missing = round.missing
  PROVE  HolderInv'
<1>1. \A p \in Port, q \in Request \cup {"reconciler"} : holder'[p] = q <=> holder[p] = q
  BY NoneAssumption, CallerAssumption DEF Unbinds
<1>2. NextMissing' = NextMissing
  BY DEF NextMissing
<1>3. QED
  BY <1>1, <1>2 DEF HolderInv, Unbinds

LEMMA ActivateEffect ==
  ASSUME HolderInv, NEW r \in Request, request[r].step # "binding",
         NEW s \in Service \cup {None}, NEW port \in Port \cup {None},
         Activate(r, s, port), UNCHANGED round
  PROVE  /\ HolderInv'
         /\ \A p \in Port : holder[p] = "listener" => holder'[p] = "listener"
<1>1. CASE holder[port] = "listener"
  <2>1. request' = [request EXCEPT ![r] = Idle] /\ UNCHANGED holder
    BY <1>1, CallerAssumption DEF Activate
  <2>2. Idle \in Awaiting /\ Idle.step # "binding"
    BY DEF Idle, Awaiting
  <2>3. NextMissing' = NextMissing
    BY DEF NextMissing
  <2>4. QED
    BY <2>1, <2>2, <2>3 DEF HolderInv
<1>2. CASE holder[port] = None
  <2> DEFINE new == [step |-> "binding", service |-> s, port |-> port]
  <2>1. request' = [request EXCEPT ![r] = new] /\ holder' = [holder EXCEPT ![port] = r]
    BY <1>2, CallerAssumption DEF Activate, Await, Bind
  <2>2. new \in Awaiting /\ new.step = "binding" /\ new.port = port
    BY DEF Awaiting
  <2> HIDE DEF new
  <2>3. /\ holder' \in [Port -> Holder]
        /\ request' \in [Request -> Awaiting]
    BY <2>1, <2>2 DEF HolderInv, Holder, Caller
  <2>4. ASSUME NEW q \in Request, NEW p \in Port
        PROVE  holder'[p] = q <=> request'[q].step = "binding" /\ request'[q].port = p
    <3>1. CASE q = r
      BY <1>2, <2>1, <2>2, <3>1, NoneAssumption DEF HolderInv
    <3>2. CASE q # r
      BY <1>2, <2>1, <2>2, <3>2, NoneAssumption DEF HolderInv
    <3>3. QED
      BY <3>1, <3>2
  <2>5. \A p \in Port : holder'[p] = "reconciler" <=> holder[p] = "reconciler"
    BY <1>2, <2>1, NoneAssumption, CallerAssumption DEF HolderInv
  <2>6. \A p \in Port : holder[p] = "listener" => holder'[p] = "listener"
    BY <1>2, <2>1, CallerAssumption DEF HolderInv
  <2>7. NextMissing' = NextMissing
    BY DEF NextMissing
  <2>8. QED
    BY <2>3, <2>4, <2>5, <2>6, <2>7 DEF HolderInv
<1>3. CASE holder[port] \notin {"listener", None}
  <2>1. Await(r, "failing", s, port) /\ UNCHANGED holder
    BY <1>3 DEF Activate
  <2>2. Unbinds({})
    BY <2>1 DEF Unbinds, HolderInv
  <2>3. HolderInv'
    BY <2>1, <2>2, AwaitEffect
  <2>4. QED
    BY <2>1, <2>3
<1>4. QED
  BY <1>1, <1>2, <1>3

---------------------------------------------------------------------------
(* Steps of requests *)

LEMMA PublishHttpStep ==
  ASSUME Inv, NEW r \in Request, NEW s \in Service, NEW state \in {"active", "limited"},
         PublishHttp(r, s, state)
  PROVE  Inv'
<1> USE DEF Inv
<1>1. Upsert(r, s, "http", None, state) /\ UNCHANGED request
  BY DEF PublishHttp
<1>2. /\ RowInv'
      /\ \A t \in Service \ {s} : row'[t] = row[t]
  BY <1>1, UpsertEffect
<1>3. UNCHANGED <<up, range, round>>
  BY <1>1 DEF Upsert
<1>4. CASE Moves(s, None)
  <2>1. Survivors({row[s].port}) /\ Unbinds({row[s].port})
    BY <1>4, DeactivateEffect DEF PublishHttp, HolderInv, TunnelInv
  <2>2. HolderInv'
    BY <1>1, <1>3, <2>1, UnbindsEffect DEF HolderInv
  <2>3. TunnelInv'
    <3>1. \A p \in Port \ {row[s].port} : holder[p] = "listener" => holder'[p] = "listener"
      BY <2>1 DEF Unbinds
    <3>2. QED
      BY <1>2, <2>1, <3>1, TunnelsKept
  <2>4. QED
    BY <1>2, <1>3, <2>2, <2>3
<1>5. CASE ~Moves(s, None)
  <2>1. UNCHANGED <<holder, tunnel>>
    BY <1>5 DEF PublishHttp
  <2>2. row[s].port = None
    BY <1>5 DEF Moves, RowInv
  <2>3. TunnelInv'
    BY <1>2, <2>1, <2>2, TunnelsUndisturbed
  <2>4. HolderInv'
    BY <1>1, <1>3, <2>1 DEF HolderInv, NextMissing
  <2>5. QED
    BY <1>2, <1>3, <2>3, <2>4
<1>6. QED
  BY <1>4, <1>5

LEMMA PublishTcpStep ==
  ASSUME Inv, NEW r \in Request, NEW s \in Service, NEW state \in {"active", "limited"},
         PublishTcp(r, s, state)
  PROVE  Inv'
<1> USE DEF Inv
<1>1. PICK port \in Allocated(s) :
        /\ Upsert(r, s, "tcp", port, state)
        /\ IF Moves(s, port)
             THEN Await(r, "leaving", s, port) /\ Deactivate(row[s].port)
             ELSE Activate(r, s, port) /\ UNCHANGED tunnel
  BY DEF PublishTcp
<1>2. /\ RowInv'
      /\ row'[s].port = port
      /\ port \in Port \cup {None}
      /\ \A t \in Service \ {s} : row'[t] = row[t]
  BY <1>1, UpsertEffect
<1>3. /\ UNCHANGED <<up, range, round>>
      /\ request[r].step # "binding"
  BY <1>1 DEF Upsert, Idle
<1>4. CASE Moves(s, port)
  <2>1. Survivors({row[s].port}) /\ Unbinds({row[s].port})
    BY <1>1, <1>4, DeactivateEffect DEF HolderInv, TunnelInv
  <2>2. HolderInv'
    BY <1>1, <1>2, <1>3, <1>4, <2>1, AwaitEffect
  <2>3. TunnelInv'
    <3>1. \A p \in Port \ {row[s].port} : holder[p] = "listener" => holder'[p] = "listener"
      BY <2>1 DEF Unbinds
    <3>2. QED
      BY <1>2, <2>1, <3>1, TunnelsKept
  <2>4. QED
    BY <1>2, <1>3, <2>2, <2>3
<1>5. CASE ~Moves(s, port)
  <2>1. Activate(r, s, port) /\ UNCHANGED tunnel
    BY <1>1, <1>5
  <2>2. /\ HolderInv'
        /\ \A p \in Port : holder[p] = "listener" => holder'[p] = "listener"
    BY <1>2, <1>3, <2>1, ActivateEffect
  <2>3. row[s].port \in {port, None}
    BY <1>5 DEF Moves, RowInv
  <2>4. TunnelInv'
    BY <1>2, <2>1, <2>2, <2>3, TunnelsUndisturbed
  <2>5. QED
    BY <1>2, <1>3, <2>2, <2>4
<1>6. QED
  BY <1>4, <1>5

LEMMA ResumeStep ==
  ASSUME Inv, NEW r \in Request, Resume(r)
  PROVE  Inv'
<1> USE DEF Inv
<1>1. request[r] \in Awaiting
  BY DEF HolderInv
<1>2. CASE Left(r)
  <2>1. /\ Activate(r, request[r].service, request[r].port)
        /\ request[r].step = "leaving"
        /\ UNCHANGED <<row, up, range, round, tunnel>>
    BY <1>2 DEF Left
  <2>2. request[r].service \in Service \cup {None} /\ request[r].port \in Port \cup {None}
    BY <1>1 DEF Awaiting
  <2>3. /\ HolderInv'
        /\ \A p \in Port : holder[p] = "listener" => holder'[p] = "listener"
    BY <2>1, <2>2, ActivateEffect
  <2>4. TunnelInv'
    BY <2>1, <2>3, TunnelsUndisturbed
  <2>5. QED
    BY <2>1, <2>3, <2>4 DEF RowInv
<1>3. CASE Publish(r)
  <2> DEFINE q == request[r].port
  <2>1. /\ request[r].step = "binding"
        /\ holder' = [holder EXCEPT ![q] = "listener"]
        /\ request' = [request EXCEPT ![r] = Idle]
        /\ UNCHANGED <<row, up, range, round, tunnel>>
    BY <1>3 DEF Publish
  <2>2. Idle \in Awaiting /\ Idle.step # "binding"
    BY DEF Idle, Awaiting
  <2>3. \A p \in Port : holder[p] = r <=> p = q
    BY <2>1 DEF HolderInv
  <2>4. holder' \in [Port -> Holder] /\ request' \in [Request -> Awaiting]
    BY <2>1, <2>2 DEF HolderInv, Holder
  <2>5. ASSUME NEW x \in Request, NEW p \in Port
        PROVE  holder'[p] = x <=> request'[x].step = "binding" /\ request'[x].port = p
    BY <2>1, <2>2, <2>3, CallerAssumption DEF HolderInv
  <2>6. \A p \in Port : holder'[p] = "reconciler" <=> holder[p] = "reconciler"
    BY <2>1, <2>3, CallerAssumption DEF HolderInv
  <2>7. HolderInv'
    BY <2>1, <2>4, <2>5, <2>6 DEF HolderInv, NextMissing
  <2>8. TunnelInv'
    BY <2>1, TunnelsUndisturbed DEF HolderInv
  <2>9. QED
    BY <2>1, <2>7, <2>8 DEF RowInv
<1>4. CASE Withdraw(r)
  <2>1. /\ request[r].step = "failing"
        /\ row' = [s \in Service |-> IF s = request[r].service THEN Revoked(s) ELSE row[s]]
        /\ request' = [request EXCEPT ![r] = Idle]
        /\ UNCHANGED <<up, range, holder, round, tunnel>>
    BY <1>4 DEF Withdraw
  <2>2. Idle \in Awaiting /\ Idle.step # "binding"
    BY DEF Idle, Awaiting
  <2>3. \A s \in Service : /\ row'[s] \in Row
                           /\ row'[s].port = row[s].port
                           /\ row'[s].protocol = row[s].protocol
    BY <2>1, RevokedEffect DEF RowInv
  <2>4. RowInv'
    BY <2>1, <2>3, StateEffect
  <2>5. HolderInv'
    BY <2>1, <2>2 DEF HolderInv, NextMissing
  <2>6. TunnelInv'
    BY <2>1, <2>3, TunnelsUndisturbed
  <2>7. QED
    BY <2>1, <2>4, <2>5, <2>6
<1>5. QED
  BY <1>2, <1>3, <1>4 DEF Resume

LEMMA DisconnectStep ==
  ASSUME Inv, NEW s \in Service, Disconnect(s)
  PROVE  Inv'
<1> USE DEF Inv
<1>1. /\ row' = [row EXCEPT ![s] = Revoked(s)]
      /\ UNCHANGED <<up, range, request, round>>
  BY DEF Disconnect
<1>2. \A t \in Service : /\ row'[t] \in Row
                         /\ row'[t].port = row[t].port
                         /\ row'[t].protocol = row[t].protocol
  BY <1>1, RevokedEffect DEF RowInv
<1>3. RowInv'
  BY <1>1, <1>2, StateEffect DEF RowInv
<1>4. CASE row[s].protocol = "tcp"
  <2>1. Survivors({row[s].port}) /\ Unbinds({row[s].port})
    BY <1>4, DeactivateEffect DEF Disconnect, HolderInv, TunnelInv
  <2>2. HolderInv'
    BY <1>1, <2>1, UnbindsEffect DEF HolderInv
  <2>3. \A p \in Port \ {row[s].port} : holder[p] = "listener" => holder'[p] = "listener"
    BY <2>1 DEF Unbinds
  <2>4. TunnelInv'
    BY <1>2, <2>1, <2>3, TunnelsKept
  <2>5. QED
    BY <1>1, <1>3, <2>2, <2>4
<1>5. CASE row[s].protocol # "tcp"
  <2>1. UNCHANGED <<holder, tunnel>>
    BY <1>5 DEF Disconnect
  <2>2. QED
    BY <1>1, <1>2, <1>3, <2>1, TunnelsUndisturbed DEF HolderInv, NextMissing
<1>6. QED
  BY <1>4, <1>5

LEMMA RevokeAllStep ==
  ASSUME Inv, RevokeAll
  PROVE  Inv'
<1> USE DEF Inv
<1>1. /\ row' = [s \in Service |-> Revoked(s)]
      /\ DeactivateAll(RevokedPorts)
      /\ UNCHANGED <<up, range, request, round>>
  BY DEF RevokeAll, RevokedRows
<1>2. \A t \in Service : /\ row'[t] \in Row
                         /\ row'[t].port = row[t].port
                         /\ row'[t].protocol = row[t].protocol
  BY <1>1, RevokedEffect DEF RowInv
<1>3. RowInv'
  BY <1>1, <1>2, StateEffect
<1>4. Survivors(RevokedPorts) /\ Unbinds(RevokedPorts)
  BY <1>1, DeactivateAllEffect DEF HolderInv, TunnelInv
<1>5. HolderInv'
  BY <1>1, <1>4, UnbindsEffect DEF HolderInv
<1>6. \A p \in Port \ RevokedPorts : holder[p] = "listener" => holder'[p] = "listener"
  BY <1>4 DEF Unbinds
<1>7. TunnelInv'
  BY <1>2, <1>4, <1>6, TunnelsKept
<1>8. QED
  BY <1>1, <1>3, <1>5, <1>7

---------------------------------------------------------------------------
(* Steps of the reconciler *)

LEMMA NextMissingEffect ==
  ASSUME HolderInv, round.missing # {}
  PROVE  NextMissing \in round.missing /\ NextMissing \in Port
<1>1. round.missing \subseteq Port
  BY DEF HolderInv, Round
<1>2. round.missing \subseteq Nat
  BY <1>1, PortAssumption
<1>3. QED
  BY <1>1, <1>2, MinOfNats DEF NextMissing

\* Another round, none of whose listeners is being started.
LEMMA RoundEffect ==
  ASSUME HolderInv, round.step # "binding", UNCHANGED <<holder, request>>,
         round' \in Round, round'.step # "binding"
  PROVE  HolderInv'
  BY DEF HolderInv

LEMMA DownStep ==
  ASSUME Inv, Down
  PROVE  Inv'
<1> USE DEF Inv
<1>1. /\ up' = "down"
      /\ holder' = [p \in Port |-> IF holder[p] = "foreign" THEN "foreign" ELSE None]
      /\ request' = [r \in Request |-> Idle]
      /\ round' = Settled
      /\ tunnel' = [c \in Connection |-> NoTunnel]
      /\ UNCHANGED <<row, range>>
  BY DEF Down
<1>2. Idle \in Awaiting /\ Idle.step # "binding"
  BY DEF Idle, Awaiting
<1>3. Settled \in Round /\ Settled.step # "binding"
  BY DEF Settled, Round
<1>4. NoTunnel \in Tunnel /\ NoTunnel.step \notin {"handshake", "open"}
  BY DEF NoTunnel, Tunnel
<1>5. /\ holder' \in [Port -> Holder]
      /\ \A p \in Port : holder'[p] \in {"foreign", None}
  BY <1>1 DEF Holder
<1>6. \A p \in Port, q \in Request \cup {"reconciler"} : holder'[p] # q
  BY <1>5, NoneAssumption, CallerAssumption
<1>7. HolderInv'
  BY <1>1, <1>2, <1>3, <1>5, <1>6 DEF HolderInv
<1>8. tunnel' \in [Connection -> Tunnel] /\ \A c \in Connection : ~Live(c)'
  BY <1>1, <1>4 DEF Live
<1>9. TunnelInv'
  BY <1>8 DEF TunnelInv, NoOrphanTunnel, TunnelKeepsPort, Leads
<1>10. QED
  BY <1>1, <1>7, <1>9 DEF RowInv

LEMMA StartRoundStep ==
  ASSUME Inv, StartRound
  PROVE  Inv'
<1> USE DEF Inv
<1>1. /\ round.step = "idle"
      /\ round' = [step |-> "running", surplus |-> Listening \ Desired,
                   missing |-> Desired \ Listening]
      /\ UNCHANGED <<row, up, range, holder, request, tunnel>>
  BY DEF StartRound
<1>2. Desired \subseteq Port
  BY DEF Desired, RowInv, Row
<1>3. round' \in Round /\ round'.step # "binding"
  BY <1>1, <1>2 DEF Round, Listening
<1>4. HolderInv'
  BY <1>1, <1>3, RoundEffect
<1>5. TunnelInv'
  BY <1>1, TunnelsUndisturbed
<1>6. QED
  BY <1>1, <1>4, <1>5 DEF RowInv

LEMMA CloseSurplusStep ==
  ASSUME Inv, CloseSurplus
  PROVE  Inv'
<1> USE DEF Inv
<1>1. PICK p \in round.surplus :
        /\ Deactivate(p)
        /\ round' = [round EXCEPT !.surplus = @ \ {p}]
  BY DEF CloseSurplus
<1>2. UNCHANGED <<row, up, range, request>>
  BY DEF CloseSurplus
<1>3. Survivors({p}) /\ Unbinds({p})
  BY <1>1, DeactivateEffect DEF HolderInv, TunnelInv
<1>4. round' \in Round /\ round'.step = round.step /\ round'.missing = round.missing
  BY <1>1 DEF HolderInv, Round
<1>5. HolderInv'
  BY <1>2, <1>3, <1>4, UnbindsEffect
<1>6. \A q \in Port \ {p} : holder[q] = "listener" => holder'[q] = "listener"
  BY <1>3 DEF Unbinds
<1>7. TunnelInv'
  BY <1>2, <1>3, <1>6, TunnelsKept
<1>8. QED
  BY <1>2, <1>5, <1>7 DEF RowInv

LEMMA OpenMissingStep ==
  ASSUME Inv, OpenMissing
  PROVE  Inv'
<1> USE DEF Inv
<1>1. /\ round.step = "running"
      /\ round.missing # {}
      /\ UNCHANGED <<row, up, range, request, tunnel>>
  BY DEF OpenMissing
<1>2. NextMissing \in Port
  BY <1>1, NextMissingEffect
<1>3. CASE /\ round' = [round EXCEPT !.missing = @ \ {NextMissing}]
           /\ UNCHANGED holder
  <2>1. round' \in Round /\ round'.step # "binding"
    BY <1>1, <1>3 DEF HolderInv, Round
  <2>2. HolderInv'
    BY <1>1, <1>3, <2>1, RoundEffect
  <2>3. QED
    BY <1>1, <1>3, <2>2, TunnelsUndisturbed DEF RowInv
<1>4. CASE /\ holder[NextMissing] = None
           /\ Bind("reconciler", NextMissing)
           /\ round' = [round EXCEPT !.step = "binding"]
  <2>1. /\ round' \in Round
        /\ round'.step = "binding"
        /\ NextMissing' = NextMissing
    BY <1>4 DEF HolderInv, Round, NextMissing
  <2>2. holder' = [holder EXCEPT ![NextMissing] = "reconciler"]
    BY <1>4 DEF Bind
  <2>3. holder' \in [Port -> Holder]
    BY <2>2 DEF HolderInv, Holder, Caller
  <2>4. \A p \in Port : holder'[p] = "reconciler" <=> p = NextMissing
    BY <1>1, <2>2 DEF HolderInv
  <2>5. \A p \in Port, r \in Request : holder'[p] = r <=> holder[p] = r
    BY <1>4, <2>2, NoneAssumption, CallerAssumption DEF HolderInv
  <2>6. HolderInv'
    BY <1>1, <2>1, <2>3, <2>4, <2>5 DEF HolderInv
  <2>7. \A p \in Port : holder[p] = "listener" => holder'[p] = "listener"
    BY <1>4, <2>2, CallerAssumption DEF HolderInv
  <2>8. QED
    BY <1>1, <2>6, <2>7, TunnelsUndisturbed DEF RowInv
<1>5. QED
  BY <1>3, <1>4 DEF OpenMissing

LEMMA OpenedStep ==
  ASSUME Inv, Opened
  PROVE  Inv'
<1> USE DEF Inv
<1>1. /\ round.step = "binding"
      /\ holder' = [holder EXCEPT ![NextMissing] = "listener"]
      /\ round' = [round EXCEPT !.step = "running", !.missing = @ \ {NextMissing}]
      /\ UNCHANGED <<row, up, range, request, tunnel>>
  BY DEF Opened
<1>2. round' \in Round /\ round'.step = "running"
  BY <1>1 DEF HolderInv, Round
<1>3. holder' \in [Port -> Holder]
  BY <1>1 DEF HolderInv, Holder
<1>4. \A p \in Port : holder'[p] # "reconciler"
  BY <1>1 DEF HolderInv
<1>5. \A p \in Port, r \in Request : holder'[p] = r <=> holder[p] = r
  BY <1>1, CallerAssumption DEF HolderInv
<1>6. HolderInv'
  BY <1>1, <1>2, <1>3, <1>4, <1>5 DEF HolderInv
<1>7. \A p \in Port : holder[p] = "listener" => holder'[p] = "listener"
  BY <1>1 DEF HolderInv
<1>8. QED
  BY <1>1, <1>6, <1>7, TunnelsUndisturbed DEF RowInv

LEMMA AbortRoundStep ==
  ASSUME Inv, AbortRound
  PROVE  Inv'
<1> USE DEF Inv
<1>1. CASE Down
  BY <1>1, DownStep
<1>2. CASE round' = Settled /\ UNCHANGED <<row, up, range, holder, request, tunnel>>
  <2>1. round.step # "binding"
    BY DEF AbortRound
  <2>2. Settled \in Round /\ Settled.step # "binding"
    BY DEF Settled, Round
  <2>3. HolderInv'
    BY <1>2, <2>1, <2>2, RoundEffect
  <2>4. QED
    BY <1>2, <2>3, TunnelsUndisturbed DEF RowInv
<1>3. QED
  BY <1>1, <1>2 DEF AbortRound

LEMMA EndRoundStep ==
  ASSUME Inv, EndRound
  PROVE  Inv'
<1> USE DEF Inv
<1>1. /\ round = [Settled EXCEPT !.step = "running"]
      /\ round' = Settled
      /\ up' = "serving"
      /\ UNCHANGED <<row, range, holder, request, tunnel>>
  BY DEF EndRound
<1>2. /\ round.step # "binding"
      /\ Settled \in Round
      /\ Settled.step # "binding"
  BY <1>1 DEF Settled, Round
<1>3. HolderInv'
  BY <1>1, <1>2, RoundEffect
<1>4. QED
  BY <1>1, <1>3, TunnelsUndisturbed DEF RowInv

---------------------------------------------------------------------------
(* Steps of tunnels *)

\* A step of one client, after which its tunnel is not live, or is live as before.
LEMMA TunnelStep ==
  ASSUME Inv, NEW c \in Connection, NEW new \in Tunnel,
         tunnel' = [tunnel EXCEPT ![c] = new],
         UNCHANGED <<row, up, range, holder, request, round>>,
         new.step \in {"handshake", "open"} =>
           /\ new.port \in Port
           /\ holder[new.port] = "listener"
           /\ new.service # None => row[new.service].port = new.port
  PROVE  Inv'
<1> USE DEF Inv
<1>1. tunnel' \in [Connection -> Tunnel]
  BY DEF TunnelInv
<1>2. /\ tunnel'[c] = new
      /\ \A d \in Connection \ {c} : tunnel'[d] = tunnel[d]
  BY DEF TunnelInv
<1>3. \A d \in Connection : Live(d)' =>
        tunnel'[d].port \in Port /\ holder'[tunnel'[d].port] = "listener"
  BY <1>2 DEF TunnelInv, NoOrphanTunnel, Live
<1>4. \A d \in Connection, s \in Service : Leads(d, s)' => row'[s].port = tunnel'[d].port
  BY <1>2, NoneAssumption DEF TunnelInv, TunnelKeepsPort, Leads, Live
<1>5. TunnelInv'
  BY <1>1, <1>3, <1>4 DEF TunnelInv, NoOrphanTunnel, TunnelKeepsPort
<1>6. QED
  BY <1>5 DEF RowInv, HolderInv, NextMissing

LEMMA ConnectStep ==
  ASSUME Inv, NEW c \in Connection, NEW s \in Service, Connect(c, s)
  PROVE  Inv'
<1> DEFINE new == [step |-> "handshake", service |-> s, port |-> row[s].port]
<1>1. /\ row[s].protocol = "tcp"
      /\ holder[row[s].port] = "listener"
      /\ tunnel' = [tunnel EXCEPT ![c] = new]
      /\ UNCHANGED <<row, up, range, holder, request, round>>
  BY DEF Connect
<1>2. row[s].port \in Port
  BY <1>1 DEF Inv, RowInv, Row
<1>3. new \in Tunnel /\ new.service = s /\ new.port = row[s].port
  BY <1>2 DEF Tunnel
<1> HIDE DEF new
<1>4. QED
  BY <1>1, <1>2, <1>3, TunnelStep

LEMMA ConnectedStep ==
  ASSUME Inv, NEW c \in Connection, Connected(c)
  PROVE  Inv'
<1>1. /\ tunnel[c] \in Tunnel
      /\ UNCHANGED <<row, up, range, holder, request, round>>
  BY DEF Connected, Inv, TunnelInv
<1>2. CASE tunnel[c].step = "handshake" /\ tunnel' = [tunnel EXCEPT ![c] = [@ EXCEPT !.step = "open"]]
  <2> DEFINE new == [tunnel[c] EXCEPT !.step = "open"]
  <2>1. tunnel' = [tunnel EXCEPT ![c] = new]
    BY <1>2
  <2>2. new \in Tunnel /\ new.port = tunnel[c].port /\ new.service = tunnel[c].service
    BY <1>1 DEF Tunnel
  <2>3. /\ Live(c)
        /\ tunnel[c].service \in Service \cup {None}
    BY <1>1, <1>2 DEF Live, Tunnel
  <2>4. /\ tunnel[c].port \in Port
        /\ holder[tunnel[c].port] = "listener"
        /\ tunnel[c].service # None => row[tunnel[c].service].port = tunnel[c].port
    BY <2>3 DEF Inv, TunnelInv, NoOrphanTunnel, TunnelKeepsPort, Leads
  <2> HIDE DEF new
  <2>5. QED
    BY <1>1, <2>1, <2>2, <2>4, TunnelStep
<1>3. CASE tunnel[c].step = "cut" /\ tunnel' = [tunnel EXCEPT ![c] = [@ EXCEPT !.step = "stray"]]
  <2> DEFINE new == [tunnel[c] EXCEPT !.step = "stray"]
  <2>1. tunnel' = [tunnel EXCEPT ![c] = new]
    BY <1>3
  <2>2. new \in Tunnel /\ new.step = "stray"
    BY <1>1 DEF Tunnel
  <2> HIDE DEF new
  <2>3. QED
    BY <1>1, <2>1, <2>2, TunnelStep
<1>4. QED
  BY <1>2, <1>3 DEF Connected

LEMMA LeaveStep ==
  ASSUME Inv, NEW c \in Connection, Refused(c) \/ Hangup(c)
  PROVE  Inv'
<1>1. NoTunnel \in Tunnel /\ NoTunnel.step \notin {"handshake", "open"}
  BY DEF NoTunnel, Tunnel
<1>2. /\ tunnel' = [tunnel EXCEPT ![c] = NoTunnel]
      /\ UNCHANGED <<row, up, range, holder, request, round>>
  BY DEF Refused, Hangup
<1>3. QED
  BY <1>1, <1>2, TunnelStep

---------------------------------------------------------------------------
(* Steps of the environment *)

LEMMA StartStep ==
  ASSUME Inv, Start
  PROVE  Inv'
<1>1. /\ up' = "starting"
      /\ range' \in Ranges
      /\ UNCHANGED <<row, holder, request, round, tunnel>>
  BY DEF Start
<1>2. QED
  BY <1>1, TunnelsUndisturbed DEF Inv, RowInv, HolderInv, NextMissing

LEMMA ExpireStep ==
  ASSUME Inv, NEW s \in Service, Expire(s)
  PROVE  Inv'
<1>1. /\ row' = [row EXCEPT ![s] = [@ EXCEPT !.state = "expired"]]
      /\ UNCHANGED <<up, range, holder, request, round, tunnel>>
  BY DEF Expire
<1>2. \A t \in Service : /\ row'[t] \in Row
                         /\ row'[t].port = row[t].port
                         /\ row'[t].protocol = row[t].protocol
  BY <1>1 DEF Inv, RowInv, Row
<1>3. RowInv'
  BY <1>1, <1>2, StateEffect DEF Inv, RowInv
<1>4. QED
  BY <1>1, <1>2, <1>3, TunnelsUndisturbed DEF Inv, HolderInv, NextMissing

LEMMA RemoveWorkspaceStep ==
  ASSUME Inv, NEW w \in Workspace, RemoveWorkspace(w)
  PROVE  Inv'
<1> USE DEF Inv
<1>1. /\ row' = [s \in Service |-> IF WorkspaceOf[s] = w THEN NoRow ELSE row[s]]
      /\ request' = [r \in Request |-> Severed(request[r], w)]
      /\ tunnel' = [c \in Connection |-> Severed(tunnel[c], w)]
      /\ UNCHANGED <<up, range, holder, round>>
  BY DEF RemoveWorkspace
<1>2. NoRow \in Row /\ NoRow.port = None /\ NoRow.protocol = "http"
  BY DEF NoRow, Row
<1>3. RowInv'
  BY <1>1, <1>2 DEF RowInv
<1>4. \A r \in Request : /\ request'[r] \in Awaiting
                         /\ request'[r].step = request[r].step
                         /\ request'[r].port = request[r].port
  BY <1>1 DEF HolderInv, Awaiting, Severed
<1>5. HolderInv'
  BY <1>1, <1>4 DEF HolderInv, NextMissing
<1>6. \A c \in Connection : /\ tunnel'[c] \in Tunnel
                            /\ tunnel'[c].step = tunnel[c].step
                            /\ tunnel'[c].port = tunnel[c].port
  BY <1>1 DEF TunnelInv, Tunnel, Severed
<1>7. \A c \in Connection, s \in Service :
        tunnel'[c].service = s => tunnel[c].service = s /\ row'[s] = row[s]
  BY <1>1, NoneAssumption DEF TunnelInv, Tunnel, Severed
<1>8. \A c \in Connection : Live(c)' <=> Live(c)
  BY <1>6 DEF Live
<1>9. NoOrphanTunnel'
  BY <1>1, <1>6, <1>8 DEF TunnelInv, NoOrphanTunnel
<1>10. TunnelKeepsPort'
  BY <1>6, <1>7, <1>8 DEF TunnelInv, TunnelKeepsPort, Leads
<1>11. TunnelInv'
  BY <1>1, <1>6, <1>8, <1>9, <1>10 DEF TunnelInv
<1>12. QED
  BY <1>1, <1>3, <1>5, <1>11

LEMMA OccupyStep ==
  ASSUME Inv, NEW p \in Port, Occupy(p)
  PROVE  Inv'
<1> USE DEF Inv
<1>1. /\ UNCHANGED <<row, up, range, request, round, tunnel>>
      /\ holder[p] \in {"foreign", None}
      /\ holder' = [holder EXCEPT ![p] = IF holder[p] = None THEN "foreign" ELSE None]
  BY NoneAssumption, CallerAssumption DEF Occupy
<1>2. holder' \in [Port -> Holder]
  BY <1>1 DEF HolderInv, Holder
<1>3. \A q \in Port, h \in Request \cup {"reconciler", "listener"} : holder'[q] = h <=> holder[q] = h
  BY <1>1, NoneAssumption, CallerAssumption DEF HolderInv
<1>4. HolderInv'
  BY <1>1, <1>2, <1>3 DEF HolderInv, NextMissing
<1>5. QED
  BY <1>1, <1>3, <1>4, TunnelsUndisturbed DEF RowInv

---------------------------------------------------------------------------
(* The invariant *)

LEMMA InitInv == Init => Inv
<1> SUFFICES ASSUME Init PROVE Inv
  OBVIOUS
<1>1. NoRow \in Row /\ NoRow.port = None /\ NoRow.protocol = "http"
  BY DEF NoRow, Row
<1>2. RowInv
  BY <1>1 DEF Init, RowInv
<1>3. /\ Idle \in Awaiting /\ Idle.step # "binding"
      /\ Settled \in Round /\ Settled.step # "binding"
      /\ NoTunnel \in Tunnel /\ NoTunnel.step \notin {"handshake", "open"}
  BY DEF Idle, Awaiting, Settled, Round, NoTunnel, Tunnel
<1>4. HolderInv
  BY <1>3, NoneAssumption, CallerAssumption DEF Init, HolderInv, Holder
<1>5. TunnelInv
  BY <1>3 DEF Init, TunnelInv, NoOrphanTunnel, TunnelKeepsPort, Leads, Live
<1>6. QED
  BY <1>2, <1>4, <1>5 DEF Init, Inv

LEMMA NextInv == Inv /\ [Next]_vars => Inv'
<1> SUFFICES ASSUME Inv, [Next]_vars PROVE Inv'
  OBVIOUS
<1>1. ASSUME NEW r \in Request, Put(r)
      PROVE  Inv'
  BY <1>1, PublishHttpStep, PublishTcpStep DEF Put
<1>2. ASSUME NEW r \in Request, Reconnect(r)
      PROVE  Inv'
  <2>1. PICK s \in Service, state \in {"active", "limited"} :
          IF row[s].protocol = "http" THEN PublishHttp(r, s, state) ELSE PublishTcp(r, s, state)
    BY <1>2 DEF Reconnect
  <2>2. QED
    BY <2>1, PublishHttpStep, PublishTcpStep
<1>3. ASSUME NEW r \in Request, Resume(r)
      PROVE  Inv'
  BY <1>3, ResumeStep
<1>4. ASSUME NEW s \in Service, Disconnect(s) \/ Expire(s) \/ \E c \in Connection : Connect(c, s)
      PROVE  Inv'
  BY <1>4, DisconnectStep, ExpireStep, ConnectStep
<1>5. ASSUME NEW c \in Connection, Connected(c) \/ Refused(c) \/ Hangup(c)
      PROVE  Inv'
  BY <1>5, ConnectedStep, LeaveStep
<1>6. ASSUME NEW w \in Workspace, RemoveWorkspace(w)
      PROVE  Inv'
  BY <1>6, RemoveWorkspaceStep
<1>7. ASSUME NEW p \in Port, Occupy(p)
      PROVE  Inv'
  BY <1>7, OccupyStep
<1>8. CASE RevokeAll
  BY <1>8, RevokeAllStep
<1>9. CASE Reconcile
  BY <1>9, StartRoundStep, CloseSurplusStep, OpenMissingStep, OpenedStep, AbortRoundStep,
     EndRoundStep DEF Reconcile
<1>10. CASE Start \/ Crash
  BY <1>10, StartStep, DownStep DEF Crash
<1>11. CASE UNCHANGED vars
  BY <1>11 DEF vars, Inv, RowInv, HolderInv, TunnelInv, NextMissing, Live, NoOrphanTunnel,
     TunnelKeepsPort, Leads
<1>12. QED
  BY <1>1, <1>2, <1>3, <1>4, <1>5, <1>6, <1>7, <1>8, <1>9, <1>10, <1>11 DEF Next

LEMMA Invariant == Spec => []Inv
  BY InitInv, NextInv, PTL DEF Spec

---------------------------------------------------------------------------
(* Theorems *)

\* Every variable keeps its type; no two rows ever share a port, whatever is published,
\* revoked, removed or crashes (upsertPublishedService), and a port is being bound by
\* exactly the request or the round that waits for its listener (activate).
THEOREM PublicationTypes == Spec => []TypeOK
  BY Invariant, InvTypes, PTL

\* A tunnel that is not finished came through a listener that is still up: deactivate
\* and the end of the process leave none behind (#connectionClosersByPort).
THEOREM NoOrphanTunnelHolds == Spec => []NoOrphanTunnel
<1>1. Inv => NoOrphanTunnel
  BY DEF Inv, TunnelInv
<1>2. QED
  BY <1>1, Invariant, PTL

\* No tunnel outlives the port of its publication, so none ever leads to another
\* publication than the one its port belongs to (publishWorkspaceService).
THEOREM TunnelKeepsPortHolds == Spec => []TunnelKeepsPort
<1>1. Inv => TunnelKeepsPort
  BY DEF Inv, TunnelInv
<1>2. QED
  BY <1>1, Invariant, PTL

===========================================================================
