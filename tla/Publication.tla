---------------------------- MODULE Publication ----------------------------
(***************************************************************************)
(* Raw TCP publications: the published_service rows, the ingress with its  *)
(* listeners and tunnels, the requests that publish and revoke, and the    *)
(* reconciler that makes the listeners follow the rows.                    *)
(*                                                                         *)
(* One process on the event loop: its code is interrupted where it awaits  *)
(* the end or the start of a listener, or the handshake of a tunnel.       *)
(***************************************************************************)
EXTENDS Integers, FiniteSets, FiniteSetsExt

CONSTANTS
  Service,      \* publications, each a workspace and a name
  Workspace,    \* workspaces of one organization
  WorkspaceOf,  \* the workspace of each publication
  Port,         \* TCP ports
  Ranges,       \* the ingress ranges that deployments are configured with
  Request,      \* requests that publish at the same time
  Connection,   \* clients
  None,         \* SQL NULL
  WorkspaceLimit,     \* NEBULA_WORKSPACE_PUBLICATION_LIMIT
  OrganizationLimit   \* NEBULA_ORGANIZATION_PUBLICATION_LIMIT

ASSUME ServiceAssumption == WorkspaceOf \in [Service -> Workspace]
ASSUME PortAssumption    == Port \subseteq Nat /\ Ranges \subseteq SUBSET Port
ASSUME NoneAssumption    == None \notin Port \cup Service \cup Request
ASSUME CallerAssumption  ==
  Request \cap {"reconciler", "listener", "foreign"} = {} /\ None \notin
    {"reconciler", "listener", "foreign"}
ASSUME LimitAssumption   == WorkspaceLimit \in Nat \ {0} /\ OrganizationLimit \in Nat \ {0}

VARIABLES
  row,      \* the published_service table
  up,       \* how far the control plane has come
  range,    \* its ingress range
  holder,   \* who has bound each port
  request,  \* where each publishWorkspaceService call awaits
  round,    \* the reconciliation under way
  tunnel    \* what became of each client

vars == <<row, up, range, holder, request, round, tunnel>>

---------------------------------------------------------------------------
(* Rows *)

\* state and expires_at: "active" never expires, "limited" will and "expired" did,
\* all three have state = 'active'. Only Reconnect reads the expires_at of a revoked
\* row, and takes either.
Row ==
  [state    : {"none", "active", "limited", "expired", "revoked"},
   protocol : {"http", "tcp"},
   port     : Port \cup {None}]

NoRow == [state |-> "none", protocol |-> "http", port |-> None]

\* state = 'active'
Unrevoked(s) == row[s].state \in {"active", "limited", "expired"}

\* state = 'active' AND (expires_at IS NULL OR expires_at > now)
Active(s) == row[s].state \in {"active", "limited"}

ActiveIn(w) == {s \in Service : Active(s) /\ WorkspaceOf[s] = w}

\* Mutant: revoked rows do not keep their port.
ActivePorts == {row[s].port : s \in {t \in Service : Unrevoked(t)}} \ {None}

Reserved == {row[s].port : s \in Service} \ {None}

\* Mutant: the listeners of revoked publications are wanted as well.
Recorded == {row[s].port : s \in {t \in Service : row[t].protocol = "tcp"}} \ {None}

\* Mutant: a publication with a limited life is forgotten.
Unlimited == {row[s].port : s \in {t \in Service : /\ Active(t)
                                                   /\ row[t].protocol = "tcp"
                                                   /\ row[t].state = "active"}}

\* listTCPPublishedServices
Desired == {row[s].port : s \in {t \in Service : Active(t) /\ row[t].protocol = "tcp"}}

---------------------------------------------------------------------------
(* Listeners and tunnels.                                                  *)
(*                                                                         *)
(* A port is bound by the caller of activate until the listener is up, and *)
(* then by a listener in #listeners; or by a program of somebody else.     *)

Caller == Request \cup {"reconciler"}

Holder == Caller \cup {"listener", "foreign", None}

Listening == {p \in Port : holder[p] = "listener"}

\* "cut": finished while its handshake was under way.
\* "stray": the socket to the worker that such a handshake returned.
Tunnel ==
  [step    : {"none", "handshake", "open", "cut", "stray"},
   service : Service \cup {None},
   port    : Port \cup {None}]

NoTunnel == [step |-> "none", service |-> None, port |-> None]

\* finish() was not called yet: it is in the closers of its port.
Live(c) == tunnel[c].step \in {"handshake", "open"}

\* finish()
Finished(t) == IF t.step = "handshake" THEN [t EXCEPT !.step = "cut"] ELSE NoTunnel

\* Mutant: the listener is closed, its connections go on.
Undisturbed(p) == tunnel

\* The tunnels after the connections of p were closed.
Closed(p) ==
  [c \in Connection |->
     IF Live(c) /\ tunnel[c].port = p THEN Finished(tunnel[c]) ELSE tunnel[c]]

Unbound(p) ==
  [holder EXCEPT ![p] = IF @ = "listener" THEN None ELSE @]

\* deactivate, without the wait for the listener's end.
Deactivate(p) == tunnel' = Closed(p) /\ holder' = Unbound(p)

\* What activate(p) does when nobody has bound p.
Bind(caller, p) == holder' = [holder EXCEPT ![p] = caller]

Idle == [step |-> "idle", service |-> None, port |-> None]

Settled == [step |-> "idle", surplus |-> {}, missing |-> {}]

Awaiting ==
  [step    : {"idle", "leaving", "binding", "failing"},
   service : Service \cup {None},
   port    : Port \cup {None}]

Round ==
  [step    : {"idle", "running", "binding"},
   surplus : SUBSET Port,
   missing : SUBSET Port]

Init ==
  /\ row = [s \in Service |-> NoRow]
  /\ up = "down"
  /\ range \in Ranges
  /\ holder = [p \in Port |-> None]
  /\ request = [r \in Request |-> Idle]
  /\ round = Settled
  /\ tunnel = [c \in Connection |-> NoTunnel]

---------------------------------------------------------------------------
(* Publishing *)

\* upsertPublishedService: a tcp publication keeps a port in the range, or
\* gets the first that no row has.
Allocated(s) ==
  IF row[s].protocol = "tcp" /\ row[s].port \in range
    THEN {row[s].port}
    ELSE LET free == range \ Reserved IN IF free = {} THEN {} ELSE {Min(free)}

\* Neither limit is checked for an update of an active publication.
WithinLimits(s) ==
  \/ Active(s)
  \/ /\ Cardinality(ActiveIn(WorkspaceOf[s])) < WorkspaceLimit
     /\ Cardinality({t \in Service : Active(t)}) < OrganizationLimit

\* The checks and the transaction of publishWorkspaceService.
Upsert(r, s, protocol, port, state) ==
  /\ up = "serving"
  /\ request[r] = Idle
  /\ WithinLimits(s)
  /\ row' = [row EXCEPT ![s] = [state |-> state, protocol |-> protocol, port |-> port]]
  /\ UNCHANGED <<up, range, round>>

\* Mutant: the listener of the previous port is left to the reconciler.
Stays(s, port) == FALSE

\* The publication had another port, which is deactivated first.
Moves(s, port) ==
  row[s].protocol = "tcp" /\ row[s].port # port

Await(r, step, s, port) ==
  request' = [request EXCEPT ![r] = [step |-> step, service |-> s, port |-> port]]

\* activate(port) by request r for s, after everything before it was awaited.
Activate(r, s, port) ==
  CASE holder[port] = "listener" ->
         request' = [request EXCEPT ![r] = Idle] /\ UNCHANGED holder
    [] holder[port] = None ->
         Await(r, "binding", s, port) /\ Bind(r, port)
    [] OTHER ->
         Await(r, "failing", s, port) /\ UNCHANGED holder

PublishHttp(r, s, state) ==
  /\ Upsert(r, s, "http", None, state)
  /\ IF Moves(s, None) THEN Deactivate(row[s].port) ELSE UNCHANGED <<holder, tunnel>>
  /\ UNCHANGED request

PublishTcp(r, s, state) ==
  \E port \in Allocated(s) :
    /\ Upsert(r, s, "tcp", port, state)
    /\ IF Moves(s, port)
         THEN Await(r, "leaving", s, port) /\ Deactivate(row[s].port)
         ELSE Activate(r, s, port) /\ UNCHANGED tunnel

\* PUT by the workspace, whose ttlSeconds decides whether the publication expires.
\* In a pause of publications, or without the right token, nothing happens.
Put(r) ==
  \E s \in Service, state \in {"active", "limited"} :
    PublishHttp(r, s, state) \/ PublishTcp(r, s, state)

\* PATCH by a member of the organization: published again as it was.
Reconnect(r) ==
  \E s \in Service, state \in {"active", "limited"} :
    /\ row[s].state # "none"
    /\ Unrevoked(s) => (state = "active" <=> row[s].state = "active")
    /\ IF row[s].protocol = "http" THEN PublishHttp(r, s, state) ELSE PublishTcp(r, s, state)

\* The previous listener has ended.
Left(r) ==
  /\ request[r].step = "leaving"
  /\ Activate(r, request[r].service, request[r].port)
  /\ UNCHANGED <<row, up, range, round, tunnel>>

\* The listener of r is up.
Publish(r) ==
  /\ request[r].step = "binding"
  /\ holder' = [holder EXCEPT ![request[r].port] = "listener"]
  /\ request' = [request EXCEPT ![r] = Idle]
  /\ UNCHANGED <<row, up, range, round, tunnel>>

\* revokePublishedService
Revoked(s) ==
  IF Unrevoked(s) THEN [row[s] EXCEPT !.state = "revoked"] ELSE row[s]

\* The listener of r did not start: the publication is revoked again.
Withdraw(r) ==
  /\ request[r].step = "failing"
  /\ row' = [s \in Service |-> IF s = request[r].service THEN Revoked(s) ELSE row[s]]
  /\ request' = [request EXCEPT ![r] = Idle]
  /\ UNCHANGED <<up, range, holder, round, tunnel>>

\* disconnectWorkspaceService
Disconnect(s) ==
  /\ up = "serving"
  /\ row[s].state # "none"
  /\ row' = [row EXCEPT ![s] = Revoked(s)]
  /\ IF row[s].protocol = "tcp" THEN Deactivate(row[s].port)
                                ELSE UNCHANGED <<holder, tunnel>>
  /\ UNCHANGED <<up, range, request, round>>

\* Every row of the organization, and the ports of those that were active,
\* expired or not.
RevokedRows == [s \in Service |-> Revoked(s)]
RevokedPorts == {row[s].port : s \in {t \in Service : Unrevoked(t)}} \ {None}

\* The listeners of several ports are closed at once.
DeactivateAll(ports) ==
  /\ holder' = [p \in Port |-> IF p \in ports THEN Unbound(p)[p] ELSE holder[p]]
  /\ tunnel' = [c \in Connection |->
                  IF tunnel[c].port \in ports THEN Closed(tunnel[c].port)[c] ELSE tunnel[c]]

\* POST of an administrator of the platform.
RevokeAll ==
  /\ up = "serving"
  /\ row' = RevokedRows
  /\ DeactivateAll(RevokedPorts)
  /\ UNCHANGED <<up, range, request, round>>

---------------------------------------------------------------------------
(* The reconciler *)

\* reconcile(), by the timer or by the start of the control plane; a round
\* that is under way is joined.
StartRound ==
  /\ up \in {"starting", "serving"}
  /\ round.step = "idle"
  /\ round' = [step |-> "running", surplus |-> Listening \ Desired,
               missing |-> Desired \ Listening]
  /\ UNCHANGED <<row, up, range, holder, request, tunnel>>

\* The loops work on the sets that the round began with.
CloseSurplus ==
  /\ round.step = "running"
  /\ \E p \in round.surplus :
       /\ Deactivate(p)
       /\ round' = [round EXCEPT !.surplus = @ \ {p}]
  /\ UNCHANGED <<row, up, range, request>>

\* ORDER BY ingress_port
NextMissing == Min(round.missing)

OpenMissing ==
  /\ round.step = "running"
  /\ round.surplus = {}
  /\ round.missing # {}
  /\ \/ /\ holder[NextMissing] = "listener"
        /\ round' = [round EXCEPT !.missing = @ \ {NextMissing}]
        /\ UNCHANGED holder
     \/ /\ holder[NextMissing] = None
        /\ Bind("reconciler", NextMissing)
        /\ round' = [round EXCEPT !.step = "binding"]
  /\ UNCHANGED <<row, up, range, request, tunnel>>

\* The listener of the reconciler is up.
Opened ==
  /\ round.step = "binding"
  /\ holder' = [holder EXCEPT ![NextMissing] = "listener"]
  /\ round' = [round EXCEPT !.step = "running", !.missing = @ \ {NextMissing}]
  /\ UNCHANGED <<row, up, range, request, tunnel>>

\* The end of the process: only the rows and the other programs stay.
Down ==
  /\ up' = "down"
  /\ holder' = [p \in Port |-> IF holder[p] = "foreign" THEN "foreign" ELSE None]
  /\ request' = [r \in Request |-> Idle]
  /\ round' = Settled
  /\ tunnel' = [c \in Connection |-> NoTunnel]
  /\ UNCHANGED <<row, range>>

\* The first port that cannot be bound ends the round, and the start with it.
AbortRound ==
  /\ round.step = "running"
  /\ round.surplus = {}
  /\ round.missing # {}
  /\ holder[NextMissing] \notin {"listener", None}
  /\ IF up = "starting"
       THEN Down
       ELSE /\ round' = Settled
            /\ UNCHANGED <<row, up, range, holder, request, tunnel>>

EndRound ==
  /\ round = [Settled EXCEPT !.step = "running"]
  /\ round' = Settled
  /\ up' = "serving"
  /\ UNCHANGED <<row, range, holder, request, tunnel>>

---------------------------------------------------------------------------
(* Tunnels *)

\* #handle: a connection to a bound port that has a route.
Connect(c, s) ==
  /\ tunnel[c] = NoTunnel
  /\ Active(s)
  /\ row[s].protocol = "tcp"
  /\ holder[row[s].port] = "listener"
  /\ tunnel' = [tunnel EXCEPT ![c] = [step |-> "handshake", service |-> s,
                                      port |-> row[s].port]]
  /\ UNCHANGED <<row, up, range, holder, request, round>>

\* openWorkerTCPTunnel returns a socket.
Connected(c) ==
  /\ \/ /\ tunnel[c].step = "handshake"
        /\ tunnel' = [tunnel EXCEPT ![c] = [@ EXCEPT !.step = "open"]]
     \/ /\ tunnel[c].step = "cut"
        /\ tunnel' = [tunnel EXCEPT ![c] = [@ EXCEPT !.step = "stray"]]
  /\ UNCHANGED <<row, up, range, holder, request, round>>

\* It throws, after its time-out at the latest.
Refused(c) ==
  /\ tunnel[c].step \in {"handshake", "cut"}
  /\ tunnel' = [tunnel EXCEPT ![c] = NoTunnel]
  /\ UNCHANGED <<row, up, range, holder, request, round>>

\* An end of an open tunnel closes, idles or exceeds its bandwidth.
Hangup(c) ==
  /\ tunnel[c].step = "open"
  /\ tunnel' = [tunnel EXCEPT ![c] = NoTunnel]
  /\ UNCHANGED <<row, up, range, holder, request, round>>

---------------------------------------------------------------------------
(* The environment *)

Start ==
  /\ up = "down"
  /\ up' = "starting"
  /\ range' \in Ranges
  /\ UNCHANGED <<row, holder, request, round, tunnel>>

Crash == up # "down" /\ Down

Expire(s) ==
  /\ row[s].state = "limited"
  /\ row' = [row EXCEPT ![s] = [@ EXCEPT !.state = "expired"]]
  /\ UNCHANGED <<up, range, holder, request, round, tunnel>>

Severed(call, w) ==
  IF call.service # None /\ WorkspaceOf[call.service] = w
    THEN [call EXCEPT !.service = None]
    ELSE call

\* A member is deleted, with the workspace and its rows (ON DELETE CASCADE); the
\* names then belong to the next workspace, and nothing under way to them.
RemoveWorkspace(w) ==
  /\ row' = [s \in Service |-> IF WorkspaceOf[s] = w THEN NoRow ELSE row[s]]
  /\ request' = [r \in Request |-> Severed(request[r], w)]
  /\ tunnel' = [c \in Connection |-> Severed(tunnel[c], w)]
  /\ UNCHANGED <<up, range, holder, round>>

\* Another program binds a port, or releases it.
Occupy(p) ==
  /\ \/ holder[p] = None /\ holder' = [holder EXCEPT ![p] = "foreign"]
     \/ holder[p] = "foreign" /\ holder' = [holder EXCEPT ![p] = None]
  /\ UNCHANGED <<row, up, range, request, round, tunnel>>

---------------------------------------------------------------------------

Reconcile == StartRound \/ CloseSurplus \/ OpenMissing \/ Opened \/ AbortRound \/ EndRound

Resume(r) == Left(r) \/ Publish(r) \/ Withdraw(r)

Next ==
  \/ \E r \in Request : Put(r) \/ Reconnect(r) \/ Resume(r)
  \/ \E s \in Service : Disconnect(s) \/ Expire(s) \/ \E c \in Connection : Connect(c, s)
  \/ \E c \in Connection : Connected(c) \/ Refused(c) \/ Hangup(c)
  \/ \E w \in Workspace : RemoveWorkspace(w)
  \/ \E p \in Port : Occupy(p)
  \/ RevokeAll \/ Reconcile \/ Start \/ Crash

Spec == Init /\ [][Next]_vars

\* The timer of the reconciler keeps firing, what is awaited ends, and the
\* service is restarted.
Fairness ==
  /\ WF_vars(Reconcile)
  /\ \A r \in Request : WF_vars(Resume(r))
  /\ WF_vars(Start)

FairSpec == Spec /\ Fairness

---------------------------------------------------------------------------
(* Properties *)

\* Every variable keeps its type, no two publications share a port, and a port
\* is being bound by exactly the calls that wait for it.
TypeOK ==
  /\ row \in [Service -> Row]
  /\ \A s \in Service : row[s].port # None <=> row[s].protocol = "tcp"
  /\ \A s, t \in Service : row[s].port = row[t].port => s = t \/ row[s].port = None
  /\ up \in {"down", "starting", "serving"}
  /\ range \in Ranges
  /\ holder \in [Port -> Holder]
  /\ request \in [Request -> Awaiting]
  /\ \A r \in Request : \A p \in Port :
       holder[p] = r <=> request[r].step = "binding" /\ request[r].port = p
  /\ round \in Round
  /\ \A p \in Port :
       holder[p] = "reconciler" <=> round.step = "binding" /\ p = NextMissing
  /\ tunnel \in [Connection -> Tunnel]

\* A tunnel that is not finished enters through a port this process holds: what
\* closes the listener of a port leaves none of its tunnels behind, also while
\* handshakes and activations are under way (deactivate, #connectionClosersByPort).
NoOrphanTunnel ==
  \A c \in Connection : Live(c) => holder[tunnel[c].port] = "listener"

\* c has a tunnel to s.
Leads(c, s) == Live(c) /\ tunnel[c].service = s

\* A tunnel leads to the publication that its port belongs to, through every
\* republication with another protocol or range (publishWorkspaceService), unless
\* the publication was deleted with its workspace.
TunnelKeepsPort ==
  \A c \in Connection, s \in Service : Leads(c, s) => row[s].port = tunnel[c].port

\* docs/published-services.md, "Revoked or expired listeners are unbound and their
\* active tunnels are closed": a tunnel of a publication that was revoked or that
\* expired is finished in the end, whatever else is published, fails or crashes.
TunnelsEnd ==
  \A c \in Connection, s \in Service :
    (Leads(c, s) /\ ~Active(s)) ~> (~Leads(c, s) \/ Active(s))

\* The ports of the publications that are active.
Promised == {row[s].port : s \in {t \in Service : Active(t)}} \ {None}

\* "Missed activations are retried": when the rows stay as they are, the process
\* stays up and no other program holds a port, the listeners become those of the
\* active publications, and stay it (TCPPublicationReconciler).
ListenersConverge ==
  /\ <>[](\A p \in Port : holder[p] # "foreign")
  /\ <>[][UNCHANGED <<row, up>>]_vars
  => <>[](Listening = Promised)

\* docs/published-services.md: with a revocation "active tunnels are terminated";
\* so no socket to a worker that nothing can close is left of them.
NoStrayTunnel ==
  \A c \in Connection, s \in Service :
    row[s].state = "revoked" /\ tunnel[c].service = s => tunnel[c].step # "stray"

===========================================================================
