----------------------------- MODULE Placement -----------------------------
(***************************************************************************)
(* The worker registry and the placement of workspaces: registration and   *)
(* administration of hosts, the health monitor with its outstanding polls, *)
(* the assignment of a workspace to a host with its reservation, and the   *)
(* start of the control plane, which seeds one host from its environment.  *)
(*                                                                         *)
(* Every database function is one transaction, hence one step.  Time only  *)
(* shows in the age of a heartbeat.  Of the four reserved resources, slots *)
(* orders the candidates; memory stands for the three that do not.         *)
(***************************************************************************)
EXTENDS Integers, FiniteSets

CONSTANTS
  Workspace,   \* workspace rows
  Legacy,      \* workspaces of an older version: started, but on no host
  Host,        \* ids of worker_host rows
  Seeded,      \* the host registered from NEBULA_WORKER_URL at a start, if any
  None,        \* SQL NULL
  Capacity,    \* the ceilings that registrations of each host ask for
  Need         \* the reservations that deployments are configured with

Resource == {"slots", "memory"}

ASSUME HostAssumption     == None \notin Host /\ Seeded \subseteq Host
ASSUME LegacyAssumption   == Legacy \subseteq Workspace
ASSUME CapacityAssumption ==
  \A h \in Host : \A c \in Capacity[h] : c \in [Resource -> Nat] /\ c["slots"] > 0
ASSUME NeedAssumption     == \A n \in Need : /\ n \in [Resource -> Nat]
                                             /\ n["slots"] > 0

VARIABLES
  host,       \* the worker_host table
  place,      \* the columns of workspace that a placement writes
  polls,      \* hosts whose status request is outstanding
  phase,      \* how far the start of the control plane has come
  todo,       \* legacy workspaces that the start still has to place
  need,       \* workspaceReservation of the running process
  withdrawn   \* history: what the last administration of a host asked for,
              \* "reseeded" where a start made an unschedulable host schedulable

vars == <<host, place, polls, phase, todo, need, withdrawn>>

---------------------------------------------------------------------------
(* Rows *)

HostRow ==
  [registered  : BOOLEAN,
   enabled     : BOOLEAN,
   schedulable : BOOLEAN,
   state       : {"unknown", "healthy", "draining", "unavailable"},
   fresh       : BOOLEAN,   \* last_heartbeat_at is within heartbeatMaxAgeMs
   total       : [Resource -> Nat],
   reserved    : [Resource -> Nat]]

Place ==
  [status   : {"absent", "present", "deleted"},
   host     : Host \cup {None},
   reserved : [Resource -> Nat]]

Nothing == [r \in Resource |-> 0]

Unregistered ==
  [registered |-> FALSE, enabled |-> FALSE, schedulable |-> FALSE,
   state |-> "unknown", fresh |-> FALSE, total |-> Nothing,
   reserved |-> Nothing]

Unplaced(status) == [status |-> status, host |-> None, reserved |-> Nothing]

Registered == {h \in Host : host[h].registered}

OnHost(h) == {w \in Workspace : place[w].host = h}

Covers(total, reserved) == \A r \in Resource : reserved[r] <= total[r]

Init ==
  /\ host = [h \in Host |-> Unregistered]
  /\ place = [w \in Workspace |-> Unplaced(IF w \in Legacy THEN "present" ELSE "absent")]
  /\ polls = {}
  /\ phase = "down"
  /\ todo = {}
  /\ need \in Need
  /\ withdrawn = [h \in Host |-> "no"]

---------------------------------------------------------------------------
(* Administration *)

\* upsertWorkerHost: an existing row keeps its state, heartbeat and
\* reservations, and is not cut below them.
Upsert(h, total, enabled, schedulable) ==
  /\ Covers(total, host[h].reserved)
  /\ host' = [host EXCEPT ![h] =
                [@ EXCEPT !.registered = TRUE, !.enabled = enabled,
                          !.schedulable = schedulable, !.total = total]]

\* POST /internal/v1/workers, unschedulable unless the request says otherwise.
Register(h, total, enabled, schedulable) ==
  /\ phase = "serving"
  /\ Upsert(h, total, enabled, schedulable)
  /\ withdrawn' = [withdrawn EXCEPT ![h] =
                     IF enabled /\ schedulable THEN "no" ELSE "unschedulable"]
  /\ UNCHANGED <<place, polls, phase, todo, need>>

Command == {"none", "enable", "disable", "drain", "resume"}

\* setWorkerHostScheduling as the four lifecycle actions call it.
Scheduled(row, command) ==
  CASE command = "none"    -> row
    [] command = "enable"  -> [row EXCEPT !.enabled = TRUE, !.schedulable = FALSE,
                                          !.state = "unknown"]
    [] command = "disable" -> [row EXCEPT !.enabled = FALSE, !.schedulable = FALSE,
                                          !.state = "unavailable"]
    [] command = "drain"   -> [row EXCEPT !.schedulable = FALSE, !.state = "draining"]
    [] command = "resume"  -> [row EXCEPT !.enabled = TRUE, !.schedulable = TRUE,
                                          !.state = "unknown"]

\* PATCH /internal/v1/workers/:id: a change of the row and a lifecycle action
\* in one transaction.
Update(h, total, command) ==
  /\ phase = "serving"
  /\ host[h].registered
  /\ Covers(total, host[h].reserved)
  /\ host' = [host EXCEPT ![h] = Scheduled([@ EXCEPT !.total = total], command)]
  /\ withdrawn' = [withdrawn EXCEPT ![h] =
                     CASE command = "none"   -> @
                       [] command = "resume" -> "no"
                       [] command = "drain"  -> "drained"
                       [] OTHER              -> "unschedulable"]
  /\ UNCHANGED <<place, polls, phase, todo, need>>

---------------------------------------------------------------------------
(* Health *)

\* pollOnce sends a status request to every registered host.  Bound: the next
\* round starts when the answers of the last one are in.
PollAll ==
  /\ phase = "serving"
  /\ polls = {}
  /\ polls' = Registered
  /\ UNCHANGED <<host, place, phase, todo, need, withdrawn>>

\* Mutant: an answer overwrites every state.
Overwritten(row, state, heartbeat) ==
  [row EXCEPT !.state = state, !.fresh = IF heartbeat THEN TRUE ELSE @]

\* recordWorkerHealth: draining is not overwritten.
Observed(row, state, heartbeat) ==
  [row EXCEPT !.state = IF @ = "draining" THEN @ ELSE state,
              !.fresh = IF heartbeat THEN TRUE ELSE @]

Answer(h, state, heartbeat) ==
  /\ h \in polls
  /\ host' = [host EXCEPT ![h] = Observed(@, state, heartbeat)]
  /\ polls' = polls \ {h}
  /\ UNCHANGED <<place, phase, todo, need, withdrawn>>

\* The worker is ready and reports the registered ceilings.
Ready(h) == Answer(h, "healthy", TRUE)

\* The worker answers that it is not ready.
NotReady(h) == Answer(h, "unavailable", TRUE)

\* No answer, no valid one, or other ceilings than the registered ones.
Unreachable(h) == Answer(h, "unavailable", FALSE)

\* heartbeatMaxAgeMs passes without an answer.
Age(h) ==
  /\ host[h].fresh
  /\ host' = [host EXCEPT ![h] = [@ EXCEPT !.fresh = FALSE]]
  /\ UNCHANGED <<place, polls, phase, todo, need, withdrawn>>

---------------------------------------------------------------------------
(* Placement *)

\* Mutant: the query compares the slots only.
SlotsFit(h) == host[h].total["slots"] - host[h].reserved["slots"] >= need["slots"]

Fits(h) ==
  \A r \in Resource : host[h].total[r] - host[h].reserved[r] >= need[r]

Candidates ==
  {h \in Registered : /\ host[h].enabled
                      /\ host[h].schedulable
                      /\ host[h].state = "healthy"
                      /\ host[h].fresh
                      /\ Fits(h)}

\* The share of the slots that is reserved orders the candidates; what breaks
\* ties is left open.
LessLoaded(g, h) ==
  host[g].reserved["slots"] * host[h].total["slots"]
    < host[h].reserved["slots"] * host[g].total["slots"]

Preferred == {h \in Candidates : \A g \in Candidates : ~LessLoaded(g, h)}

\* Mutant: a workspace whose host is no candidate any more is placed again.
Misplaced(w) == place[w].status = "present" /\ place[w].host \notin Candidates

Unassigned(w) == place[w].status = "present" /\ place[w].host = None

\* assignWorkspaceWorker for a workspace on no host: it reserves on the best
\* candidate and records the reservation with the workspace.
Assign(w) ==
  /\ Unassigned(w)
  /\ \E h \in Preferred :
       /\ host' = [host EXCEPT ![h] =
                     [@ EXCEPT !.reserved = [r \in Resource |-> host[h].reserved[r] + need[r]]]]
       /\ place' = [place EXCEPT ![w] =
                      [status |-> "present", host |-> h, reserved |-> need]]

\* An attempt of a provisioning job.  A workspace that is assigned keeps its
\* host whatever became of it; without a candidate the attempt fails.
EnsureAssigned(w) ==
  /\ phase = "serving"
  /\ Assign(w)
  /\ UNCHANGED <<polls, phase, todo, need, withdrawn>>

CreateWorkspace(w) ==
  /\ phase = "serving"
  /\ place[w].status = "absent"
  /\ place' = [place EXCEPT ![w] = Unplaced("present")]
  /\ UNCHANGED <<host, polls, phase, todo, need, withdrawn>>

\* Mutant: the reservation is given back twice.
ReleasedTwice(reserved, released) ==
  [r \in Resource |-> reserved[r] - 2 * released[r]]

\* Mutant: the trigger is missing.
NotReleased(reserved, released) == reserved

\* MAX(0, reserved - released), column by column.
Released(reserved, released) ==
  [r \in Resource |-> IF released[r] > reserved[r] THEN 0 ELSE reserved[r] - released[r]]

\* The row is deleted with its member; the trigger
\* workspace_worker_reservation_release gives the reservation back.
RemoveMember(w) ==
  LET h == place[w].host IN
  /\ phase = "serving"
  /\ place[w].status = "present"
  /\ place' = [place EXCEPT ![w] = Unplaced("deleted")]
  /\ host' = IF h = None
               THEN host
               ELSE [host EXCEPT ![h] =
                       [@ EXCEPT !.reserved = Released(host[h].reserved, place[w].reserved)]]
  /\ UNCHANGED <<polls, phase, todo, need, withdrawn>>

---------------------------------------------------------------------------
(* Start of the control plane *)

\* A new process, configured with the reservation n.  Where NEBULA_WORKER_URL is
\* set it seeds that host: upsertWorkerHost with its defaults, which enable the
\* host and make it schedulable.  If the configured ceilings do not cover what
\* is reserved, the process does not start.  The first round of polls begins.
Start(n) ==
  /\ need' = n
  /\ IF Seeded = {}
       THEN UNCHANGED <<host, withdrawn>>
       ELSE \E h \in Seeded :
              /\ \E total \in Capacity[h] : Upsert(h, total, TRUE, TRUE)
              /\ withdrawn' = [withdrawn EXCEPT ![h] =
                                 IF @ = "unschedulable" THEN "reseeded" ELSE @]
  /\ polls' = Registered'
  /\ phase' = "polling"
  /\ todo' = {}
  /\ UNCHANGED place

\* pollOnce is awaited; then the legacy workspaces are looked up.
FindLegacy ==
  /\ phase = "polling"
  /\ polls = {}
  /\ phase' = "assigning"
  /\ todo' = {w \in Legacy : Unassigned(w)}
  /\ UNCHANGED <<host, place, polls, need, withdrawn>>

\* One of them is placed, or its error is logged and the loop goes on.
AssignLegacy(w) ==
  /\ phase = "assigning"
  /\ w \in todo
  /\ todo' = todo \ {w}
  /\ IF Candidates # {}
       THEN Assign(w)
       ELSE UNCHANGED <<host, place>>
  /\ UNCHANGED <<polls, phase, need, withdrawn>>

Serve ==
  /\ phase = "assigning"
  /\ todo = {}
  /\ phase' = "serving"
  /\ UNCHANGED <<host, place, polls, todo, need, withdrawn>>

---------------------------------------------------------------------------

Next ==
  \/ \E h \in Host :
       \/ \E total \in Capacity[h] :
            \/ \E enabled, schedulable \in BOOLEAN :
                 Register(h, total, enabled, schedulable)
            \/ \E command \in Command : Update(h, total, command)
       \/ Ready(h) \/ NotReady(h) \/ Unreachable(h) \/ Age(h)
  \/ \E w \in Workspace : \/ CreateWorkspace(w) \/ EnsureAssigned(w)
                          \/ RemoveMember(w) \/ AssignLegacy(w)
  \/ \E n \in Need : Start(n)
  \/ PollAll \/ FindLegacy \/ Serve

Spec == Init /\ [][Next]_vars

---------------------------------------------------------------------------
(* Properties *)

\* Every variable keeps its type; in particular no reservation becomes negative,
\* whatever is released (workspace_worker_reservation_release).
TypeOK ==
  /\ host \in [Host -> HostRow]
  /\ place \in [Workspace -> Place]
  /\ polls \subseteq Host
  /\ phase \in {"down", "polling", "assigning", "serving"}
  /\ todo \subseteq Legacy
  /\ need \in Need
  /\ withdrawn \in [Host -> {"no", "drained", "unschedulable", "reseeded"}]

\* The units of r that the workspaces of h hold, each of them numbered.
Units(h, r) == UNION {{w} \X (1..place[w].reserved[r]) : w \in OnHost(h)}

\* What a host holds reserved is the sum of what its workspaces hold, through
\* every placement, removal, new registration and changed configuration
\* (assignWorkspaceWorker against the trigger that releases a reservation).
LedgerBalances ==
  \A h \in Host, r \in Resource : host[h].reserved[r] = Cardinality(Units(h, r))

\* A host is never promised beyond its registered ceilings, not even when its
\* capacity is changed (upsertWorkerHost's check and the CHECK constraints).
NeverOverbooked == \A h \in Host : Covers(host[h].total, host[h].reserved)

\* A workspace moves to no other host as long as it exists: retries, restarts
\* and the legacy assignment keep the host that holds its data
\* (workspace_worker_assignment_immutable).
AssignmentSticks ==
  [][\A w \in Workspace :
       place[w].host # None => \/ place'[w].host = place[w].host
                               \/ place'[w].status = "deleted"]_vars

\* w is put on h by this step.
Placed(w, h) == place[w].host = None /\ place'[w].host = h

\* A host that was withdrawn by its last administration takes no workspace,
\* whatever a late health poll says of it, until a restart seeds it; one that is
\* draining takes none even then (recordWorkerHealth, assignWorkspaceWorker).
WithdrawnTakesNoWork ==
  [][\A w \in Workspace, h \in Host :
       Placed(w, h) => withdrawn[h] \in {"no", "reseeded"}]_vars

\* docs/worker-connection.md:112: "Enabling leaves a host unschedulable until it
\* is explicitly resumed", and no host that is not resumed takes a workspace.
NoWorkUntilResumed ==
  [][\A w \in Workspace, h \in Host : Placed(w, h) => withdrawn[h] = "no"]_vars

===========================================================================
