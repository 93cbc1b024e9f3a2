------------------------- MODULE WorkspaceContract -------------------------
(***************************************************************************)
(* What the provisioning queue promises to the product, without leases,    *)
(* attempts, retries or processes: a start request of a workspace is open  *)
(* until it is answered once, its answer and the workspace's new state     *)
(* appear together, and at most one request of a workspace is open.        *)
(***************************************************************************)
CONSTANTS
  Workspace,
  Request,   \* start requests
  None,
  Overlap    \* whether two processes may serve requests at the same time

VARIABLES
  state,     \* what the product shows of each workspace
  request    \* the start requests: [status, workspace]

vars == <<state, request>>

RequestState ==
  [status    : {"unused", "open", "succeeded", "failed", "deleted"},
   workspace : Workspace \cup {None}]

Open(r) == request[r].status = "open"

Init ==
  /\ state = [w \in Workspace |-> "absent"]
  /\ request = [r \in Request |-> [status |-> "unused", workspace |-> None]]

Create(w) ==
  /\ state[w] = "absent"
  /\ state' = [state EXCEPT ![w] = "pending"]
  /\ UNCHANGED request

\* Only overlapping processes may open a request for a ready workspace.
Submit(w, r) ==
  /\ state[w] \notin {"absent", "deleted"}
  /\ state[w] = "ready" => Overlap
  /\ request[r].status = "unused"
  /\ \A s \in Request : Open(s) => request[s].workspace # w
  /\ request' = [request EXCEPT ![r] = [status |-> "open", workspace |-> w]]
  /\ state' = [state EXCEPT ![w] = IF @ = "ready" THEN @ ELSE "provisioning"]

Answer(r, status, newState) ==
  /\ Open(r)
  /\ request' = [request EXCEPT ![r].status = status]
  /\ state' = [state EXCEPT ![request[r].workspace] = newState]

Remove(w) ==
  /\ state[w] \notin {"absent", "deleted"}
  /\ state' = [state EXCEPT ![w] = "deleted"]
  /\ request' = [r \in Request |->
                   IF request[r].workspace = w
                     THEN [status |-> "deleted", workspace |-> None]
                     ELSE request[r]]

Next ==
  \/ \E w \in Workspace : \/ Create(w)
                          \/ Remove(w)
                          \/ \E r \in Request : Submit(w, r)
  \/ \E r \in Request : \/ Answer(r, "succeeded", "ready")
                        \/ Answer(r, "failed", "failed")

Spec == Init /\ [][Next]_vars

===========================================================================
