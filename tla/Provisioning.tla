--------------------------- MODULE Provisioning ---------------------------
(***************************************************************************)
(* The provisioning queue of the control plane: the workspace rows, the    *)
(* durable provisioning_job rows with their leases, the ensure-running     *)
(* request handler, and the processor that drives a worker.                *)
(*                                                                         *)
(* bun:sqlite is synchronous, so one database call is one step, and a      *)
(* process is interrupted only where its code awaits.  Two calls in one    *)
(* synchronous stretch of code are still two steps: another process on the *)
(* same database file may run between them, and the process may die.       *)
(***************************************************************************)
EXTENDS Integers, FiniteSets

CONSTANTS
  Workspace,        \* workspace rows, one per organization membership
  Job,              \* ids of provisioning_job rows (randomUUID)
  Process,          \* control-plane process starts, each with its own processorId
  None,             \* SQL NULL
  Overlap,          \* whether a process may start before the previous one is gone
  LeaseDuration,    \* leaseDurationMs
  MaximumAttempts,  \* maximumAttempts of the processor
  RetryDelay,       \* delay before the next attempt, by attempt number
  AttemptBound      \* bound: a job is claimed at most this many times

ASSUME NoneAssumption     == None \notin Workspace \cup Job \cup Process
ASSUME OverlapAssumption  == Overlap \in BOOLEAN
ASSUME LeaseAssumption    == LeaseDuration \in Nat \ {0}
ASSUME AttemptsAssumption == /\ MaximumAttempts \in Nat \ {0}
                             /\ AttemptBound \in Nat \ {0}
ASSUME DelayAssumption    == RetryDelay \in [1..AttemptBound -> Nat]

VARIABLES
  now,       \* Date.now(), advanced while a timer is pending
  state,     \* workspace.state
  bound,     \* whether workspace.worker_workspace_id is set
  job,       \* the provisioning_job table
  process,   \* where each process is in its code
  entitled,  \* workspaces whose member holds an active Operator entitlement
  paused     \* platform controls that are paused

vars == <<now, state, bound, job, process, entitled, paused>>

---------------------------------------------------------------------------
(* Rows *)

\* "absent": not inserted yet; "deleted": gone with its member.
\* The code never writes the state 'stopped' that the schema allows.
WorkspaceState ==
  {"absent", "pending", "provisioning", "ready", "failed", "deleted"}

\* The pause of provisioning stops no step of the queue, see CreateWorkspace.
Control == {"workspace_start"}

JobRow ==
  [status      : {"unused", "queued", "running", "succeeded", "failed", "deleted"},
   workspace   : Workspace \cup {None},
   attempt     : 0..AttemptBound,
   availableAt : Nat,
   createdAt   : Nat,
   owner       : Process \cup {None},
   expiresAt   : Nat,
   reclaims    : Nat]     \* history: how many claims took over an expired lease

NoRow(status) ==
  [status |-> status, workspace |-> None, attempt |-> 0, availableAt |-> 0,
   createdAt |-> 0, owner |-> None, expiresAt |-> 0, reclaims |-> 0]

QueuedRow(w) ==
  [status |-> "queued", workspace |-> w, attempt |-> 0, availableAt |-> now,
   createdAt |-> now, owner |-> None, expiresAt |-> 0, reclaims |-> 0]

\* The partial unique index covers the statuses 'queued' and 'running'.
Active(j) == job[j].status \in {"queued", "running"}

\* Mutant: a lookup and an index that overlook the running jobs.
QueuedJobs(w) == {j \in Job : job[j].status = "queued" /\ job[j].workspace = w}

ActiveJobs(w) == {j \in Job : Active(j) /\ job[j].workspace = w}

Exists(w) == state[w] \notin {"absent", "deleted"}

---------------------------------------------------------------------------
(* Processes.                                                              *)
(*                                                                         *)
(* step "admitted", "resolved": inside the ensure-running handler.         *)
(* step "polled", "claimed"   : inside processNext, before its await.      *)
(* step "idle" with a job     : the call to the worker is outstanding.     *)

ProcessState ==
  [step    : {"new", "idle", "admitted", "resolved", "polled", "claimed", "gone"},
   target  : Workspace \cup {None},
   job     : Job \cup {None},
   attempt : 0..AttemptBound]

\* No request and no job in hand.
AtRest(step) == [step |-> step, target |-> None, job |-> None, attempt |-> 0]

At(p, step) == process[p].step = step

Live(p) == process[p].step \notin {"new", "gone"}

\* The event loop of p is free to run another callback.
Free(p) == At(p, "idle")

Goto(p, step) == process' = [process EXCEPT ![p] = [@ EXCEPT !.step = step]]

\* The handler of p returns or throws.
Return(p) ==
  process' = [process EXCEPT ![p] = [@ EXCEPT !.step = "idle", !.target = None]]

\* processNext of p returns.
Release(p) == process' = [process EXCEPT ![p] = AtRest("idle")]

Init ==
  /\ now = 0
  /\ state = [w \in Workspace |-> "absent"]
  /\ bound = [w \in Workspace |-> FALSE]
  /\ job = [j \in Job |-> NoRow("unused")]
  /\ process = [p \in Process |-> AtRest("new")]
  /\ entitled = Workspace
  /\ paused = {}

---------------------------------------------------------------------------
(* The ensure-running handler *)

\* ensurePersonalWorkspace inserts the row of a member that has none.  The
\* handlers of open and run look at the pause of provisioning before, the usage
\* dashboard does not (Starts tells them apart).
CreateWorkspace(p, w) ==
  /\ Free(p)
  /\ state[w] = "absent"
  /\ state' = [state EXCEPT ![w] = "pending"]
  /\ UNCHANGED <<now, bound, job, process, entitled, paused>>

\* The handler lets the request through to ensureWorkspaceRunning.  A request
\* that it refuses changes nothing.  Bound: one job id is left.
Admit(p, w) ==
  /\ Free(p)
  /\ Exists(w)
  /\ w \in entitled
  /\ state[w] # "ready" => "workspace_start" \notin paused
  /\ \E j \in Job : job[j].status = "unused"
  /\ process' = [process EXCEPT ![p] = [@ EXCEPT !.step = "admitted", !.target = w]]
  /\ UNCHANGED <<now, state, bound, job, entitled, paused>>

\* Mutant: a workspace that is ready is started again.
AnyWorkspace(w) == Exists(w)

\* A ready workspace is returned as it is, a deleted one throws.
Startable(w) == Exists(w) /\ state[w] # "ready"

\* ensureWorkspaceRunning reads the row again, in a transaction of its own.
Resolve(p) ==
  LET w == process[p].target IN
  /\ At(p, "admitted")
  /\ IF Startable(w) THEN Goto(p, "resolved") ELSE Return(p)
  /\ UNCHANGED <<now, state, bound, job, entitled, paused>>

\* The second transaction: find or insert the active job, mark the workspace.
Enqueue(p) ==
  LET w == process[p].target IN
  /\ At(p, "resolved")
  /\ Exists(w)
  /\ IF ActiveJobs(w) = {}
       THEN \E j \in Job : /\ job[j].status = "unused"
                           /\ job' = [job EXCEPT ![j] = QueuedRow(w)]
       ELSE UNCHANGED job
  /\ state' = [state EXCEPT ![w] = IF @ = "ready" THEN @ ELSE "provisioning"]
  /\ Return(p)
  /\ UNCHANGED <<now, bound, entitled, paused>>

\* The workspace row disappeared: the foreign key rejects the insert.
EnqueueFails(p) ==
  /\ At(p, "resolved")
  /\ ~Exists(process[p].target)
  /\ Return(p)
  /\ UNCHANGED <<now, state, bound, job, entitled, paused>>

---------------------------------------------------------------------------
(* The processor *)

\* Mutant: a job whose lease expired is never taken over.
QueuedOnly == {j \in Job : job[j].status = "queued" /\ job[j].availableAt <= now}

Claimable ==
  {j \in Job : \/ job[j].status = "queued"  /\ job[j].availableAt <= now
               \/ job[j].status = "running" /\ job[j].expiresAt <= now}

\* ORDER BY queued before running, available_at, created_at.
Precedes(i, j) ==
  LET class(k) == IF job[k].status = "queued" THEN 0 ELSE 1 IN
  \/ class(i) < class(j)
  \/ /\ class(i) = class(j)
     /\ \/ job[i].availableAt < job[j].availableAt
        \/ /\ job[i].availableAt = job[j].availableAt
           /\ job[i].createdAt < job[j].createdAt

NextClaim == {j \in Claimable : \A i \in Claimable : ~Precedes(i, j)}

\* The poll timer fires and canProcess() lets the processor go on.
Poll(p) ==
  /\ Free(p)
  /\ process[p].job = None
  /\ "workspace_start" \notin paused
  /\ Goto(p, "polled")
  /\ UNCHANGED <<now, state, bound, job, entitled, paused>>

ClaimNothing(p) ==
  /\ At(p, "polled")
  /\ Claimable = {}
  /\ Goto(p, "idle")
  /\ UNCHANGED <<now, state, bound, job, entitled, paused>>

\* Mutant: the claim and the processor both count the attempt.
DoubleCountedRow(p, j) ==
  [job[j] EXCEPT !.status = "running", !.attempt = @ + 2, !.owner = p,
                 !.expiresAt = now + LeaseDuration,
                 !.reclaims = IF job[j].status = "running" THEN @ + 1 ELSE @]

\* The row that a claim by p leaves.
ClaimedRow(p, j) ==
  [job[j] EXCEPT !.status = "running",
                 !.attempt = @ + 1,
                 !.owner = p,
                 !.expiresAt = now + LeaseDuration,
                 !.reclaims = IF job[j].status = "running" THEN @ + 1 ELSE @]

Claim(p) ==
  /\ At(p, "polled")
  /\ \E j \in NextClaim :
       /\ job[j].attempt < AttemptBound
       /\ job' = [job EXCEPT ![j] = ClaimedRow(p, j)]
       /\ process' = [process EXCEPT ![p] =
                        [@ EXCEPT !.step = "claimed", !.job = j,
                                  !.attempt = job[j].attempt + 1]]
  /\ UNCHANGED <<now, state, bound, entitled, paused>>

\* authorizeWorkspace: the workspace still exists and its member is entitled.
Authorized(p) ==
  \E w \in entitled : Exists(w) /\ job[process[p].job].workspace = w

\* The request to the worker is sent and processNext awaits the answer.
Send(p) ==
  /\ At(p, "claimed")
  /\ Authorized(p)
  /\ Goto(p, "idle")
  /\ UNCHANGED <<now, state, bound, job, entitled, paused>>

Answered(p) == Free(p) /\ process[p].job # None

\* Mutant: the answer of any processor to a running job is accepted.
AnyProcessor(p) == job[process[p].job].status = "running"

\* finishProvisioningJob accepts only the owner of the running job.
Holds(p) ==
  /\ job[process[p].job].status = "running"
  /\ job[process[p].job].owner = p

\* Mutant: a retryable failure closes the job but not the workspace.
ClosedRow(j, status, availableAt) ==
  [job[j] EXCEPT !.status = IF status = "queued" THEN "failed" ELSE status,
                 !.availableAt = availableAt, !.owner = None, !.expiresAt = 0]

\* The lease columns are cleared whatever the outcome.
FinishedRow(j, status, availableAt) ==
  [job[j] EXCEPT !.status = status, !.availableAt = availableAt,
                 !.owner = None, !.expiresAt = 0]

\* The worker reports the workspace ready: one transaction closes the job,
\* stores worker_workspace_id and marks the workspace ready.
Succeed(p) ==
  LET j == process[p].job IN
  /\ Answered(p)
  /\ Holds(p)
  /\ job' = [job EXCEPT ![j] = FinishedRow(j, "succeeded", now)]
  /\ state' = [state EXCEPT ![job[j].workspace] = "ready"]
  /\ bound' = [bound EXCEPT ![job[j].workspace] = TRUE]
  /\ Release(p)
  /\ UNCHANGED <<now, entitled, paused>>

\* Mutant: off by one.
OneMoreAttempt(p) == process[p].attempt <= MaximumAttempts

AttemptsLeft(p) == process[p].attempt < MaximumAttempts

\* A retryable failure below the attempt limit puts the job back in the queue.
Requeue(p) ==
  LET j == process[p].job IN
  /\ Answered(p)
  /\ Holds(p)
  /\ AttemptsLeft(p)
  /\ job' = [job EXCEPT ![j] =
               FinishedRow(j, "queued", now + RetryDelay[process[p].attempt])]
  /\ Release(p)
  /\ UNCHANGED <<now, state, bound, entitled, paused>>

\* Any other failure ends the job and the workspace: the worker's answer is
\* not retryable, the attempts are used up, or the entitlement is gone.
Fail(p) ==
  LET j == process[p].job IN
  /\ Answered(p) \/ (At(p, "claimed") /\ ~Authorized(p))
  /\ Holds(p)
  /\ job' = [job EXCEPT ![j] = FinishedRow(j, "failed", now)]
  /\ state' = [state EXCEPT ![job[j].workspace] = "failed"]
  /\ Release(p)
  /\ UNCHANGED <<now, bound, entitled, paused>>

\* ProvisioningJobLeaseLostError: whatever the worker answered is dropped.
LoseLease(p) ==
  /\ Answered(p) \/ (At(p, "claimed") /\ ~Authorized(p))
  /\ ~Holds(p)
  /\ Release(p)
  /\ UNCHANGED <<now, state, bound, job, entitled, paused>>

---------------------------------------------------------------------------
(* Process starts and ends, administration, members, time *)

\* Every start draws a fresh processorId: it is another member of Process.
Start(p) ==
  /\ At(p, "new")
  /\ Overlap \/ \A q \in Process : ~Live(q)
  /\ Goto(p, "idle")
  /\ UNCHANGED <<now, state, bound, job, entitled, paused>>

\* A crash, or stop(): the aborted call to the worker leaves the job running.
\* Bound: the last process start stays up.
Stop(p) ==
  /\ Live(p)
  /\ \E q \in Process : At(q, "new")
  /\ process' = [process EXCEPT ![p] = AtRest("gone")]
  /\ UNCHANGED <<now, state, bound, job, entitled, paused>>

\* setPlatformControl, called by the operations API of process p.
SetControl(p, c) ==
  /\ Free(p)
  /\ \/ paused' = paused \cup {c}
     \/ paused' = paused \ {c}
  /\ UNCHANGED <<now, state, bound, job, process, entitled>>

\* Billing, an administrator or the end of a period changes the entitlement.
ChangeEntitlement(w) ==
  /\ \/ entitled' = entitled \cup {w}
     \/ entitled' = entitled \ {w}
  /\ UNCHANGED <<now, state, bound, job, process, paused>>

\* Removing the member cascades to the workspace and to its jobs.
RemoveMember(w) ==
  /\ Exists(w)
  /\ state' = [state EXCEPT ![w] = "deleted"]
  /\ bound' = [bound EXCEPT ![w] = FALSE]
  /\ job' = [j \in Job |-> IF job[j].workspace = w THEN NoRow("deleted") ELSE job[j]]
  /\ UNCHANGED <<now, process, entitled, paused>>

\* Time passes while it can still make a job claimable.
Tick ==
  /\ \E j \in Job : \/ job[j].status = "queued"  /\ job[j].availableAt > now
                    \/ job[j].status = "running" /\ job[j].expiresAt > now
  /\ now' = now + 1
  /\ UNCHANGED <<state, bound, job, process, entitled, paused>>

---------------------------------------------------------------------------

Finish(p) == Succeed(p) \/ Requeue(p) \/ Fail(p) \/ LoseLease(p)

Next ==
  \/ \E p \in Process :
       \/ \E w \in Workspace : CreateWorkspace(p, w) \/ Admit(p, w)
       \/ Resolve(p) \/ Enqueue(p) \/ EnqueueFails(p)
       \/ Poll(p) \/ ClaimNothing(p) \/ Claim(p) \/ Send(p)
       \/ Succeed(p) \/ Requeue(p) \/ Fail(p) \/ LoseLease(p)
       \/ Start(p) \/ Stop(p)
       \/ \E c \in Control : SetControl(p, c)
  \/ \E w \in Workspace : ChangeEntitlement(w) \/ RemoveMember(w)
  \/ Tick

Spec == Init /\ [][Next]_vars

\* A synchronous stretch runs to its end, the poll timer is rescheduled after
\* every run of processNext, the service manager restarts the process, the
\* worker answers every call, and time passes.  Poll gets strong fairness: a
\* request handler occupies the event loop only for a moment.
Fairness ==
  /\ \A p \in Process :
       /\ WF_vars(Start(p))
       /\ WF_vars(Resolve(p) \/ Enqueue(p) \/ EnqueueFails(p))
       /\ WF_vars(ClaimNothing(p) \/ Claim(p) \/ Send(p))
       /\ SF_vars(Poll(p))
       /\ SF_vars(Finish(p))
  /\ WF_vars(Tick)

FairSpec == Spec /\ Fairness

---------------------------------------------------------------------------
(* Properties *)

\* Every variable keeps its type: the rows hold only values that the schema's
\* CHECK constraints and the code's writes allow.
TypeOK ==
  /\ now \in Nat
  /\ state \in [Workspace -> WorkspaceState]
  /\ bound \in [Workspace -> BOOLEAN]
  /\ job \in [Job -> JobRow]
  /\ process \in [Process -> ProcessState]
  /\ entitled \subseteq Workspace
  /\ paused \subseteq Control

\* A workspace has at most one queued or running job, however many requests,
\* processes and retries meet (ensureWorkspaceRunning's lookup and the partial
\* unique index provisioning_job_active_workspace_operation_idx).
OneActiveJob ==
  \A i, j \in Job :
    Active(i) /\ Active(j) /\ job[i].workspace = job[j].workspace => i = j

\* A workspace shown as provisioning always has a job that will settle it, an
\* active job always belongs to a workspace that is provisioning or (in a race
\* of two processes) ready, and a ready workspace has its worker id.
StateMatchesJob ==
  /\ \A w \in Workspace : state[w] = "provisioning" => ActiveJobs(w) # {}
  /\ \A w \in Workspace : state[w] = "ready" => bound[w]
  /\ \A j \in Job :
       Active(j) => /\ job[j].workspace \in Workspace
                    /\ state[job[j].workspace] \in {"provisioning", "ready"}

\* A processor that still owns the job it works on is working on its current
\* attempt: a claim by another processor always revokes the ownership of the
\* previous one, so an answer to an earlier attempt is never accepted
\* (finishProvisioningJob's check of status and lease_owner).
LeaseFencing ==
  \A p \in Process :
    process[p].job # None /\ Holds(p) =>
      job[process[p].job].attempt = process[p].attempt

\* maximumAttempts bounds the attempts that were answered: a job exceeds it
\* only by the claims that took over an expired lease, which no failure counted.
AttemptBudget ==
  \A j \in Job : job[j].attempt <= MaximumAttempts + job[j].reclaims

\* A ready workspace has no job that is still queued or running.
ReadyHasNoActiveJob ==
  \A w \in Workspace : state[w] = "ready" => ActiveJobs(w) = {}

\* A workspace that became ready leaves that state only with its member: no
\* late failure of an old job can turn it to failed.
ReadyStaysReady ==
  [][\A w \in Workspace :
       state[w] = "ready" => state'[w] \in {"ready", "deleted"}]_vars

\* The queue implements its contract: a job is an open request while it is
\* queued or running, and leases, attempts, retries, crashes and reclaims are
\* steps that nobody sees (ensureWorkspaceRunning, claimProvisioningJob and
\* finishProvisioningJob taken together).
Contract == INSTANCE WorkspaceContract WITH
  Request <- Job,
  request <- [j \in Job |->
                [status    |-> IF Active(j) THEN "open" ELSE job[j].status,
                 workspace |-> job[j].workspace]]

ImplementsContract == Contract!Spec

\* Once workspace_start stays resumed, every active job is settled, whatever
\* crashes, lost leases and retryable failures it meets on the way.
JobsSettle ==
  <>[]("workspace_start" \notin paused) =>
    \A j \in Job : Active(j) ~> ~Active(j)

===========================================================================
