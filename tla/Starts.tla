------------------------------- MODULE Starts -------------------------------
(***************************************************************************)
(* The requests of the members of one organization that open, start and    *)
(* restart workspaces, under the platform controls and the entitlements    *)
(* that administrators change meanwhile.                                   *)
(*                                                                         *)
(* Jobs and leases are Provisioning's, the members' rows Organization's:   *)
(* here a workspace has a state that its job moves on, and a member is     *)
(* enabled, disabled or gone.                                              *)
(***************************************************************************)
EXTENDS Naturals, FiniteSets

CONSTANTS
  Person,         \* users who are, or may become, members
  Admins,         \* those of them who administer the organization
  Opener,         \* those who open workspaces of their own
  Start           \* requests

ASSUME PersonAssumption == Admins \subseteq Person /\ Opener \subseteq Person

VARIABLES
  member,       \* member and organization_member_state
  workspace,    \* the state of the workspace of each opener, "none" without one
  entitled,     \* openers with an active operator entitlement
  required,     \* NEBULA_ENTITLEMENTS_REQUIRED
  paused,       \* platform_control: the controls that are paused
  start         \* the requests and their answers

startVars == <<member, workspace, entitled, required, paused, start>>

Controls == {"provisioning", "workspace_start"}

States == {"none", "pending", "provisioning", "ready", "error"}

---------------------------------------------------------------------------
(* What a request is decided by *)

\* workspaceHasOperatorEntitlement, of the owner of the workspace.
Covered(o) == required => o \in entitled /\ member[o] = "enabled"

\* resolveWorkspaceAccess: one's own workspace, or as an administrator.
Reaches(u, o) ==
  /\ workspace[o] # "none" /\ member[u] # "gone"
  /\ u = o \/ u \in Admins

\* A worker is assigned with the first success, after which a workspace is ready.
Assigned(o) == workspace[o] = "ready"

---------------------------------------------------------------------------
(* Requests *)

OwnOps == {"open", "run", "usage"}
WorkerOps == {"restart", "inspect"}

NoStart == [stage |-> "idle"]

Wanted == [op : OwnOps, user : Opener, of : Opener] \cup [op : WorkerOps, user : Person, of : Opener]

\* "failed": the event was refused. "unconfirmed": the worker did not confirm.
Answers == {"ok", "refused", "failed", "unconfirmed"}

StartRecord ==
  {NoStart} \cup [stage : {"session", "body", "worker"}, wanted : Wanted]
  \cup [stage : {"done"}, answer : Answers, effect : BOOLEAN, event : BOOLEAN]

ArriveStart(s) ==
  /\ start[s].stage \in {"idle", "done"}
  /\ \E w \in Wanted :
       /\ w.op \in OwnOps => w.user = w.of
       /\ start' = [start EXCEPT ![s] = [stage |-> "session", wanted |-> w]]
  /\ UNCHANGED <<member, workspace, entitled, required, paused>>

\* effect: a job was queued or a restart done.  event: the audit table says so.
Ended(s, answer, effect, event) ==
  start' = [start EXCEPT ![s] =
    [stage |-> "done", answer |-> answer, effect |-> effect, event |-> event]]

\* Only open and run name the organization in their body; the others need it to
\* be active in the session, which it is for an enabled member.
ResolveStart(s) ==
  /\ start[s].stage = "session"
  /\ LET w == start[s].wanted
     IN \/ /\ w.op \in {"open", "run"} \/ member[w.user] = "enabled"
           /\ start' = [start EXCEPT ![s].stage = "body"]
        \/ /\ w.op \notin {"open", "run"} /\ member[w.user] # "enabled"
           /\ Ended(s, "refused", FALSE, FALSE)
  /\ UNCHANGED <<member, workspace, entitled, required, paused>>

HasBody(s, op) == start[s].stage = "body" /\ start[s].wanted.op = op

---------------------------------------------------------------------------
(* Opening and starting one's own workspace *)

\* ensurePersonalWorkspace, which throws without a membership.
Opened(o) ==
  [workspace EXCEPT ![o] = IF @ = "none" /\ member[o] # "gone" THEN "pending" ELSE @]

\* The handlers of open and run do not go on to it in a pause.
OpenedUnlessPaused(o) == IF "provisioning" \in paused THEN workspace ELSE Opened(o)

OpenWorkspace(s) ==
  /\ HasBody(s, "open")
  /\ LET o == start[s].wanted.of
     IN /\ workspace' = OpenedUnlessPaused(o)
        /\ Ended(s, IF workspace'[o] = "none" THEN "refused" ELSE "ok", FALSE, FALSE)
  /\ UNCHANGED <<member, entitled, required, paused>>

\* The dashboard resolves the workspace whose usage it reconciles, and answers
\* whatever becomes of that.
OpenDashboards(s) ==
  /\ HasBody(s, "usage")
  /\ workspace' = Opened(start[s].wanted.of)
  /\ Ended(s, "ok", FALSE, FALSE)
  /\ UNCHANGED <<member, entitled, required, paused>>

\* The workspace is resolved first, whether or not it may be started then.
MayRun(o) ==
  /\ OpenedUnlessPaused(o)[o] # "none"
  /\ Covered(o)
  /\ workspace[o] # "ready" => "workspace_start" \notin paused

RefuseRun(s) ==
  /\ HasBody(s, "run")
  /\ ~MayRun(start[s].wanted.of)
  /\ workspace' = OpenedUnlessPaused(start[s].wanted.of)
  /\ Ended(s, "refused", FALSE, FALSE)
  /\ UNCHANGED <<member, entitled, required, paused>>

\* The job is queued, or found, before the event of the request is recorded.
Queue(s) ==
  /\ HasBody(s, "run")
  /\ MayRun(start[s].wanted.of)
  /\ workspace' = [workspace EXCEPT ![start[s].wanted.of] =
                     IF @ = "ready" THEN @ ELSE "provisioning"]
  /\ UNCHANGED <<member, entitled, required, paused>>

\* Mutant: a refused event is swallowed.
StartRecordedAnyway(s, effect) ==
  Ended(s, "ok", effect, member[start[s].wanted.user] = "enabled")

\* The event is refused for an actor who is no enabled member any more: the
\* request fails and its effect stays.
StartRecorded(s, effect) ==
  LET accepted == member[start[s].wanted.user] = "enabled"
  IN Ended(s, IF accepted THEN "ok" ELSE "failed", effect, accepted)

EnsureRunning(s) == Queue(s) /\ StartRecorded(s, workspace' # workspace)

---------------------------------------------------------------------------
(* Requests that wait for the worker *)

MayAsk(w) == Reaches(w.user, w.of) /\ Covered(w.of) /\ Assigned(w.of)

AskWorker(s, may) ==
  /\ \/ ~may /\ Ended(s, "refused", FALSE, FALSE)
     \/ may /\ start' = [start EXCEPT ![s].stage = "worker"]
  /\ UNCHANGED <<member, workspace, entitled, required, paused>>

RestartWorkspace(s) ==
  /\ HasBody(s, "restart")
  /\ AskWorker(s, "workspace_start" \notin paused /\ MayAsk(start[s].wanted))

GetOperatorRuntime(s) == HasBody(s, "inspect") /\ AskWorker(s, MayAsk(start[s].wanted))

\* The answer may come long after the request was let through. One that is lost,
\* late or not "ready" makes the call throw, whether or not the worker restarted.
WorkerAnswers(s) ==
  /\ start[s].stage = "worker"
  /\ \/ \E effect \in BOOLEAN : /\ effect => start[s].wanted.op = "restart"
                               /\ Ended(s, "unconfirmed", effect, FALSE)
     \/ start[s].wanted.op = "restart" /\ StartRecorded(s, TRUE)
     \/ start[s].wanted.op = "inspect" /\ Ended(s, "ok", FALSE, FALSE)
  /\ UNCHANGED <<member, workspace, entitled, required, paused>>

---------------------------------------------------------------------------
(* What changes meanwhile *)

\* The control and its event are written in one transaction.
PausedWith(c, to) == IF to THEN paused \cup {c} ELSE paused \ {c}

SetPaused(c) ==
  /\ \E to \in BOOLEAN : paused' = PausedWith(c, to)
  /\ UNCHANGED <<member, workspace, entitled, required, start>>

\* An administrator of the platform grants an entitlement to a member, or
\* revokes it; Billing does so too.
Granted(o) == IF member[o] # "gone" THEN entitled \cup {o} ELSE entitled
Revoked(o) == entitled \ {o}

ChangeCover(o) ==
  /\ entitled' \in {Granted(o), Revoked(o)}
  /\ UNCHANGED <<member, workspace, required, paused, start>>

\* Organization's business.  The workspace and the entitlement go with the row.
ChangeMember(u) ==
  /\ \E to \in {"enabled", "disabled", "gone"} \ {member[u]} :
       /\ member' = [member EXCEPT ![u] = to]
       /\ workspace' = IF to = "gone" /\ u \in Opener THEN [workspace EXCEPT ![u] = "none"]
                                                      ELSE workspace
       /\ entitled' = IF to = "gone" THEN entitled \ {u} ELSE entitled
  /\ UNCHANGED <<required, paused, start>>

\* Provisioning's business.
FinishJob(o) ==
  /\ workspace[o] = "provisioning"
  /\ \E to \in {"ready", "error"} : workspace' = [workspace EXCEPT ![o] = to]
  /\ UNCHANGED <<member, entitled, required, paused, start>>

\* The process dies, perhaps between a job and its event.
StartsDie ==
  /\ \/ \E s \in Start : Queue(s)
     \/ UNCHANGED <<member, workspace, entitled, required, paused>>
  /\ start' = [s \in Start |-> NoStart]

---------------------------------------------------------------------------
StartsInit ==
  /\ member = [u \in Person |-> "enabled"]
  /\ workspace = [o \in Opener |-> "none"]
  /\ entitled = {}
  /\ required \in BOOLEAN
  /\ paused = {}
  /\ start = [s \in Start |-> NoStart]

StartsNext ==
  \/ \E s \in Start :
       ArriveStart(s) \/ ResolveStart(s) \/ OpenWorkspace(s) \/ OpenDashboards(s)
       \/ RefuseRun(s) \/ EnsureRunning(s)
       \/ RestartWorkspace(s) \/ GetOperatorRuntime(s) \/ WorkerAnswers(s)
  \/ \E c \in Controls : SetPaused(c)
  \/ \E o \in Opener : ChangeCover(o) \/ FinishJob(o)
  \/ \E u \in Person : ChangeMember(u)
  \/ StartsDie

---------------------------------------------------------------------------
(* Properties *)

StartsTypeOK ==
  /\ member \in [Person -> {"enabled", "disabled", "gone"}]
  /\ workspace \in [Opener -> States]
  /\ entitled \subseteq {o \in Opener : member[o] # "gone"}
  /\ required \in BOOLEAN
  /\ paused \subseteq Controls
  /\ \A s \in Start : start[s] \in StartRecord

\* A start is in the audit table exactly when success is reported, and a restart
\* there was done; one that took effect and is not there was made by someone who
\* was no enabled member when it was done, or is a restart that the worker did
\* and did not confirm: restartWorkspace, ensurePersonalWorkspaceRunning.
StartsAudited ==
  [][\A s \in Start :
       LET was == start[s]  is == start'[s]
       IN was.stage \in {"body", "worker"} /\ was.wanted.op \in {"run", "restart"}
            /\ is.stage = "done" =>
          /\ is.event = (is.answer = "ok")
          /\ is.event /\ was.wanted.op = "restart" => is.effect
          /\ is.effect /\ ~is.event =>
               \/ member[was.wanted.user] # "enabled"
               \/ was.wanted.op = "restart" /\ is.answer = "unconfirmed"]_startVars

\* "provisioning rejects creation of new personal workspace assignments"
\* (docs/worker-connection.md:125).
NothingNewWhilePaused ==
  [][\A o \in Opener :
       workspace[o] = "none" /\ workspace'[o] # "none" => "provisioning" \notin paused]_startVars
=============================================================================
