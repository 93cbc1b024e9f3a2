---------------------------- MODULE Organization ----------------------------
(***************************************************************************)
(* The members, the access code and the plan of one organization, and the  *)
(* requests that change them.                                              *)
(*                                                                         *)
(* A request resolves its session and then waits for its body. What it     *)
(* changes afterwards it changes in one synchronous stretch of the event   *)
(* loop, in which the change is committed before its audit event is: the   *)
(* process may die between the two.                                        *)
(*                                                                         *)
(* Rows of organizations, members and invitations belong to better-auth,   *)
(* which the web application also calls to create and to invite.           *)
(***************************************************************************)
EXTENDS Naturals, FiniteSets

CONSTANTS
  User,
  InitRole,    \* the roles of the members at the start
  Invited,     \* users with an invitation, who may also be removed
  Request,
  MaxCodes     \* bound: access codes that are ever issued

ASSUME RoleAssumption ==
  /\ InitRole \in [User -> {"owner", "admin", "member", "none"}]
  /\ \E u \in User : InitRole[u] = "owner"
  /\ \A u \in Invited : u \in User /\ InitRole[u] # "owner"
ASSUME CodeAssumption == MaxCodes \in Nat \ {0}

VARIABLES
  role,       \* member: the role of each user, "none" without a row
  disabled,   \* organization_member_state: the members that are disabled
  code,       \* organization_join_code: the current code, counted from 1
  plan,       \* plan_account: the type of the account, "none" without a row
  request     \* the requests, and the answer of each that is done

organizationVars == <<role, disabled, code, plan, request>>

---------------------------------------------------------------------------
(* Members *)

Members == {u \in User : role[u] # "none"}

Enabled(u) == u \in Members \ disabled

\* Roles that may administer.
Administers(u) == role[u] \in {"owner", "admin"}

\* Mutant: the session answers for the membership.
AdministratorInSession(u) == Administers(u)

\* requireOrganizationAdmin, for everything that reads or changes a setting.
Administrator(u) == Enabled(u) /\ Administers(u)

\* Mutant: owners are not protected.
AnyOther(u, t) == t \in Members /\ t # u

\* Whom an administrator may disable, or enable again.
MayDisable(u, t) == t \in Members /\ role[t] # "owner" /\ t # u

---------------------------------------------------------------------------
(* Requests *)

MemberOps == {"disable", "enable"}
SettingOps == {"rotate", "rename", "show"}
AuditedOps == MemberOps \cup {"rotate", "rename", "join"}

Idle == [stage |-> "idle"]

\* What the client asks for: the member, the code or the plan it names.
Asked ==
  [op : MemberOps, user : User, about : User]
  \cup [op : SettingOps, user : User, about : {"organization"}]
  \cup [op : {"join"}, user : User, about : 1..MaxCodes]
  \cup [op : {"plan"}, user : User, about : {"individual", "organization"}]

Waiting == [stage : {"session", "body"}, asked : Asked]

Answered ==
  [stage : {"done"}, answer : {"ok", "denied", "invalid", "failed"},
   changed : BOOLEAN, audited : BOOLEAN]

\* Codes are guessed by nobody: a request names one that was issued.
Arrive(r) ==
  /\ request[r].stage \in {"idle", "done"}
  /\ \E a \in Asked :
       /\ a.op = "join" => a.about <= code
       /\ request' = [request EXCEPT ![r] = [stage |-> "session", asked |-> a]]
  /\ UNCHANGED <<role, disabled, code, plan>>

Done(r, answer, changed, audited) ==
  request' = [request EXCEPT ![r] =
    [stage |-> "done", answer |-> answer, changed |-> changed, audited |-> audited]]

\* The session names the organization as active while the member is enabled.
\* Joining and the choice of a plan need no active organization.
Active(a) == a.op \in {"join", "plan"} \/ Enabled(a.user)

ResolveSession(r) ==
  /\ request[r].stage = "session"
  /\ \/ /\ Active(request[r].asked)
        /\ request' = [request EXCEPT ![r].stage = "body"]
     \/ ~Active(request[r].asked) /\ Done(r, "denied", FALSE, FALSE)
  /\ UNCHANGED <<role, disabled, code, plan>>

Ready(r, ops) == request[r].stage = "body" /\ request[r].asked.op \in ops

\* A body that is not JSON, or lacks a field, ends the request.
RefuseBody(r) ==
  /\ Ready(r, MemberOps \cup {"rename", "join", "plan"})
  /\ Done(r, "invalid", FALSE, FALSE)
  /\ UNCHANGED <<role, disabled, code, plan>>

---------------------------------------------------------------------------
(* What a request writes before its event is recorded *)

SetMemberDisabled(r) ==
  LET a == request[r].asked
  IN /\ Ready(r, MemberOps) /\ Administrator(a.user) /\ MayDisable(a.user, a.about)
     /\ disabled' = IF a.op = "disable" THEN disabled \cup {a.about} ELSE disabled \ {a.about}
     /\ UNCHANGED <<role, code>>

\* A new code takes the place of the old one.  Bound: MaxCodes.
RotateJoinCode(r) ==
  /\ Ready(r, {"rotate"}) /\ Administrator(request[r].asked.user)
  /\ code < MaxCodes
  /\ code' = code + 1
  /\ UNCHANGED <<role, disabled>>

\* The name is not kept here.
UpdateName(r) ==
  /\ Ready(r, {"rename"}) /\ Administrator(request[r].asked.user)
  /\ UNCHANGED <<role, disabled, code>>

\* A member who joins again keeps the row there is, with its role and state.
Joined(u) == IF u \in Members THEN role ELSE [role EXCEPT ![u] = "member"]

\* Only the current code is found.
JoinByCode(r) ==
  /\ Ready(r, {"join"}) /\ request[r].asked.about = code
  /\ role' = Joined(request[r].asked.user)
  /\ UNCHANGED <<disabled, code>>

Change(r) == SetMemberDisabled(r) \/ RotateJoinCode(r) \/ UpdateName(r) \/ JoinByCode(r)

Changed(r) ==
  role' # role \/ disabled' # disabled \/ code' # code \/ request[r].asked.op = "rename"

\* Mutant: a request succeeds whatever becomes of its event.
AnswerAnyway(r) == Done(r, "ok", Changed(r), role'[request[r].asked.user] # "none"
                                             /\ request[r].asked.user \notin disabled')

\* recordAuditEvent refuses an actor who is not an enabled member by then, and
\* the request fails although what it wrote stays.
RecordEvent(r) ==
  LET u == request[r].asked.user
      accepted == role'[u] # "none" /\ u \notin disabled'
  IN Done(r, IF accepted THEN "ok" ELSE "failed", Changed(r), accepted)

\* The change and its event, in one stretch.
Apply(r) == Change(r) /\ RecordEvent(r) /\ UNCHANGED plan

Refused(a) ==
  CASE a.op = "join" -> a.about # code
    [] a.op \in MemberOps -> ~Administrator(a.user) \/ ~MayDisable(a.user, a.about)
    [] OTHER -> ~Administrator(a.user)

Refuse(r) ==
  /\ Ready(r, AuditedOps \cup {"show"})
  /\ Refused(request[r].asked)
  /\ Done(r, "denied", FALSE, FALSE)
  /\ UNCHANGED <<role, disabled, code, plan>>

---------------------------------------------------------------------------
(* Requests without an event *)

\* The first choice of the owner stays; the same choice again returns it.  An
\* owner who has an individual account elsewhere gets no second one, nor does an
\* organization move from one of its plans to another.
MayChoose(a) == Enabled(a.user) /\ role[a.user] = "owner" /\ plan \in {"none", a.about}
MayNotChoose(a) == MayChoose(a) => (plan = "none") = (a.about = "individual")

CreatePlanAccount(r) ==
  /\ Ready(r, {"plan"})
  /\ LET a == request[r].asked
     IN \/ MayChoose(a) /\ plan' = a.about /\ Done(r, "ok", plan' # plan, FALSE)
        \/ MayNotChoose(a) /\ UNCHANGED plan /\ Done(r, "denied", FALSE, FALSE)
  /\ UNCHANGED <<role, disabled, code>>

\* The pages of an administrator: members, operators, dashboard, admin, audit.
Show(r) ==
  /\ Ready(r, {"show"}) /\ Administrator(request[r].asked.user)
  /\ Done(r, "ok", FALSE, FALSE)
  /\ UNCHANGED <<role, disabled, code, plan>>

---------------------------------------------------------------------------
(* The rest of the world *)

\* An invitation brings a role with it; a row that is there stays.
AcceptInvitation(u) ==
  /\ role[u] = "none"
  /\ \E as \in {"admin", "member"} : role' = [role EXCEPT ![u] = as]
  /\ UNCHANGED <<disabled, code, plan, request>>

\* Mutant: the state stays, for a member who may return.
StateKept(u) == disabled

\* organization_member_state goes with the row of the member.
StateWithout(u) == disabled \ {u}

RemoveMember(u) ==
  /\ u \in Members
  /\ role' = [role EXCEPT ![u] = "none"]
  /\ disabled' = StateWithout(u)
  /\ UNCHANGED <<code, plan, request>>

\* The process dies, perhaps between a change and its event; what was under way
\* is answered by nobody.
OrganizationDies ==
  /\ \/ UNCHANGED <<role, disabled, code>>
     \/ \E r \in Request : Change(r)
  /\ request' = [r \in Request |-> Idle]
  /\ UNCHANGED plan

---------------------------------------------------------------------------
OrganizationInit ==
  /\ role = InitRole
  /\ disabled = {}
  /\ code = 1
  /\ plan = "none"
  /\ request = [r \in Request |-> Idle]

OrganizationNext ==
  \/ \E r \in Request :
       Arrive(r) \/ ResolveSession(r) \/ RefuseBody(r) \/ Apply(r) \/ Refuse(r)
       \/ CreatePlanAccount(r) \/ Show(r)
  \/ \E u \in Invited : AcceptInvitation(u) \/ RemoveMember(u)
  \/ OrganizationDies

---------------------------------------------------------------------------
(* Properties *)

OrganizationTypeOK ==
  /\ role \in [User -> {"owner", "admin", "member", "none"}]
  /\ disabled \subseteq Members
  /\ code \in 1..MaxCodes
  /\ plan \in {"none", "individual", "organization"}
  /\ \A r \in Request : request[r] \in {Idle} \cup Waiting \cup Answered

\* No sequence of requests leaves the organization without an owner who can
\* administer it (owner_protected in setOrganizationMemberDisabled).
OwnerStays == \E u \in User : Enabled(u) /\ role[u] = "owner"

\* A request that reports success is in the audit table, an event is of a
\* request that succeeded, and nothing that was answered changed an
\* organization without one (recordAuditEvent after each change).
OrganizationAudited ==
  [][\A r \in Request : Ready(r, AuditedOps) /\ request'[r].stage = "done" =>
       /\ request'[r].audited = (request'[r].answer = "ok")
       /\ request'[r].changed => request'[r].audited]_organizationVars

\* Members are disabled, and codes rotated, by someone who is an enabled
\* administrator when it happens, whatever he was when his session was
\* resolved (requireOrganizationAdmin within each operation).
ChangesAreAuthorized ==
  [][/\ role' = role /\ disabled' # disabled =>
          \E r \in Request :
            /\ Ready(r, MemberOps) /\ Enabled(request[r].asked.user)
            /\ Administers(request[r].asked.user)
            /\ request[r].asked.user # request[r].asked.about
            /\ request[r].asked.about \in (disabled \ disabled') \cup (disabled' \ disabled)
     /\ code' # code =>
          \E r \in Request :
            /\ Ready(r, {"rotate"}) /\ Enabled(request[r].asked.user)
            /\ Administers(request[r].asked.user)
    ]_organizationVars
=============================================================================
