---------------------------- MODULE ServiceProofs ----------------------------
(***************************************************************************)
(* Proofs about the services behind the accounts, each for any users,      *)
(* requests, mailings and subjects: an organization, the starts of its     *)
(* workspaces, mail and the limiter of attempts to sign in.                *)
(***************************************************************************)
EXTENDS Organization, Starts, Mail, Attempts, FiniteSetTheorems, TLAPS

OrganizationSpec == OrganizationInit /\ [][OrganizationNext]_organizationVars

StartsSpec == StartsInit /\ [][StartsNext]_startVars

MailSpec == MailInit /\ [][MailNext]_mailVars

AttemptsSpec == AttemptsInit /\ [][AttemptsNext]_attemptVars

---------------------------------------------------------------------------
(* The organization *)

Requested == {Idle} \cup Waiting \cup Answered

\* Owners of the first hour stay owners and are never disabled: an owner is
\* protected from administrators, and is not among those who may be removed.
OrganizationInv ==
  /\ role \in [User -> {"owner", "admin", "member", "none"}]
  /\ disabled \subseteq Members
  /\ code \in 1..MaxCodes
  /\ plan \in {"none", "individual", "organization"}
  /\ request \in [Request -> Requested]
  /\ \A u \in User : InitRole[u] = "owner" => role[u] = "owner" /\ u \notin disabled

LEMMA OrganizationInvTypes == OrganizationInv => OrganizationTypeOK /\ OwnerStays
  BY RoleAssumption
  DEF OrganizationInv, OrganizationTypeOK, OwnerStays, Requested, Enabled, Members

\* A request at its session or body has asked for something.
LEMMA WaitingAsked ==
  ASSUME OrganizationInv, NEW r \in Request, request[r].stage \in {"session", "body"}
  PROVE  /\ request[r] \in Waiting
         /\ request[r].asked \in Asked
         /\ request[r].asked.user \in User
  BY DEF OrganizationInv, Requested, Idle, Waiting, Answered, Asked

\* What an answer leaves of a request.
LEMMA DoneEffect ==
  ASSUME OrganizationInv, NEW r \in Request,
         NEW answer \in {"ok", "denied", "invalid", "failed"},
         NEW changed \in BOOLEAN, NEW audited \in BOOLEAN,
         Done(r, answer, changed, audited)
  PROVE  /\ request' \in [Request -> Requested]
         /\ request'[r].stage = "done"
         /\ request'[r].answer = answer
         /\ request'[r].changed = changed
         /\ request'[r].audited = audited
         /\ \A q \in Request \ {r} : request'[q] = request[q]
<1> DEFINE new == [stage |-> "done", answer |-> answer, changed |-> changed,
                   audited |-> audited]
<1>1. request' = [request EXCEPT ![r] = new]
  BY DEF Done
<1>2. new \in Answered
  BY DEF Answered
<1>3. new \in Requested
  BY <1>2 DEF Requested
<1>4. QED
  BY <1>1, <1>3 DEF OrganizationInv

\* What a request writes, apart from its own row.
LEMMA ChangeEffect ==
  ASSUME OrganizationInv, NEW r \in Request, Change(r)
  PROVE  /\ role' \in [User -> {"owner", "admin", "member", "none"}]
         /\ disabled' \subseteq Members'
         /\ code' \in 1..MaxCodes
         /\ \A u \in User : InitRole[u] = "owner" => role'[u] = "owner" /\ u \notin disabled'
         /\ Ready(r, AuditedOps)
         /\ role' # role => request[r].asked.op = "join"
         /\ Changed(r) => /\ role'[request[r].asked.user] # "none"
                          /\ request[r].asked.user \notin disabled'
<1> USE DEF OrganizationInv
<1> DEFINE a == request[r].asked
<1>1. request[r].stage = "body" /\ a.op \in AuditedOps
  BY DEF Change, SetMemberDisabled, RotateJoinCode, UpdateName, JoinByCode, Ready,
         AuditedOps, MemberOps
<1>2. a \in Asked /\ a.user \in User
  BY <1>1, WaitingAsked
<1>3. CASE SetMemberDisabled(r)
  <2>1. /\ Administrator(a.user)
        /\ MayDisable(a.user, a.about)
        /\ disabled' = IF a.op = "disable" THEN disabled \cup {a.about}
                                           ELSE disabled \ {a.about}
        /\ UNCHANGED <<role, code>>
    BY <1>3 DEF SetMemberDisabled
  <2>2. QED
    BY <1>1, <1>2, <2>1
    DEF Administrator, Enabled, MayDisable, Members, Ready, Changed
<1>4. CASE RotateJoinCode(r)
  BY <1>1, <1>2, <1>4, CodeAssumption
  DEF RotateJoinCode, Administrator, Enabled, Members, Ready, Changed
<1>5. CASE UpdateName(r)
  BY <1>1, <1>2, <1>5 DEF UpdateName, Administrator, Enabled, Members, Ready, Changed
<1>6. CASE JoinByCode(r)
  <2>1. /\ a.op = "join"
        /\ role' = Joined(a.user)
        /\ UNCHANGED <<disabled, code>>
    BY <1>6 DEF JoinByCode, Ready
  <2>2. CASE a.user \in Members
    BY <1>1, <2>1, <2>2 DEF Joined, Members, Ready, Changed
  <2>3. CASE a.user \notin Members
    BY <1>1, <1>2, <2>1, <2>3 DEF Joined, Members, Ready, Changed
  <2>4. QED
    BY <2>2, <2>3
<1>7. QED
  BY <1>3, <1>4, <1>5, <1>6 DEF Change

LEMMA ApplyStep ==
  ASSUME OrganizationInv, NEW r \in Request, Apply(r)
  PROVE  /\ OrganizationInv'
         /\ \A q \in Request \ {r} : request'[q] = request[q]
         /\ request'[r].audited = (request'[r].answer = "ok")
         /\ request'[r].changed => request'[r].audited
<1> DEFINE u == request[r].asked.user
           present == role'[u] # "none" /\ u \notin disabled'
<1>1. /\ Change(r)
      /\ Done(r, IF present THEN "ok" ELSE "failed", Changed(r), present)
      /\ UNCHANGED plan
  BY DEF Apply, RecordEvent
<1>2. Changed(r) \in BOOLEAN /\ present \in BOOLEAN
  BY DEF Changed
<1>3. /\ request' \in [Request -> Requested]
      /\ request'[r].answer = IF present THEN "ok" ELSE "failed"
      /\ request'[r].changed = Changed(r)
      /\ request'[r].audited = present
      /\ \A q \in Request \ {r} : request'[q] = request[q]
  <2> HIDE DEF present
  <2>1. (IF present THEN "ok" ELSE "failed") \in {"ok", "denied", "invalid", "failed"}
    OBVIOUS
  <2>2. QED
    BY <1>1, <1>2, <2>1, DoneEffect
<1>4. Changed(r) => present
  BY <1>1, ChangeEffect
<1>5. OrganizationInv'
  BY <1>1, <1>3, ChangeEffect DEF OrganizationInv
<1>6. QED
  <2> HIDE DEF present
  <2>1. QED
    BY <1>2, <1>3, <1>4, <1>5

\* Requests that end without a change of the organization.
LEMMA QuietStep ==
  ASSUME OrganizationInv, NEW r \in Request,
         RefuseBody(r) \/ Refuse(r) \/ Show(r) \/ CreatePlanAccount(r)
  PROVE  /\ OrganizationInv'
         /\ UNCHANGED <<role, disabled, code>>
         /\ \A q \in Request \ {r} : request'[q] = request[q]
         /\ Ready(r, AuditedOps) =>
              /\ request'[r].audited = (request'[r].answer = "ok")
              /\ ~request'[r].changed
<1>1. UNCHANGED <<role, disabled, code>>
  BY DEF RefuseBody, Refuse, Show, CreatePlanAccount
<1>2. CASE RefuseBody(r) \/ Refuse(r)
  <2>1. Done(r, "invalid", FALSE, FALSE) \/ Done(r, "denied", FALSE, FALSE)
    BY <1>2 DEF RefuseBody, Refuse
  <2>2. UNCHANGED plan
    BY <1>2 DEF RefuseBody, Refuse
  <2>3. QED
    BY <1>1, <2>1, <2>2, DoneEffect DEF OrganizationInv, Members
<1>3. CASE Show(r)
  <2>1. Done(r, "ok", FALSE, FALSE) /\ UNCHANGED plan /\ ~Ready(r, AuditedOps)
    BY <1>3 DEF Show, Ready, AuditedOps, MemberOps
  <2>2. QED
    BY <1>1, <2>1, DoneEffect DEF OrganizationInv, Members
<1>4. CASE CreatePlanAccount(r)
  <2>1. Ready(r, {"plan"}) /\ ~Ready(r, AuditedOps)
    BY <1>4 DEF CreatePlanAccount, Ready, AuditedOps, MemberOps
  <2>2. request[r].asked \in Asked
    BY <2>1, WaitingAsked DEF Ready
  <2>3. plan' \in {"none", "individual", "organization"}
    BY <1>4, <2>1, <2>2
    DEF CreatePlanAccount, Ready, Asked, SettingOps, MemberOps, OrganizationInv
  <2>4. Done(r, "ok", plan' # plan, FALSE) \/ Done(r, "denied", FALSE, FALSE)
    BY <1>4 DEF CreatePlanAccount
  <2>5. (plan' # plan) \in BOOLEAN
    OBVIOUS
  <2>6. QED
    BY <1>1, <2>1, <2>3, <2>4, <2>5, DoneEffect DEF OrganizationInv, Members
<1>5. QED
  BY <1>2, <1>3, <1>4

LEMMA UnderWayStep ==
  ASSUME OrganizationInv, NEW r \in Request, Arrive(r) \/ ResolveSession(r)
  PROVE  /\ OrganizationInv'
         /\ UNCHANGED <<role, disabled, code>>
         /\ \A q \in Request \ {r} : request'[q] = request[q]
         /\ ~Ready(r, AuditedOps)
<1>1. /\ UNCHANGED <<role, disabled, code, plan>>
      /\ request[r].stage # "body"
  BY DEF Arrive, ResolveSession
<1>2. CASE Arrive(r)
  <2>1. PICK a \in Asked : request' = [request EXCEPT ![r] = [stage |-> "session", asked |-> a]]
    BY <1>2 DEF Arrive
  <2>2. [stage |-> "session", asked |-> a] \in Requested
    BY DEF Waiting, Requested
  <2>3. QED
    BY <1>1, <2>1, <2>2 DEF OrganizationInv, Members, Ready
<1>3. CASE ResolveSession(r)
  <2>1. request[r] \in Waiting
    BY <1>3, WaitingAsked DEF ResolveSession
  <2>2. CASE request' = [request EXCEPT ![r].stage = "body"]
    <3>1. [request[r] EXCEPT !.stage = "body"] \in Requested
      BY <2>1 DEF Waiting, Requested
    <3>2. QED
      BY <1>1, <2>2, <3>1 DEF OrganizationInv, Members, Ready
  <2>3. CASE Done(r, "denied", FALSE, FALSE)
    BY <1>1, <2>3, DoneEffect DEF OrganizationInv, Members, Ready
  <2>4. QED
    BY <1>3, <2>2, <2>3 DEF ResolveSession
<1>4. QED
  BY <1>2, <1>3

\* The rest of the world: rows of better-auth, and the end of the process.
LEMMA MembershipStep ==
  ASSUME OrganizationInv, NEW u \in Invited, AcceptInvitation(u) \/ RemoveMember(u)
  PROVE  /\ OrganizationInv'
         /\ UNCHANGED <<code, request>>
         /\ role' # role
<1>1. u \in User /\ InitRole[u] # "owner"
  BY RoleAssumption
<1>2. CASE AcceptInvitation(u)
  <2>1. PICK as \in {"admin", "member"} : role' = [role EXCEPT ![u] = as]
    BY <1>2 DEF AcceptInvitation
  <2>2. role[u] = "none" /\ UNCHANGED <<disabled, code, plan, request>>
    BY <1>2 DEF AcceptInvitation
  <2>3. QED
    BY <1>1, <2>1, <2>2 DEF OrganizationInv, Members
<1>3. CASE RemoveMember(u)
  BY <1>1, <1>3 DEF RemoveMember, StateWithout, OrganizationInv, Members
<1>4. QED
  BY <1>2, <1>3

LEMMA DiesStep ==
  ASSUME OrganizationInv, OrganizationDies
  PROVE  OrganizationInv' /\ \A r \in Request : request'[r].stage = "idle"
<1>1. request' = [r \in Request |-> Idle] /\ UNCHANGED plan
  BY DEF OrganizationDies
<1>2. Idle \in Requested /\ Idle.stage = "idle"
  BY DEF Requested, Idle
<1>3. CASE UNCHANGED <<role, disabled, code>>
  BY <1>1, <1>2, <1>3 DEF OrganizationInv, Members
<1>4. ASSUME NEW r \in Request, Change(r)
      PROVE  OrganizationInv'
  BY <1>1, <1>2, <1>4, ChangeEffect DEF OrganizationInv
<1>5. QED
  BY <1>1, <1>2, <1>3, <1>4 DEF OrganizationDies

LEMMA OrganizationInitInv == OrganizationInit => OrganizationInv
<1>1. Idle \in Requested
  BY DEF Requested
<1>2. QED
  BY <1>1, RoleAssumption, CodeAssumption DEF OrganizationInit, OrganizationInv

LEMMA OrganizationNextInv ==
  OrganizationInv /\ [OrganizationNext]_organizationVars => OrganizationInv'
<1>1. CASE UNCHANGED organizationVars
  BY <1>1 DEF organizationVars, OrganizationInv, Members
<1>2. QED
  BY <1>1, ApplyStep, QuietStep, UnderWayStep, MembershipStep, DiesStep
  DEF OrganizationNext

LEMMA OrganizationInvariant == OrganizationSpec => []OrganizationInv
  BY OrganizationInitInv, OrganizationNextInv, PTL DEF OrganizationSpec

\* Roles, disabled members, codes, plans and requests keep their types; only a
\* member is ever disabled (organization_member_state goes with its row).
THEOREM OrganizationTypes == OrganizationSpec => []OrganizationTypeOK
  BY OrganizationInvariant, OrganizationInvTypes, PTL

\* However administrators act on one another, an owner who can administer stays.
THEOREM OwnerStaysHolds == OrganizationSpec => []OwnerStays
  BY OrganizationInvariant, OrganizationInvTypes, PTL

LEMMA AuditedStep ==
  ASSUME OrganizationInv, [OrganizationNext]_organizationVars,
         NEW r \in Request, Ready(r, AuditedOps), request'[r].stage = "done"
  PROVE  /\ request'[r].audited = (request'[r].answer = "ok")
         /\ request'[r].changed => request'[r].audited
<1>1. request[r].stage = "body" /\ request'[r] # request[r]
  BY DEF Ready
<1>2. ASSUME NEW q \in Request,
             Arrive(q) \/ ResolveSession(q) \/ RefuseBody(q) \/ Apply(q) \/ Refuse(q)
               \/ CreatePlanAccount(q) \/ Show(q)
      PROVE  /\ request'[r].audited = (request'[r].answer = "ok")
             /\ request'[r].changed => request'[r].audited
  <2>1. q = r
    BY <1>1, <1>2, ApplyStep, QuietStep, UnderWayStep
  <2>2. QED
    BY <1>2, <2>1, ApplyStep, QuietStep, UnderWayStep
<1>3. QED
  BY <1>1, <1>2, MembershipStep, DiesStep DEF OrganizationNext, organizationVars

\* What a request reports as done is in the audit table, and no answered request
\* changed the organization without an event (recordAuditEvent after each change).
THEOREM OrganizationAuditedHolds == OrganizationSpec => OrganizationAudited
<1>1. ASSUME OrganizationInv, [OrganizationNext]_organizationVars
      PROVE  \A r \in Request : Ready(r, AuditedOps) /\ request'[r].stage = "done" =>
               /\ request'[r].audited = (request'[r].answer = "ok")
               /\ request'[r].changed => request'[r].audited
  BY <1>1, AuditedStep
<1>2. QED
  BY <1>1, OrganizationInvariant, PTL DEF OrganizationSpec, OrganizationAudited

\* Who is disabled, and which code is current, is changed by administrators only.
Authorized ==
  /\ role' = role /\ disabled' # disabled =>
       \E r \in Request :
         /\ Ready(r, MemberOps) /\ Enabled(request[r].asked.user)
         /\ Administers(request[r].asked.user)
         /\ request[r].asked.user # request[r].asked.about
         /\ request[r].asked.about \in (disabled \ disabled') \cup (disabled' \ disabled)
  /\ code' # code =>
       \E r \in Request :
         /\ Ready(r, {"rotate"}) /\ Enabled(request[r].asked.user)
         /\ Administers(request[r].asked.user)

LEMMA ChangeAuthorized ==
  ASSUME NEW r \in Request, Change(r)
  PROVE  Authorized
<1>1. CASE SetMemberDisabled(r)
  BY <1>1 DEF SetMemberDisabled, Administrator, MayDisable, Authorized
<1>2. CASE RotateJoinCode(r)
  BY <1>2 DEF RotateJoinCode, Administrator, Authorized
<1>3. CASE UpdateName(r) \/ JoinByCode(r)
  BY <1>3 DEF UpdateName, JoinByCode, Authorized
<1>4. QED
  BY <1>1, <1>2, <1>3 DEF Change

\* Members are disabled and codes rotated by someone who administers the organization
\* when it happens, whatever he was when his session was resolved.
THEOREM ChangesAreAuthorizedHolds == OrganizationSpec => ChangesAreAuthorized
<1>1. ASSUME OrganizationInv, [OrganizationNext]_organizationVars
      PROVE  Authorized
  <2>1. CASE UNCHANGED <<role, disabled, code>>
    BY <2>1 DEF Authorized
  <2>2. ASSUME NEW r \in Request, Change(r)
        PROVE  Authorized
    BY <2>2, ChangeAuthorized
  <2>3. ASSUME NEW u \in Invited, AcceptInvitation(u) \/ RemoveMember(u)
        PROVE  Authorized
    BY <1>1, <2>3, MembershipStep DEF Authorized
  <2>4. QED
    BY <1>1, <2>1, <2>2, <2>3, QuietStep, UnderWayStep
    DEF OrganizationNext, Apply, OrganizationDies, organizationVars
<1>2. QED
  BY <1>1, OrganizationInvariant, PTL DEF OrganizationSpec, ChangesAreAuthorized, Authorized

---------------------------------------------------------------------------
(* Starts *)

\* Each request is of the people it names, and only a member is entitled.
StartsInv ==
  /\ member \in [Person -> {"enabled", "disabled", "gone"}]
  /\ workspace \in [Opener -> States]
  /\ entitled \subseteq {o \in Opener : member[o] # "gone"}
  /\ required \in BOOLEAN
  /\ paused \subseteq Controls
  /\ start \in [Start -> StartRecord]

LEMMA StartsInvTypes == StartsInv => StartsTypeOK
  BY DEF StartsInv, StartsTypeOK

\* A request that has not ended wants something of an opener.
LEMMA StartWanted ==
  ASSUME StartsInv, NEW s \in Start, start[s].stage \in {"session", "body", "worker"}
  PROVE  /\ start[s] \in [stage : {"session", "body", "worker"}, wanted : Wanted]
         /\ start[s].wanted.user \in Person
         /\ start[s].wanted.of \in Opener
  BY PersonAssumption DEF StartsInv, StartRecord, NoStart, Wanted

LEMMA EndedEffect ==
  ASSUME StartsInv, NEW s \in Start, NEW answer \in Answers,
         NEW effect \in BOOLEAN, NEW event \in BOOLEAN, Ended(s, answer, effect, event)
  PROVE  /\ start' \in [Start -> StartRecord]
         /\ start'[s].answer = answer
         /\ start'[s].effect = effect
         /\ start'[s].event = event
         /\ \A q \in Start \ {s} : start'[q] = start[q]
<1> DEFINE new == [stage |-> "done", answer |-> answer, effect |-> effect, event |-> event]
<1>1. start' = [start EXCEPT ![s] = new]
  BY DEF Ended
<1>2. new \in StartRecord
  BY DEF StartRecord
<1>3. QED
  BY <1>1, <1>2 DEF StartsInv

\* A request goes on to another stage.
LEMMA StageEffect ==
  ASSUME StartsInv, NEW s \in Start, start[s].stage \in {"session", "body"},
         NEW stage \in {"body", "worker"}, start' = [start EXCEPT ![s].stage = stage]
  PROVE  /\ start' \in [Start -> StartRecord]
         /\ start'[s].stage # "done"
         /\ \A q \in Start \ {s} : start'[q] = start[q]
<1>1. start[s] \in [stage : {"session", "body", "worker"}, wanted : Wanted]
  BY StartWanted
<1>2. [start[s] EXCEPT !.stage = stage] \in StartRecord
  BY <1>1 DEF StartRecord
<1>3. QED
  BY <1>1, <1>2 DEF StartsInv

LEMMA OpenedEffect ==
  ASSUME StartsInv, NEW o \in Opener
  PROVE  Opened(o) \in [Opener -> States] /\ OpenedUnlessPaused(o) \in [Opener -> States]
  BY DEF StartsInv, Opened, OpenedUnlessPaused, States

\* What a step of request s makes of all requests, and of the audited ones.
StartsAuditedStep ==
  \A s \in Start :
    LET was == start[s]  is == start'[s]
    IN was.stage \in {"body", "worker"} /\ was.wanted.op \in {"run", "restart"}
         /\ is.stage = "done" =>
       /\ is.event = (is.answer = "ok")
       /\ is.event /\ was.wanted.op = "restart" => is.effect
       /\ is.effect /\ ~is.event =>
            \/ member[was.wanted.user] # "enabled"
            \/ was.wanted.op = "restart" /\ is.answer = "unconfirmed"

\* A request that is audited ends with its event, or without success.
LEMMA RecordedEffect ==
  ASSUME StartsInv, NEW s \in Start, start[s].stage \in {"body", "worker"},
         NEW effect \in BOOLEAN, StartRecorded(s, effect),
         start[s].wanted.op = "restart" => effect
  PROVE  start' \in [Start -> StartRecord] /\ StartsAuditedStep
<1> DEFINE present == member[start[s].wanted.user] = "enabled"
<1>1. Ended(s, IF present THEN "ok" ELSE "failed", effect, present)
  BY DEF StartRecorded
<1>2. CASE present
  BY <1>1, <1>2, EndedEffect DEF StartsAuditedStep, Answers
<1>3. CASE ~present
  <2>1. Ended(s, "failed", effect, FALSE)
    BY <1>1, <1>3
  <2>2. QED
    BY <1>3, <2>1, EndedEffect DEF StartsAuditedStep, Answers
<1>4. QED
  BY <1>2, <1>3

\* A request that ends without an event reports no success, and had no effect
\* but for a restart that is not confirmed.
LEMMA EndedQuietly ==
  ASSUME StartsInv, NEW s \in Start, NEW effect \in BOOLEAN,
         effect => start[s].wanted.op = "restart",
         \/ Ended(s, "refused", FALSE, FALSE)
         \/ Ended(s, "unconfirmed", effect, FALSE)
         \/ Ended(s, "ok", FALSE, FALSE) /\ start[s].wanted.op \notin {"run", "restart"}
  PROVE  start' \in [Start -> StartRecord] /\ StartsAuditedStep
  BY EndedEffect DEF StartsAuditedStep, Answers

\* A step that leaves the members and the controls alone.
LEMMA WorkspaceKept ==
  ASSUME StartsInv, UNCHANGED <<member, entitled, required, paused>>,
         workspace' \in [Opener -> States], start' \in [Start -> StartRecord]
  PROVE  StartsInv'
  BY DEF StartsInv

LEMMA ArriveStartStep ==
  ASSUME StartsInv, NEW s \in Start, ArriveStart(s)
  PROVE  StartsInv' /\ StartsAuditedStep
<1>1. PICK w \in Wanted : start' = [start EXCEPT ![s] = [stage |-> "session", wanted |-> w]]
  BY DEF ArriveStart
<1>2. UNCHANGED <<member, workspace, entitled, required, paused>>
  BY DEF ArriveStart
<1>3. [stage |-> "session", wanted |-> w] \in StartRecord
  BY DEF StartRecord
<1>4. start' \in [Start -> StartRecord]
  BY <1>1, <1>3 DEF StartsInv
<1>5. StartsInv'
  BY <1>2, <1>4, WorkspaceKept DEF StartsInv
<1>6. StartsAuditedStep
  BY <1>1 DEF StartsInv, StartsAuditedStep
<1>7. QED
  BY <1>5, <1>6

LEMMA ResolveStartStep ==
  ASSUME StartsInv, NEW s \in Start, ResolveStart(s)
  PROVE  StartsInv' /\ StartsAuditedStep
<1>1. start[s].stage = "session" /\ UNCHANGED <<member, workspace, entitled, required, paused>>
  BY DEF ResolveStart
<1>2. \/ start' = [start EXCEPT ![s].stage = "body"]
      \/ Ended(s, "refused", FALSE, FALSE)
  BY DEF ResolveStart
<1>3. start' \in [Start -> StartRecord] /\ StartsAuditedStep
  BY <1>1, <1>2, StageEffect, EndedQuietly DEF StartsAuditedStep
<1>4. QED
  BY <1>1, <1>3, WorkspaceKept DEF StartsInv

LEMMA OpenStep ==
  ASSUME StartsInv, NEW s \in Start,
         OpenWorkspace(s) \/ OpenDashboards(s) \/ RefuseRun(s)
  PROVE  StartsInv' /\ StartsAuditedStep
<1>1. UNCHANGED <<member, entitled, required, paused>>
  BY DEF OpenWorkspace, OpenDashboards, RefuseRun
<1>2. start[s].stage = "body"
  BY DEF OpenWorkspace, OpenDashboards, RefuseRun, HasBody
<1>3. start[s].wanted.of \in Opener
  BY <1>2, StartWanted
<1>4. workspace' \in {Opened(start[s].wanted.of), OpenedUnlessPaused(start[s].wanted.of)}
  BY DEF OpenWorkspace, OpenDashboards, RefuseRun
<1>5. workspace' \in [Opener -> States]
  BY <1>3, <1>4, OpenedEffect
<1>6. \/ Ended(s, "refused", FALSE, FALSE)
      \/ Ended(s, "ok", FALSE, FALSE) /\ start[s].wanted.op \notin {"run", "restart"}
  BY DEF OpenWorkspace, OpenDashboards, RefuseRun, HasBody
<1>7. start' \in [Start -> StartRecord] /\ StartsAuditedStep
  BY <1>6, EndedQuietly
<1>8. QED
  BY <1>1, <1>5, <1>7, WorkspaceKept

LEMMA QueueEffect ==
  ASSUME StartsInv, NEW s \in Start, Queue(s)
  PROVE  /\ workspace' \in [Opener -> States]
         /\ UNCHANGED <<member, entitled, required, paused>>
         /\ start[s].stage = "body"
<1>1. start[s].stage = "body"
  BY DEF Queue, HasBody
<1>2. start[s].wanted.of \in Opener
  BY <1>1, StartWanted
<1>3. QED
  BY <1>1, <1>2 DEF Queue, StartsInv, States

LEMMA EnsureRunningStep ==
  ASSUME StartsInv, NEW s \in Start, EnsureRunning(s)
  PROVE  StartsInv' /\ StartsAuditedStep
<1>1. Queue(s) /\ StartRecorded(s, workspace' # workspace)
  BY DEF EnsureRunning
<1>2. (workspace' # workspace) \in BOOLEAN
  OBVIOUS
<1>3. start' \in [Start -> StartRecord] /\ StartsAuditedStep
  <2>1. start[s].stage = "body" /\ start[s].wanted.op = "run"
    BY <1>1 DEF Queue, HasBody
  <2>2. QED
    BY <1>1, <1>2, <2>1, RecordedEffect
<1>4. QED
  BY <1>1, <1>3, QueueEffect, WorkspaceKept

LEMMA WorkerStep ==
  ASSUME StartsInv, NEW s \in Start,
         RestartWorkspace(s) \/ GetOperatorRuntime(s) \/ WorkerAnswers(s)
  PROVE  StartsInv' /\ StartsAuditedStep
<1>1. UNCHANGED <<member, workspace, entitled, required, paused>>
  BY DEF RestartWorkspace, GetOperatorRuntime, AskWorker, WorkerAnswers
<1>2. CASE RestartWorkspace(s) \/ GetOperatorRuntime(s)
  <2>1. /\ start[s].stage = "body"
        /\ \/ Ended(s, "refused", FALSE, FALSE)
           \/ start' = [start EXCEPT ![s].stage = "worker"]
    BY <1>2 DEF RestartWorkspace, GetOperatorRuntime, AskWorker, HasBody
  <2>2. start' \in [Start -> StartRecord] /\ StartsAuditedStep
    BY <2>1, StageEffect, EndedQuietly DEF StartsAuditedStep
  <2>3. QED
    BY <1>1, <2>2, WorkspaceKept DEF StartsInv
<1>3. CASE WorkerAnswers(s)
  <2>1. /\ start[s].stage = "worker"
        /\ \/ \E effect \in BOOLEAN : /\ effect => start[s].wanted.op = "restart"
                                     /\ Ended(s, "unconfirmed", effect, FALSE)
           \/ StartRecorded(s, TRUE)
           \/ start[s].wanted.op = "inspect" /\ Ended(s, "ok", FALSE, FALSE)
    BY <1>3 DEF WorkerAnswers
  <2>2. start' \in [Start -> StartRecord] /\ StartsAuditedStep
    BY <2>1, RecordedEffect, EndedQuietly
  <2>3. QED
    BY <1>1, <2>2, WorkspaceKept DEF StartsInv
<1>4. QED
  BY <1>2, <1>3

\* What changes under the requests that are under way.
LEMMA MeanwhileStep ==
  ASSUME StartsInv,
         \/ \E c \in Controls : SetPaused(c)
         \/ \E o \in Opener : ChangeCover(o) \/ FinishJob(o)
         \/ \E u \in Person : ChangeMember(u)
  PROVE  StartsInv' /\ UNCHANGED start
<1>1. ASSUME NEW c \in Controls, SetPaused(c)
      PROVE  StartsInv' /\ UNCHANGED start
  BY <1>1 DEF SetPaused, PausedWith, StartsInv
<1>2. ASSUME NEW o \in Opener, ChangeCover(o)
      PROVE  StartsInv' /\ UNCHANGED start
  BY <1>2, PersonAssumption DEF ChangeCover, Granted, Revoked, StartsInv
<1>3. ASSUME NEW o \in Opener, FinishJob(o)
      PROVE  StartsInv' /\ UNCHANGED start
  BY <1>3 DEF FinishJob, States, StartsInv
<1>4. ASSUME NEW u \in Person, ChangeMember(u)
      PROVE  StartsInv' /\ UNCHANGED start
  <2>1. PICK to \in {"enabled", "disabled", "gone"} \ {member[u]} :
          /\ member' = [member EXCEPT ![u] = to]
          /\ workspace' = IF to = "gone" /\ u \in Opener
                            THEN [workspace EXCEPT ![u] = "none"] ELSE workspace
          /\ entitled' = IF to = "gone" THEN entitled \ {u} ELSE entitled
    BY <1>4 DEF ChangeMember
  <2>2. UNCHANGED <<required, paused, start>>
    BY <1>4 DEF ChangeMember
  <2>3. workspace' \in [Opener -> States]
    BY <2>1 DEF StartsInv, States
  <2>4. entitled' \subseteq {o \in Opener : member'[o] # "gone"}
    BY <2>1, PersonAssumption DEF StartsInv
  <2>5. QED
    BY <2>1, <2>2, <2>3, <2>4 DEF StartsInv
<1>5. QED
  BY <1>1, <1>2, <1>3, <1>4

LEMMA StartsDieStep ==
  ASSUME StartsInv, StartsDie
  PROVE  StartsInv' /\ StartsAuditedStep
<1>1. start' = [s \in Start |-> NoStart]
  BY DEF StartsDie
<1>2. NoStart \in StartRecord /\ NoStart.stage = "idle"
  BY DEF StartRecord, NoStart
<1>3. start' \in [Start -> StartRecord] /\ StartsAuditedStep
  BY <1>1, <1>2 DEF StartsAuditedStep
<1>4. StartsInv'
  BY <1>3, QueueEffect, WorkspaceKept DEF StartsDie, StartsInv
<1>5. QED
  BY <1>3, <1>4

LEMMA StartsNextInv ==
  ASSUME StartsInv, [StartsNext]_startVars
  PROVE  StartsInv' /\ StartsAuditedStep
<1>1. CASE UNCHANGED startVars
  BY <1>1 DEF startVars, StartsInv, StartsAuditedStep
<1>2. ASSUME NEW s \in Start,
             \/ ArriveStart(s) \/ ResolveStart(s) \/ OpenWorkspace(s) \/ OpenDashboards(s)
             \/ RefuseRun(s) \/ EnsureRunning(s)
             \/ RestartWorkspace(s) \/ GetOperatorRuntime(s) \/ WorkerAnswers(s)
      PROVE  StartsInv' /\ StartsAuditedStep
  BY <1>2, ArriveStartStep, ResolveStartStep, OpenStep, EnsureRunningStep, WorkerStep
<1>3. CASE \/ \E c \in Controls : SetPaused(c)
           \/ \E o \in Opener : ChangeCover(o) \/ FinishJob(o)
           \/ \E u \in Person : ChangeMember(u)
  BY <1>3, MeanwhileStep DEF StartsAuditedStep
<1>4. QED
  BY <1>1, <1>2, <1>3, StartsDieStep DEF StartsNext

LEMMA StartsInvariant == StartsSpec => []StartsInv
<1>1. StartsInit => StartsInv
  BY DEF StartsInit, StartsInv, States, StartRecord
<1>2. StartsInv /\ [StartsNext]_startVars => StartsInv'
  BY StartsNextInv
<1>3. QED
  BY <1>1, <1>2, PTL DEF StartsSpec

\* Members, workspaces, entitlements, controls and requests keep their types; an
\* entitlement never outlives the membership of its holder.
THEOREM StartsTypes == StartsSpec => []StartsTypeOK
  BY StartsInvariant, StartsInvTypes, PTL

\* A start is in the audit table exactly when success is reported, and a restart there was
\* done; one that took effect without an event was made for someone who was no enabled member
\* when it was done, or is a restart that the worker did not confirm (recordAuditEvent).
THEOREM StartsAuditedHolds == StartsSpec => StartsAudited
<1>1. StartsInv /\ [StartsNext]_startVars => StartsAuditedStep
  BY StartsNextInv
<1>2. QED
  BY <1>1, StartsInvariant, PTL DEF StartsSpec, StartsAudited, StartsAuditedStep

---------------------------------------------------------------------------
(* Mail *)

ContactRow == [status : {"none", "pending", "sent", "failed"}, created : 0..MaxTime]

\* The rows of contact requests.
ContactRows == {k \in Contact : contact[k].status # "none"}

\* The rows that ContactsLimited counts for the hour from t.
RowsFrom(t) == {k \in ContactRows : contact[k].created \in t..(t + Hour)}

\* There are finitely many rows, however many ids, and none is of the future.
ContactInv ==
  /\ contact \in [Contact -> ContactRow]
  /\ time \in 0..MaxTime
  /\ IsFiniteSet(ContactRows)
  /\ \A k \in ContactRows : contact[k].created <= time
  /\ ContactsLimited

\* How far a request is and what the row of its delivery says.
DeliveryInv ==
  /\ delivery \in [Mailing -> {"none", "sending", "sent", "failed"} \cup Reported]
  /\ mailing \in [Mailing -> {"idle", "answered", "failed", "lost"} \cup UnderWay]
  /\ accepted \subseteq Mailing
  /\ \A m \in Mailing :
       /\ mailing[m] = "idle" => delivery[m] = "none"
       /\ mailing[m] = "calling" => delivery[m] = "sending"
       /\ mailing[m] = "receipt" => m \in accepted /\ delivery[m] \in {"sent"} \cup Reported
       /\ delivery[m] \in {"sent"} \cup Reported => m \in accepted

\* A contact request that counts as notified has a delivery.
NotifiedInv ==
  \A k \in Contact : contact[k].status = "sent" =>
    \E m \in Mailing : AboutContact[m] = k /\ delivery[m] \in {"sent"} \cup Reported

MailInv == ContactInv /\ DeliveryInv /\ NotifiedInv

LEMMA MailInvTypes == MailInv => MailTypeOK /\ NotificationsTrue /\ ContactsLimited
  BY DEF MailInv, ContactInv, DeliveryInv, NotifiedInv, ContactRow, MailTypeOK, NotificationsTrue,
     Reported, Terminal

\* Rows that are there stay, change their status or go, at the same time.
Fewer ==
  /\ contact' \in [Contact -> ContactRow]
  /\ \A k \in ContactRows' : k \in ContactRows /\ contact'[k].created = contact[k].created

LEMMA FewerEffect ==
  ASSUME ContactInv, Fewer, UNCHANGED time
  PROVE  ContactInv'
<1>1. ContactRows' \subseteq ContactRows
  BY DEF Fewer
<1>2. IsFiniteSet(ContactRows')
  BY <1>1, FS_Subset DEF ContactInv
<1>3. ASSUME NEW t \in 0..MaxTime
      PROVE  Cardinality(RowsFrom(t)') <= MaxContacts
  <2>1. RowsFrom(t)' \subseteq RowsFrom(t) /\ RowsFrom(t) \subseteq ContactRows
    BY DEF Fewer, RowsFrom
  <2>2. /\ IsFiniteSet(RowsFrom(t))
        /\ Cardinality(RowsFrom(t)') <= Cardinality(RowsFrom(t))
    BY <2>1, FS_Subset DEF ContactInv
  <2>3. RowsFrom(t) = {k \in Contact : contact[k].status # "none"
                                       /\ contact[k].created \in t..(t + Hour)}
    BY DEF RowsFrom, ContactRows
  <2>4. Cardinality(RowsFrom(t)) <= MaxContacts
    BY <2>3 DEF ContactInv, ContactsLimited
  <2>5. Cardinality(RowsFrom(t)) \in Nat /\ Cardinality(RowsFrom(t)') \in Nat
    BY <2>1, <2>2, FS_Subset, FS_CardinalityType
  <2>6. QED
    BY <2>2, <2>4, <2>5, ContactAssumption
<1>4. \A t : RowsFrom(t)' = {k \in Contact : contact'[k].status # "none"
                                             /\ contact'[k].created \in t..(t + Hour)}
  BY DEF RowsFrom, ContactRows
<1>5. ContactsLimited'
  BY <1>3, <1>4 DEF ContactsLimited
<1>6. \A k \in ContactRows' : contact'[k].created <= time'
  BY DEF Fewer, ContactInv
<1>7. QED
  BY <1>2, <1>5, <1>6 DEF Fewer, ContactInv

LEMMA KeptEffect ==
  ASSUME ContactInv
  PROVE  /\ Kept \in [Contact -> ContactRow]
         /\ \A k \in Contact :
              Kept[k].status # "none" => contact[k].status # "none" /\ Kept[k] = contact[k]
<1>1. NoRequest \in ContactRow /\ NoRequest.status = "none"
  BY ContactAssumption DEF NoRequest, ContactRow
<1>2. \A k \in Contact : Kept[k] \in {NoRequest, contact[k]}
  BY DEF Kept
<1>3. Kept \in [Contact -> ContactRow]
  BY <1>1, <1>2 DEF Kept, ContactInv
<1>4. QED
  BY <1>1, <1>2, <1>3

LEMMA NewRowEffect ==
  ASSUME ContactInv, NEW k \in Contact, Cardinality(Recent) < MaxContacts,
         contact' = [Kept EXCEPT ![k] = [status |-> "pending", created |-> time]],
         UNCHANGED time
  PROVE  ContactInv'
<1> DEFINE new == [status |-> "pending", created |-> time]
<1>1. new \in ContactRow
  BY DEF ContactInv, ContactRow
<1>2. contact' \in [Contact -> ContactRow] /\ contact'[k] = new
  BY <1>1, KeptEffect
<1>3. \A j \in ContactRows' \ {k} : j \in ContactRows /\ contact'[j] = contact[j]
  BY KeptEffect DEF ContactRows
<1>4. IsFiniteSet(ContactRows \cup {k})
  BY FS_AddElement DEF ContactInv
<1>5. IsFiniteSet(ContactRows')
  BY <1>3, <1>4, FS_Subset
<1>6. \A j \in ContactRows' : contact'[j].created <= time'
  BY <1>2, <1>3 DEF ContactInv
<1>7. IsFiniteSet(Recent)
  <2>1. Recent \subseteq ContactRows
    BY DEF Recent, ContactRows
  <2>2. QED
    BY <2>1, FS_Subset DEF ContactInv
<1>8. ASSUME NEW t \in 0..MaxTime
      PROVE  Cardinality(RowsFrom(t)') <= MaxContacts
  <2>1. t \in Nat /\ Hour \in Nat /\ time \in Nat /\ MaxContacts \in Nat
    BY ContactAssumption DEF ContactInv
  <2>2. CASE time \in t..(t + Hour)
    <3>1. ASSUME NEW j \in RowsFrom(t)', j # k
          PROVE  j \in Recent
      <4>1. /\ j \in ContactRows
            /\ contact[j].created \in t..(t + Hour)
            /\ contact[j].created \in Nat
        BY <1>3, <3>1, ContactAssumption DEF RowsFrom, ContactInv, ContactRow, ContactRows
      <4>2. QED
        BY <2>1, <2>2, <4>1 DEF Recent, ContactRows
    <3>2. RowsFrom(t)' \subseteq Recent \cup {k}
      BY <3>1
    <3>3. /\ IsFiniteSet(Recent \cup {k})
          /\ Cardinality(Recent \cup {k}) <= Cardinality(Recent) + 1
          /\ Cardinality(Recent) \in Nat
      <4>1. Cardinality(Recent) \in Nat
        BY <1>7, FS_CardinalityType
      <4>2. /\ IsFiniteSet(Recent \cup {k})
            /\ Cardinality(Recent \cup {k}) \in {Cardinality(Recent), Cardinality(Recent) + 1}
        BY <1>7, FS_AddElement, Zenon
      <4>3. QED
        BY <4>1, <4>2
    <3>4. /\ Cardinality(RowsFrom(t)') <= Cardinality(Recent \cup {k})
          /\ Cardinality(RowsFrom(t)') \in Nat
          /\ Cardinality(Recent \cup {k}) \in Nat
      BY <3>2, <3>3, FS_Subset, FS_CardinalityType
    <3>5. QED
      BY <2>1, <3>3, <3>4
  <2>3. CASE time \notin t..(t + Hour)
    <3>1. RowsFrom(t)' \subseteq RowsFrom(t)
      BY <1>2, <1>3, <2>3 DEF RowsFrom
    <3>2. RowsFrom(t) \subseteq ContactRows
      BY DEF RowsFrom
    <3>3. IsFiniteSet(RowsFrom(t))
      BY <3>2, FS_Subset DEF ContactInv
    <3>4. /\ Cardinality(RowsFrom(t)') <= Cardinality(RowsFrom(t))
          /\ Cardinality(RowsFrom(t)') \in Nat
          /\ Cardinality(RowsFrom(t)) \in Nat
      BY <3>1, <3>3, FS_Subset, FS_CardinalityType
    <3>5. RowsFrom(t) = {j \in Contact : contact[j].status # "none"
                                          /\ contact[j].created \in t..(t + Hour)}
      BY DEF RowsFrom, ContactRows
    <3>6. Cardinality(RowsFrom(t)) <= MaxContacts
      BY <3>5 DEF ContactInv, ContactsLimited
    <3>7. QED
      BY <2>1, <3>4, <3>6
  <2>4. QED
    BY <2>2, <2>3
<1>9. \A t : RowsFrom(t)' = {j \in Contact : contact'[j].status # "none"
                                              /\ contact'[j].created \in t..(t + Hour)}
  BY DEF RowsFrom, ContactRows
<1>10. ContactsLimited'
  BY <1>8, <1>9 DEF ContactsLimited
<1>11. QED
  BY <1>2, <1>5, <1>6, <1>10 DEF ContactInv

\* What submitContact stores: nothing that was there is notified by it.
LEMMA StoredEffect ==
  ASSUME ContactInv, NEW m \in Mailing, contact' = Stored(m), UNCHANGED time
  PROVE  /\ ContactInv'
         /\ \A k \in Contact : contact'[k].status = "sent" => contact[k].status = "sent"
<1>1. CASE contact' \in {contact, Kept}
  <2>1. Fewer
    BY <1>1, KeptEffect DEF Fewer, ContactRows, ContactInv
  <2>2. QED
    BY <1>1, <2>1, FewerEffect, KeptEffect
<1>2. CASE contact' \notin {contact, Kept}
  <2> DEFINE k == AboutContact[m]
  <2>1. /\ k \in Contact
        /\ ~Limited(m)
        /\ Kept[k].status = "none"
        /\ contact' = [Kept EXCEPT ![k] = [status |-> "pending", created |-> time]]
    BY <1>2 DEF Stored
  <2>2. Cardinality(Recent) < MaxContacts
    <3>1. ~(Cardinality(Recent) >= MaxContacts)
      BY <2>1 DEF Limited
    <3>2. Recent \subseteq ContactRows
      BY DEF Recent, ContactRows
    <3>3. Cardinality(Recent) \in Nat
      BY <3>2, FS_Subset, FS_CardinalityType DEF ContactInv
    <3>4. QED
      BY <3>1, <3>3, ContactAssumption
  <2>3. ContactInv'
    BY <2>1, <2>2, NewRowEffect
  <2>4. QED
    BY <2>1, <2>3, KeptEffect
<1>3. QED
  BY <1>1, <1>2

\* Deliveries that the provider has.
Taken(m) == delivery[m] \in {"sent"} \cup Reported

\* What the provider has it keeps, what is terminal stays it, and nothing new is
\* sent to a suppressed address.
Progress ==
  \A m \in Mailing :
    /\ Taken(m) => Taken(m)'
    /\ delivery[m] \in Terminal => delivery'[m] = delivery[m]
    /\ delivery[m] = "none" /\ delivery'[m] # "none" => ~Suppressed(Recipient[m])

SuppressionStep ==
  \A m \in Mailing :
    Suppressed(Recipient[m]) => /\ Suppressed(Recipient[m])'
                                /\ delivery[m] = "none" => delivery'[m] = "none"

LEMMA ProgressSuppresses == Progress => SuppressionStep
  BY DEF Progress, SuppressionStep, Suppressed

\* A contact request is notified, and stays it, by a delivery the provider has.
LEMMA NotifiedEffect ==
  ASSUME NotifiedInv, Progress,
         \A k \in Contact : contact'[k].status = "sent" =>
           \/ contact[k].status = "sent"
           \/ \E m \in Mailing : AboutContact[m] = k /\ Taken(m)
  PROVE  NotifiedInv'
  BY DEF NotifiedInv, Progress, Taken

LEMMA SubmitStep ==
  ASSUME MailInv, NEW m \in Mailing, Submit(m)
  PROVE  MailInv' /\ SuppressionStep
<1> USE DEF MailInv
<1>1. /\ mailing[m] = "idle"
      /\ contact' = Stored(m)
      /\ mailing' = [mailing EXCEPT ![m] =
           IF Limited(m) THEN "failed"
           ELSE IF AlreadyNotified(m) THEN "answered"
           ELSE IF Suppressed(Recipient[m]) THEN "thrown" ELSE "calling"]
      /\ delivery' = [delivery EXCEPT ![m] = IF mailing'[m] = "calling" THEN "sending" ELSE @]
      /\ UNCHANGED <<accepted, time>>
  BY DEF Submit
<1>2. delivery[m] = "none"
  BY <1>1 DEF DeliveryInv
<1>3. mailing'[m] = "calling" => ~Suppressed(Recipient[m])
  BY <1>1 DEF DeliveryInv
<1>4. mailing'[m] \in {"failed", "answered", "thrown", "calling"}
  BY <1>1 DEF DeliveryInv
<1>5. DeliveryInv'
  <2>1. /\ delivery'[m] = IF mailing'[m] = "calling" THEN "sending" ELSE "none"
        /\ \A n \in Mailing \ {m} : delivery'[n] = delivery[n] /\ mailing'[n] = mailing[n]
    BY <1>1, <1>2 DEF DeliveryInv
  <2>2. /\ delivery' \in [Mailing -> {"none", "sending", "sent", "failed"} \cup Reported]
        /\ mailing' \in [Mailing -> {"idle", "answered", "failed", "lost"} \cup UnderWay]
    BY <1>1, <1>2, <1>4 DEF DeliveryInv, UnderWay
  <2>3. QED
    BY <1>1, <1>4, <2>1, <2>2 DEF DeliveryInv, Reported, Terminal
<1>6. Progress
  BY <1>1, <1>2, <1>3 DEF DeliveryInv, Progress, Taken, Reported, Terminal
<1>7. /\ ContactInv'
      /\ \A k \in Contact : contact'[k].status = "sent" => contact[k].status = "sent"
  BY <1>1, StoredEffect
<1>8. QED
  BY <1>5, <1>6, <1>7, NotifiedEffect, ProgressSuppresses

\* The provider's part, in which contact requests rest.
LEMMA ProviderStep ==
  ASSUME MailInv, NEW m \in Mailing,
         ProviderAccepts(m) \/ MarkSent(m) \/ MarkFailed(m) \/ ReceiveWebhook(m)
  PROVE  MailInv' /\ SuppressionStep
<1> USE DEF MailInv
<1>1. UNCHANGED <<contact, time>>
  BY DEF ProviderAccepts, MarkSent, MarkFailed, ReceiveWebhook
<1>2. DeliveryInv' /\ Progress
  <2>1. CASE ProviderAccepts(m)
    BY <2>1 DEF ProviderAccepts, DeliveryInv, Progress, Taken
  <2>2. CASE MarkSent(m)
    BY <2>2 DEF MarkSent, DeliveryInv, Progress, Taken, UnderWay, Reported, Terminal
  <2>3. CASE MarkFailed(m)
    BY <2>3 DEF MarkFailed, DeliveryInv, Progress, Taken, UnderWay, Reported, Terminal
  <2>4. CASE ReceiveWebhook(m)
    <3>1. PICK s \in Reported :
            delivery' = [delivery EXCEPT ![m] =
              IF @ \in {"sent"} \cup Reported THEN Projected(@, s) ELSE @]
      BY <2>4 DEF ReceiveWebhook
    <3>2. m \in accepted /\ UNCHANGED <<mailing, accepted>>
      BY <2>4 DEF ReceiveWebhook
    <3>3. CASE Taken(m)
      <4>1. /\ delivery' = [delivery EXCEPT ![m] = Projected(@, s)]
            /\ Projected(delivery[m], s) \in Reported
            /\ delivery[m] \in Terminal => Projected(delivery[m], s) = delivery[m]
        BY <3>1, <3>3 DEF Taken, Projected, Reported
      <4>2. DeliveryInv'
        BY <3>2, <3>3, <4>1 DEF DeliveryInv, Taken, Reported, Terminal
      <4>3. Progress
        BY <3>3, <4>1 DEF DeliveryInv, Progress, Taken, Reported, Terminal
      <4>4. QED
        BY <4>2, <4>3
    <3>4. CASE ~Taken(m)
      <4>1. delivery' = delivery
        BY <3>1, <3>4 DEF Taken, DeliveryInv
      <4>2. QED
        BY <3>2, <4>1 DEF DeliveryInv, Progress, Taken
    <3>5. QED
      BY <3>3, <3>4
  <2>5. QED
    BY <2>1, <2>2, <2>3, <2>4
<1>3. ContactInv'
  BY <1>1 DEF ContactInv, ContactRows, ContactsLimited
<1>4. QED
  BY <1>1, <1>2, <1>3, NotifiedEffect, ProgressSuppresses

LEMMA NoteResultStep ==
  ASSUME MailInv, NEW m \in Mailing, NoteResult(m)
  PROVE  MailInv' /\ SuppressionStep
<1> USE DEF MailInv
<1>1. /\ mailing[m] \in {"receipt", "thrown"}
      /\ contact' = NotificationResult(m)
      /\ mailing' = [mailing EXCEPT ![m] = Reply(m)]
      /\ UNCHANGED <<delivery, accepted, time>>
  BY DEF NoteResult
<1>2. Reply(m) \in {"answered", "failed"}
  BY DEF Reply
<1>3. DeliveryInv'
  BY <1>1, <1>2 DEF DeliveryInv, UnderWay
<1>4. Progress
  BY <1>1 DEF Progress, Taken
<1>5. /\ Fewer
      /\ \A k \in Contact : contact'[k].status = "sent" =>
           \/ contact[k].status = "sent"
           \/ AboutContact[m] = k /\ Taken(m)
  <2> DEFINE s == IF mailing[m] = "receipt" THEN "sent" ELSE "failed"
             k == AboutContact[m]
  <2>1. CASE k \in Contact /\ contact[k].status # "none"
    <3>1. contact' = [contact EXCEPT ![k].status = s]
      BY <1>1, <2>1 DEF NotificationResult, Notified
    <3>2. s = "sent" => Taken(m)
      BY <1>1 DEF DeliveryInv, Taken
    <3>3. s \in {"sent", "failed"}
      OBVIOUS
    <3> HIDE DEF s
    <3>4. Fewer
      BY <2>1, <3>1, <3>3 DEF Fewer, ContactRows, ContactInv, ContactRow
    <3>5. QED
      BY <3>1, <3>2, <3>4 DEF ContactInv, ContactRow
  <2>2. CASE ~(k \in Contact /\ contact[k].status # "none")
    <3>1. contact' = contact
      BY <1>1, <2>2 DEF NotificationResult, Notified
    <3>2. QED
      BY <3>1 DEF Fewer, ContactRows, ContactInv
  <2>3. QED
    BY <2>1, <2>2
<1>6. ContactInv'
  BY <1>1, <1>5, FewerEffect
<1>7. QED
  BY <1>3, <1>4, <1>5, <1>6, NotifiedEffect, ProgressSuppresses

LEMMA PurgeEffect ==
  ASSUME ContactInv, contact' = Kept, UNCHANGED time
  PROVE  /\ ContactInv'
         /\ \A k \in Contact : contact'[k].status = "sent" => contact[k].status = "sent"
<1>1. Fewer
  BY KeptEffect DEF Fewer, ContactRows
<1>2. QED
  BY <1>1, FewerEffect, KeptEffect

LEMMA MailTickStep ==
  ASSUME MailInv, MailTick
  PROVE  MailInv' /\ SuppressionStep
<1>1. /\ time < MaxTime
      /\ time' = time + 1
      /\ UNCHANGED <<contact, delivery, mailing, accepted>>
  BY DEF MailTick
<1>2. time' \in 0..MaxTime /\ \A k \in ContactRows : contact[k].created <= time'
  BY <1>1, ContactAssumption DEF MailInv, ContactInv, ContactRow, ContactRows
<1>3. ContactInv'
  BY <1>1, <1>2 DEF MailInv, ContactInv, ContactRows, ContactsLimited
<1>4. QED
  BY <1>1, <1>3
  DEF MailInv, DeliveryInv, NotifiedInv, SuppressionStep, Suppressed

LEMMA PurgeContactsStep ==
  ASSUME MailInv, PurgeContacts
  PROVE  MailInv' /\ SuppressionStep
<1>1. contact' = Kept /\ UNCHANGED <<delivery, mailing, accepted, time>>
  BY DEF PurgeContacts, Purge
<1>2. DeliveryInv' /\ Progress
  BY <1>1 DEF MailInv, DeliveryInv, Progress, Taken
<1>3. QED
  BY <1>1, <1>2, PurgeEffect, NotifiedEffect, ProgressSuppresses DEF MailInv

LEMMA MailDiesStep ==
  ASSUME MailInv, MailDies
  PROVE  MailInv' /\ SuppressionStep
<1>1. PICK m \in Mailing :
        /\ \/ mailing[m] \in UnderWay /\ Purge
           \/ mailing[m] = "idle" /\ AboutContact[m] \in Contact /\ contact' = Stored(m)
        /\ mailing' = [n \in Mailing |->
                         IF n = m \/ mailing[n] \in UnderWay THEN "lost" ELSE mailing[n]]
        /\ UNCHANGED <<delivery, accepted, time>>
  BY DEF MailDies
<1>2. DeliveryInv' /\ Progress
  BY <1>1 DEF MailInv, DeliveryInv, UnderWay, Progress, Taken
<1>3. /\ ContactInv'
      /\ \A k \in Contact : contact'[k].status = "sent" => contact[k].status = "sent"
  BY <1>1, PurgeEffect, StoredEffect DEF Purge, MailInv
<1>4. QED
  BY <1>2, <1>3, NotifiedEffect, ProgressSuppresses DEF MailInv

LEMMA MailInitInv == MailInit => MailInv
<1> SUFFICES ASSUME MailInit PROVE MailInv
  OBVIOUS
<1>1. NoRequest \in ContactRow /\ NoRequest.status = "none" /\ 0 \in 0..MaxTime
  BY ContactAssumption DEF NoRequest, ContactRow
<1>2. ContactRows = {} /\ \A t : RowsFrom(t) = {}
  BY <1>1 DEF MailInit, ContactRows, RowsFrom
<1>3. \A t : RowsFrom(t) = {k \in Contact : contact[k].status # "none"
                                             /\ contact[k].created \in t..(t + Hour)}
  BY DEF RowsFrom, ContactRows
<1>4. ContactsLimited
  BY <1>2, <1>3, FS_EmptySet, ContactAssumption DEF ContactsLimited
<1>5. ContactInv
  BY <1>1, <1>2, <1>4, FS_EmptySet DEF MailInit, ContactInv
<1>6. DeliveryInv
  BY DEF MailInit, DeliveryInv, Reported, Terminal
<1>7. NotifiedInv
  BY <1>1 DEF MailInit, NotifiedInv
<1>8. QED
  BY <1>5, <1>6, <1>7 DEF MailInv

LEMMA MailNextInv ==
  ASSUME MailInv, [MailNext]_mailVars
  PROVE  MailInv' /\ SuppressionStep
<1>1. CASE UNCHANGED mailVars
  BY <1>1 DEF mailVars, MailInv, ContactInv, ContactRows, ContactsLimited, DeliveryInv,
     NotifiedInv, SuppressionStep, Suppressed
<1>2. QED
  BY <1>1, SubmitStep, ProviderStep, NoteResultStep, MailTickStep, PurgeContactsStep,
     MailDiesStep DEF MailNext

LEMMA MailInvariant == MailSpec => []MailInv
<1>1. MailInv /\ [MailNext]_mailVars => MailInv'
  BY MailNextInv
<1>2. QED
  BY <1>1, MailInitInv, PTL DEF MailSpec

\* Contact requests, deliveries and requests keep their types.
THEOREM MailTypes == MailSpec => []MailTypeOK
  BY MailInvariant, MailInvTypes, PTL

\* A contact request counts as notified only when the provider has a message about it,
\* and a delivery has a status of the provider's only when it has the message.
THEOREM NotificationsTrueHolds == MailSpec => []NotificationsTrue
  BY MailInvariant, MailInvTypes, PTL

\* No source stores more contact requests than the limit within any hour, although
\* rows are deleted by age and requests die between their writes (createContactRequest).
THEOREM ContactsLimitedHolds == MailSpec => []ContactsLimited
  BY MailInvariant, MailInvTypes, PTL

\* What bounced or complained once stays suppressed, and is sent nothing more.
THEOREM SuppressionHoldsAlways == MailSpec => SuppressionHolds
<1>1. MailInv /\ [MailNext]_mailVars => SuppressionStep
  BY MailNextInv
<1>2. QED
  BY <1>1, MailInvariant, PTL DEF MailSpec, SuppressionHolds, SuppressionStep

---------------------------------------------------------------------------
(* The limiter of attempts *)

LEMMA PassedElements ==
  ASSUME NEW f, NEW a, NEW b, NEW x
  PROVE  x \in Passed(f, a, b) <=>
           \E u \in 0..LastTick : \E i \in 1..f[u] : x = <<u, i>> /\ u >= a /\ u < b
<1>1. ASSUME NEW u \in 0..LastTick, NEW i \in 1..f[u], x = <<u, i>>, u >= a, u < b
      PROVE  x \in Passed(f, a, b)
  BY <1>1 DEF Passed
<1>2. ASSUME x \in Passed(f, a, b)
      PROVE  \E u \in 0..LastTick : \E i \in 1..f[u] : x = <<u, i>> /\ u >= a /\ u < b
  BY <1>2 DEF Passed
<1>3. QED
  BY <1>1, <1>2

\* What passed in a stretch passed in any longer one.
LEMMA PassedWithin ==
  ASSUME NEW f, NEW a \in Int, NEW b \in Int, NEW c \in Int, NEW d \in Int,
         c <= a, b <= d, IsFiniteSet(Passed(f, c, d))
  PROVE  /\ Passed(f, a, b) \subseteq Passed(f, c, d)
         /\ IsFiniteSet(Passed(f, a, b))
         /\ Cardinality(Passed(f, a, b)) \in Nat
         /\ Cardinality(Passed(f, a, b)) <= Cardinality(Passed(f, c, d))
<1>1. Passed(f, a, b) \subseteq Passed(f, c, d)
  BY DEF Passed
<1>2. QED
  BY <1>1, FS_Subset, FS_CardinalityType

\* A stretch in two parts.
LEMMA PassedSplit ==
  ASSUME NEW f, NEW a \in Int, NEW b \in Int, NEW c \in Int,
         IsFiniteSet(Passed(f, a, b)), IsFiniteSet(Passed(f, b, c))
  PROVE  Cardinality(Passed(f, a, c))
           <= Cardinality(Passed(f, a, b)) + Cardinality(Passed(f, b, c))
<1> DEFINE S == Passed(f, a, b)
           T == Passed(f, b, c)
<1>1. Passed(f, a, c) \subseteq S \cup T
  BY DEF Passed
<1> HIDE DEF S, T
<1>2. /\ IsFiniteSet(S) /\ IsFiniteSet(T)
      /\ Cardinality(S) \in Nat /\ Cardinality(T) \in Nat
  BY FS_CardinalityType DEF S, T
<1>3. /\ IsFiniteSet(S \cup T)
      /\ Cardinality(S \cup T) = Cardinality(S) + Cardinality(T) - Cardinality(S \cap T)
  BY <1>2, FS_Union, Zenon
<1>4. IsFiniteSet(S \cap T) /\ Cardinality(S \cap T) \in Nat
  <2>1. S \cap T \subseteq S
    OBVIOUS
  <2>2. QED
    BY <1>2, <2>1, FS_Subset, FS_CardinalityType
<1>5. /\ Cardinality(Passed(f, a, c)) <= Cardinality(S \cup T)
      /\ Cardinality(Passed(f, a, c)) \in Nat
      /\ Cardinality(S \cup T) \in Nat
  BY <1>1, <1>3, FS_Subset, FS_CardinalityType
<1>6. QED
  BY <1>2, <1>3, <1>4, <1>5 DEF S, T

\* One more attempt passes at the tick now.
OneMore(f, now) == [f EXCEPT ![now] = @ + 1]

LEMMA PassedMore ==
  ASSUME NEW f \in [0..LastTick -> Nat], NEW now \in 0..LastTick,
         NEW a \in Int, NEW b \in Int, IsFiniteSet(Passed(f, a, b))
  PROVE  /\ IsFiniteSet(Passed(OneMore(f, now), a, b))
         /\ Cardinality(Passed(OneMore(f, now), a, b)) <= Cardinality(Passed(f, a, b)) + 1
         /\ now < a \/ now >= b => Passed(OneMore(f, now), a, b) = Passed(f, a, b)
<1> DEFINE g == OneMore(f, now)
           S == Passed(f, a, b)
           new == <<now, f[now] + 1>>
<1>1. /\ g[now] = f[now] + 1
      /\ \A u \in (0..LastTick) \ {now} : g[u] = f[u]
  BY DEF OneMore
<1>2. Passed(g, a, b) \subseteq S \cup {new}
  <2> SUFFICES ASSUME NEW x \in Passed(g, a, b)
               PROVE  x \in S \cup {new}
    OBVIOUS
  <2> HIDE DEF g
  <2>0. PICK u \in 0..LastTick : \E i \in 1..g[u] : x = <<u, i>> /\ u >= a /\ u < b
    BY PassedElements
  <2>1. PICK i \in 1..g[u] : x = <<u, i>> /\ u >= a /\ u < b
    BY <2>0
  <2>2. i \in 1..f[u] \/ (u = now /\ i = f[now] + 1)
    BY <1>1, <2>1
  <2>3. QED
    BY <2>1, <2>2, PassedElements
<1>3. now < a \/ now >= b => Passed(g, a, b) = S
  <2> HIDE DEF g
  <2>1. QED
    BY <1>1 DEF Passed
<1> HIDE DEF S, new, g
<1>4. /\ IsFiniteSet(S \cup {new})
      /\ Cardinality(S \cup {new}) \in {Cardinality(S), Cardinality(S) + 1}
  BY FS_AddElement, Zenon DEF S
<1>5. Cardinality(S) \in Nat
  BY FS_CardinalityType DEF S
<1>6. /\ IsFiniteSet(Passed(g, a, b))
      /\ Cardinality(Passed(g, a, b)) <= Cardinality(S \cup {new})
      /\ Cardinality(Passed(g, a, b)) \in Nat
  BY <1>2, <1>4, FS_Subset, FS_CardinalityType
<1>7. QED
  BY <1>3, <1>4, <1>5, <1>6 DEF S, g

Bucket == [start : 0..LastTick, count : 0..MaxAttempts]

\* What holds of a bucket b and the attempts f that passed it, with the limit l: all
\* of them came before the end of its window, those of its window are as few as it
\* counted, and those before it within one length of a window as few as the limit.
InTime(b, f, now) ==
  /\ b \in Bucket
  /\ f \in [0..LastTick -> 0..MaxAttempts]
  /\ b.start <= now
  /\ \A u \in 0..LastTick : f[u] > 0 => u <= now /\ u < b.start + LimitWindow /\ b.count > 0

FewPassed(b, f, l) ==
  /\ \A t, e \in Int : IsFiniteSet(Passed(f, t, e))
  /\ Cardinality(Passed(f, b.start, b.start + LimitWindow)) <= l
  /\ Cardinality(Passed(f, b.start, b.start + LimitWindow)) <= b.count
  /\ \A t \in Int : t + LimitWindow > b.start => Cardinality(Passed(f, t, b.start)) <= l
  /\ \A t \in Int : Cardinality(Passed(f, t, t + LimitWindow)) <= 2 * l

LEMMA AttemptNumbers ==
  LimitWindow \in Nat /\ LimitWindow > 0 /\ MaxAttempts \in Nat /\ LastTick \in Nat
  BY AttemptAssumption

\* The bucket after an attempt was counted in it.
Recounted(b, now) ==
  IF b.count > 0 /\ now - b.start < LimitWindow THEN [b EXCEPT !.count = @ + 1]
  ELSE [start |-> now, count |-> 1]

LEMMA PassedCardinality ==
  ASSUME NEW f, NEW a \in Int, NEW b \in Int, IsFiniteSet(Passed(f, a, b))
  PROVE  Cardinality(Passed(f, a, b)) \in Nat
  BY FS_CardinalityType

\* The numbered attempts of one tick are as many as it counts.
LEMMA ShareEffect ==
  ASSUME NEW u, NEW n \in Nat
  PROVE  Cardinality({u} \X (1..n)) = n
<1>1. IsFiniteSet({u}) /\ Cardinality({u}) = 1
  BY FS_Singleton
<1>2. IsFiniteSet(1..n) /\ Cardinality(1..n) = n
  BY FS_Interval
<1>3. Cardinality({u} \X (1..n)) = Cardinality({u}) * Cardinality(1..n)
  BY <1>1, <1>2, FS_Product, Zenon
<1>4. QED
  BY <1>1, <1>2, <1>3

\* The bucket b has counted the attempt at the tick now, which falls in its window.
LEMMA CountEffect ==
  ASSUME NEW b, NEW f, NEW l \in Nat, NEW now \in 0..LastTick,
         InTime(b, f, now), FewPassed(b, f, l), Recounted(b, now).count <= MaxAttempts
  PROVE  /\ InTime(Recounted(b, now), f, now)
         /\ FewPassed(Recounted(b, now), f, l)
         /\ now < Recounted(b, now).start + LimitWindow
         /\ Recounted(b, now).count > 0
         /\ Cardinality(Passed(f, Recounted(b, now).start, Recounted(b, now).start + LimitWindow))
              < Recounted(b, now).count
<1> DEFINE c == Recounted(b, now)
<1>1. /\ b \in Bucket
      /\ b.start \in Nat /\ b.start <= LastTick /\ b.start <= now
      /\ b.count \in Nat
      /\ LimitWindow \in Nat /\ LimitWindow > 0
      /\ now \in Nat
  BY AttemptNumbers DEF InTime, Bucket
<1>2. \A u \in 0..LastTick : f[u] \in Nat
  BY AttemptNumbers DEF InTime
<1>3. \A t, e \in Int : IsFiniteSet(Passed(f, t, e))
  BY DEF FewPassed
<1>4. CASE b.count > 0 /\ now - b.start < LimitWindow
  <2>1. c = [b EXCEPT !.count = @ + 1]
    BY <1>4 DEF Recounted
  <2>2. c.start = b.start /\ c.count = b.count + 1 /\ c \in Bucket
    BY <1>1, <2>1, AttemptNumbers DEF Bucket
  <2> HIDE DEF c
  <2>3. Cardinality(Passed(f, b.start, b.start + LimitWindow)) \in Nat
    <3>1. b.start \in Int /\ b.start + LimitWindow \in Int
      BY <1>1
    <3>2. QED
      BY <1>3, <3>1, PassedCardinality
  <2>4. Cardinality(Passed(f, b.start, b.start + LimitWindow)) <= b.count
    BY DEF FewPassed
  <2>5. Cardinality(Passed(f, c.start, c.start + LimitWindow)) < c.count
    BY <1>1, <2>2, <2>3, <2>4
  <2>6. InTime(c, f, now)
    BY <1>1, <2>2 DEF InTime
  <2>7. FewPassed(c, f, l)
    <3>1. Cardinality(Passed(f, c.start, c.start + LimitWindow)) <= c.count
      BY <1>1, <2>2, <2>3, <2>5
    <3>2. QED
      BY <2>2, <3>1 DEF FewPassed
  <2>8. now < c.start + LimitWindow /\ c.count > 0
    BY <1>1, <1>4, <2>2
  <2>9. QED
    BY <2>5, <2>6, <2>7, <2>8 DEF c
<1>5. CASE ~(b.count > 0 /\ now - b.start < LimitWindow)
  <2>1. c = [start |-> now, count |-> 1]
    BY <1>5 DEF Recounted
  <2>2. c.start = now /\ c.count = 1 /\ c \in Bucket
    BY <2>1, AttemptNumbers DEF Bucket
  <2> HIDE DEF c
  <2>3. \A u \in 0..LastTick :
          f[u] > 0 => u < now /\ u < b.start + LimitWindow /\ b.start + LimitWindow <= now
    BY <1>1, <1>5 DEF InTime
  <2>4. Passed(f, now, now + LimitWindow) = {}
    <3>1. ASSUME NEW u \in 0..LastTick, u >= now
          PROVE  1..f[u] = {}
      BY <1>1, <1>2, <2>3, <3>1
    <3>2. \A x : x \notin Passed(f, now, now + LimitWindow)
      BY <3>1, PassedElements
    <3>3. QED
      BY <3>2
  <2>5. Cardinality(Passed(f, now, now + LimitWindow)) = 0
    BY <2>4, FS_EmptySet
  <2>6. ASSUME NEW t \in Int, t + LimitWindow > now
        PROVE  Cardinality(Passed(f, t, now)) <= l
    <3>1. Passed(f, t, now) \subseteq Passed(f, b.start, b.start + LimitWindow)
      <4> SUFFICES ASSUME NEW x \in Passed(f, t, now)
                   PROVE  x \in Passed(f, b.start, b.start + LimitWindow)
        OBVIOUS
      <4>1. PICK u \in 0..LastTick : \E i \in 1..f[u] : x = <<u, i>> /\ u >= t /\ u < now
        BY PassedElements
      <4>2. f[u] > 0
        BY <1>2, <4>1
      <4>3. u < b.start + LimitWindow /\ u >= b.start
        BY <1>1, <2>3, <2>6, <4>1, <4>2
      <4>4. QED
        BY <4>1, <4>3, PassedElements
    <3>2. IsFiniteSet(Passed(f, b.start, b.start + LimitWindow))
      <4>1. b.start \in Int /\ b.start + LimitWindow \in Int
        BY <1>1
      <4>2. QED
        BY <1>3, <4>1
    <3>3. /\ Cardinality(Passed(f, t, now)) <= Cardinality(Passed(f, b.start, b.start + LimitWindow))
          /\ Cardinality(Passed(f, t, now)) \in Nat
          /\ Cardinality(Passed(f, b.start, b.start + LimitWindow)) \in Nat
      BY <3>1, <3>2, FS_Subset, FS_CardinalityType
    <3>4. Cardinality(Passed(f, b.start, b.start + LimitWindow)) <= l
      BY DEF FewPassed
    <3>5. QED
      BY <3>3, <3>4
  <2>7. InTime(c, f, now)
    BY <1>1, <2>2, <2>3 DEF InTime
  <2>8. FewPassed(c, f, l)
    BY <2>2, <2>5, <2>6 DEF FewPassed
  <2>9. QED
    BY <1>1, <2>2, <2>5, <2>7, <2>8 DEF c
<1>6. QED
  BY <1>4, <1>5

\* The attempt that was counted passes: it is one of the window.
LEMMA ForwardEffect ==
  ASSUME NEW b, NEW f, NEW l \in Nat, NEW now \in 0..LastTick,
         InTime(b, f, now), FewPassed(b, f, l),
         now < b.start + LimitWindow, b.count > 0, b.count <= l,
         Cardinality(Passed(f, b.start, b.start + LimitWindow)) < b.count
  PROVE  InTime(b, OneMore(f, now), now) /\ FewPassed(b, OneMore(f, now), l)
<1> DEFINE g == OneMore(f, now)
           end == b.start + LimitWindow
<1>1. /\ b \in Bucket
      /\ b.start \in Int /\ b.start \in Nat /\ b.start <= now
      /\ b.count \in Nat /\ b.count <= MaxAttempts
      /\ LimitWindow \in Nat
      /\ now \in Nat
      /\ end \in Int
  BY AttemptNumbers DEF InTime, Bucket
<1>2. f \in [0..LastTick -> Nat] /\ f \in [0..LastTick -> 0..MaxAttempts]
  BY AttemptNumbers DEF InTime
<1>3. \A t, e \in Int : IsFiniteSet(Passed(f, t, e))
  BY DEF FewPassed
<1>4. ASSUME NEW t \in Int, NEW e \in Int
      PROVE  /\ IsFiniteSet(Passed(g, t, e))
             /\ Cardinality(Passed(g, t, e)) \in Nat
             /\ Cardinality(Passed(f, t, e)) \in Nat
             /\ Cardinality(Passed(g, t, e)) <= Cardinality(Passed(f, t, e)) + 1
             /\ now < t \/ now >= e => Passed(g, t, e) = Passed(f, t, e)
  <2>1. /\ IsFiniteSet(Passed(g, t, e))
        /\ Cardinality(Passed(g, t, e)) <= Cardinality(Passed(f, t, e)) + 1
        /\ now < t \/ now >= e => Passed(g, t, e) = Passed(f, t, e)
    BY <1>2, <1>3, PassedMore
  <2>2. QED
    BY <1>3, <2>1, FS_CardinalityType
<1>5. /\ g[now] = f[now] + 1
      /\ \A u \in (0..LastTick) \ {now} : g[u] = f[u]
  BY <1>2 DEF OneMore
<1>6. f[now] \in Nat /\ f[now] < b.count
  <2> DEFINE column == {now} \X (1..f[now])
  <2>0. f[now] \in Nat
    BY <1>2
  <2>1. column \subseteq Passed(f, b.start, end)
    <3>1. now >= b.start /\ now < end
      BY <1>1
    <3>2. QED
      BY <3>1 DEF Passed
  <2>2. Cardinality(column) = f[now]
    BY <2>0, ShareEffect
  <2> HIDE DEF column, end
  <2>3. Cardinality(column) <= Cardinality(Passed(f, b.start, end))
    BY <1>1, <1>3, <2>1, FS_Subset
  <2>4. Cardinality(Passed(f, b.start, end)) \in Nat
    BY <1>1, <1>4
  <2>5. Cardinality(Passed(f, b.start, end)) < b.count
    BY DEF end
  <2>6. QED
    BY <1>1, <2>0, <2>2, <2>3, <2>4, <2>5
<1>7. g \in [0..LastTick -> 0..MaxAttempts]
  <2>1. f[now] + 1 \in 0..MaxAttempts
    BY <1>1, <1>6, AttemptNumbers
  <2>2. QED
    BY <1>2, <2>1 DEF OneMore
<1> HIDE DEF g
<1>8. \A u \in 0..LastTick : g[u] > 0 => u <= now /\ u < end /\ b.count > 0
  <2>1. now < end
    OBVIOUS
  <2>2. \A u \in 0..LastTick : f[u] > 0 => u <= now /\ u < end
    BY DEF InTime
  <2>3. QED
    BY <1>1, <1>5, <2>1, <2>2
<1>9. InTime(b, g, now)
  BY <1>1, <1>7, <1>8 DEF InTime
<1>10. Cardinality(Passed(g, b.start, end)) <= b.count /\ Cardinality(Passed(g, b.start, end)) <= l
  <2>1. /\ Cardinality(Passed(g, b.start, end)) <= Cardinality(Passed(f, b.start, end)) + 1
        /\ Cardinality(Passed(f, b.start, end)) \in Nat
        /\ Cardinality(Passed(g, b.start, end)) \in Nat
    BY <1>1, <1>4
  <2>2. QED
    BY <1>1, <2>1
<1>11. ASSUME NEW t \in Int, t + LimitWindow > b.start
       PROVE  Cardinality(Passed(g, t, b.start)) <= l
  <2>1. Passed(g, t, b.start) = Passed(f, t, b.start)
    BY <1>1, <1>4
  <2>2. QED
    BY <1>11, <2>1 DEF FewPassed
<1>12. ASSUME NEW t \in Int
       PROVE  Cardinality(Passed(g, t, t + LimitWindow)) <= 2 * l
  <2> DEFINE late == t + LimitWindow
  <2>0. late \in Int
    BY <1>1
  <2>1. CASE late <= b.start
    <3> HIDE DEF late
    <3>1. now >= late
      BY <1>1, <2>0, <2>1
    <3>2. Passed(g, t, late) = Passed(f, t, late)
      BY <1>4, <2>0, <3>1
    <3>3. QED
      BY <3>2 DEF FewPassed, late
  <2>2. CASE late > b.start
    <3>1. Passed(g, b.start, late) \subseteq Passed(g, b.start, end)
      <4> SUFFICES ASSUME NEW x \in Passed(g, b.start, late)
                   PROVE  x \in Passed(g, b.start, end)
        OBVIOUS
      <4>1. PICK u \in 0..LastTick : \E i \in 1..g[u] : x = <<u, i>> /\ u >= b.start /\ u < late
        BY PassedElements
      <4>2. g[u] > 0
        BY <1>7, <4>1, AttemptNumbers
      <4>3. u < end
        BY <1>8, <4>2
      <4>4. QED
        BY <4>1, <4>3, PassedElements
    <3>2. Cardinality(Passed(g, t, b.start)) <= l
      BY <1>11, <2>2
    <3> HIDE DEF end, late
    <3>3. Cardinality(Passed(g, t, late))
            <= Cardinality(Passed(g, t, b.start)) + Cardinality(Passed(g, b.start, late))
      BY <1>1, <1>4, <2>0, PassedSplit
    <3>4. Cardinality(Passed(g, b.start, late)) <= Cardinality(Passed(g, b.start, end))
      BY <1>1, <1>4, <3>1, FS_Subset
    <3>5. /\ Cardinality(Passed(g, t, b.start)) \in Nat
          /\ Cardinality(Passed(g, b.start, late)) \in Nat
          /\ Cardinality(Passed(g, t, late)) \in Nat
          /\ Cardinality(Passed(g, b.start, end)) \in Nat
      BY <1>1, <1>4, <2>0
    <3>6. Cardinality(Passed(g, t, late)) <= 2 * l
      BY <1>10, <3>2, <3>3, <3>4, <3>5
    <3>7. QED
      BY <3>6 DEF late
  <2>3. QED
    BY <1>1, <2>0, <2>1, <2>2
<1>13. FewPassed(b, g, l)
  BY <1>4, <1>10, <1>11, <1>12 DEF FewPassed
<1>14. QED
  BY <1>9, <1>13 DEF g

\* A tick passes.
LEMMA LaterEffect ==
  ASSUME NEW b, NEW f, NEW now \in Nat, InTime(b, f, now)
  PROVE  InTime(b, f, now + 1)
<1>1. b.start \in Int /\ \A u \in 0..LastTick : u \in Int
  BY AttemptNumbers DEF InTime, Bucket
<1>2. QED
  BY <1>1 DEF InTime

AttemptsInv ==
  /\ clock \in 0..LastTick
  /\ bucket \in [Subject -> Bucket]
  /\ forwarded \in [Subject -> [0..LastTick -> 0..MaxAttempts]]
  /\ \A s \in Subject : /\ InTime(bucket[s], forwarded[s], clock)
                        /\ FewPassed(bucket[s], forwarded[s], AttemptLimit[s])

LEMMA AttemptsInvTypes == AttemptsInv => AttemptsTypeOK /\ AttemptsLimited
<1> SUFFICES ASSUME AttemptsInv PROVE AttemptsTypeOK /\ AttemptsLimited
  OBVIOUS
<1>1. AttemptsTypeOK
  BY DEF AttemptsInv, AttemptsTypeOK, Bucket
<1>2. ASSUME NEW s \in Subject
      PROVE  /\ \A t \in 0..LastTick : ForwardedFrom(s, t) <= 2 * AttemptLimit[s]
             /\ ForwardedFrom(s, bucket[s].start) <= AttemptLimit[s]
  BY AttemptNumbers DEF AttemptsInv, FewPassed, ForwardedFrom
<1>3. QED
  BY <1>1, <1>2 DEF AttemptsLimited

LEMMA AttemptsInitInv == AttemptsInit => AttemptsInv
<1> SUFFICES ASSUME AttemptsInit PROVE AttemptsInv
  OBVIOUS
<1> DEFINE b == [start |-> 0, count |-> 0]
           f == [t \in 0..LastTick |-> 0]
<1>1. b \in Bucket /\ f \in [0..LastTick -> 0..MaxAttempts] /\ 0 \in 0..LastTick
  BY AttemptNumbers DEF Bucket
<1>2. InTime(b, f, 0)
  BY <1>1 DEF InTime
<1>3. \A t, e \in Int : Passed(f, t, e) = {}
  <2>1. \A u \in 0..LastTick : 1..f[u] = {}
    OBVIOUS
  <2>2. QED
    BY <2>1 DEF Passed
<1>4. \A t, e \in Int : IsFiniteSet(Passed(f, t, e)) /\ Cardinality(Passed(f, t, e)) = 0
  BY <1>3, FS_EmptySet
<1>5. b.start = 0 /\ b.count = 0
  OBVIOUS
<1> HIDE DEF b, f
<1>6. ASSUME NEW l \in Nat
      PROVE  FewPassed(b, f, l)
  <2>1. \A t \in Int : t + LimitWindow \in Int
    BY AttemptNumbers
  <2>2. QED
    BY <1>4, <1>5, <2>1, AttemptNumbers DEF FewPassed
<1>7. \A s \in Subject : AttemptLimit[s] \in Nat
  BY AttemptAssumption
<1>8. bucket = [s \in Subject |-> b] /\ forwarded = [s \in Subject |-> f] /\ clock = 0
  BY DEF AttemptsInit, b, f
<1>9. QED
  BY <1>1, <1>2, <1>6, <1>7, <1>8 DEF AttemptsInv

LEMMA AttemptStep ==
  ASSUME AttemptsInv, NEW i \in Ip, NEW a \in Mailbox \cup {NoMailbox}, Attempt(i, a)
  PROVE  AttemptsInv'
<1> DEFINE charged == Charged(i, a)
           allowed == \A s \in charged : Within(s)
<1>1. /\ \A s \in charged : Counted(s).count <= MaxAttempts
      /\ bucket' = [s \in Subject |-> IF s \in charged THEN Counted(s) ELSE bucket[s]]
      /\ forwarded' = IF ~allowed THEN forwarded
                      ELSE [s \in Subject |->
                             IF s \in charged THEN [forwarded[s] EXCEPT ![clock] = @ + 1]
                                              ELSE forwarded[s]]
      /\ UNCHANGED clock
  BY DEF Attempt
<1> HIDE DEF charged
<1>2. ASSUME NEW s \in Subject
      PROVE  /\ InTime(bucket'[s], forwarded'[s], clock)
             /\ FewPassed(bucket'[s], forwarded'[s], AttemptLimit[s])
             /\ forwarded'[s] = forwarded[s] \/ forwarded'[s] = OneMore(forwarded[s], clock)
  <2>1. /\ InTime(bucket[s], forwarded[s], clock)
        /\ FewPassed(bucket[s], forwarded[s], AttemptLimit[s])
        /\ AttemptLimit[s] \in Nat
        /\ clock \in 0..LastTick
    BY AttemptAssumption DEF AttemptsInv
  <2>2. CASE s \notin charged
    BY <1>1, <2>1, <2>2 DEF AttemptsInv
  <2>3. CASE s \in charged
    <3>1. bucket'[s] = Recounted(bucket[s], clock)
      BY <1>1, <2>3 DEF Counted, InBucket, Recounted
    <3>2. Recounted(bucket[s], clock).count <= MaxAttempts
      BY <1>1, <2>3 DEF Counted, InBucket, Recounted
    <3>3. /\ InTime(bucket'[s], forwarded[s], clock)
          /\ FewPassed(bucket'[s], forwarded[s], AttemptLimit[s])
          /\ clock < bucket'[s].start + LimitWindow
          /\ bucket'[s].count > 0
          /\ Cardinality(Passed(forwarded[s], bucket'[s].start, bucket'[s].start + LimitWindow))
               < bucket'[s].count
      BY <2>1, <3>1, <3>2, CountEffect
    <3>4. CASE ~allowed
      <4>1. forwarded'[s] = forwarded[s]
        BY <1>1, <3>4
      <4>2. QED
        BY <3>3, <4>1
    <3>5. CASE allowed
      <4>1. forwarded'[s] = OneMore(forwarded[s], clock)
        BY <1>1, <2>3, <3>5 DEF OneMore
      <4>2. bucket'[s].count <= AttemptLimit[s]
        BY <1>1, <2>3, <3>5 DEF Within
      <4>3. QED
        BY <2>1, <3>3, <4>1, <4>2, ForwardEffect
    <3>6. QED
      BY <3>4, <3>5
  <2>4. QED
    BY <2>2, <2>3
<1>3. bucket' \in [Subject -> Bucket]
  <2>1. \A s \in Subject : bucket'[s] \in Bucket
    BY <1>2 DEF InTime
  <2>2. QED
    BY <1>1, <2>1
<1>4. forwarded' \in [Subject -> [0..LastTick -> 0..MaxAttempts]]
  <2>1. \A s \in Subject : forwarded'[s] \in [0..LastTick -> 0..MaxAttempts]
    BY <1>2 DEF InTime
  <2>2. CASE ~allowed
    <3>1. forwarded' = forwarded
      BY <1>1, <2>2
    <3>2. QED
      BY <3>1 DEF AttemptsInv
  <2>3. CASE allowed
    <3>1. forwarded' = [s \in Subject |->
                          IF s \in charged THEN [forwarded[s] EXCEPT ![clock] = @ + 1]
                                           ELSE forwarded[s]]
      BY <1>1, <2>3
    <3>2. DOMAIN forwarded' = Subject /\ forwarded' = [s \in Subject |-> forwarded'[s]]
      BY <3>1
    <3>3. QED
      BY <2>1, <3>2
  <2>4. QED
    BY <2>2, <2>3
<1>5. QED
  BY <1>1, <1>2, <1>3, <1>4 DEF AttemptsInv

LEMMA PassesStep ==
  ASSUME AttemptsInv, Passes
  PROVE  AttemptsInv'
<1>1. clock \in Nat /\ clock < LastTick /\ clock' = clock + 1 /\ UNCHANGED <<bucket, forwarded>>
  BY AttemptNumbers DEF AttemptsInv, Passes
<1>2. clock' \in 0..LastTick
  BY <1>1, AttemptNumbers
<1>3. \A s \in Subject : InTime(bucket[s], forwarded[s], clock')
  BY <1>1, LaterEffect DEF AttemptsInv
<1>4. QED
  BY <1>1, <1>2, <1>3 DEF AttemptsInv

LEMMA AttemptsInvariant == AttemptsSpec => []AttemptsInv
<1>1. AttemptsInv /\ [AttemptsNext]_attemptVars => AttemptsInv'
  <2>1. CASE UNCHANGED attemptVars
    BY <2>1 DEF attemptVars, AttemptsInv
  <2>2. QED
    BY <2>1, AttemptStep, PassesStep DEF AttemptsNext
<1>2. QED
  BY <1>1, AttemptsInitInv, PTL DEF AttemptsSpec

\* Buckets, counts of attempts and the clock keep their types.
THEOREM AttemptsTypes == AttemptsSpec => []AttemptsTypeOK
  BY AttemptsInvariant, AttemptsInvTypes, PTL

\* Whatever the clients try, within any stretch as long as a window no subject gets more
\* than two limits through, and in the window of its bucket one (AuthRateLimiter.#consume).
THEOREM AttemptsLimitedHolds == AttemptsSpec => []AttemptsLimited
  BY AttemptsInvariant, AttemptsInvTypes, PTL

===========================================================================
