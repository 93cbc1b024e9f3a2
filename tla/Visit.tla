------------------------------- MODULE Visit -------------------------------
(***************************************************************************)
(* One tab of the web application: what it knows of the session, its       *)
(* routes and the notice of an expired session, the gate that wants an     *)
(* active organization with a plan account, and the starts of the          *)
(* workspace that follow, each of them abandoned when its page goes.       *)
(*                                                                         *)
(* The answers of the control plane are Organization's and Starts's: here  *)
(* a workspace has any state that an answer may name.                      *)
(***************************************************************************)
EXTENDS Naturals

CONSTANTS
  Org,         \* organizations
  Run,         \* starts, bound: of those that are under way in a tab
  NoOrg, NoRun,
  MaxPolls,    \* provisioningAttempts
  MaxProbes    \* runtimeAttempts

ASSUME VisitAssumption ==
  NoOrg \notin Org /\ NoRun \notin Run /\ MaxPolls \in Nat /\ MaxProbes \in Nat \ {0}

VARIABLES
  signedIn,   \* the server has the session of the tab's cookie
  active,     \* the active organization of that session
  account,    \* organizations: "absent", "bare" without a plan account, "full"
  known,      \* the client's copy of the session: "pending", "yes", "no"
  asking,     \* it is being fetched
  path,       \* the route
  had,        \* this mount of the route had a session
  notice,     \* the login page says that the session expired
  stored,     \* it will after a reload, from sessionStorage
  gate,       \* "closed", "loading", "setup" or "open"
  org,        \* the organization it let through
  setup,      \* the step of setting an organization up
  run,        \* the starts
  current,    \* the start of the mounted page
  shown       \* what the page shows of a start, and of which

serverVars == <<signedIn, active, account>>
sessionVars == <<known, asking, path, had, notice, stored>>
gateVars == <<gate, org, setup>>
startupVars == <<run, current, shown>>
visitVars == <<serverVars, sessionVars, gateVars, startupVars>>

Requests == {"resolving", "scheduling", "refreshing", "probing"}
Timers == {"waiting", "pausing"}
NotRun == [stage |-> "none", org |-> NoOrg, count |-> 0, aborted |-> FALSE, denied |-> FALSE]
Blank == [what |-> "blank", of |-> NoRun]
NoSetup == [step |-> "none", org |-> NoOrg]

---------------------------------------------------------------------------
(* Starting a workspace *)

\* Timers and the probe end with the signal, the other requests go on.
Abandoned(x) ==
  IF x.stage \in Timers \cup {"probing"} THEN [x EXCEPT !.stage = "over"]
                                         ELSE [x EXCEPT !.aborted = TRUE]

\* The clean-up of the effect.
Left == [r \in Run |-> IF r = current THEN Abandoned(run[r]) ELSE run[r]]

LeavePage ==
  /\ run' = Left
  /\ current' = NoRun
  /\ shown' = Blank

\* The effect: a new start in place of the one before.
Begin(o) ==
  \E r \in Run :
    /\ Left[r].stage \in {"none", "over"}
    /\ run' = [Left EXCEPT ![r] = [NotRun EXCEPT !.stage = "resolving", !.org = o]]
    /\ current' = r
    /\ shown' = [what |-> "resolving", of |-> r]

\* Mutant: so is what comes of a start whose page is gone.
ShowsAnyway(r, what) == shown' = [what |-> what, of |-> r]

\* What comes of a start whose page is gone is dropped.
Shows(r, what) == shown' = IF r = current THEN [what |-> what, of |-> r] ELSE shown

Goes(r, stage, count) ==
  run' = [run EXCEPT ![r] = [@ EXCEPT !.stage = stage, !.count = count]]

Fails(r) == Goes(r, "over", 0) /\ Shows(r, "error")

\* throwIfAborted, before anything else is asked for.
Silent(r) == run[r].aborted /\ Goes(r, "over", 0) /\ UNCHANGED shown

\* An answer that is not a refusal was given while the session was there.
AnsweredTo(r, stage) == run[r].stage = stage /\ signedIn /\ ~run[r].denied

\* The workspace may be ready, or a start of it is asked for.
ResolveWorkspace(r) ==
  /\ AnsweredTo(r, "resolving")
  /\ \/ Silent(r)
     \/ ~run[r].aborted /\ Goes(r, "probing", 0) /\ Shows(r, "starting")
     \/ ~run[r].aborted /\ Goes(r, "scheduling", 0) /\ Shows(r, "provisioning")
  /\ UNCHANGED <<serverVars, sessionVars, gateVars, current>>

\* It is polled until it is ready or failed, so often.
Polled(r, polls) ==
  \/ Silent(r)
  \/ ~run[r].aborted /\ Goes(r, "probing", 0) /\ Shows(r, "starting")
  \/ ~run[r].aborted /\ polls < MaxPolls /\ Goes(r, "waiting", polls) /\ UNCHANGED shown
  \/ ~run[r].aborted /\ Fails(r)

ScheduleStart(r) ==
  /\ \/ AnsweredTo(r, "scheduling") /\ Polled(r, 0)
     \/ AnsweredTo(r, "refreshing") /\ Polled(r, run[r].count + 1)
  /\ UNCHANGED <<serverVars, sessionVars, gateVars, current>>

Unready(r) ==
  IF run[r].count + 1 < MaxProbes THEN Goes(r, "pausing", run[r].count + 1) /\ UNCHANGED shown
                                  ELSE Fails(r)

\* Whatever goes wrong with a probe, it is made again.
ProbeRuntime(r) ==
  /\ run[r].stage = "probing" /\ ~run[r].denied
  /\ \/ signedIn /\ Goes(r, "over", 0) /\ Shows(r, "workspace")
     \/ Unready(r)
  /\ UNCHANGED <<serverVars, sessionVars, gateVars, current>>

\* No answer, or one that is no use.
RequestFails(r) ==
  /\ run[r].stage \in Requests \ {"probing"} /\ ~run[r].denied
  /\ Fails(r)
  /\ UNCHANGED <<serverVars, sessionVars, gateVars, current>>

TimerEnds(r) ==
  /\ \/ run[r].stage = "waiting" /\ Goes(r, "refreshing", run[r].count)
     \/ run[r].stage = "pausing" /\ Goes(r, "probing", run[r].count)
  /\ UNCHANGED <<serverVars, sessionVars, gateVars, current, shown>>

Retry ==
  /\ shown.what = "error"
  /\ Begin(org)
  /\ UNCHANGED <<serverVars, sessionVars, gateVars>>

---------------------------------------------------------------------------
(* The session *)

Cloud(p) == p # "public"

\* The server refuses a request; the answer may come late, after the next sign-in.
Deny(r) ==
  /\ run[r].stage \in Requests /\ ~signedIn /\ ~run[r].denied
  /\ run' = [run EXCEPT ![r].denied = TRUE]
  /\ UNCHANGED <<serverVars, sessionVars, gateVars, current, shown>>

\* notifySessionExpired: the flag, and the event if somebody listens.
NotifyExpired ==
  /\ stored' = TRUE
  /\ notice' = (notice \/ Cloud(path))
  /\ asking' = (asking \/ Cloud(path))
  /\ UNCHANGED <<known, path, had>>

ObserveRefusal(r) ==
  /\ run[r].denied /\ run[r].stage \in Requests
  /\ IF run[r].stage = "probing" THEN Unready(r) ELSE Fails(r)
  /\ NotifyExpired
  /\ UNCHANGED <<serverVars, gateVars, current>>

\* So is one of the requests that the pages of an open workspace make.
RuntimeRefuses ==
  /\ shown.what = "workspace" /\ ~signedIn
  /\ NotifyExpired
  /\ UNCHANGED <<serverVars, gateVars, startupVars>>

\* authenticationRedirect.
Redirected(p, k) ==
  IF k = "pending" THEN p
  ELSE IF p = "callback" THEN IF k = "yes" THEN "app" ELSE "login"
  ELSE IF k = "no" /\ p = "app" THEN "login"
  ELSE IF k = "yes" /\ p = "login" THEN "app"
  ELSE p

InApp == path = "app" /\ known = "yes"

\* The route is rendered with p and k; its effects run, and redirect.  A page
\* that was not left goes on.
Rendered(p, k) ==
  LET lost == k = "no" /\ had /\ p # "login"
  IN /\ known' = k
     /\ path' = Redirected(p, k)
     /\ had' = (had \/ k = "yes")
     /\ notice' = (notice \/ lost)
     /\ stored' = (stored \/ lost)
     /\ IF InApp /\ p = "app" /\ k = "yes"
          THEN UNCHANGED <<gateVars, startupVars>>
          ELSE /\ gate' = IF k = "yes" /\ path' = "app" THEN "loading" ELSE "closed"
               /\ org' = NoOrg /\ setup' = NoSetup
               /\ LeavePage

\* A session that could not be fetched counts as none, or the route goes to login.
SessionAnswer ==
  /\ asking /\ Cloud(path)
  /\ \/ Rendered(path, IF signedIn THEN "yes" ELSE "no")
     \/ Rendered(path, "no")
     \/ known # "pending" /\ Rendered("login", known)
  /\ asking' = FALSE
  /\ UNCHANGED serverVars

SignIn ==
  /\ known = "no" /\ path \in {"login", "invite"}
  /\ signedIn' = TRUE
  /\ stored' = FALSE /\ notice' = FALSE
  /\ asking' = TRUE
  /\ UNCHANGED <<active, account, known, path, had, gateVars, startupVars>>

\* The route to login is taken before the client knows that the session is gone.
SignOut ==
  /\ InApp
  /\ signedIn' = FALSE
  /\ Rendered("login", known)
  /\ asking' = TRUE
  /\ UNCHANGED <<active, account>>

SessionEnds ==
  /\ signedIn
  /\ signedIn' = FALSE
  /\ UNCHANGED <<active, account, sessionVars, gateVars, startupVars>>

\* The route is mounted: it takes the flag.
Mounts(p, k) ==
  /\ notice' = stored /\ stored' = FALSE
  /\ asking' = TRUE
  /\ known' = k /\ had' = (k = "yes")
  /\ path' = Redirected(p, k)
  /\ gate' = IF k = "yes" /\ path' = "app" THEN "loading" ELSE "closed"
  /\ org' = NoOrg /\ setup' = NoSetup

OpenRoute(p) ==
  /\ ~Cloud(path)
  /\ Mounts(p, known)
  /\ UNCHANGED <<serverVars, startupVars>>

LeaveRoute ==
  /\ Cloud(path)
  /\ path' = "public" /\ notice' = FALSE /\ had' = FALSE /\ asking' = FALSE
  /\ gate' = "closed" /\ org' = NoOrg /\ setup' = NoSetup
  /\ LeavePage
  /\ UNCHANGED <<serverVars, known, stored>>

\* The starts are gone with the document.
NewDocument ==
  /\ Mounts(path, "pending")
  /\ run' = [r \in Run |-> NotRun] /\ current' = NoRun /\ shown' = Blank

Reload == Cloud(path) /\ NewDocument /\ UNCHANGED serverVars

---------------------------------------------------------------------------
(* The gate *)

\* An organization counts if it is among the plan accounts as well.
Listed(o) == o \in Org /\ account[o] = "full"

\* The three queries of the gate are answered.
GateAnswers ==
  /\ setup' = NoSetup
  /\ \/ /\ Listed(active)
        /\ gate' = "open" /\ org' = active
        /\ Begin(active)
     \/ /\ ~Listed(active)
        /\ gate' = "setup" /\ org' = NoOrg
        /\ UNCHANGED startupVars

LoadGate ==
  /\ gate = "loading" /\ signedIn
  /\ GateAnswers
  /\ UNCHANGED <<serverVars, sessionVars>>

Step(step, o) == setup.step = step /\ setup.org = o /\ gate = "setup"

\* Back from the set-up to the organization that is active still.
BackToPage ==
  /\ Step("none", NoOrg) /\ Listed(active)
  /\ GateAnswers
  /\ UNCHANGED <<serverVars, sessionVars>>

\* Another tab makes another organization the active one.
SwitchElsewhere(o) ==
  /\ gate = "open" /\ signedIn /\ Listed(o) /\ o # org
  /\ active' = o
  /\ org' = o /\ Begin(o)
  /\ UNCHANGED <<signedIn, account, sessionVars, gate, setup>>

\* The menu makes another organization the active one and reloads.
SwitchOrganization(o) ==
  /\ gate = "open" /\ signedIn /\ Listed(o) /\ o # org
  /\ active' = o
  /\ NewDocument
  /\ UNCHANGED <<signedIn, account>>

AddOrganization ==
  /\ gate = "open"
  /\ gate' = "setup" /\ org' = NoOrg
  /\ LeavePage
  /\ UNCHANGED <<serverVars, sessionVars, setup>>

\* Better Auth makes an organization that is created the active one.
CreateOrganization(o) ==
  /\ Step("none", NoOrg) /\ signedIn /\ account[o] = "absent"
  /\ account' = [account EXCEPT ![o] = "bare"]
  /\ active' = o
  /\ setup' = [step |-> "account", org |-> o]
  /\ UNCHANGED <<signedIn, sessionVars, gate, org, startupVars>>

CreateAccount(o) ==
  /\ Step("account", o) /\ signedIn
  /\ account' = [account EXCEPT ![o] = "full"]
  /\ setup' = [step |-> "select", org |-> o]
  /\ UNCHANGED <<signedIn, active, sessionVars, gate, org, startupVars>>

\* One that is listed, or was joined just now.
ChooseOrganization(o) ==
  /\ Step("none", NoOrg) /\ signedIn /\ account[o] # "bare"
  /\ account' = [account EXCEPT ![o] = "full"]
  /\ setup' = [step |-> "select", org |-> o]
  /\ UNCHANGED <<signedIn, active, sessionVars, gate, org, startupVars>>

SetActive(o) ==
  /\ Step("select", o) /\ signedIn
  /\ active' = o
  /\ setup' = [step |-> "refetch", org |-> o]
  /\ UNCHANGED <<signedIn, account, sessionVars, gate, org, startupVars>>

Refetch(o) ==
  /\ Step("refetch", o) /\ signedIn
  /\ GateAnswers
  /\ UNCHANGED <<serverVars, sessionVars>>

\* What was done stays; the user may begin again.
SetupFails ==
  /\ setup.step # "none"
  /\ setup' = NoSetup
  /\ UNCHANGED <<serverVars, sessionVars, gate, org, startupVars>>

---------------------------------------------------------------------------
VisitInit ==
  /\ signedIn \in BOOLEAN
  /\ account \in [Org -> {"absent", "full"}]
  /\ active \in {NoOrg} \cup {o \in Org : account[o] = "full"}
  /\ known = "pending" /\ asking = TRUE
  /\ path \in {"login", "app", "callback", "invite"}
  /\ had = FALSE /\ notice = FALSE /\ stored = FALSE
  /\ gate = "closed" /\ org = NoOrg /\ setup = NoSetup
  /\ run = [r \in Run |-> NotRun] /\ current = NoRun /\ shown = Blank

VisitNext ==
  \/ \E r \in Run :
       ResolveWorkspace(r) \/ ScheduleStart(r) \/ ProbeRuntime(r) \/ RequestFails(r)
       \/ TimerEnds(r) \/ Deny(r) \/ ObserveRefusal(r)
  \/ Retry \/ SessionAnswer \/ SignIn \/ SignOut \/ SessionEnds \/ LeaveRoute \/ Reload
  \/ \E p \in {"login", "app", "invite"} : OpenRoute(p)
  \/ RuntimeRefuses \/ LoadGate \/ BackToPage \/ AddOrganization \/ SetupFails
  \/ \E o \in Org :
       SwitchElsewhere(o) \/ SwitchOrganization(o) \/ CreateOrganization(o)
       \/ CreateAccount(o) \/ ChooseOrganization(o) \/ SetActive(o) \/ Refetch(o)

---------------------------------------------------------------------------
(* Properties *)

VisitTypeOK ==
  /\ signedIn \in BOOLEAN /\ active \in Org \cup {NoOrg}
  /\ account \in [Org -> {"absent", "bare", "full"}]
  /\ known \in {"pending", "yes", "no"} /\ path \in {"public", "login", "app", "callback", "invite"}
  /\ {asking, had, notice, stored} \subseteq BOOLEAN
  /\ gate \in {"closed", "loading", "setup", "open"} /\ org \in Org \cup {NoOrg}
  /\ setup.step \in {"none", "account", "select", "refetch"} /\ setup.org \in Org \cup {NoOrg}
  /\ \A r \in Run :
       /\ run[r].stage \in {"none", "over"} \cup Requests \cup Timers
       /\ run[r].org \in Org \cup {NoOrg} /\ run[r].count \in 0..(MaxPolls + MaxProbes)
       /\ {run[r].aborted, run[r].denied} \subseteq BOOLEAN
  /\ current \in Run \cup {NoRun} /\ shown.of \in Run \cup {NoRun}

\* What a page shows is of its own start, which is one of the organization that
\* is active in it and that has a plan account, whatever starts were left before
\* and answer now (the effect of AuthenticatedCloudApp, OrganizationGate).
StartIsOfPage ==
  /\ shown.of = current
  /\ gate = "open" <=> current # NoRun
  /\ current # NoRun => InApp /\ run[current].org = org /\ account[org] = "full"

\* A start that was left asks for nothing more (throwIfAborted), and nobody who
\* was in the application is asked to sign in again without being told why
\* (CloudSessionRoute).
LeftIsSilent ==
  [][/\ \A r \in Run : run[r].aborted /\ run'[r].aborted => run'[r].stage \in {run[r].stage, "over"}
     /\ InApp /\ path' = "login" => notice']_visitVars
=============================================================================
