------------------------------ MODULE WebProofs ------------------------------
(***************************************************************************)
(* Proofs about the pages of the web application, each for any             *)
(* organizations, requests, ranges and sockets: a visit with its session,  *)
(* gate and starts, the usage page and the terminals.                      *)
(***************************************************************************)
EXTENDS Visit, UsageView, Terminals, FiniteSetTheorems, TLAPS

VisitSpec == VisitInit /\ [][VisitNext]_visitVars

UsageViewSpec == UsageViewInit /\ [][UsageViewNext]_usageViewVars

TerminalsSpec == TerminalsInit /\ [][TerminalsNext]_terminalVars

---------------------------------------------------------------------------
(* A visit *)

Stages == {"none", "over"} \cup Requests \cup Timers

Runs == [stage : Stages, org : Org \cup {NoOrg}, count : 0..(MaxPolls + MaxProbes),
         aborted : BOOLEAN, denied : BOOLEAN]

ShownThings == {"blank", "resolving", "provisioning", "starting", "workspace", "error"}

\* A start that was left runs no timer and no probe.
RunsInv ==
  /\ run \in [Run -> Runs]
  /\ \A r \in Run : run[r].aborted => run[r].stage \notin Timers \cup {"probing"}

SessionInv ==
  /\ signedIn \in BOOLEAN /\ active \in Org \cup {NoOrg}
  /\ account \in [Org -> {"absent", "bare", "full"}]
  /\ known \in {"pending", "yes", "no"}
  /\ path \in {"public", "login", "app", "callback", "invite"}
  /\ asking \in BOOLEAN /\ had \in BOOLEAN /\ notice \in BOOLEAN /\ stored \in BOOLEAN
  /\ known = "yes" /\ Cloud(path) => had

GateInv ==
  /\ gate \in {"closed", "loading", "setup", "open"}
  /\ org \in Org \cup {NoOrg}
  /\ setup \in [step : {"none", "account", "select", "refetch"}, org : Org \cup {NoOrg}]
  /\ gate # "closed" => InApp
  /\ gate = "open" => org \in Org /\ account[org] = "full"

\* The mounted page has the start of the organization that the gate let through.
PageInv ==
  /\ current \in Run \cup {NoRun}
  /\ shown \in [what : ShownThings, of : Run \cup {NoRun}]
  /\ shown.of = current
  /\ current = NoRun => shown = Blank
  /\ gate = "open" <=> current # NoRun
  /\ current # NoRun => run[current].org = org /\ ~run[current].aborted

VisitInv == SessionInv /\ GateInv /\ RunsInv /\ PageInv

\* The step that LeftIsSilent speaks of.
SilentRuns ==
  \A r \in Run : run[r].aborted /\ run'[r].aborted => run'[r].stage \in {run[r].stage, "over"}

Explained == InApp /\ path' = "login" => notice'

LEMMA VisitInvTypes == VisitInv => VisitTypeOK /\ StartIsOfPage
<1> SUFFICES ASSUME VisitInv PROVE VisitTypeOK /\ StartIsOfPage
  OBVIOUS
<1>1. VisitTypeOK
  <2>1. \A r \in Run : run[r] \in Runs
    BY DEF VisitInv, RunsInv
  <2>2. \A r \in Run :
          /\ run[r].stage \in {"none", "over"} \cup Requests \cup Timers
          /\ run[r].org \in Org \cup {NoOrg} /\ run[r].count \in 0..(MaxPolls + MaxProbes)
          /\ {run[r].aborted, run[r].denied} \subseteq BOOLEAN
    BY <2>1 DEF Runs, Stages
  <2>3. QED
    BY <2>2 DEF VisitTypeOK, VisitInv, SessionInv, GateInv, PageInv
<1>2. StartIsOfPage
  BY VisitAssumption DEF StartIsOfPage, VisitInv, GateInv, PageInv
<1>3. QED
  BY <1>1, <1>2

\* A start is abandoned: what has no signal to end it goes on in silence.
LEMMA AbandonedEffect ==
  ASSUME NEW x \in Runs, x.aborted => x.stage \notin Timers \cup {"probing"}
  PROVE  /\ Abandoned(x) \in Runs
         /\ Abandoned(x).aborted => Abandoned(x).stage \notin Timers \cup {"probing"}
         /\ x.aborted => Abandoned(x).stage \in {x.stage, "over"}
<1>1. CASE x.stage \in Timers \cup {"probing"}
  <2>1. Abandoned(x) = [x EXCEPT !.stage = "over"]
    BY <1>1 DEF Abandoned
  <2>2. ~x.aborted
    BY <1>1
  <2>3. QED
    BY <2>1, <2>2 DEF Runs, Stages, Timers
<1>2. CASE x.stage \notin Timers \cup {"probing"}
  <2>1. Abandoned(x) = [x EXCEPT !.aborted = TRUE]
    BY <1>2 DEF Abandoned
  <2>2. QED
    BY <1>2, <2>1 DEF Runs
<1>3. QED
  BY <1>1, <1>2

LEMMA LeftEffect ==
  ASSUME RunsInv
  PROVE  /\ Left \in [Run -> Runs]
         /\ \A r \in Run :
              /\ Left[r].aborted => Left[r].stage \notin Timers \cup {"probing"}
              /\ run[r].aborted => Left[r].stage \in {run[r].stage, "over"}
<1>1. ASSUME NEW r \in Run
      PROVE  /\ Left[r] \in Runs
             /\ Left[r].aborted => Left[r].stage \notin Timers \cup {"probing"}
             /\ run[r].aborted => Left[r].stage \in {run[r].stage, "over"}
  <2>1. run[r] \in Runs /\ (run[r].aborted => run[r].stage \notin Timers \cup {"probing"})
    BY DEF RunsInv
  <2>2. Left[r] = Abandoned(run[r]) \/ Left[r] = run[r]
    BY DEF Left
  <2>3. QED
    BY <2>1, <2>2, AbandonedEffect
<1>2. QED
  BY <1>1 DEF Left

LEMMA LeavePageEffect ==
  ASSUME RunsInv, LeavePage
  PROVE  RunsInv' /\ SilentRuns /\ current' = NoRun /\ shown' = Blank
  BY LeftEffect DEF LeavePage, RunsInv, SilentRuns

\* A new start takes the place of the one before.
LEMMA BeginEffect ==
  ASSUME RunsInv, NEW o \in Org, Begin(o)
  PROVE  /\ RunsInv' /\ SilentRuns
         /\ current' \in Run
         /\ run'[current'].org = o /\ ~run'[current'].aborted
         /\ shown' = [what |-> "resolving", of |-> current']
<1> DEFINE new == [NotRun EXCEPT !.stage = "resolving", !.org = o]
<1>1. PICK r \in Run : /\ run' = [Left EXCEPT ![r] = new]
                       /\ current' = r
                       /\ shown' = [what |-> "resolving", of |-> r]
  BY DEF Begin
<1>2. new \in Runs /\ new.org = o /\ new.aborted = FALSE
  <2>1. 0 \in 0..(MaxPolls + MaxProbes)
    BY VisitAssumption
  <2>2. "resolving" \in Stages /\ "none" \in Stages
    BY DEF Stages, Requests
  <2>3. NotRun \in Runs /\ NotRun.aborted = FALSE
    BY <2>1, <2>2 DEF NotRun, Runs
  <2>4. QED
    BY <2>2, <2>3 DEF Runs
<1> HIDE DEF new
<1>3. run' \in [Run -> Runs] /\ run'[r] = new /\ \A q \in Run \ {r} : run'[q] = Left[q]
  BY <1>1, <1>2, LeftEffect
<1>4. QED
  BY <1>1, <1>2, <1>3, LeftEffect DEF RunsInv, SilentRuns

\* A start goes on to another stage; the page shows what comes of its own.
LEMMA GoesEffect ==
  ASSUME VisitInv, NEW r \in Run, NEW stage \in Stages, NEW count \in 0..(MaxPolls + MaxProbes),
         Goes(r, stage, count), run[r].aborted => stage = "over",
         NEW what \in ShownThings, UNCHANGED shown \/ Shows(r, what),
         UNCHANGED <<current, gate, org>>
  PROVE  RunsInv' /\ SilentRuns /\ PageInv'
<1> DEFINE new == [run[r] EXCEPT !.stage = stage, !.count = count]
<1>1. run[r] \in Runs /\ run \in [Run -> Runs]
  BY DEF VisitInv, RunsInv
<1>2. /\ new \in Runs /\ new.stage = stage
      /\ new.org = run[r].org /\ new.aborted = run[r].aborted
  BY <1>1 DEF Runs
<1>3. run' = [run EXCEPT ![r] = new]
  BY DEF Goes
<1> HIDE DEF new
<1>4. run' \in [Run -> Runs] /\ run'[r] = new /\ \A q \in Run \ {r} : run'[q] = run[q]
  BY <1>1, <1>2, <1>3
<1>5. RunsInv' /\ SilentRuns
  <2>1. "over" \notin Timers \cup {"probing"}
    BY DEF Timers
  <2>2. QED
    BY <1>2, <1>4, <2>1 DEF VisitInv, RunsInv, SilentRuns
<1>6. /\ current \in Run => /\ run'[current].org = run[current].org
                            /\ run'[current].aborted = run[current].aborted
  BY <1>2, <1>4
<1>7. /\ shown' \in [what : ShownThings, of : Run \cup {NoRun}]
      /\ shown'.of = current
      /\ current = NoRun => shown' = Blank
  BY VisitAssumption DEF Shows, VisitInv, PageInv
<1>8. PageInv'
  BY <1>6, <1>7 DEF VisitInv, PageInv
<1>9. QED
  BY <1>5, <1>8

LEMMA CountBounds ==
  /\ 0 \in 0..(MaxPolls + MaxProbes)
  /\ \A n \in 0..(MaxPolls + MaxProbes) :
       /\ n \in Nat
       /\ n + 1 < MaxPolls \/ n + 1 < MaxProbes => n + 1 \in 0..(MaxPolls + MaxProbes)
  BY VisitAssumption

\* What a step of a start may change.
RunStep == VisitInv' /\ SilentRuns /\ Explained

LEMMA GoesStep ==
  ASSUME VisitInv, NEW r \in Run, NEW stage \in Stages, NEW count \in 0..(MaxPolls + MaxProbes),
         Goes(r, stage, count), run[r].aborted => stage = "over",
         NEW what \in ShownThings, UNCHANGED shown \/ Shows(r, what),
         UNCHANGED <<current, serverVars, gateVars, known, path, had>>,
         UNCHANGED <<asking, notice, stored>> \/ NotifyExpired
  PROVE  RunStep
<1>1. /\ UNCHANGED <<current, gate, org, setup>>
      /\ UNCHANGED <<signedIn, active, account, known, path, had>>
  BY DEF gateVars, serverVars
<1>2. asking' \in BOOLEAN /\ notice' \in BOOLEAN /\ stored' \in BOOLEAN
  BY DEF NotifyExpired, VisitInv, SessionInv, Cloud
<1>3. SessionInv' /\ GateInv'
  BY <1>1, <1>2 DEF VisitInv, SessionInv, GateInv, Cloud, InApp
<1>4. RunsInv' /\ SilentRuns /\ PageInv'
  BY <1>1, GoesEffect
<1>5. Explained
  BY <1>1 DEF Explained, InApp
<1>6. QED
  BY <1>3, <1>4, <1>5 DEF RunStep, VisitInv

LEMMA FailsStep ==
  ASSUME VisitInv, NEW r \in Run, Fails(r),
         UNCHANGED <<current, serverVars, gateVars, known, path, had>>,
         UNCHANGED <<asking, notice, stored>> \/ NotifyExpired
  PROVE  RunStep
<1>1. Goes(r, "over", 0) /\ Shows(r, "error") /\ "over" \in Stages /\ "error" \in ShownThings
  BY DEF Fails, Stages, ShownThings
<1>2. QED
  BY <1>1, GoesStep, CountBounds

LEMMA SilentStep ==
  ASSUME VisitInv, NEW r \in Run, Silent(r),
         UNCHANGED <<current, serverVars, gateVars, sessionVars>>
  PROVE  RunStep
<1>1. Goes(r, "over", 0) /\ UNCHANGED shown /\ "over" \in Stages /\ "error" \in ShownThings
  BY DEF Silent, Stages, ShownThings
<1>2. UNCHANGED <<known, path, had>> /\ UNCHANGED <<asking, notice, stored>>
  BY DEF sessionVars
<1>3. QED
  BY <1>1, <1>2, GoesStep, CountBounds

\* A probe whose answer is no use; the start was not left.
LEMMA UnreadyStep ==
  ASSUME VisitInv, NEW r \in Run, run[r].stage = "probing", Unready(r),
         UNCHANGED <<current, serverVars, gateVars, known, path, had>>,
         UNCHANGED <<asking, notice, stored>> \/ NotifyExpired
  PROVE  RunStep
<1>1. CASE run[r].count + 1 < MaxProbes
  <2>1. Goes(r, "pausing", run[r].count + 1) /\ UNCHANGED shown
    BY <1>1 DEF Unready
  <2>2. ~run[r].aborted /\ run[r].count + 1 \in 0..(MaxPolls + MaxProbes)
    BY <1>1, CountBounds DEF VisitInv, RunsInv, Runs
  <2>3. "pausing" \in Stages /\ "error" \in ShownThings
    BY DEF Stages, Timers, ShownThings
  <2>4. QED
    BY <2>1, <2>2, <2>3, GoesStep
<1>2. CASE ~(run[r].count + 1 < MaxProbes)
  BY <1>2, FailsStep DEF Unready
<1>3. QED
  BY <1>1, <1>2

LEMMA PolledStep ==
  ASSUME VisitInv, NEW r \in Run, NEW polls \in Nat, Polled(r, polls),
         UNCHANGED <<current, serverVars, gateVars, sessionVars>>
  PROVE  RunStep
<1>1. UNCHANGED <<known, path, had>> /\ UNCHANGED <<asking, notice, stored>>
  BY DEF sessionVars
<1>2. CASE Silent(r)
  BY <1>2, SilentStep
<1>3. CASE ~run[r].aborted /\ Goes(r, "probing", 0) /\ Shows(r, "starting")
  <2>1. "probing" \in Stages /\ "starting" \in ShownThings
    BY DEF Stages, Requests, ShownThings
  <2>2. QED
    BY <1>1, <1>3, <2>1, GoesStep, CountBounds
<1>4. CASE ~run[r].aborted /\ polls < MaxPolls /\ Goes(r, "waiting", polls) /\ UNCHANGED shown
  <2>1. "waiting" \in Stages /\ "starting" \in ShownThings
    BY DEF Stages, Timers, ShownThings
  <2>2. polls \in 0..(MaxPolls + MaxProbes)
    BY <1>4, VisitAssumption
  <2>3. QED
    BY <1>1, <1>4, <2>1, <2>2, GoesStep
<1>5. CASE ~run[r].aborted /\ Fails(r)
  BY <1>1, <1>5, FailsStep
<1>6. QED
  BY <1>2, <1>3, <1>4, <1>5 DEF Polled

LEMMA AskingStep ==
  ASSUME VisitInv, NEW r \in Run,
         ResolveWorkspace(r) \/ ScheduleStart(r) \/ ProbeRuntime(r) \/ RequestFails(r)
  PROVE  RunStep
<1>1. /\ UNCHANGED <<current, serverVars, gateVars, sessionVars>>
      /\ UNCHANGED <<known, path, had>> /\ UNCHANGED <<asking, notice, stored>>
  BY DEF ResolveWorkspace, ScheduleStart, ProbeRuntime, RequestFails, sessionVars
<1>2. CASE ResolveWorkspace(r)
  <2>1. CASE Silent(r)
    BY <1>1, <2>1, SilentStep
  <2>2. CASE ~run[r].aborted /\ Goes(r, "probing", 0) /\ Shows(r, "starting")
    <3>1. "probing" \in Stages /\ "starting" \in ShownThings
      BY DEF Stages, Requests, ShownThings
    <3>2. QED
      BY <1>1, <2>2, <3>1, GoesStep, CountBounds
  <2>3. CASE ~run[r].aborted /\ Goes(r, "scheduling", 0) /\ Shows(r, "provisioning")
    <3>1. "scheduling" \in Stages /\ "provisioning" \in ShownThings
      BY DEF Stages, Requests, ShownThings
    <3>2. QED
      BY <1>1, <2>3, <3>1, GoesStep, CountBounds
  <2>4. QED
    BY <1>2, <2>1, <2>2, <2>3 DEF ResolveWorkspace
<1>3. CASE ScheduleStart(r)
  <2>1. Polled(r, 0) \/ Polled(r, run[r].count + 1)
    BY <1>3 DEF ScheduleStart
  <2>2. run[r].count + 1 \in Nat
    BY CountBounds DEF VisitInv, RunsInv, Runs
  <2>3. QED
    BY <1>1, <2>1, <2>2, PolledStep
<1>4. CASE ProbeRuntime(r)
  <2>1. run[r].stage = "probing" /\ ~run[r].aborted
    BY <1>4 DEF ProbeRuntime, VisitInv, RunsInv
  <2>2. CASE Goes(r, "over", 0) /\ Shows(r, "workspace")
    <3>1. "over" \in Stages /\ "workspace" \in ShownThings
      BY DEF Stages, ShownThings
    <3>2. QED
      BY <1>1, <2>2, <3>1, GoesStep, CountBounds
  <2>3. CASE Unready(r)
    BY <1>1, <2>1, <2>3, UnreadyStep
  <2>4. QED
    BY <1>4, <2>2, <2>3 DEF ProbeRuntime
<1>5. CASE RequestFails(r)
  BY <1>1, <1>5, FailsStep DEF RequestFails
<1>6. QED
  BY <1>2, <1>3, <1>4, <1>5

LEMMA TimerStep ==
  ASSUME VisitInv, NEW r \in Run, TimerEnds(r)
  PROVE  RunStep
<1>1. /\ UNCHANGED <<current, serverVars, gateVars, sessionVars, shown>>
      /\ UNCHANGED <<known, path, had>> /\ UNCHANGED <<asking, notice, stored>>
      /\ run[r].stage \in Timers
  BY DEF TimerEnds, sessionVars, Timers
<1>2. ~run[r].aborted /\ run[r].count \in 0..(MaxPolls + MaxProbes)
  BY <1>1 DEF VisitInv, RunsInv, Runs
<1>3. {"refreshing", "probing"} \subseteq Stages /\ "error" \in ShownThings
  BY DEF Stages, Requests, ShownThings
<1>4. PICK stage \in {"refreshing", "probing"} : Goes(r, stage, run[r].count)
  BY DEF TimerEnds
<1>5. QED
  BY <1>1, <1>2, <1>3, <1>4, GoesStep

LEMMA DenyStep ==
  ASSUME VisitInv, NEW r \in Run, Deny(r)
  PROVE  RunStep
<1> DEFINE new == [run[r] EXCEPT !.denied = TRUE]
<1>1. run[r] \in Runs
  BY DEF VisitInv, RunsInv
<1>2. /\ new \in Runs /\ new.stage = run[r].stage
      /\ new.org = run[r].org /\ new.aborted = run[r].aborted
  BY <1>1 DEF Runs
<1>3. run' = [run EXCEPT ![r] = new]
  BY DEF Deny
<1> HIDE DEF new
<1>4. run' \in [Run -> Runs] /\ run'[r] = new /\ \A q \in Run \ {r} : run'[q] = run[q]
  BY <1>2, <1>3 DEF VisitInv, RunsInv
<1>5. RunsInv' /\ SilentRuns
  BY <1>2, <1>4 DEF VisitInv, RunsInv, SilentRuns
<1>6. UNCHANGED <<serverVars, sessionVars, gateVars, current, shown>>
  BY DEF Deny
<1>7. SessionInv' /\ GateInv' /\ Explained
  BY <1>6 DEF VisitInv, SessionInv, GateInv, Explained, serverVars, sessionVars, gateVars,
              Cloud, InApp
<1>8. PageInv'
  BY <1>2, <1>4, <1>6 DEF VisitInv, PageInv, gateVars
<1>9. QED
  BY <1>5, <1>7, <1>8 DEF RunStep, VisitInv

LEMMA RefusalStep ==
  ASSUME VisitInv, NEW r \in Run, ObserveRefusal(r)
  PROVE  RunStep
<1>1. /\ UNCHANGED <<current, serverVars, gateVars, known, path, had>> /\ NotifyExpired
  BY DEF ObserveRefusal, NotifyExpired
<1>2. CASE run[r].stage = "probing"
  BY <1>1, <1>2, UnreadyStep DEF ObserveRefusal
<1>3. CASE run[r].stage # "probing"
  BY <1>1, <1>3, FailsStep DEF ObserveRefusal
<1>4. QED
  BY <1>2, <1>3

\* The effect of a route: it redirects, and its page may go.
LEMMA RenderedStep ==
  ASSUME VisitInv, NEW p, p = path \/ (p = "login" /\ known # "pending"),
         NEW k \in {"pending", "yes", "no"}, Cloud(path), Rendered(p, k),
         asking' \in BOOLEAN, signedIn' \in BOOLEAN, UNCHANGED <<active, account>>,
         p = "login" => k = known \/ path = "login"
  PROVE  RunStep
<1>1. /\ known' = k /\ path' = Redirected(p, k)
      /\ had' = (had \/ k = "yes")
      /\ notice' = (notice \/ (k = "no" /\ had /\ p # "login"))
      /\ stored' = (stored \/ (k = "no" /\ had /\ p # "login"))
  BY DEF Rendered
<1>2. path \in {"login", "app", "callback", "invite"} /\ p \in {"login", "app", "callback", "invite"}
  BY DEF VisitInv, SessionInv, Cloud
<1>3. path' \in {"login", "app", "callback", "invite"}
  BY <1>1, <1>2 DEF Redirected
<1>4. SessionInv'
  BY <1>1, <1>3 DEF VisitInv, SessionInv, Cloud
<1>5. Explained
  BY <1>1, <1>2 DEF Explained, Redirected, InApp, VisitInv, SessionInv, Cloud
<1>6. CASE InApp /\ p = "app" /\ k = "yes"
  <2>1. UNCHANGED <<gateVars, startupVars>>
    BY <1>6 DEF Rendered
  <2>2. InApp'
    BY <1>1, <1>6 DEF InApp, Redirected
  <2>3. GateInv' /\ PageInv' /\ RunsInv' /\ SilentRuns
    BY <2>1, <2>2 DEF VisitInv, GateInv, PageInv, RunsInv, SilentRuns, gateVars, startupVars
  <2>4. QED
    BY <1>4, <1>5, <2>3 DEF RunStep, VisitInv
<1>7. CASE ~(InApp /\ p = "app" /\ k = "yes")
  <2>1. /\ gate' = IF k = "yes" /\ path' = "app" THEN "loading" ELSE "closed"
        /\ org' = NoOrg /\ setup' = NoSetup
        /\ LeavePage
    BY <1>7 DEF Rendered
  <2>2. GateInv'
    BY <1>1, <2>1 DEF GateInv, NoSetup, InApp
  <2>3. RunsInv' /\ SilentRuns /\ current' = NoRun /\ shown' = Blank
    BY <2>1, LeavePageEffect DEF VisitInv
  <2>4. PageInv'
    BY <2>1, <2>3, VisitAssumption DEF PageInv, Blank, ShownThings
  <2>5. QED
    BY <1>4, <1>5, <2>2, <2>3, <2>4 DEF RunStep, VisitInv
<1>8. QED
  BY <1>6, <1>7

LEMMA SessionAnswerStep ==
  ASSUME VisitInv, SessionAnswer
  PROVE  RunStep
<1>1. /\ Cloud(path) /\ asking' = FALSE /\ UNCHANGED <<signedIn, active, account>>
      /\ known \in {"pending", "yes", "no"} /\ signedIn' \in BOOLEAN
  BY DEF SessionAnswer, serverVars, VisitInv, SessionInv
<1>2. ASSUME NEW k \in {"yes", "no"}, Rendered(path, k)
      PROVE  RunStep
  BY <1>1, <1>2, RenderedStep
<1>3. CASE known # "pending" /\ Rendered("login", known)
  BY <1>1, <1>3, RenderedStep
<1>4. QED
  BY <1>2, <1>3 DEF SessionAnswer

LEMMA SignOutStep ==
  ASSUME VisitInv, SignOut
  PROVE  RunStep
<1>1. /\ Cloud(path) /\ known # "pending" /\ known \in {"pending", "yes", "no"}
      /\ Rendered("login", known) /\ asking' \in BOOLEAN /\ signedIn' \in BOOLEAN
      /\ UNCHANGED <<active, account>>
  BY DEF SignOut, InApp, Cloud
<1>2. QED
  BY <1>1, RenderedStep

\* What changes neither the route nor its page.
LEMMA SignInStep ==
  ASSUME VisitInv, SignIn \/ SessionEnds \/ RuntimeRefuses
  PROVE  RunStep
<1>1. UNCHANGED <<active, account, known, path, had, gateVars, startupVars>>
  BY DEF SignIn, SessionEnds, RuntimeRefuses, NotifyExpired, serverVars, sessionVars
<1>2. /\ signedIn' \in BOOLEAN /\ asking' \in BOOLEAN
      /\ notice' \in BOOLEAN /\ stored' \in BOOLEAN
  BY DEF SignIn, SessionEnds, RuntimeRefuses, NotifyExpired, serverVars, sessionVars,
         VisitInv, SessionInv, Cloud
<1>3. SessionInv' /\ GateInv' /\ Explained
  BY <1>1, <1>2 DEF VisitInv, SessionInv, GateInv, Explained, InApp, Cloud, gateVars
<1>4. RunsInv' /\ SilentRuns /\ PageInv'
  BY <1>1 DEF VisitInv, RunsInv, SilentRuns, PageInv, gateVars, startupVars
<1>5. QED
  BY <1>3, <1>4 DEF RunStep, VisitInv

LEMMA MountsEffect ==
  ASSUME VisitInv, NEW p \in {"login", "app", "callback", "invite"},
         NEW k \in {"pending", "yes", "no"}, Mounts(p, k),
         signedIn' \in BOOLEAN, active' \in Org \cup {NoOrg}, UNCHANGED account,
         InApp => p = path /\ k = "pending"
  PROVE  SessionInv' /\ GateInv' /\ gate' # "open" /\ Explained
<1>1. /\ notice' = stored /\ stored' = FALSE /\ asking' = TRUE
      /\ known' = k /\ had' = (k = "yes") /\ path' = Redirected(p, k)
      /\ gate' = IF k = "yes" /\ path' = "app" THEN "loading" ELSE "closed"
      /\ org' = NoOrg /\ setup' = NoSetup
  BY DEF Mounts
<1>2. path' \in {"login", "app", "callback", "invite"}
  BY <1>1 DEF Redirected
<1>3. SessionInv'
  BY <1>1, <1>2 DEF VisitInv, SessionInv
<1>4. GateInv' /\ gate' # "open"
  BY <1>1 DEF GateInv, NoSetup, InApp
<1>5. Explained
  BY <1>1 DEF Explained, InApp, Redirected
<1>6. QED
  BY <1>3, <1>4, <1>5

LEMMA OpenRouteStep ==
  ASSUME VisitInv, NEW p \in {"login", "app", "invite"}, OpenRoute(p)
  PROVE  RunStep
<1>1. /\ path = "public" /\ Mounts(p, known) /\ UNCHANGED <<startupVars, signedIn, active, account>>
  BY DEF OpenRoute, Cloud, serverVars
<1>2. current = NoRun /\ ~InApp
  BY <1>1 DEF VisitInv, GateInv, PageInv, InApp
<1>3. /\ signedIn' \in BOOLEAN /\ active' \in Org \cup {NoOrg}
      /\ known \in {"pending", "yes", "no"}
  BY <1>1 DEF VisitInv, SessionInv
<1>4. SessionInv' /\ GateInv' /\ gate' # "open" /\ Explained
  BY <1>1, <1>2, <1>3, MountsEffect
<1>5. RunsInv' /\ SilentRuns /\ PageInv'
  BY <1>1, <1>2, <1>4 DEF VisitInv, RunsInv, SilentRuns, PageInv, startupVars
<1>6. QED
  BY <1>4, <1>5 DEF RunStep, VisitInv

\* The starts of a document go with it.
LEMMA NewDocumentStep ==
  ASSUME VisitInv, Cloud(path), NewDocument,
         signedIn' \in BOOLEAN, active' \in Org \cup {NoOrg}, UNCHANGED account
  PROVE  RunStep
<1>1. path \in {"login", "app", "callback", "invite"} /\ Mounts(path, "pending")
  BY DEF VisitInv, SessionInv, Cloud, NewDocument
<1>2. SessionInv' /\ GateInv' /\ gate' # "open" /\ Explained
  BY <1>1, MountsEffect
<1>3. NotRun \in Runs /\ NotRun.aborted = FALSE
  <2>1. "none" \in Stages
    BY DEF Stages
  <2>2. QED
    BY <2>1, CountBounds DEF NotRun, Runs
<1>4. run' = [r \in Run |-> NotRun] /\ current' = NoRun /\ shown' = Blank
  BY DEF NewDocument
<1>5. RunsInv' /\ SilentRuns
  BY <1>3, <1>4 DEF RunsInv, SilentRuns
<1>6. PageInv'
  BY <1>2, <1>4, VisitAssumption DEF PageInv, Blank, ShownThings
<1>7. QED
  BY <1>2, <1>5, <1>6 DEF RunStep, VisitInv

LEMMA LeaveRouteStep ==
  ASSUME VisitInv, LeaveRoute
  PROVE  RunStep
<1>1. /\ path' = "public" /\ notice' = FALSE /\ had' = FALSE /\ asking' = FALSE
      /\ gate' = "closed" /\ org' = NoOrg /\ setup' = NoSetup
      /\ LeavePage
      /\ UNCHANGED <<signedIn, active, account, known, stored>>
  BY DEF LeaveRoute, serverVars
<1>2. SessionInv' /\ GateInv' /\ Explained
  BY <1>1 DEF VisitInv, SessionInv, GateInv, NoSetup, Explained, Cloud
<1>3. RunsInv' /\ SilentRuns /\ current' = NoRun /\ shown' = Blank
  BY <1>1, LeavePageEffect DEF VisitInv
<1>4. PageInv'
  BY <1>1, <1>3, VisitAssumption DEF PageInv, Blank, ShownThings
<1>5. QED
  BY <1>2, <1>3, <1>4 DEF RunStep, VisitInv

\* A new start of the organization that the gate lets through.
LEMMA OpensStep ==
  ASSUME VisitInv, NEW o \in Org, account[o] = "full", InApp,
         Begin(o), gate' = "open", org' = o,
         setup' = setup \/ setup' = NoSetup,
         active' \in Org \cup {NoOrg}, UNCHANGED <<signedIn, account, sessionVars>>
  PROVE  RunStep
<1>1. UNCHANGED <<known, asking, path, had, notice, stored>> /\ InApp'
  BY DEF sessionVars, InApp
<1>2. SessionInv' /\ Explained
  BY <1>1 DEF VisitInv, SessionInv, Explained, Cloud, InApp
<1>3. GateInv'
  BY <1>1 DEF VisitInv, GateInv, NoSetup
<1>4. RunsInv' /\ SilentRuns /\ current' \in Run
      /\ run'[current'].org = o /\ ~run'[current'].aborted
      /\ shown' = [what |-> "resolving", of |-> current']
  BY BeginEffect DEF VisitInv
<1>5. PageInv'
  BY <1>4, VisitAssumption DEF PageInv, ShownThings
<1>6. QED
  BY <1>2, <1>3, <1>4, <1>5 DEF RunStep, VisitInv

\* A step of the set-up: the gate shows no page, and an account that is full stays so.
LEMMA SetupStep ==
  ASSUME VisitInv, gate # "open", gate' \in {gate, "setup"}, gate # "closed",
         org' \in {org, NoOrg}, UNCHANGED <<signedIn, sessionVars, startupVars>>,
         setup' \in [step : {"none", "account", "select", "refetch"}, org : Org \cup {NoOrg}],
         active' \in Org \cup {NoOrg}, account' \in [Org -> {"absent", "bare", "full"}]
  PROVE  RunStep
<1>1. UNCHANGED <<known, asking, path, had, notice, stored>>
  BY DEF sessionVars
<1>2. SessionInv' /\ Explained
  BY <1>1 DEF VisitInv, SessionInv, Explained, Cloud, InApp
<1>3. GateInv'
  BY <1>1 DEF VisitInv, GateInv, InApp
<1>4. RunsInv' /\ SilentRuns /\ PageInv'
  BY DEF VisitInv, RunsInv, SilentRuns, PageInv, startupVars
<1>5. QED
  BY <1>2, <1>3, <1>4 DEF RunStep, VisitInv

LEMMA GateAnswersStep ==
  ASSUME VisitInv, gate \in {"loading", "setup"}, GateAnswers,
         UNCHANGED <<serverVars, sessionVars>>
  PROVE  RunStep
<1>1. /\ InApp /\ UNCHANGED <<signedIn, active, account>>
      /\ active \in Org \cup {NoOrg} /\ account \in [Org -> {"absent", "bare", "full"}]
  BY DEF VisitInv, SessionInv, GateInv, serverVars
<1>2. setup' = NoSetup
  BY DEF GateAnswers
<1>3. CASE Listed(active)
  <2>1. active \in Org /\ account[active] = "full"
    BY <1>3 DEF Listed
  <2>2. gate' = "open" /\ org' = active /\ Begin(active)
    BY <1>3 DEF GateAnswers
  <2>3. QED
    BY <1>1, <1>2, <2>1, <2>2, OpensStep
<1>4. CASE ~Listed(active)
  <2>1. gate' = "setup" /\ org' = NoOrg /\ UNCHANGED startupVars
    BY <1>4 DEF GateAnswers
  <2>2. setup' \in [step : {"none", "account", "select", "refetch"}, org : Org \cup {NoOrg}]
    BY <1>2 DEF NoSetup
  <2>3. QED
    BY <1>1, <2>1, <2>2, SetupStep
<1>5. QED
  BY <1>3, <1>4

LEMMA GateStep ==
  ASSUME VisitInv, LoadGate \/ BackToPage \/ AddOrganization \/ SetupFails
  PROVE  RunStep
<1>1. CASE LoadGate
  BY <1>1, GateAnswersStep DEF LoadGate
<1>2. CASE BackToPage
  BY <1>2, GateAnswersStep DEF BackToPage, Step
<1>3. CASE AddOrganization
  <2>1. /\ gate = "open" /\ gate' = "setup" /\ org' = NoOrg
        /\ LeavePage
        /\ UNCHANGED <<signedIn, active, account, known, asking, path, had, notice, stored, setup>>
    BY <1>3 DEF AddOrganization, serverVars, sessionVars
  <2>2. SessionInv' /\ GateInv' /\ Explained
    BY <2>1 DEF VisitInv, SessionInv, GateInv, Explained, Cloud, InApp
  <2>3. RunsInv' /\ SilentRuns /\ current' = NoRun /\ shown' = Blank
    BY <2>1, LeavePageEffect DEF VisitInv
  <2>4. PageInv'
    BY <2>1, <2>3, VisitAssumption DEF PageInv, Blank, ShownThings
  <2>5. QED
    BY <2>2, <2>3, <2>4 DEF RunStep, VisitInv
<1>4. CASE SetupFails
  <2>1. setup' = NoSetup /\ UNCHANGED <<signedIn, active, account, sessionVars, gate, org, startupVars>>
    BY <1>4 DEF SetupFails, serverVars
  <2>2. UNCHANGED <<known, asking, path, had, notice, stored, run, current, shown>>
    BY <2>1 DEF sessionVars, startupVars
  <2>3. SessionInv' /\ GateInv' /\ Explained
    BY <2>1, <2>2 DEF VisitInv, SessionInv, GateInv, NoSetup, Explained, Cloud, InApp
  <2>4. RunsInv' /\ SilentRuns /\ PageInv'
    BY <2>1, <2>2 DEF VisitInv, RunsInv, SilentRuns, PageInv
  <2>5. QED
    BY <2>3, <2>4 DEF RunStep, VisitInv
<1>5. QED
  BY <1>1, <1>2, <1>3, <1>4

LEMMA SwitchStep ==
  ASSUME VisitInv, NEW o \in Org, SwitchElsewhere(o) \/ SwitchOrganization(o)
  PROVE  RunStep
<1>1. /\ gate = "open" /\ account[o] = "full" /\ active' = o /\ UNCHANGED <<signedIn, account>>
  BY DEF SwitchElsewhere, SwitchOrganization, Listed
<1>2. InApp /\ Cloud(path) /\ signedIn' \in BOOLEAN
  BY <1>1 DEF VisitInv, SessionInv, GateInv, InApp, Cloud
<1>3. CASE SwitchElsewhere(o)
  BY <1>1, <1>2, <1>3, OpensStep DEF SwitchElsewhere
<1>4. CASE SwitchOrganization(o)
  BY <1>1, <1>2, <1>4, NewDocumentStep DEF SwitchOrganization
<1>5. QED
  BY <1>3, <1>4

LEMMA OrganizationSetupStep ==
  ASSUME VisitInv, NEW o \in Org,
         CreateOrganization(o) \/ CreateAccount(o) \/ ChooseOrganization(o) \/ SetActive(o)
         \/ Refetch(o)
  PROVE  RunStep
<1>1. account \in [Org -> {"absent", "bare", "full"}] /\ active \in Org \cup {NoOrg}
  BY DEF VisitInv, SessionInv
<1>2. CASE Refetch(o)
  BY <1>2, GateAnswersStep DEF Refetch, Step
<1>3. CASE ~Refetch(o)
  <2>1. /\ gate = "setup" /\ UNCHANGED <<signedIn, sessionVars, gate, org, startupVars>>
        /\ active' \in Org \cup {NoOrg}
        /\ account' \in [Org -> {"absent", "bare", "full"}]
    BY <1>1, <1>3 DEF CreateOrganization, CreateAccount, ChooseOrganization, SetActive, Step
  <2>2. setup' \in [step : {"none", "account", "select", "refetch"}, org : Org \cup {NoOrg}]
    BY <1>3 DEF CreateOrganization, CreateAccount, ChooseOrganization, SetActive
  <2>3. QED
    BY <2>1, <2>2, SetupStep
<1>4. QED
  BY <1>2, <1>3

LEMMA VisitInitInv == VisitInit => VisitInv
<1> SUFFICES ASSUME VisitInit PROVE VisitInv
  OBVIOUS
<1>1. NotRun \in Runs /\ NotRun.aborted = FALSE
  <2>1. "none" \in Stages
    BY DEF Stages
  <2>2. QED
    BY <2>1, CountBounds DEF NotRun, Runs
<1>2. SessionInv
  BY DEF VisitInit, SessionInv
<1>3. GateInv
  BY DEF VisitInit, GateInv, NoSetup
<1>4. RunsInv
  BY <1>1 DEF VisitInit, RunsInv
<1>5. PageInv
  BY VisitAssumption DEF VisitInit, PageInv, Blank, ShownThings
<1>6. QED
  BY <1>2, <1>3, <1>4, <1>5 DEF VisitInv

LEMMA VisitStep == VisitInv /\ VisitNext => RunStep
<1> SUFFICES ASSUME VisitInv, VisitNext PROVE RunStep
  OBVIOUS
<1>1. CASE \E r \in Run :
             ResolveWorkspace(r) \/ ScheduleStart(r) \/ ProbeRuntime(r) \/ RequestFails(r)
             \/ TimerEnds(r) \/ Deny(r) \/ ObserveRefusal(r)
  BY <1>1, AskingStep, TimerStep, DenyStep, RefusalStep
<1>2. CASE Retry
  <2>1. gate = "open" /\ org \in Org /\ account[org] = "full" /\ InApp /\ active \in Org \cup {NoOrg}
    <3>1. shown.what # "blank"
      BY <1>2 DEF Retry
    <3>2. current # NoRun
      BY <3>1 DEF VisitInv, PageInv, Blank
    <3>3. QED
      BY <3>2 DEF VisitInv, SessionInv, GateInv, PageInv
  <2>2. Begin(org) /\ UNCHANGED <<signedIn, active, account, sessionVars, gate, org, setup>>
    BY <1>2 DEF Retry, serverVars, gateVars
  <2>3. QED
    BY <2>1, <2>2, OpensStep
<1>3. CASE SessionAnswer
  BY <1>3, SessionAnswerStep
<1>4. CASE SignOut
  BY <1>4, SignOutStep
<1>5. CASE SignIn \/ SessionEnds \/ RuntimeRefuses
  BY <1>5, SignInStep
<1>6. CASE LeaveRoute
  BY <1>6, LeaveRouteStep
<1>7. CASE Reload
  BY <1>7, NewDocumentStep DEF Reload, serverVars, VisitInv, SessionInv
<1>8. CASE \E p \in {"login", "app", "invite"} : OpenRoute(p)
  BY <1>8, OpenRouteStep
<1>9. CASE LoadGate \/ BackToPage \/ AddOrganization \/ SetupFails
  BY <1>9, GateStep
<1>10. CASE \E o \in Org :
              SwitchElsewhere(o) \/ SwitchOrganization(o) \/ CreateOrganization(o)
              \/ CreateAccount(o) \/ ChooseOrganization(o) \/ SetActive(o) \/ Refetch(o)
  BY <1>10, SwitchStep, OrganizationSetupStep
<1>11. QED
  BY <1>1, <1>2, <1>3, <1>4, <1>5, <1>6, <1>7, <1>8, <1>9, <1>10 DEF VisitNext

LEMMA VisitStutters == VisitInv /\ UNCHANGED visitVars => RunStep
<1> SUFFICES ASSUME VisitInv, UNCHANGED visitVars PROVE RunStep
  OBVIOUS
<1>1. UNCHANGED <<signedIn, active, account, known, asking, path, had, notice, stored,
                  gate, org, setup, run, current, shown>>
  BY DEF visitVars, serverVars, sessionVars, gateVars, startupVars
<1>2. SessionInv' /\ GateInv' /\ RunsInv' /\ PageInv'
  BY <1>1 DEF VisitInv, SessionInv, GateInv, RunsInv, PageInv, InApp, Cloud
<1>3. SilentRuns /\ Explained
  BY <1>1 DEF SilentRuns, Explained, InApp
<1>4. QED
  BY <1>2, <1>3 DEF RunStep, VisitInv

LEMMA VisitInvariant == VisitSpec => []VisitInv
<1>1. VisitInv /\ [VisitNext]_visitVars => VisitInv'
  BY VisitStep, VisitStutters DEF RunStep
<1>2. QED
  BY <1>1, VisitInitInv, PTL DEF VisitSpec

\* Session, gate, set-up and starts of a tab keep their types.
THEOREM VisitTypes == VisitSpec => []VisitTypeOK
  BY VisitInvariant, VisitInvTypes, PTL

\* A page shows what comes of its own start, which is of the organization that the gate
\* let through (the effect of AuthenticatedCloudApp, OrganizationGate).
THEOREM StartIsOfPageHolds == VisitSpec => []StartIsOfPage
  BY VisitInvariant, VisitInvTypes, PTL

\* A start that was left asks for nothing more, and nobody is sent to sign in again
\* without being told why (throwIfAborted, CloudSessionRoute).
THEOREM LeftIsSilentHolds == VisitSpec => LeftIsSilent
<1>1. VisitInv /\ [VisitNext]_visitVars =>
        [/\ \A r \in Run :
              run[r].aborted /\ run'[r].aborted => run'[r].stage \in {run[r].stage, "over"}
         /\ InApp /\ path' = "login" => notice']_visitVars
  BY VisitStep DEF RunStep, SilentRuns, Explained
<1>2. QED
  BY <1>1, VisitInvariant, PTL DEF VisitSpec, LeftIsSilent

---------------------------------------------------------------------------
(* The usage page *)

Fetches == [stage : {"none", "asked", "answered", "failed"}, period : Period,
            id : 0..MaxLoads, of : Nat, aborted : BOOLEAN, signal : BOOLEAN, mine : BOOLEAN]

\* The requests of a visit of the page have numbers of their own, up to number s.
Numbered(f, s) ==
  /\ f \in [Fetch -> Fetches]
  /\ \A q \in Fetch : f[q].of <= ledger
  /\ \A q \in Fetch : f[q].mine => f[q].stage # "none" /\ f[q].id > 0 /\ f[q].id <= s
  /\ \A q, o \in Fetch : f[q].mine /\ f[o].mine /\ f[q].id = f[o].id => q = o

UsageTypes ==
  /\ ledger \in 0..MaxVersion /\ period \in Period /\ sequence \in 0..MaxLoads
  /\ refreshing \in BOOLEAN /\ visit \in {"open", "closed"}
  /\ view \in [what : {"loading", "ready", "error"}, period : Period, of : Nat]
  /\ view.of <= ledger
  /\ cache \in [Period -> [what : {"loading", "ready"}, of : Nat]]
  /\ \A p \in Period : cache[p].of <= ledger

\* What the newest request fetched is of the selected range and no older than what the
\* page shows.
NewestInv ==
  \A q \in Fetch : Newest(q) =>
    /\ fetch[q].period = period /\ ~fetch[q].aborted
    /\ fetch[q].stage = "answered" /\ view.what = "ready" => fetch[q].of >= view.of

ViewInv ==
  /\ view.what = "ready" => view.period = period /\ cache[period] # NoSnapshot
  /\ visit = "closed" => view.what = "loading" /\ \A q \in Fetch : ~fetch[q].mine
  /\ refreshing <=> \E q \in Fetch : Newest(q)

UsageInv == UsageTypes /\ Numbered(fetch, sequence) /\ NewestInv /\ ViewInv

\* The step that UsageNeverGoesBack speaks of.
NoOlder ==
  view.what = "ready" /\ visit' = "open" /\ period' = period =>
    view'.what = "ready" /\ view'.of >= view.of

UsageStep == UsageInv' /\ NoOlder

LEMMA UsageInvTypes == UsageInv => UsageViewTypeOK /\ UsageIsOfRange
<1> SUFFICES ASSUME UsageInv PROVE UsageViewTypeOK /\ UsageIsOfRange
  OBVIOUS
<1>1. UsageViewTypeOK
  <2>1. /\ {ledger, sequence} \subseteq 0..(MaxVersion + MaxLoads)
        /\ view.of \in 0..ledger
        /\ \A p \in Period : cache[p].of \in 0..ledger
    BY UsageViewAssumption DEF UsageInv, UsageTypes
  <2>2. \A q \in Fetch : fetch[q].stage \in {"none", "asked", "answered", "failed"}
    BY DEF UsageInv, Numbered, Fetches
  <2>3. QED
    BY <2>1, <2>2 DEF UsageViewTypeOK, UsageInv, UsageTypes
<1>2. UsageIsOfRange
  <2>1. \A q \in Fetch : Newest(q) => visit = "open" /\ fetch[q].stage # "none"
    BY DEF UsageInv, UsageTypes, ViewInv, Numbered, Newest
  <2>2. QED
    BY <2>1 DEF UsageIsOfRange, UsageInv, ViewInv
<1>3. QED
  BY <1>1, <1>2

LEMMA CachedEffect ==
  ASSUME UsageTypes, NEW p \in Period
  PROVE  /\ Cached(p) \in [what : {"loading", "ready", "error"}, period : Period, of : Nat]
         /\ Cached(p).of <= ledger
         /\ Cached(p).what = "ready" => Cached(p).period = p /\ cache[p] # NoSnapshot
<1>1. CASE cache[p] # NoSnapshot
  <2>1. Cached(p) = [what |-> "ready", period |-> p, of |-> cache[p].of]
    BY <1>1 DEF Cached, Snapshot
  <2>2. QED
    BY <1>1, <2>1 DEF UsageTypes
<1>2. CASE cache[p] = NoSnapshot
  <2>1. Cached(p) = [what |-> "loading", period |-> First, of |-> 0]
    BY <1>2 DEF Cached, Loading
  <2>2. First \in Period /\ 0 <= ledger
    BY UsageViewAssumption DEF UsageTypes
  <2>3. QED
    BY <2>1, <2>2
<1>3. QED
  BY <1>1, <1>2

LEMMA CleanedUpEffect ==
  ASSUME UsageInv
  PROVE  Numbered(CleanedUp, sequence)
<1>1. ASSUME NEW q \in Fetch
      PROVE  /\ CleanedUp[q] \in Fetches
             /\ CleanedUp[q].mine = fetch[q].mine
             /\ CleanedUp[q].id = fetch[q].id
             /\ CleanedUp[q].stage = fetch[q].stage
             /\ CleanedUp[q].of = fetch[q].of
  <2>1. fetch[q] \in Fetches
    BY DEF UsageInv, Numbered
  <2>2. CleanedUp[q] = fetch[q] \/ CleanedUp[q] = [fetch[q] EXCEPT !.aborted = TRUE]
    BY DEF CleanedUp
  <2>3. QED
    BY <2>1, <2>2 DEF Fetches
<1>2. CleanedUp \in [Fetch -> Fetches]
  BY <1>1 DEF CleanedUp
<1>3. QED
  BY <1>1, <1>2 DEF UsageInv, Numbered

\* The request that was made last is the newest, and the only one.
LEMMA LoadUsageEffect ==
  ASSUME UsageInv, NEW f, Numbered(f, sequence), NEW p \in Period, NEW signal \in BOOLEAN,
         LoadUsage(f, p, signal), UNCHANGED ledger
  PROVE  /\ sequence' \in 0..MaxLoads /\ refreshing' = TRUE
         /\ Numbered(fetch, sequence)'
         /\ \E q \in Fetch :
              /\ Newest(q)' /\ \A o \in Fetch : Newest(o)' => o = q
              /\ fetch'[q].stage = "asked" /\ fetch'[q].period = p /\ ~fetch'[q].aborted
<1>1. PICK q \in Fetch :
        /\ f[q].stage = "none" /\ sequence < MaxLoads
        /\ sequence' = sequence + 1
        /\ refreshing' = TRUE
        /\ fetch' = [f EXCEPT ![q] =
             [NoFetch EXCEPT !.stage = "asked", !.period = p, !.id = sequence + 1,
                             !.signal = signal, !.mine = TRUE]]
  BY DEF LoadUsage
<1>2. PICK new : new = [NoFetch EXCEPT !.stage = "asked", !.period = p, !.id = sequence + 1,
                                       !.signal = signal, !.mine = TRUE]
  OBVIOUS
<1>3. /\ sequence + 1 \in 0..MaxLoads /\ sequence + 1 > 0
      /\ sequence \in Nat /\ ledger \in Nat
  BY <1>1, UsageViewAssumption DEF UsageInv, UsageTypes
<1>4. NoFetch \in Fetches /\ NoFetch.aborted = FALSE /\ NoFetch.of = 0
  BY UsageViewAssumption DEF NoFetch, Fetches
<1>5. /\ new \in Fetches /\ new.stage = "asked" /\ new.period = p
      /\ new.id = sequence + 1 /\ new.mine = TRUE /\ new.aborted = FALSE /\ new.of = 0
  BY <1>2, <1>3, <1>4 DEF Fetches
<1>6. /\ fetch' \in [Fetch -> Fetches]
      /\ fetch'[q] = new
      /\ \A o \in Fetch \ {q} : fetch'[o] = f[o]
  BY <1>1, <1>2, <1>5 DEF Numbered
<1>7. \A o \in Fetch : f[o].id \in Nat
  BY UsageViewAssumption DEF Numbered, Fetches
<1>8. \A o \in Fetch \ {q} : fetch'[o].mine => fetch'[o].id <= sequence /\ fetch'[o].id # sequence + 1
  BY <1>3, <1>6, <1>7 DEF Numbered
<1>9. Numbered(fetch, sequence)'
  <2>1. \A o \in Fetch : fetch'[o].of <= ledger'
    BY <1>3, <1>5, <1>6 DEF Numbered
  <2>2. \A o \in Fetch : fetch'[o].mine =>
          fetch'[o].stage # "none" /\ fetch'[o].id > 0 /\ fetch'[o].id <= sequence'
    BY <1>1, <1>3, <1>5, <1>6, <1>7 DEF Numbered
  <2>3. \A o, x \in Fetch : fetch'[o].mine /\ fetch'[x].mine /\ fetch'[o].id = fetch'[x].id => o = x
    BY <1>5, <1>6, <1>8 DEF Numbered
  <2>4. QED
    BY <1>6, <2>1, <2>2, <2>3 DEF Numbered
<1>10. Newest(q)' /\ \A o \in Fetch : Newest(o)' => o = q
  BY <1>1, <1>5, <1>6, <1>8 DEF Newest
<1>11. QED
  BY <1>1, <1>3, <1>5, <1>6, <1>9, <1>10

LEMMA LoadedStep ==
  ASSUME UsageInv, NEW f, Numbered(f, sequence), NEW p \in Period, NEW signal \in BOOLEAN,
         LoadUsage(f, p, signal), UNCHANGED <<ledger, cache>>,
         period' = p, visit' = "open",
         view' = Cached(p) \/ (view' = view /\ p = period),
         view.what = "ready" => p # period \/ view' = view
  PROVE  UsageStep
<1>1. /\ sequence' \in 0..MaxLoads /\ refreshing' = TRUE /\ Numbered(fetch, sequence)'
      /\ \E q \in Fetch :
           /\ Newest(q)' /\ \A o \in Fetch : Newest(o)' => o = q
           /\ fetch'[q].stage = "asked" /\ fetch'[q].period = p /\ ~fetch'[q].aborted
  BY LoadUsageEffect
<1>2. /\ view' \in [what : {"loading", "ready", "error"}, period : Period, of : Nat]
      /\ view'.of <= ledger
      /\ view'.what = "ready" => view'.period = p /\ cache[p] # NoSnapshot
  BY CachedEffect DEF UsageInv, UsageTypes, ViewInv
<1>3. UsageTypes'
  BY <1>1, <1>2 DEF UsageInv, UsageTypes
<1>4. NewestInv'
  BY <1>1 DEF NewestInv
<1>5. ViewInv'
  BY <1>1, <1>2 DEF ViewInv, NoSnapshot
<1>6. NoOlder
  <2>1. view.of \in Nat
    BY DEF UsageInv, UsageTypes
  <2>2. QED
    BY <2>1 DEF NoOlder
<1>7. QED
  BY <1>1, <1>3, <1>4, <1>5, <1>6 DEF UsageStep, UsageInv

LEMMA AskStep ==
  ASSUME UsageInv, (\E p \in Period : SelectPeriod(p)) \/ ReloadUsage \/ OpenUsage
  PROVE  UsageStep
<1>1. Numbered(fetch, sequence) /\ Numbered(CleanedUp, sequence) /\ period \in Period
  BY CleanedUpEffect DEF UsageInv, UsageTypes
<1>2. ASSUME NEW p \in Period, SelectPeriod(p)
      PROVE  UsageStep
  BY <1>1, <1>2, LoadedStep DEF SelectPeriod
<1>3. CASE ReloadUsage
  BY <1>1, <1>3, LoadedStep DEF ReloadUsage
<1>4. CASE OpenUsage
  <2>1. view.what # "ready" /\ First \in Period
    BY <1>4, UsageViewAssumption DEF OpenUsage, UsageInv, ViewInv
  <2>2. LoadUsage(fetch, First, TRUE) /\ view' = Cached(First)
    <3>1. period' = First
      BY <1>4 DEF OpenUsage
    <3>2. QED
      BY <1>4, <3>1 DEF OpenUsage, LoadUsage, Cached
  <2>3. QED
    BY <1>1, <1>4, <2>1, <2>2, LoadedStep DEF OpenUsage
<1>5. QED
  BY <1>2, <1>3, <1>4

LEMMA GrowsStep ==
  ASSUME UsageInv, UsageGrows
  PROVE  UsageStep
<1>1. /\ ledger < MaxVersion /\ ledger' = ledger + 1
      /\ UNCHANGED <<period, view, cache, sequence, refreshing, visit, fetch>>
  BY DEF UsageGrows
<1>2. ledger \in Nat /\ MaxVersion \in Nat /\ ledger' \in 0..MaxVersion
  BY <1>1, UsageViewAssumption DEF UsageInv, UsageTypes
<1>3. UsageTypes'
  BY <1>1, <1>2 DEF UsageInv, UsageTypes
<1>4. Numbered(fetch, sequence)'
  BY <1>1, <1>2 DEF UsageInv, Numbered, Fetches
<1>5. NewestInv' /\ ViewInv' /\ NoOlder
  BY <1>1 DEF UsageInv, UsageTypes, NewestInv, ViewInv, Newest, NoOlder
<1>6. QED
  BY <1>3, <1>4, <1>5 DEF UsageStep, UsageInv

LEMMA ServeStep ==
  ASSUME UsageInv, NEW q \in Fetch, ServeUsage(q)
  PROVE  UsageStep
<1>1. PICK stage \in {"answered", "failed"} :
        fetch' = [fetch EXCEPT ![q].stage = stage, ![q].of = ledger]
  BY DEF ServeUsage
<1>2. /\ UNCHANGED <<ledger, period, view, cache, sequence, refreshing, visit>>
      /\ fetch[q].stage = "asked" /\ ledger \in Nat /\ view.of \in Nat /\ view.of <= ledger
      /\ fetch \in [Fetch -> Fetches]
  BY DEF ServeUsage, UsageInv, UsageTypes, Numbered
<1>3. PICK new : new = [fetch[q] EXCEPT !.stage = stage, !.of = ledger]
  OBVIOUS
<1>4. /\ new \in Fetches /\ new.stage = stage /\ new.of = ledger
      /\ new.period = fetch[q].period /\ new.id = fetch[q].id
      /\ new.aborted = fetch[q].aborted /\ new.mine = fetch[q].mine
  BY <1>2, <1>3 DEF Fetches
<1>5. fetch' = [fetch EXCEPT ![q] = new]
  BY <1>1, <1>2, <1>3
<1>6. /\ fetch' \in [Fetch -> Fetches]
      /\ fetch'[q] = new /\ \A o \in Fetch \ {q} : fetch'[o] = fetch[o]
  BY <1>2, <1>4, <1>5
<1>7. \A o \in Fetch : fetch'[o].mine = fetch[o].mine /\ fetch'[o].id = fetch[o].id
  BY <1>4, <1>6
<1>8. Numbered(fetch, sequence)'
  BY <1>2, <1>4, <1>6, <1>7 DEF UsageInv, Numbered
<1>9. \A o \in Fetch : Newest(o)' <=> Newest(o)
  BY <1>2, <1>7 DEF Newest
<1>10. NewestInv'
  BY <1>2, <1>4, <1>6, <1>9 DEF UsageInv, NewestInv
<1>11. UsageTypes' /\ ViewInv' /\ NoOlder
  BY <1>2, <1>7, <1>9 DEF UsageInv, UsageTypes, ViewInv, NoOlder
<1>12. QED
  BY <1>8, <1>10, <1>11 DEF UsageStep, UsageInv

\* The button waits no longer when the newest answer is taken, for it is the only one.
LEMMA TakeStep ==
  ASSUME UsageInv, NEW q \in Fetch, TakeUsage(q)
  PROVE  UsageStep
<1> DEFINE answered == fetch[q].stage = "answered" /\ ~fetch[q].aborted
           p == fetch[q].period
<1>1. /\ cache' = IF answered /\ NewestThen(q) THEN Remembered(q) ELSE cache
      /\ view' = IF ~Newest(q) THEN view
                 ELSE IF answered THEN Snapshot(p, fetch[q].of)
                 ELSE IF fetch[q].aborted \/ cache[p] # NoSnapshot THEN view
                 ELSE [Loading EXCEPT !.what = "error"]
      /\ refreshing' = (refreshing /\ ~Newest(q))
      /\ fetch' = [fetch EXCEPT ![q] = NoFetch]
      /\ UNCHANGED <<ledger, period, sequence, visit>>
  BY DEF TakeUsage
<1>2. /\ fetch \in [Fetch -> Fetches] /\ p \in Period
      /\ fetch[q].of \in Nat /\ fetch[q].of <= ledger
  BY DEF UsageInv, Numbered, Fetches
<1>3. NoFetch \in Fetches /\ NoFetch.mine = FALSE /\ NoFetch.of = 0 /\ 0 <= ledger
  BY UsageViewAssumption DEF NoFetch, Fetches, UsageInv, UsageTypes
<1>4. /\ fetch' \in [Fetch -> Fetches]
      /\ fetch'[q] = NoFetch /\ \A o \in Fetch \ {q} : fetch'[o] = fetch[o]
  BY <1>1, <1>2, <1>3
<1>5. Numbered(fetch, sequence)'
  BY <1>1, <1>3, <1>4 DEF UsageInv, Numbered
<1>6. /\ ~Newest(q)'
      /\ \A o \in Fetch \ {q} : Newest(o)' <=> Newest(o)
  BY <1>1, <1>3, <1>4 DEF Newest
<1>7. Newest(q) => \A o \in Fetch : Newest(o) => o = q
  BY DEF Newest, UsageInv, Numbered
<1>8. /\ cache' \in [Period -> [what : {"loading", "ready"}, of : Nat]]
      /\ \A x \in Period : cache'[x].of <= ledger
      /\ \A x \in Period : cache[x] # NoSnapshot => cache'[x] # NoSnapshot
      /\ answered /\ Newest(q) => cache'[p] # NoSnapshot
  <2>1. CASE answered /\ NewestThen(q)
    <3>1. cache' = [cache EXCEPT ![p] = [what |-> "ready", of |-> fetch[q].of]]
      BY <1>1, <2>1 DEF Remembered
    <3>2. [what |-> "ready", of |-> fetch[q].of] # NoSnapshot
      BY DEF NoSnapshot
    <3>3. QED
      BY <1>2, <3>1, <3>2 DEF UsageInv, UsageTypes
  <2>2. CASE ~(answered /\ NewestThen(q))
    BY <1>1, <2>2 DEF UsageInv, UsageTypes, NewestThen
  <2>3. QED
    BY <2>1, <2>2
<1>9. CASE ~Newest(q)
  <2>1. view' = view /\ refreshing' = refreshing
    BY <1>1, <1>9 DEF UsageInv, UsageTypes
  <2>2. UsageTypes'
    BY <1>1, <1>8, <2>1 DEF UsageInv, UsageTypes
  <2>3. NewestInv'
    BY <1>1, <1>4, <1>6, <2>1 DEF UsageInv, NewestInv
  <2>4. ViewInv'
    BY <1>1, <1>3, <1>4, <1>6, <1>8, <1>9, <2>1 DEF UsageInv, UsageTypes, ViewInv
  <2>5. NoOlder
    BY <2>1 DEF NoOlder, UsageInv, UsageTypes
  <2>6. QED
    BY <1>5, <2>2, <2>3, <2>4, <2>5 DEF UsageStep, UsageInv
<1>10. CASE Newest(q)
  <2>1. /\ p = period /\ ~fetch[q].aborted /\ visit = "open"
        /\ fetch[q].stage = "answered" /\ view.what = "ready" => fetch[q].of >= view.of
    BY <1>10 DEF UsageInv, UsageTypes, NewestInv, ViewInv, Newest
  <2>2. refreshing' = FALSE /\ \A o \in Fetch : ~Newest(o)'
    BY <1>1, <1>6, <1>7, <1>10
  <2>3. /\ view' \in [what : {"loading", "ready", "error"}, period : Period, of : Nat]
        /\ view'.of <= ledger
        /\ view'.what = "ready" => view'.period = period /\ cache'[period] # NoSnapshot
        /\ view.what = "ready" => view'.what = "ready" /\ view'.of >= view.of
    <3>1. CASE answered
      <4>1. view' = [what |-> "ready", period |-> p, of |-> fetch[q].of]
        BY <1>1, <1>10, <3>1 DEF Snapshot
      <4>2. QED
        BY <1>2, <1>8, <1>10, <2>1, <3>1, <4>1
    <3>2. CASE ~answered /\ cache[p] # NoSnapshot
      <4>1. view' = view
        BY <1>1, <1>10, <3>2
      <4>2. QED
        BY <1>2, <1>8, <2>1, <3>2, <4>1 DEF UsageInv, UsageTypes, ViewInv
    <3>3. CASE ~answered /\ cache[p] = NoSnapshot
      <4>1. view' = [what |-> "error", period |-> First, of |-> 0]
        BY <1>1, <1>10, <2>1, <3>3 DEF Loading
      <4>2. view.what # "ready"
        BY <2>1, <3>3 DEF UsageInv, ViewInv
      <4>3. QED
        BY <1>3, <4>1, <4>2, UsageViewAssumption
    <3>4. QED
      BY <3>1, <3>2, <3>3
  <2>4. UsageTypes'
    BY <1>1, <1>8, <2>2, <2>3 DEF UsageInv, UsageTypes
  <2>5. NewestInv'
    BY <2>2 DEF NewestInv
  <2>6. ViewInv'
    BY <1>1, <2>1, <2>2, <2>3 DEF ViewInv, NoSnapshot
  <2>7. NoOlder
    BY <2>3 DEF NoOlder
  <2>8. QED
    BY <1>5, <2>4, <2>5, <2>6, <2>7 DEF UsageStep, UsageInv
<1>11. QED
  BY <1>9, <1>10

LEMMA CloseStep ==
  ASSUME UsageInv, CloseUsage
  PROVE  UsageStep
<1>1. /\ visit' = "closed" /\ sequence' = 0 /\ refreshing' = FALSE /\ view' = Loading
      /\ UNCHANGED <<ledger, period, cache>>
      /\ fetch' = [q \in Fetch |->
           [CleanedUp[q] EXCEPT !.mine = FALSE, !.id = IF Newest(q) THEN 0 ELSE @]]
  BY DEF CloseUsage
<1>2. 0 \in 0..MaxLoads /\ First \in Period /\ 0 <= ledger
  BY UsageViewAssumption DEF UsageInv, UsageTypes
<1>3. ASSUME NEW q \in Fetch
      PROVE  fetch'[q] \in Fetches /\ fetch'[q].mine = FALSE /\ fetch'[q].of <= ledger
  <2>1. CleanedUp[q] \in Fetches /\ CleanedUp[q].of <= ledger
    BY CleanedUpEffect DEF Numbered
  <2>2. fetch'[q] = [CleanedUp[q] EXCEPT !.mine = FALSE, !.id = IF Newest(q) THEN 0 ELSE @]
    BY <1>1
  <2>3. QED
    BY <1>2, <2>1, <2>2 DEF Fetches
<1>4. Numbered(fetch, sequence)' /\ \A q \in Fetch : ~Newest(q)'
  <2>1. fetch' \in [Fetch -> Fetches]
    BY <1>1, <1>3
  <2>2. QED
    BY <1>1, <1>3, <2>1 DEF Numbered, Newest
<1>5. UsageTypes'
  BY <1>1, <1>2 DEF UsageInv, UsageTypes, Loading
<1>6. NewestInv'
  BY <1>4 DEF NewestInv
<1>7. ViewInv' /\ NoOlder
  BY <1>1, <1>3, <1>4 DEF ViewInv, NoOlder, Loading
<1>8. QED
  BY <1>4, <1>5, <1>6, <1>7 DEF UsageStep, UsageInv

LEMMA UsageInitInv == UsageViewInit => UsageInv
<1> SUFFICES ASSUME UsageViewInit PROVE UsageInv
  OBVIOUS
<1>1. /\ 0 \in 0..MaxVersion /\ 0 \in 0..MaxLoads /\ First \in Period
      /\ NoFetch \in Fetches /\ NoFetch.mine = FALSE /\ NoFetch.of = 0
  BY UsageViewAssumption DEF NoFetch, Fetches
<1>2. Numbered(fetch, sequence) /\ \A q \in Fetch : ~Newest(q)
  BY <1>1 DEF UsageViewInit, Numbered, Newest
<1>3. UsageTypes
  <2>1. /\ NoSnapshot \in [what : {"loading", "ready"}, of : Nat] /\ NoSnapshot.of = 0
        /\ Loading \in [what : {"loading", "ready", "error"}, period : Period, of : Nat]
        /\ Loading.of = 0
    BY <1>1 DEF Loading, NoSnapshot
  <2>2. ledger = 0 /\ view = Loading /\ cache = [p \in Period |-> NoSnapshot]
    BY DEF UsageViewInit
  <2>3. view.of <= ledger /\ \A p \in Period : cache[p].of <= ledger
    BY <2>1, <2>2
  <2>4. QED
    BY <1>1, <2>1, <2>2, <2>3 DEF UsageViewInit, UsageTypes
<1>4. NewestInv /\ ViewInv
  BY <1>1, <1>2 DEF UsageViewInit, NewestInv, ViewInv, Loading
<1>5. QED
  BY <1>2, <1>3, <1>4 DEF UsageInv

LEMMA UsageNextStep == UsageInv /\ [UsageViewNext]_usageViewVars => UsageStep
<1> SUFFICES ASSUME UsageInv, [UsageViewNext]_usageViewVars PROVE UsageStep
  OBVIOUS
<1>1. CASE UsageViewNext
  BY <1>1, AskStep, GrowsStep, ServeStep, TakeStep, CloseStep DEF UsageViewNext
<1>2. CASE UNCHANGED usageViewVars
  <2>1. UNCHANGED <<ledger, period, view, cache, sequence, refreshing, visit, fetch>>
    BY <1>2 DEF usageViewVars
  <2>2. UsageTypes' /\ Numbered(fetch, sequence)' /\ NewestInv' /\ ViewInv'
    BY <2>1 DEF UsageInv, UsageTypes, Numbered, NewestInv, ViewInv, Newest
  <2>3. NoOlder
    BY <2>1 DEF NoOlder, UsageInv, UsageTypes
  <2>4. QED
    BY <2>2, <2>3 DEF UsageStep, UsageInv
<1>3. QED
  BY <1>1, <1>2

LEMMA UsageInvariant == UsageViewSpec => []UsageInv
  BY UsageNextStep, UsageInitInv, PTL DEF UsageViewSpec, UsageStep

\* Requests, snapshots and the page keep their types.
THEOREM UsageViewTypes == UsageViewSpec => []UsageViewTypeOK
  BY UsageInvariant, UsageInvTypes, PTL

\* What the page shows is of the range that is selected, and its button waits as long as
\* the newest request does (loadUsage).
THEOREM UsageIsOfRangeHolds == UsageViewSpec => []UsageIsOfRange
  BY UsageInvariant, UsageInvTypes, PTL

\* While the page stays at one range its usage never goes back, in whatever order the
\* answers come (requestSequence).
THEOREM UsageNeverGoesBackHolds == UsageViewSpec => UsageNeverGoesBack
<1>1. UsageInv /\ [UsageViewNext]_usageViewVars =>
        [view.what = "ready" /\ visit' = "open" /\ period' = period =>
           view'.what = "ready" /\ view'.of >= view.of]_usageViewVars
  BY UsageNextStep DEF UsageStep, NoOlder
<1>2. QED
  BY <1>1, UsageInvariant, PTL DEF UsageViewSpec, UsageNeverGoesBack

---------------------------------------------------------------------------
(* The terminals *)

SocketStates == {"free", "connecting", "open", "closing"}

Statuses == {"none", "connecting", "connected", "closed", "error"}

Live(s) == socket[s].state \in {"connecting", "open"}

TabsInv ==
  /\ tabs \subseteq Tab /\ selected \in tabs
  /\ IsFiniteSet(tabs) /\ Cardinality(tabs) <= MaxTabs

\* A tab is mounted on a socket that lives, and that is its own.
SocketsInv ==
  /\ socket \in [Socket -> [state : SocketStates, tab : Tab \cup {NoSocket}]]
  /\ mounted \in [Tab -> Socket \cup {NoSocket}]
  /\ \A s \in Socket : Live(s) => socket[s].tab \in tabs /\ mounted[socket[s].tab] = s
  /\ \A t \in Tab : mounted[t] # NoSocket => Live(mounted[t]) /\ socket[mounted[t]].tab = t

\* What a tab reports is the state of its socket.
ReportsInv ==
  /\ status \in [Tab -> Statuses]
  /\ retries \in [Tab -> 0..MaxRetries]
  /\ waiting \subseteq tabs
  /\ \A t \in waiting : status[t] = "error"
  /\ \A t \in tabs :
       /\ status[t] = "connected" <=> mounted[t] # NoSocket /\ socket[mounted[t]].state = "open"
       /\ status[t] = "connecting" <=> mounted[t] # NoSocket /\ socket[mounted[t]].state = "connecting"

TerminalsInv == TabsInv /\ SocketsInv /\ ReportsInv

LEMMA TerminalsInvTypes == TerminalsInv => TerminalsTypeOK /\ StatusIsOfSocket
<1> SUFFICES ASSUME TerminalsInv PROVE TerminalsTypeOK /\ StatusIsOfSocket
  OBVIOUS
<1>1. TerminalsTypeOK
  BY DEF TerminalsInv, TabsInv, SocketsInv, ReportsInv, TerminalsTypeOK, SocketStates, Statuses
<1>2. StatusIsOfSocket
  BY DEF TerminalsInv, SocketsInv, ReportsInv, StatusIsOfSocket, Live
<1>3. QED
  BY <1>1, <1>2

\* A tab without a socket has nothing to dispose of.
LEMMA NothingDisposed ==
  ASSUME NEW t \in Tab, mounted[t] = NoSocket
  PROVE  Disposed(t) = socket
  BY DEF Disposed

\* The tab that is broken, or new, has another socket.
LEMMA ConnectStep ==
  ASSUME TerminalsInv, NEW t \in Tab, mounted[t] = NoSocket, Connect(t, socket),
         tabs' = tabs \cup {t}, TabsInv', retries' \in [Tab -> 0..MaxRetries]
  PROVE  TerminalsInv'
<1>1. PICK s \in Socket :
        /\ socket[s].state = "free"
        /\ socket' = [socket EXCEPT ![s] = [state |-> "connecting", tab |-> t]]
        /\ mounted' = [mounted EXCEPT ![t] = s]
        /\ status' = [status EXCEPT ![t] = "connecting"]
        /\ waiting' = waiting \ {t}
  BY DEF Connect
<1>2. /\ socket \in [Socket -> [state : SocketStates, tab : Tab \cup {NoSocket}]]
      /\ mounted \in [Tab -> Socket \cup {NoSocket}]
      /\ status \in [Tab -> Statuses]
      /\ s # NoSocket /\ "connecting" \in Statuses /\ "connecting" \in SocketStates
  BY TerminalsAssumption DEF TerminalsInv, SocketsInv, ReportsInv, SocketStates, Statuses
<1>3. /\ socket' \in [Socket -> [state : SocketStates, tab : Tab \cup {NoSocket}]]
      /\ mounted' \in [Tab -> Socket \cup {NoSocket}]
      /\ status' \in [Tab -> Statuses]
      /\ socket'[s].state = "connecting" /\ socket'[s].tab = t
      /\ mounted'[t] = s /\ status'[t] = "connecting"
      /\ \A x \in Socket \ {s} : socket'[x] = socket[x]
      /\ \A u \in Tab \ {t} : mounted'[u] = mounted[u] /\ status'[u] = status[u]
  BY <1>1, <1>2
<1>4. \A u \in Tab : mounted[u] # s
  BY <1>1, <1>2 DEF TerminalsInv, SocketsInv, Live
<1>5. SocketsInv'
  <2>1. ASSUME NEW x \in Socket, Live(x)'
        PROVE  socket'[x].tab \in tabs' /\ mounted'[socket'[x].tab] = x
    <3>1. CASE x = s
      BY <1>3, <3>1
    <3>2. CASE x # s
      <4>1. Live(x) /\ socket'[x] = socket[x]
        BY <1>3, <2>1, <3>2 DEF Live
      <4>2. socket[x].tab \in tabs /\ mounted[socket[x].tab] = x
        BY <4>1 DEF TerminalsInv, SocketsInv
      <4>3. socket[x].tab # t /\ socket[x].tab \in Tab
        BY <4>2, TerminalsAssumption DEF TerminalsInv, TabsInv
      <4>4. QED
        BY <1>3, <4>1, <4>2, <4>3
    <3>3. QED
      BY <3>1, <3>2
  <2>2. ASSUME NEW u \in Tab, mounted'[u] # NoSocket
        PROVE  Live(mounted[u])' /\ socket'[mounted'[u]].tab = u
    <3>1. CASE u = t
      BY <1>3, <3>1 DEF Live
    <3>2. CASE u # t
      <4>1. mounted'[u] = mounted[u] /\ mounted[u] \in Socket /\ mounted[u] # s
        BY <1>2, <1>3, <1>4, <2>2, <3>2
      <4>2. Live(mounted[u]) /\ socket[mounted[u]].tab = u
        BY <2>2, <4>1 DEF TerminalsInv, SocketsInv
      <4>3. QED
        BY <1>3, <4>1, <4>2 DEF Live
    <3>3. QED
      BY <3>1, <3>2
  <2>3. QED
    BY <1>3, <2>1, <2>2 DEF SocketsInv
<1>6. ReportsInv'
  <2>1. waiting' \subseteq tabs' /\ \A u \in waiting' : status'[u] = "error"
    BY <1>1, <1>3 DEF TerminalsInv, TabsInv, ReportsInv
  <2>2. ASSUME NEW u \in tabs'
        PROVE  /\ status'[u] = "connected"
                    <=> mounted'[u] # NoSocket /\ socket'[mounted'[u]].state = "open"
               /\ status'[u] = "connecting"
                    <=> mounted'[u] # NoSocket /\ socket'[mounted'[u]].state = "connecting"
    <3>1. CASE u = t
      BY <1>2, <1>3, <3>1
    <3>2. CASE u # t
      <4>1. u \in tabs /\ u \in Tab
        BY <3>2 DEF TerminalsInv, TabsInv
      <4>2. mounted'[u] = mounted[u] /\ status'[u] = status[u] /\ mounted[u] # s
        BY <1>3, <1>4, <3>2, <4>1
      <4>3. mounted[u] # NoSocket => socket'[mounted[u]] = socket[mounted[u]]
        BY <1>2, <1>3, <4>1, <4>2
      <4>4. QED
        BY <4>1, <4>2, <4>3 DEF TerminalsInv, ReportsInv
    <3>3. QED
      BY <3>1, <3>2
  <2>3. QED
    BY <1>3, <2>1, <2>2 DEF ReportsInv
<1>7. QED
  BY <1>5, <1>6 DEF TerminalsInv

\* The socket of a tab ends or is closing; no other tab has it.
LEMMA DroppedEffect ==
  ASSUME TerminalsInv, NEW t \in Tab, NEW s \in Socket, mounted[t] = s,
         NEW new \in [state : {"free", "closing"}, tab : Tab \cup {NoSocket}],
         socket' = [socket EXCEPT ![s] = new],
         mounted' = [mounted EXCEPT ![t] = NoSocket],
         tabs' = tabs \/ tabs' = tabs \ {t}
  PROVE  /\ SocketsInv'
         /\ mounted'[t] = NoSocket
         /\ \A u \in Tab \ {t} :
              /\ mounted'[u] = mounted[u]
              /\ mounted[u] # NoSocket => socket'[mounted[u]] = socket[mounted[u]]
<1>1. /\ socket \in [Socket -> [state : SocketStates, tab : Tab \cup {NoSocket}]]
      /\ mounted \in [Tab -> Socket \cup {NoSocket}]
      /\ \A x \in Socket : Live(x) => socket[x].tab \in tabs /\ mounted[socket[x].tab] = x
      /\ \A u \in Tab : mounted[u] # NoSocket => Live(mounted[u]) /\ socket[mounted[u]].tab = u
      /\ s # NoSocket /\ new \in [state : SocketStates, tab : Tab \cup {NoSocket}]
  BY TerminalsAssumption DEF TerminalsInv, SocketsInv, SocketStates
<1>2. /\ socket' \in [Socket -> [state : SocketStates, tab : Tab \cup {NoSocket}]]
      /\ mounted' \in [Tab -> Socket \cup {NoSocket}]
      /\ mounted'[t] = NoSocket
      /\ \A u \in Tab \ {t} : mounted'[u] = mounted[u]
      /\ \A x \in Socket \ {s} : socket'[x] = socket[x]
      /\ socket'[s] = new
  BY <1>1
<1>3. ASSUME NEW u \in Tab \ {t}, mounted[u] # NoSocket
      PROVE  mounted[u] \in Socket \ {s} /\ socket'[mounted[u]] = socket[mounted[u]]
  <2>1. mounted[u] \in Socket /\ mounted[u] # s
    BY <1>1, <1>3
  <2>2. QED
    BY <1>2, <2>1
<1>4. ASSUME NEW x \in Socket, Live(x)'
      PROVE  socket'[x].tab \in tabs' /\ mounted'[socket'[x].tab] = x
  <2>1. x # s
    BY <1>2, <1>4 DEF Live
  <2>2. socket'[x] = socket[x] /\ Live(x)
    BY <1>2, <1>4, <2>1 DEF Live
  <2>3. socket[x].tab \in tabs /\ mounted[socket[x].tab] = x /\ socket[x].tab # t
    BY <1>1, <2>1, <2>2
  <2>4. socket[x].tab \in Tab
    BY <2>3 DEF TerminalsInv, TabsInv
  <2>5. QED
    BY <1>2, <2>2, <2>3, <2>4
<1>5. ASSUME NEW u \in Tab, mounted'[u] # NoSocket
      PROVE  Live(mounted[u])' /\ socket'[mounted'[u]].tab = u
  <2>1. u \in Tab \ {t} /\ mounted'[u] = mounted[u]
    BY <1>2, <1>5
  <2>2. socket'[mounted[u]] = socket[mounted[u]] /\ Live(mounted[u]) /\ socket[mounted[u]].tab = u
    BY <1>1, <1>3, <1>5, <2>1
  <2>3. QED
    BY <2>1, <2>2 DEF Live
<1>6. QED
  BY <1>2, <1>3, <1>4, <1>5 DEF SocketsInv

LEMMA SocketOpensStep ==
  ASSUME TerminalsInv, NEW s \in Socket, SocketOpens(s)
  PROVE  TerminalsInv'
<1> DEFINE t == socket[s].tab
<1>1. /\ socket[s].state = "connecting"
      /\ socket' = [socket EXCEPT ![s].state = "open"]
      /\ retries' = [retries EXCEPT ![t] = 0]
      /\ status' = [status EXCEPT ![t] = "connected"]
      /\ UNCHANGED <<tabs, selected, mounted, waiting>>
  BY DEF SocketOpens
<1>2. /\ socket \in [Socket -> [state : SocketStates, tab : Tab \cup {NoSocket}]]
      /\ mounted \in [Tab -> Socket \cup {NoSocket}]
      /\ status \in [Tab -> Statuses] /\ retries \in [Tab -> 0..MaxRetries]
      /\ 0 \in 0..MaxRetries /\ {"open", "connecting"} \subseteq SocketStates /\ "connected" \in Statuses
      /\ tabs \subseteq Tab /\ s # NoSocket
  BY TerminalsAssumption DEF TerminalsInv, TabsInv, SocketsInv, ReportsInv, SocketStates, Statuses
<1>3. t \in tabs /\ mounted[t] = s /\ status[t] = "connecting"
  <2>1. t \in tabs /\ mounted[t] = s
    BY <1>1 DEF TerminalsInv, SocketsInv, Live
  <2>2. QED
    BY <1>1, <1>2, <2>1 DEF TerminalsInv, ReportsInv
<1>4. /\ socket' \in [Socket -> [state : SocketStates, tab : Tab \cup {NoSocket}]]
      /\ socket'[s].state = "open" /\ socket'[s].tab = t
      /\ \A x \in Socket \ {s} : socket'[x] = socket[x]
  BY <1>1, <1>2
<1> HIDE DEF t
<1>5. /\ status' \in [Tab -> Statuses] /\ retries' \in [Tab -> 0..MaxRetries]
      /\ status'[t] = "connected" /\ \A u \in Tab \ {t} : status'[u] = status[u]
  BY <1>1, <1>2, <1>3
<1>6. \A x \in Socket : Live(x)' <=> Live(x)
  BY <1>1, <1>4 DEF Live
<1>7. \A x \in Socket : socket'[x].tab = socket[x].tab
  BY <1>4 DEF t
<1>8. SocketsInv'
  <2>1. \A x \in Socket : Live(x)' => socket'[x].tab \in tabs' /\ mounted'[socket'[x].tab] = x
    BY <1>1, <1>6, <1>7 DEF TerminalsInv, SocketsInv
  <2>2. \A u \in Tab : mounted'[u] # NoSocket => Live(mounted[u])' /\ socket'[mounted'[u]].tab = u
    <3> SUFFICES ASSUME NEW u \in Tab, mounted'[u] # NoSocket
                 PROVE  Live(mounted[u])' /\ socket'[mounted'[u]].tab = u
      OBVIOUS
    <3>1. mounted'[u] = mounted[u] /\ mounted[u] \in Socket
      BY <1>1, <1>2
    <3>2. Live(mounted[u]) /\ socket[mounted[u]].tab = u
      BY <3>1 DEF TerminalsInv, SocketsInv
    <3>3. QED
      BY <1>6, <1>7, <3>1, <3>2 DEF Live
  <2>3. QED
    BY <1>1, <1>2, <1>4, <2>1, <2>2 DEF SocketsInv
<1>9. ReportsInv'
  <2>1. t \notin waiting
    BY <1>3 DEF TerminalsInv, ReportsInv
  <2>2. ASSUME NEW u \in tabs
        PROVE  /\ status'[u] = "connected"
                    <=> mounted[u] # NoSocket /\ socket'[mounted[u]].state = "open"
               /\ status'[u] = "connecting"
                    <=> mounted[u] # NoSocket /\ socket'[mounted[u]].state = "connecting"
    <3>1. CASE u = t
      BY <1>2, <1>3, <1>4, <1>5, <3>1
    <3>2. CASE u # t
      <4>1. status'[u] = status[u] /\ u \in Tab
        BY <1>2, <1>5, <3>2
      <4>2. mounted[u] # NoSocket => mounted[u] \in Socket \ {s}
        BY <1>2, <3>2, <4>1 DEF TerminalsInv, SocketsInv, t
      <4>3. mounted[u] # NoSocket => socket'[mounted[u]] = socket[mounted[u]]
        BY <1>4, <4>2
      <4>4. QED
        BY <4>1, <4>3 DEF TerminalsInv, ReportsInv
    <3>3. QED
      BY <3>1, <3>2
  <2>3. \A u \in waiting : u \in Tab /\ status'[u] = "error"
    BY <1>2, <1>5, <2>1 DEF TerminalsInv, ReportsInv
  <2>4. QED
    BY <1>1, <1>5, <2>2, <2>3 DEF TerminalsInv, ReportsInv
<1>10. TabsInv'
  BY <1>1 DEF TerminalsInv, TabsInv
<1>11. QED
  BY <1>8, <1>9, <1>10 DEF TerminalsInv

LEMMA SocketClosesStep ==
  ASSUME TerminalsInv, NEW s \in Socket, SocketCloses(s)
  PROVE  TerminalsInv'
<1>1. PICK t : t = socket[s].tab
  OBVIOUS
<1>2. /\ Live(s)
      /\ socket' = [socket EXCEPT ![s] = Free]
      /\ mounted' = [mounted EXCEPT ![t] = NoSocket]
      /\ \/ /\ status' = [status EXCEPT ![t] = "closed"]
            /\ UNCHANGED <<retries, waiting>>
         \/ /\ status' = [status EXCEPT ![t] = "error"]
            /\ IF retries[t] < MaxRetries
                 THEN retries' = [retries EXCEPT ![t] = @ + 1] /\ waiting' = waiting \cup {t}
                 ELSE UNCHANGED <<retries, waiting>>
      /\ UNCHANGED <<tabs, selected>>
  BY <1>1 DEF SocketCloses, Live
<1>3. /\ status \in [Tab -> Statuses] /\ retries \in [Tab -> 0..MaxRetries]
      /\ {"closed", "error"} \subseteq Statuses /\ tabs \subseteq Tab
      /\ waiting \subseteq tabs /\ MaxRetries \in Nat
  BY TerminalsAssumption DEF TerminalsInv, TabsInv, ReportsInv, Statuses
<1>4. t \in tabs /\ t \in Tab /\ mounted[t] = s
  BY <1>1, <1>2, <1>3 DEF TerminalsInv, SocketsInv
<1>5. Free \in [state : {"free", "closing"}, tab : Tab \cup {NoSocket}]
  BY DEF Free
<1>6. /\ SocketsInv'
      /\ mounted'[t] = NoSocket
      /\ \A u \in Tab \ {t} :
           /\ mounted'[u] = mounted[u]
           /\ mounted[u] # NoSocket => socket'[mounted[u]] = socket[mounted[u]]
  BY <1>2, <1>4, <1>5, DroppedEffect
<1>7. t \notin waiting
  <2>1. mounted[t] # NoSocket /\ socket[mounted[t]].state \in {"connecting", "open"}
    BY <1>2, <1>4, TerminalsAssumption DEF Live
  <2>2. status[t] = "connected" \/ status[t] = "connecting"
    BY <1>4, <2>1 DEF TerminalsInv, ReportsInv
  <2>3. QED
    BY <2>2 DEF TerminalsInv, ReportsInv
<1>8. /\ status' \in [Tab -> Statuses] /\ status'[t] \in {"closed", "error"}
      /\ \A u \in Tab \ {t} : status'[u] = status[u]
  BY <1>2, <1>3, <1>4
<1>9. retries' \in [Tab -> 0..MaxRetries]
  BY <1>2, <1>3, <1>4
<1>10. waiting' \subseteq tabs /\ \A u \in waiting' : status'[u] = "error"
  BY <1>2, <1>3, <1>4, <1>7, <1>8 DEF TerminalsInv, ReportsInv
<1>11. ASSUME NEW u \in tabs
       PROVE  /\ status'[u] = "connected"
                   <=> mounted'[u] # NoSocket /\ socket'[mounted'[u]].state = "open"
              /\ status'[u] = "connecting"
                   <=> mounted'[u] # NoSocket /\ socket'[mounted'[u]].state = "connecting"
  <2>1. CASE u = t
    BY <1>6, <1>8, <2>1
  <2>2. CASE u # t
    BY <1>3, <1>6, <1>8, <2>2 DEF TerminalsInv, ReportsInv
  <2>3. QED
    BY <2>1, <2>2
<1>12. ReportsInv'
  BY <1>2, <1>8, <1>9, <1>10, <1>11 DEF ReportsInv
<1>13. QED
  BY <1>2, <1>6, <1>12 DEF TerminalsInv, TabsInv

LEMMA SocketGoneStep ==
  ASSUME TerminalsInv, NEW s \in Socket, SocketGone(s)
  PROVE  TerminalsInv'
<1>1. /\ ~Live(s) /\ socket' = [socket EXCEPT ![s] = Free]
      /\ UNCHANGED <<tabs, selected, mounted, status, retries, waiting>>
  BY DEF SocketGone, Live
<1>2. Free \in [state : SocketStates, tab : Tab \cup {NoSocket}] /\ Free.state = "free"
  BY DEF Free, SocketStates
<1>3. /\ socket' \in [Socket -> [state : SocketStates, tab : Tab \cup {NoSocket}]]
      /\ socket'[s] = Free
      /\ \A x \in Socket \ {s} : socket'[x] = socket[x]
  BY <1>1, <1>2 DEF TerminalsInv, SocketsInv
<1>4. \A u \in Tab : mounted[u] # NoSocket => mounted[u] \in Socket \ {s}
  BY <1>1 DEF TerminalsInv, SocketsInv
<1>5. ~Live(s)'
  BY <1>2, <1>3 DEF Live
<1>6. SocketsInv'
  BY <1>1, <1>3, <1>4, <1>5 DEF TerminalsInv, SocketsInv, Live
<1>7. ReportsInv'
  <2>1. \A u \in tabs : mounted[u] # NoSocket => socket'[mounted[u]] = socket[mounted[u]]
    BY <1>3, <1>4 DEF TerminalsInv, TabsInv
  <2>2. QED
    BY <1>1, <2>1 DEF TerminalsInv, ReportsInv
<1>8. QED
  BY <1>1, <1>6, <1>7 DEF TerminalsInv, TabsInv

LEMMA TabSteps ==
  ASSUME TerminalsInv,
         NEW t \in Tab, RetryByItself(t) \/ SelectTab(t) \/ AddTerminal(t)
  PROVE  TerminalsInv'
<1>1. /\ tabs \subseteq Tab /\ retries \in [Tab -> 0..MaxRetries] /\ 0 \in 0..MaxRetries
      /\ waiting \subseteq tabs
  BY TerminalsAssumption DEF TerminalsInv, TabsInv, ReportsInv
<1>2. CASE RetryByItself(t)
  <2>1. t \in tabs /\ status[t] = "error" /\ UNCHANGED <<tabs, selected, retries>>
    BY <1>1, <1>2 DEF RetryByItself, TerminalsInv, ReportsInv
  <2>2. mounted[t] = NoSocket
    <3>1. status[t] # "connected" /\ status[t] # "connecting"
      BY <2>1
    <3>2. QED
      BY <2>1, <3>1 DEF TerminalsInv, SocketsInv, ReportsInv, Live
  <2>3. Connect(t, socket)
    BY <1>2, <2>2, NothingDisposed DEF RetryByItself
  <2>4. tabs' = tabs \cup {t} /\ TabsInv'
    BY <2>1 DEF TerminalsInv, TabsInv
  <2>5. QED
    BY <1>1, <2>1, <2>2, <2>3, <2>4, ConnectStep
<1>3. CASE SelectTab(t)
  <2>1. selected' \in tabs /\ UNCHANGED <<tabs, socket, mounted, status, retries, waiting>>
    BY <1>3 DEF SelectTab
  <2>2. QED
    BY <2>1 DEF TerminalsInv, TabsInv, SocketsInv, ReportsInv, Live
<1>4. CASE AddTerminal(t)
  <2>1. /\ t \notin tabs /\ Cardinality(tabs) < MaxTabs /\ tabs' = tabs \cup {t}
        /\ selected' = t /\ retries' = [retries EXCEPT ![t] = 0] /\ Connect(t, socket)
    BY <1>4 DEF AddTerminal
  <2>2. mounted[t] = NoSocket
    BY <2>1 DEF TerminalsInv, SocketsInv
  <2>3. IsFiniteSet(tabs') /\ Cardinality(tabs') = Cardinality(tabs) + 1
    BY <2>1, FS_AddElement DEF TerminalsInv, TabsInv
  <2>4. Cardinality(tabs') <= MaxTabs
    <3>1. Cardinality(tabs) \in Nat
      BY FS_CardinalityType DEF TerminalsInv, TabsInv
    <3>2. QED
      BY <2>1, <2>3, <3>1, TerminalsAssumption
  <2>5. TabsInv'
    BY <1>1, <2>1, <2>3, <2>4 DEF TabsInv
  <2>6. retries' \in [Tab -> 0..MaxRetries]
    BY <1>1, <2>1
  <2>7. QED
    BY <2>1, <2>2, <2>5, <2>6, ConnectStep
<1>5. QED
  BY <1>2, <1>3, <1>4

LEMMA ReconnectStep ==
  ASSUME TerminalsInv, Reconnect
  PROVE  TerminalsInv'
<1>1. /\ status[selected] # "connected" /\ status[selected] # "connecting"
      /\ selected \in tabs /\ selected \in Tab /\ UNCHANGED <<tabs, selected, retries>>
  BY DEF Reconnect, TerminalsInv, TabsInv
<1>2. mounted[selected] = NoSocket
  BY <1>1 DEF TerminalsInv, SocketsInv, ReportsInv, Live
<1>3. Connect(selected, socket)
  BY <1>1, <1>2, NothingDisposed DEF Reconnect
<1>4. tabs' = tabs \cup {selected} /\ TabsInv' /\ retries' \in [Tab -> 0..MaxRetries]
  BY <1>1 DEF TerminalsInv, TabsInv, ReportsInv
<1>5. QED
  BY <1>1, <1>2, <1>3, <1>4, ConnectStep

LEMMA CloseTerminalStep ==
  ASSUME TerminalsInv, NEW t \in Tab, CloseTerminal(t)
  PROVE  TerminalsInv'
<1>1. /\ t \in tabs /\ tabs # {t} /\ tabs' = tabs \ {t}
      /\ IF selected = t THEN selected' \in tabs' ELSE UNCHANGED selected
      /\ socket' = Disposed(t)
      /\ mounted' = [mounted EXCEPT ![t] = NoSocket]
      /\ status' = [status EXCEPT ![t] = "none"]
      /\ waiting' = waiting \ {t}
      /\ UNCHANGED retries
  BY DEF CloseTerminal
<1>2. TabsInv'
  <2>1. tabs' \subseteq Tab /\ selected' \in tabs'
    BY <1>1 DEF TerminalsInv, TabsInv
  <2>2. IsFiniteSet(tabs') /\ Cardinality(tabs') <= Cardinality(tabs)
    BY <1>1, FS_Subset DEF TerminalsInv, TabsInv
  <2>3. Cardinality(tabs) \in Nat /\ Cardinality(tabs') \in Nat /\ Cardinality(tabs) <= MaxTabs
    BY <2>2, FS_CardinalityType DEF TerminalsInv, TabsInv
  <2>4. QED
    BY <2>1, <2>2, <2>3, TerminalsAssumption DEF TabsInv
<1>3. /\ SocketsInv'
      /\ \A u \in Tab \ {t} :
           /\ mounted'[u] = mounted[u]
           /\ mounted[u] # NoSocket => socket'[mounted[u]] = socket[mounted[u]]
  <2>1. CASE mounted[t] = NoSocket
    <3>1. socket' = socket /\ mounted' = mounted
      BY <1>1, <2>1, NothingDisposed DEF TerminalsInv, SocketsInv
    <3>2. \A s \in Socket : Live(s) => socket[s].tab # t
      BY <2>1, TerminalsAssumption DEF TerminalsInv, SocketsInv
    <3>3. QED
      BY <1>1, <3>1, <3>2 DEF TerminalsInv, SocketsInv, Live
  <2>2. CASE mounted[t] # NoSocket
    <3>1. PICK s \in Socket : mounted[t] = s
      BY <2>2 DEF TerminalsInv, SocketsInv
    <3>2. Live(s) /\ socket[s] \in [state : SocketStates, tab : Tab \cup {NoSocket}]
      BY <2>2, <3>1 DEF TerminalsInv, SocketsInv
    <3>3. PICK new : new = [socket[s] EXCEPT !.state = "closing"]
      OBVIOUS
    <3>4. new \in [state : {"free", "closing"}, tab : Tab \cup {NoSocket}]
      BY <3>2, <3>3
    <3>5. socket' = [socket EXCEPT ![s] = new]
      BY <1>1, <2>2, <3>1, <3>2, <3>3 DEF Disposed, Live
    <3>6. mounted' = [mounted EXCEPT ![t] = NoSocket] /\ tabs' = tabs \ {t}
      BY <1>1
    <3>7. QED
      BY <3>1, <3>4, <3>5, <3>6, DroppedEffect
  <2>3. QED
    BY <2>1, <2>2
<1>4. /\ status' \in [Tab -> Statuses]
      /\ \A u \in Tab \ {t} : status'[u] = status[u]
  <2>1. "none" \in Statuses /\ status \in [Tab -> Statuses]
    BY DEF Statuses, TerminalsInv, ReportsInv
  <2>2. QED
    BY <1>1, <2>1
<1>5. ReportsInv'
  <2>1. \A u \in tabs' : u \in Tab \ {t} /\ u \in tabs
    BY <1>1 DEF TerminalsInv, TabsInv
  <2>2. waiting' \subseteq tabs' /\ \A u \in waiting' : status'[u] = "error"
    BY <1>1, <1>4, <2>1 DEF TerminalsInv, ReportsInv
  <2>3. QED
    BY <1>1, <1>3, <1>4, <2>1, <2>2 DEF TerminalsInv, ReportsInv
<1>6. QED
  BY <1>2, <1>3, <1>5 DEF TerminalsInv

LEMMA TerminalsInitInv == TerminalsInit => TerminalsInv
<1> SUFFICES ASSUME TerminalsInit PROVE TerminalsInv
  OBVIOUS
<1>1. PICK t \in Tab, s \in Socket :
        /\ tabs = {t} /\ selected = t
        /\ socket = [x \in Socket |-> IF x = s THEN [state |-> "connecting", tab |-> t] ELSE Free]
        /\ mounted = [u \in Tab |-> IF u = t THEN s ELSE NoSocket]
        /\ status = [u \in Tab |-> IF u = t THEN "connecting" ELSE "none"]
        /\ retries = [u \in Tab |-> 0] /\ waiting = {}
  BY DEF TerminalsInit
<1>2. TabsInv
  <2>1. IsFiniteSet({t}) /\ Cardinality({t}) = 1
    BY FS_Singleton
  <2>2. QED
    BY <1>1, <2>1, TerminalsAssumption DEF TabsInv
<1>3. /\ Free \in [state : SocketStates, tab : Tab \cup {NoSocket}] /\ Free.state = "free"
      /\ [state |-> "connecting", tab |-> t] \in [state : SocketStates, tab : Tab \cup {NoSocket}]
  BY DEF Free, SocketStates
<1>4. socket \in [Socket -> [state : SocketStates, tab : Tab \cup {NoSocket}]]
      /\ \A x \in Socket : Live(x) <=> x = s
      /\ socket[s].tab = t /\ socket[s].state = "connecting"
  BY <1>1, <1>3 DEF Live
<1>5. SocketsInv
  BY <1>1, <1>4 DEF SocketsInv
<1>6. ReportsInv
  BY <1>1, <1>4, TerminalsAssumption DEF ReportsInv, Statuses
<1>7. QED
  BY <1>2, <1>5, <1>6 DEF TerminalsInv

LEMMA TerminalsInvariant == TerminalsSpec => []TerminalsInv
<1>1. TerminalsInv /\ [TerminalsNext]_terminalVars => TerminalsInv'
  <2> SUFFICES ASSUME TerminalsInv, [TerminalsNext]_terminalVars PROVE TerminalsInv'
    OBVIOUS
  <2>1. CASE TerminalsNext
    BY <2>1, SocketOpensStep, SocketClosesStep, SocketGoneStep, TabSteps, CloseTerminalStep,
       ReconnectStep DEF TerminalsNext
  <2>2. CASE UNCHANGED terminalVars
    BY <2>2 DEF terminalVars, TerminalsInv, TabsInv, SocketsInv, ReportsInv, Live
  <2>3. QED
    BY <2>1, <2>2
<1>2. QED
  BY <1>1, TerminalsInitInv, PTL DEF TerminalsSpec

\* Tabs, sockets and reports keep their types, and there are never too many tabs.
THEOREM TerminalsTypes == TerminalsSpec => []TerminalsTypeOK
  BY TerminalsInvariant, TerminalsInvTypes, PTL

\* What a tab says of its connection is the state of its own socket, however the sockets
\* open, close and end (TerminalSession).
THEOREM StatusIsOfSocketHolds == TerminalsSpec => []StatusIsOfSocket
  BY TerminalsInvariant, TerminalsInvTypes, PTL

=============================================================================
