------------------------ MODULE ProvisioningProofs ------------------------
(***************************************************************************)
(* Proofs about the provisioning queue, for any sets of workspaces, jobs   *)
(* and process starts and any durations and limits.                        *)
(*                                                                         *)
(* The effect lemmas say what one update of a row or of a process changes; *)
(* the invariants are proved from them, one step per action.               *)
(***************************************************************************)
EXTENDS Provisioning, TLAPS

---------------------------------------------------------------------------
(* What an update changes *)

LEMMA GotoEffect ==
  ASSUME process \in [Process -> ProcessState], NEW p \in Process,
         NEW s \in {"idle", "resolved", "polled"}, Goto(p, s)
  PROVE  /\ process' \in [Process -> ProcessState]
         /\ \A q \in Process \ {p} : process'[q] = process[q]
         /\ process'[p].step = s
         /\ process'[p].target = process[p].target
         /\ process'[p].job = process[p].job
         /\ process'[p].attempt = process[p].attempt
  BY DEF Goto, ProcessState

LEMMA ReturnEffect ==
  ASSUME process \in [Process -> ProcessState], NEW p \in Process, Return(p)
  PROVE  /\ process' \in [Process -> ProcessState]
         /\ \A q \in Process \ {p} : process'[q] = process[q]
         /\ process'[p].step = "idle"
         /\ process'[p].job = process[p].job
         /\ process'[p].attempt = process[p].attempt
  BY DEF Return, ProcessState

LEMMA AtRestEffect ==
  ASSUME process \in [Process -> ProcessState], NEW p \in Process,
         NEW s \in {"idle", "gone"}, process' = [process EXCEPT ![p] = AtRest(s)]
  PROVE  /\ process' \in [Process -> ProcessState]
         /\ \A q \in Process \ {p} : process'[q] = process[q]
         /\ process'[p].step = s
         /\ process'[p].job = None
  BY AttemptsAssumption DEF AtRest, ProcessState

LEMMA AdmitEffect ==
  ASSUME process \in [Process -> ProcessState], NEW p \in Process,
         NEW w \in Workspace, Admit(p, w)
  PROVE  /\ process' \in [Process -> ProcessState]
         /\ \A q \in Process \ {p} : process'[q] = process[q]
         /\ process'[p].step = "admitted"
         /\ process'[p].target = w
         /\ process'[p].job = process[p].job
         /\ process'[p].attempt = process[p].attempt
  BY DEF Admit, ProcessState

LEMMA QueuedRowEffect ==
  ASSUME now \in Nat, job \in [Job -> JobRow], NEW j \in Job, NEW w \in Workspace,
         job' = [job EXCEPT ![j] = QueuedRow(w)]
  PROVE  /\ job' \in [Job -> JobRow]
         /\ \A k \in Job \ {j} : job'[k] = job[k]
         /\ job'[j].status = "queued"
         /\ job'[j].workspace = w
         /\ job'[j].attempt = 0
         /\ job'[j].reclaims = 0
  BY AttemptsAssumption DEF QueuedRow, JobRow

LEMMA FinishedRowEffect ==
  ASSUME job \in [Job -> JobRow], NEW j \in Job, NEW t \in Nat,
         NEW s \in {"queued", "succeeded", "failed"},
         job' = [job EXCEPT ![j] = FinishedRow(j, s, t)]
  PROVE  /\ job' \in [Job -> JobRow]
         /\ \A k \in Job \ {j} : job'[k] = job[k]
         /\ job'[j].status = s
         /\ job'[j].workspace = job[j].workspace
         /\ job'[j].attempt = job[j].attempt
         /\ job'[j].reclaims = job[j].reclaims
  BY DEF FinishedRow, JobRow

LEMMA ClaimedRowEffect ==
  ASSUME now \in Nat, job \in [Job -> JobRow], NEW j \in Job, NEW p \in Process,
         job[j].attempt < AttemptBound,
         job' = [job EXCEPT ![j] = ClaimedRow(p, j)]
  PROVE  /\ job' \in [Job -> JobRow]
         /\ \A k \in Job \ {j} : job'[k] = job[k]
         /\ job'[j].status = "running"
         /\ job'[j].workspace = job[j].workspace
         /\ job'[j].attempt = job[j].attempt + 1
         /\ job'[j].owner = p
         /\ job'[j].reclaims = IF job[j].status = "running"
                                 THEN job[j].reclaims + 1
                                 ELSE job[j].reclaims
<1> DEFINE r == ClaimedRow(p, j)
<1>1. job[j] \in JobRow
  OBVIOUS
<1>2. /\ r.status = "running"
      /\ r.workspace = job[j].workspace
      /\ r.attempt = job[j].attempt + 1
      /\ r.owner = p
      /\ r.reclaims = IF job[j].status = "running"
                        THEN job[j].reclaims + 1
                        ELSE job[j].reclaims
  BY <1>1 DEF ClaimedRow, JobRow
<1>3. r \in JobRow
  <2>1. now + LeaseDuration \in Nat
    BY LeaseAssumption
  <2>2. job[j].attempt + 1 \in 0..AttemptBound
    BY <1>1, AttemptsAssumption DEF JobRow
  <2>3. (IF job[j].status = "running"
           THEN job[j].reclaims + 1 ELSE job[j].reclaims) \in Nat
    BY <1>1 DEF JobRow
  <2>4. QED
    BY <1>1, <2>1, <2>2, <2>3 DEF ClaimedRow, JobRow
<1>4. job' = [job EXCEPT ![j] = r]
  OBVIOUS
<1> HIDE DEF r
<1>5. QED
  BY <1>2, <1>3, <1>4

\* Claim takes a queued or expired job and gives the new attempt to p.
LEMMA ClaimEffect ==
  ASSUME now \in Nat, job \in [Job -> JobRow], process \in [Process -> ProcessState],
         NEW p \in Process, Claim(p)
  PROVE  \E j \in Job :
           /\ Active(j)
           /\ job[j].attempt < AttemptBound
           /\ job' = [job EXCEPT ![j] = ClaimedRow(p, j)]
           /\ process' \in [Process -> ProcessState]
           /\ \A q \in Process \ {p} : process'[q] = process[q]
           /\ process'[p].step = "claimed"
           /\ process'[p].job = j
           /\ process'[p].attempt = job[j].attempt + 1
<1>1. PICK j \in NextClaim :
        /\ job[j].attempt < AttemptBound
        /\ job' = [job EXCEPT ![j] = ClaimedRow(p, j)]
        /\ process' = [process EXCEPT ![p] =
                         [@ EXCEPT !.step = "claimed", !.job = j,
                                   !.attempt = job[j].attempt + 1]]
  BY DEF Claim
<1>2. j \in Job /\ Active(j)
  BY DEF NextClaim, Claimable, Active
<1>3. job[j].attempt + 1 \in 0..AttemptBound
  BY <1>1, <1>2, AttemptsAssumption DEF JobRow
<1>4. /\ process' \in [Process -> ProcessState]
      /\ \A q \in Process \ {p} : process'[q] = process[q]
      /\ process'[p].step = "claimed"
      /\ process'[p].job = j
      /\ process'[p].attempt = job[j].attempt + 1
  BY <1>1, <1>2, <1>3 DEF ProcessState
<1>5. QED
  BY <1>1, <1>2, <1>4

LEMMA RemoveMemberEffect ==
  ASSUME job \in [Job -> JobRow], NEW w \in Workspace, RemoveMember(w)
  PROVE  /\ job' \in [Job -> JobRow]
         /\ \A k \in Job : job[k].workspace # w => job'[k] = job[k]
         /\ \A k \in Job : job[k].workspace = w =>
              /\ job'[k].status = "deleted"
              /\ job'[k].workspace = None
              /\ job'[k].attempt = 0
              /\ job'[k].reclaims = 0
  BY AttemptsAssumption DEF RemoveMember, NoRow, JobRow

---------------------------------------------------------------------------
(* Types *)

\* Where a process is in its code determines which of its locals are set.
ProcessShape ==
  \A p \in Process :
    /\ process[p].step \in {"admitted", "resolved"} => process[p].target \in Workspace
    /\ process[p].step = "claimed" => process[p].job # None
    /\ process[p].job # None => process[p].attempt \in 1..AttemptBound

\* An active job belongs to a workspace.
ActiveHasWorkspace ==
  \A j \in Job : Active(j) => job[j].workspace \in Workspace

TypeInv == TypeOK /\ ProcessShape /\ ActiveHasWorkspace

LEMMA InitTypeInv == Init => TypeInv
<1> SUFFICES ASSUME Init PROVE TypeInv
  OBVIOUS
<1>1. job \in [Job -> JobRow]
  BY AttemptsAssumption DEF Init, NoRow, JobRow
<1>2. process \in [Process -> ProcessState]
  BY AttemptsAssumption DEF Init, AtRest, ProcessState
<1>3. ProcessShape
  BY DEF Init, AtRest, ProcessShape
<1>4. ActiveHasWorkspace
  BY DEF Init, NoRow, ActiveHasWorkspace, Active
<1>5. QED
  BY <1>1, <1>2, <1>3, <1>4 DEF Init, TypeInv, TypeOK, WorkspaceState

LEMMA NextTypeInv == TypeInv /\ [Next]_vars => TypeInv'
<1> SUFFICES ASSUME TypeInv, [Next]_vars PROVE TypeInv'
  OBVIOUS
<1> USE DEF TypeInv, TypeOK
<1>1. ASSUME NEW p \in Process, NEW w \in Workspace, CreateWorkspace(p, w)
      PROVE  TypeInv'
  BY <1>1 DEF CreateWorkspace, WorkspaceState, ProcessShape, ActiveHasWorkspace, Active
<1>2. ASSUME NEW p \in Process, NEW w \in Workspace, Admit(p, w)
      PROVE  TypeInv'
  BY <1>2, AdmitEffect DEF Admit, ProcessShape, ActiveHasWorkspace, Active
<1>3. ASSUME NEW p \in Process, Resolve(p)
      PROVE  TypeInv'
  BY <1>3, GotoEffect, ReturnEffect
  DEF Resolve, At, ProcessShape, ActiveHasWorkspace, Active
<1>4. ASSUME NEW p \in Process, Enqueue(p)
      PROVE  TypeInv'
  <2> DEFINE w == process[p].target
  <2>1. w \in Workspace
    BY <1>4 DEF Enqueue, At, ProcessShape
  <2>2. job' \in [Job -> JobRow] /\ ActiveHasWorkspace'
    <3>1. CASE UNCHANGED job
      BY <3>1 DEF ActiveHasWorkspace, Active
    <3>2. ASSUME NEW j \in Job, job' = [job EXCEPT ![j] = QueuedRow(w)]
          PROVE  job' \in [Job -> JobRow] /\ ActiveHasWorkspace'
      BY <2>1, <3>2, QueuedRowEffect DEF ActiveHasWorkspace, Active
    <3>3. QED
      BY <1>4, <3>1, <3>2 DEF Enqueue
  <2>3. process' \in [Process -> ProcessState] /\ ProcessShape'
    BY <1>4, ReturnEffect DEF Enqueue, ProcessShape
  <2>4. state' \in [Workspace -> WorkspaceState]
    BY <1>4 DEF Enqueue, WorkspaceState
  <2>5. QED
    BY <1>4, <2>2, <2>3, <2>4 DEF Enqueue
<1>5. ASSUME NEW p \in Process, EnqueueFails(p)
      PROVE  TypeInv'
  BY <1>5, ReturnEffect DEF EnqueueFails, ProcessShape, ActiveHasWorkspace, Active
<1>6. ASSUME NEW p \in Process, Poll(p)
      PROVE  TypeInv'
  BY <1>6, GotoEffect DEF Poll, ProcessShape, ActiveHasWorkspace, Active
<1>7. ASSUME NEW p \in Process, ClaimNothing(p)
      PROVE  TypeInv'
  BY <1>7, GotoEffect DEF ClaimNothing, ProcessShape, ActiveHasWorkspace, Active
<1>8. ASSUME NEW p \in Process, Claim(p)
      PROVE  TypeInv'
  <2>1. PICK j \in Job :
          /\ Active(j)
          /\ job[j].attempt < AttemptBound
          /\ job' = [job EXCEPT ![j] = ClaimedRow(p, j)]
          /\ process' \in [Process -> ProcessState]
          /\ \A q \in Process \ {p} : process'[q] = process[q]
          /\ process'[p].step = "claimed"
          /\ process'[p].job = j
          /\ process'[p].attempt = job[j].attempt + 1
    BY <1>8, ClaimEffect
  <2>2. job' \in [Job -> JobRow] /\ ActiveHasWorkspace'
    BY <2>1, ClaimedRowEffect DEF ActiveHasWorkspace, Active
  <2>3. process'[p].attempt \in 1..AttemptBound
    BY <2>1, AttemptsAssumption DEF JobRow
  <2>4. ProcessShape'
    BY <2>1, <2>3, NoneAssumption DEF ProcessShape
  <2>5. QED
    BY <1>8, <2>1, <2>2, <2>4 DEF Claim
<1>9. ASSUME NEW p \in Process, Send(p)
      PROVE  TypeInv'
  BY <1>9, GotoEffect DEF Send, ProcessShape, ActiveHasWorkspace, Active
<1>10. ASSUME NEW p \in Process, Release(p)
       PROVE  process' \in [Process -> ProcessState] /\ ProcessShape'
  BY <1>10, AtRestEffect DEF Release, ProcessShape
<1>11. ASSUME NEW j \in Job, NEW t \in Nat, NEW s \in {"queued", "succeeded", "failed"},
              Active(j), job' = [job EXCEPT ![j] = FinishedRow(j, s, t)]
       PROVE  job' \in [Job -> JobRow] /\ ActiveHasWorkspace'
  BY <1>11, FinishedRowEffect DEF ActiveHasWorkspace, Active
<1>12. ASSUME NEW p \in Process, Holds(p),
              Answered(p) \/ (At(p, "claimed") /\ ~Authorized(p))
       PROVE  /\ process[p].job \in Job
              /\ Active(process[p].job)
              /\ process[p].attempt \in 1..AttemptBound
  BY <1>12 DEF Holds, Answered, At, Active, ProcessShape, ProcessState
<1>13. ASSUME NEW p \in Process, Succeed(p)
       PROVE  TypeInv'
  BY <1>10, <1>11, <1>12, <1>13 DEF Succeed, WorkspaceState
<1>14. ASSUME NEW p \in Process, Requeue(p)
       PROVE  TypeInv'
  <2>1. now + RetryDelay[process[p].attempt] \in Nat
    BY <1>12, <1>14, DelayAssumption DEF Requeue
  <2>2. QED
    BY <1>10, <1>11, <1>12, <1>14, <2>1 DEF Requeue
<1>15. ASSUME NEW p \in Process, Fail(p)
       PROVE  TypeInv'
  BY <1>10, <1>11, <1>12, <1>15 DEF Fail, WorkspaceState
<1>16. ASSUME NEW p \in Process, LoseLease(p)
       PROVE  TypeInv'
  BY <1>10, <1>16 DEF LoseLease, ActiveHasWorkspace, Active
<1>17. ASSUME NEW p \in Process, Start(p)
       PROVE  TypeInv'
  BY <1>17, GotoEffect DEF Start, ProcessShape, ActiveHasWorkspace, Active
<1>18. ASSUME NEW p \in Process, Stop(p)
       PROVE  TypeInv'
  <2>1. process' \in [Process -> ProcessState] /\ ProcessShape'
    BY <1>18, AtRestEffect DEF Stop, ProcessShape
  <2>2. QED
    BY <1>18, <2>1 DEF Stop, ActiveHasWorkspace, Active
<1>19. ASSUME NEW p \in Process, NEW c \in Control, SetControl(p, c)
       PROVE  TypeInv'
  BY <1>19 DEF SetControl, ProcessShape, ActiveHasWorkspace, Active
<1>20. ASSUME NEW w \in Workspace, ChangeEntitlement(w)
       PROVE  TypeInv'
  BY <1>20 DEF ChangeEntitlement, ProcessShape, ActiveHasWorkspace, Active
<1>21. ASSUME NEW w \in Workspace, RemoveMember(w)
       PROVE  TypeInv'
  <2>1. job' \in [Job -> JobRow] /\ ActiveHasWorkspace'
    BY <1>21, RemoveMemberEffect DEF ActiveHasWorkspace, Active
  <2>2. QED
    BY <1>21, <2>1 DEF RemoveMember, WorkspaceState, ProcessShape
<1>22. CASE Tick
  BY <1>22 DEF Tick, ProcessShape, ActiveHasWorkspace, Active
<1>23. CASE UNCHANGED vars
  BY <1>23 DEF vars, ProcessShape, ActiveHasWorkspace, Active
<1>24. QED
  BY <1>1, <1>2, <1>3, <1>4, <1>5, <1>6, <1>7, <1>8, <1>9, <1>13, <1>14, <1>15,
     <1>16, <1>17, <1>18, <1>19, <1>20, <1>21, <1>22, <1>23 DEF Next

LEMMA TypeInvariant == Spec => []TypeInv
  BY InitTypeInv, NextTypeInv, PTL DEF Spec

\* Every reachable state satisfies TypeOK: the rows and the processes keep the
\* values that the schema's CHECK constraints and the code's writes allow.
THEOREM TypeCorrect == Spec => []TypeOK
<1>1. TypeInv => TypeOK
  BY DEF TypeInv
<1>2. QED
  BY <1>1, TypeInvariant, PTL

---------------------------------------------------------------------------
(* Jobs and workspaces *)

\* The steps that change the tables of jobs and workspaces.
LEMMA TableSteps ==
  ASSUME [Next]_vars
  PROVE  \/ UNCHANGED <<state, bound, job>>
         \/ \E p \in Process, w \in Workspace : CreateWorkspace(p, w)
         \/ \E p \in Process : \/ Enqueue(p) \/ Claim(p)
                               \/ Succeed(p) \/ Requeue(p) \/ Fail(p)
         \/ \E w \in Workspace : RemoveMember(w)
  BY DEF Next, vars, Admit, Resolve, EnqueueFails, Poll, ClaimNothing, Send,
         LoseLease, Start, Stop, SetControl, ChangeEntitlement, Tick

\* A step that finishes a job finds it active.
LEMMA HeldJobIsActive ==
  ASSUME TypeInv, NEW p \in Process, Holds(p), Succeed(p) \/ Requeue(p) \/ Fail(p)
  PROVE  /\ process[p].job \in Job
         /\ Active(process[p].job)
         /\ job[process[p].job].workspace \in Workspace
         /\ process[p].attempt \in 1..AttemptBound
<1>1. process[p].job \in Job
  BY DEF Succeed, Requeue, Fail, Answered, At, TypeInv, TypeOK, ProcessShape, ProcessState
<1>2. QED
  BY <1>1 DEF Succeed, Requeue, Fail, Answered, At, Holds, Active,
              TypeInv, ProcessShape, ActiveHasWorkspace

TableInv == OneActiveJob /\ StateMatchesJob

LEMMA InitTableInv == Init => TableInv
  BY DEF Init, NoRow, TableInv, OneActiveJob, StateMatchesJob, Active

\* A job leaves the active ones together with the state of its workspace.
LEMMA FinishKeepsTableInv ==
  ASSUME TypeInv, TableInv, NEW j \in Job, Active(j), NEW t \in Nat,
         NEW s \in {"succeeded", "failed"}, NEW v \in {"ready", "failed"},
         job' = [job EXCEPT ![j] = FinishedRow(j, s, t)],
         state' = [state EXCEPT ![job[j].workspace] = v],
         \/ v = "ready" /\ bound' = [bound EXCEPT ![job[j].workspace] = TRUE]
         \/ v = "failed" /\ bound' = bound
  PROVE  TableInv'
<1>1. /\ \A k \in Job \ {j} : job'[k] = job[k]
      /\ job'[j].status = s
  BY FinishedRowEffect DEF TypeInv, TypeOK
<1>2. \A k \in Job : Active(k)' => k # j /\ Active(k) /\ job'[k] = job[k]
  BY <1>1 DEF Active
<1>3. OneActiveJob'
  BY <1>2 DEF TableInv, OneActiveJob
<1>4. job[j].workspace \in Workspace
  BY DEF TypeInv, ActiveHasWorkspace
<1>5. ASSUME NEW w \in Workspace, state'[w] = "provisioning"
      PROVE  (ActiveJobs(w) # {})'
  <2>1. w # job[j].workspace /\ state[w] = "provisioning"
    BY <1>4, <1>5 DEF TypeInv, TypeOK
  <2>2. PICK k \in Job : Active(k) /\ job[k].workspace = w
    BY <2>1 DEF TableInv, StateMatchesJob, ActiveJobs
  <2>3. QED
    BY <1>1, <2>1, <2>2 DEF ActiveJobs, Active
<1>6. ASSUME NEW w \in Workspace, state'[w] = "ready"
      PROVE  bound'[w]
  BY <1>4, <1>6 DEF TypeInv, TypeOK, TableInv, StateMatchesJob
<1>7. ASSUME NEW k \in Job, Active(k)'
      PROVE  /\ job'[k].workspace \in Workspace
             /\ state'[job'[k].workspace] \in {"provisioning", "ready"}
  <2>1. job[k].workspace # job[j].workspace
    BY <1>2, <1>7 DEF TableInv, OneActiveJob
  <2>2. QED
    BY <1>2, <1>4, <1>7, <2>1 DEF TypeInv, TypeOK, TableInv, StateMatchesJob
<1>8. QED
  BY <1>3, <1>5, <1>6, <1>7 DEF TableInv, StateMatchesJob

LEMMA NextTableInv == TypeInv /\ TableInv /\ [Next]_vars => TableInv'
<1> SUFFICES ASSUME TypeInv, TableInv, [Next]_vars PROVE TableInv'
  OBVIOUS
<1>1. CASE UNCHANGED <<state, bound, job>>
  BY <1>1 DEF TableInv, OneActiveJob, StateMatchesJob, ActiveJobs, Active
<1>2. ASSUME NEW p \in Process, NEW w \in Workspace, CreateWorkspace(p, w)
      PROVE  TableInv'
  BY <1>2 DEF CreateWorkspace, TypeInv, TypeOK, TableInv, OneActiveJob,
              StateMatchesJob, ActiveJobs, Active
<1>3. ASSUME NEW p \in Process, Enqueue(p)
      PROVE  TableInv'
  <2> DEFINE w == process[p].target
  <2>1. w \in Workspace /\ Exists(w)
    BY <1>3 DEF Enqueue, At, TypeInv, ProcessShape
  <2>2. /\ state' = [state EXCEPT ![w] = IF @ = "ready" THEN @ ELSE "provisioning"]
        /\ UNCHANGED bound
    BY <1>3 DEF Enqueue
  <2>3. CASE ActiveJobs(w) # {} /\ UNCHANGED job
    BY <2>1, <2>2, <2>3 DEF TypeInv, TypeOK, TableInv, OneActiveJob, StateMatchesJob,
                            ActiveJobs, Active
  <2>4. ASSUME NEW j \in Job, ActiveJobs(w) = {}, job[j].status = "unused",
               job' = [job EXCEPT ![j] = QueuedRow(w)]
        PROVE  TableInv'
    <3>1. /\ \A k \in Job \ {j} : job'[k] = job[k]
          /\ job'[j].status = "queued"
          /\ job'[j].workspace = w
      BY <2>1, <2>4, QueuedRowEffect DEF TypeInv, TypeOK
    <3>2. \A k \in Job \ {j} : Active(k)' => Active(k) /\ job[k].workspace # w
      BY <2>4, <3>1 DEF ActiveJobs, Active
    <3>3. OneActiveJob'
      BY <3>1, <3>2 DEF TableInv, OneActiveJob
    <3>4. ASSUME NEW v \in Workspace, state'[v] = "provisioning"
          PROVE  (ActiveJobs(v) # {})'
      <4>1. CASE v = w
        BY <3>1, <4>1 DEF ActiveJobs, Active
      <4>2. CASE v # w
        <5>1. PICK k \in Job : Active(k) /\ job[k].workspace = v
          BY <2>2, <3>4, <4>2 DEF TypeInv, TypeOK, TableInv, StateMatchesJob, ActiveJobs
        <5>2. k # j
          BY <2>4, <5>1 DEF Active
        <5>3. QED
          BY <3>1, <5>1, <5>2 DEF ActiveJobs, Active
      <4>3. QED
        BY <4>1, <4>2
    <3>5. ASSUME NEW k \in Job, Active(k)'
          PROVE  /\ job'[k].workspace \in Workspace
                 /\ state'[job'[k].workspace] \in {"provisioning", "ready"}
      BY <2>1, <2>2, <3>1, <3>2, <3>5 DEF TypeInv, TypeOK, TableInv, StateMatchesJob
    <3>6. \A v \in Workspace : state'[v] = "ready" => bound'[v]
      BY <2>1, <2>2 DEF TypeInv, TypeOK, TableInv, StateMatchesJob
    <3>7. QED
      BY <3>3, <3>4, <3>5, <3>6 DEF TableInv, StateMatchesJob
  <2>5. QED
    BY <1>3, <2>3, <2>4 DEF Enqueue
<1>4. ASSUME NEW p \in Process, Claim(p)
      PROVE  TableInv'
  <2>1. PICK j \in Job : /\ Active(j)
                         /\ job[j].attempt < AttemptBound
                         /\ job' = [job EXCEPT ![j] = ClaimedRow(p, j)]
    BY <1>4, ClaimEffect DEF TypeInv, TypeOK
  <2>2. \A k \in Job : /\ Active(k)' <=> Active(k)
                       /\ job'[k].workspace = job[k].workspace
    BY <2>1, ClaimedRowEffect DEF TypeInv, TypeOK, Active
  <2>3. UNCHANGED <<state, bound>>
    BY <1>4 DEF Claim
  <2>4. QED
    BY <2>2, <2>3 DEF TableInv, OneActiveJob, StateMatchesJob, ActiveJobs
<1>5. ASSUME NEW p \in Process, Succeed(p)
      PROVE  TableInv'
  BY <1>5, HeldJobIsActive, FinishKeepsTableInv DEF Succeed, TypeInv, TypeOK
<1>6. ASSUME NEW p \in Process, Requeue(p)
      PROVE  TableInv'
  <2>1. PICK t \in Nat :
          job' = [job EXCEPT ![process[p].job] = FinishedRow(process[p].job, "queued", t)]
    <3>1. process[p].attempt \in 1..AttemptBound
      BY <1>6, HeldJobIsActive DEF Requeue
    <3>2. now + RetryDelay[process[p].attempt] \in Nat
      BY <3>1, DelayAssumption DEF TypeInv, TypeOK
    <3>3. QED
      BY <1>6, <3>2 DEF Requeue
  <2>2. process[p].job \in Job /\ Active(process[p].job)
    BY <1>6, HeldJobIsActive DEF Requeue
  <2>3. \A k \in Job : /\ Active(k)' <=> Active(k)
                       /\ job'[k].workspace = job[k].workspace
    BY <2>1, <2>2, FinishedRowEffect DEF TypeInv, TypeOK, Active
  <2>4. UNCHANGED <<state, bound>>
    BY <1>6 DEF Requeue
  <2>5. QED
    BY <2>3, <2>4 DEF TableInv, OneActiveJob, StateMatchesJob, ActiveJobs
<1>7. ASSUME NEW p \in Process, Fail(p)
      PROVE  TableInv'
  BY <1>7, HeldJobIsActive, FinishKeepsTableInv DEF Fail, TypeInv, TypeOK
<1>8. ASSUME NEW w \in Workspace, RemoveMember(w)
      PROVE  TableInv'
  <2>1. /\ \A k \in Job : job[k].workspace # w => job'[k] = job[k]
        /\ \A k \in Job : job[k].workspace = w => job'[k].status = "deleted"
    BY <1>8, RemoveMemberEffect DEF TypeInv, TypeOK
  <2>2. \A k \in Job : Active(k)' => Active(k) /\ job[k].workspace # w /\ job'[k] = job[k]
    BY <2>1 DEF Active
  <2>3. /\ state' = [state EXCEPT ![w] = "deleted"]
        /\ bound' = [bound EXCEPT ![w] = FALSE]
    BY <1>8 DEF RemoveMember
  <2>4. ASSUME NEW v \in Workspace, state'[v] = "provisioning"
        PROVE  (ActiveJobs(v) # {})'
    <3>1. v # w /\ state[v] = "provisioning"
      BY <2>3, <2>4 DEF TypeInv, TypeOK
    <3>2. PICK k \in Job : Active(k) /\ job[k].workspace = v
      BY <3>1 DEF TableInv, StateMatchesJob, ActiveJobs
    <3>3. QED
      BY <2>1, <3>1, <3>2 DEF ActiveJobs, Active
  <2>5. QED
    BY <2>2, <2>3, <2>4 DEF TypeInv, TypeOK, TableInv, OneActiveJob, StateMatchesJob
<1>9. QED
  BY <1>1, <1>2, <1>3, <1>4, <1>5, <1>6, <1>7, <1>8, TableSteps

LEMMA TableInvariant == Spec => []TableInv
<1>1. TypeInv /\ TableInv /\ [Next]_vars => TableInv'
  BY NextTableInv
<1>2. QED
  BY <1>1, InitTableInv, TypeInvariant, PTL DEF Spec

\* No interleaving of requests, processors, crashes and removals gives a
\* workspace two queued or running jobs.
THEOREM OneActiveJobHolds == Spec => []OneActiveJob
<1>1. TableInv => OneActiveJob
  BY DEF TableInv
<1>2. QED
  BY <1>1, TableInvariant, PTL

\* A provisioning workspace always has the job that will settle it, and a ready
\* one its worker id: the tables of jobs and workspaces never drift apart.
THEOREM StateMatchesJobHolds == Spec => []StateMatchesJob
<1>1. TableInv => StateMatchesJob
  BY DEF TableInv
<1>2. QED
  BY <1>1, TableInvariant, PTL

---------------------------------------------------------------------------
(* Leases and attempts *)

\* Only a claim puts a job into the hands of a processor.
LEMMA HandSteps ==
  ASSUME TypeInv, [Next]_vars
  PROVE  \/ \E p \in Process : Claim(p)
         \/ \A p \in Process : \/ process'[p].job = None
                               \/ /\ process'[p].job = process[p].job
                                  /\ process'[p].attempt = process[p].attempt
<1> DEFINE Kept == \A p \in Process : \/ process'[p].job = None
                                      \/ /\ process'[p].job = process[p].job
                                         /\ process'[p].attempt = process[p].attempt
<1> USE DEF TypeInv, TypeOK
<1>1. CASE UNCHANGED process
  BY <1>1
<1>2. ASSUME NEW p \in Process, NEW w \in Workspace, Admit(p, w)
      PROVE  Kept
  BY <1>2, AdmitEffect
<1>3. ASSUME NEW p \in Process, NEW s \in {"idle", "resolved", "polled"}, Goto(p, s)
      PROVE  Kept
  BY <1>3, GotoEffect
<1>4. ASSUME NEW p \in Process, Return(p)
      PROVE  Kept
  BY <1>4, ReturnEffect
<1>5. ASSUME NEW p \in Process, NEW s \in {"idle", "gone"},
             process' = [process EXCEPT ![p] = AtRest(s)]
      PROVE  Kept
  BY <1>5, AtRestEffect
<1>6. \/ UNCHANGED process
      \/ \E p \in Process, w \in Workspace : Admit(p, w)
      \/ \E p \in Process : Claim(p)
      \/ \E p \in Process : \E s \in {"idle", "resolved", "polled"} : Goto(p, s)
      \/ \E p \in Process : Return(p)
      \/ \E p \in Process : \E s \in {"idle", "gone"} :
           process' = [process EXCEPT ![p] = AtRest(s)]
  BY DEF Next, vars, CreateWorkspace, Resolve, Enqueue, EnqueueFails, Poll,
         ClaimNothing, Send, Succeed, Requeue, Fail, LoseLease, Release, Start, Stop,
         SetControl, ChangeEntitlement, RemoveMember, Tick
<1>7. QED
  BY <1>1, <1>2, <1>3, <1>4, <1>5, <1>6

\* What becomes of a row in a step that claims nothing: it stays, it is new or
\* deleted, or the processor that holds it finishes or requeues it.
LEMMA RowSteps ==
  ASSUME TypeInv, [Next]_vars, NEW j \in Job
  PROVE  \/ \E p \in Process : Claim(p)
         \/ job'[j] = job[j]
         \/ /\ job'[j].status \in {"queued", "deleted"}
            /\ job'[j].attempt = 0
            /\ job'[j].reclaims = 0
         \/ /\ job'[j].status \in {"queued", "succeeded", "failed"}
            /\ job'[j].attempt = job[j].attempt
            /\ job'[j].reclaims = job[j].reclaims
            /\ \E p \in Process :
                 /\ process[p].job = j
                 /\ Holds(p)
                 /\ job'[j].status = "queued" => process[p].attempt < MaximumAttempts
<1> USE DEF TypeInv, TypeOK
<1>1. CASE UNCHANGED job
  BY <1>1
<1>2. ASSUME NEW p \in Process, Enqueue(p)
      PROVE  \/ job'[j] = job[j]
             \/ /\ job'[j].status = "queued"
                /\ job'[j].attempt = 0
                /\ job'[j].reclaims = 0
  <2>1. process[p].target \in Workspace
    BY <1>2 DEF Enqueue, At, ProcessShape
  <2>2. \/ UNCHANGED job
        \/ \E k \in Job : job' = [job EXCEPT ![k] = QueuedRow(process[p].target)]
    BY <1>2 DEF Enqueue
  <2>3. QED
    BY <2>1, <2>2, QueuedRowEffect
<1>3. ASSUME NEW p \in Process, Holds(p), Succeed(p) \/ Requeue(p) \/ Fail(p)
      PROVE  \/ job'[j] = job[j]
             \/ /\ job'[j].status \in {"queued", "succeeded", "failed"}
                /\ job'[j].attempt = job[j].attempt
                /\ job'[j].reclaims = job[j].reclaims
                /\ process[p].job = j
                /\ job'[j].status = "queued" => process[p].attempt < MaximumAttempts
  <2> DEFINE k == process[p].job
  <2>1. k \in Job /\ process[p].attempt \in 1..AttemptBound
    BY <1>3, HeldJobIsActive
  <2>2. now + RetryDelay[process[p].attempt] \in Nat
    BY <2>1, DelayAssumption
  <2>3. PICK t \in Nat, s \in {"queued", "succeeded", "failed"} :
          /\ job' = [job EXCEPT ![k] = FinishedRow(k, s, t)]
          /\ s = "queued" => process[p].attempt < MaximumAttempts
    BY <1>3, <2>2 DEF Succeed, Requeue, AttemptsLeft, Fail
  <2>4. QED
    BY <2>1, <2>3, FinishedRowEffect
<1>4. ASSUME NEW w \in Workspace, RemoveMember(w)
      PROVE  \/ job'[j] = job[j]
             \/ /\ job'[j].status = "deleted"
                /\ job'[j].attempt = 0
                /\ job'[j].reclaims = 0
  BY <1>4, RemoveMemberEffect
<1>5. \A p \in Process : Succeed(p) \/ Requeue(p) \/ Fail(p) => Holds(p)
  BY DEF Succeed, Requeue, Fail
<1>6. \A p \in Process, w \in Workspace : CreateWorkspace(p, w) => UNCHANGED job
  BY DEF CreateWorkspace
<1>7. QED
  BY <1>1, <1>2, <1>3, <1>4, <1>5, <1>6, TableSteps

\* AttemptBudget is not inductive by itself: a queued job must leave room for
\* the claim to come, and a processor may requeue only its current attempt.
LeaseInv ==
  /\ LeaseFencing
  /\ AttemptBudget
  /\ \A j \in Job : job[j].status = "queued" =>
       job[j].attempt < MaximumAttempts + job[j].reclaims

LEMMA InitLeaseInv == Init => LeaseInv
  BY AttemptsAssumption
  DEF Init, NoRow, AtRest, LeaseInv, LeaseFencing, AttemptBudget, Holds

LEMMA NextLeaseInv == TypeInv /\ LeaseInv /\ [Next]_vars => LeaseInv'
<1> SUFFICES ASSUME TypeInv, LeaseInv, [Next]_vars PROVE LeaseInv'
  OBVIOUS
<1> USE AttemptsAssumption
<1>1. ASSUME NEW p \in Process, Claim(p)
      PROVE  LeaseInv'
  <2>1. PICK j \in Job :
          /\ Active(j)
          /\ job[j].attempt < AttemptBound
          /\ job' = [job EXCEPT ![j] = ClaimedRow(p, j)]
          /\ \A q \in Process \ {p} : process'[q] = process[q]
          /\ process'[p].job = j
          /\ process'[p].attempt = job[j].attempt + 1
    BY <1>1, ClaimEffect DEF TypeInv, TypeOK
  <2>2. /\ \A k \in Job \ {j} : job'[k] = job[k]
        /\ job'[j].status = "running"
        /\ job'[j].attempt = job[j].attempt + 1
        /\ job'[j].owner = p
        /\ job'[j].reclaims = IF job[j].status = "running"
                                THEN job[j].reclaims + 1
                                ELSE job[j].reclaims
    BY <2>1, ClaimedRowEffect DEF TypeInv, TypeOK
  <2>3. ASSUME NEW q \in Process, process'[q].job # None, Holds(q)'
        PROVE  job'[process'[q].job].attempt = process'[q].attempt
    <3>1. CASE q = p
      BY <2>1, <2>2, <3>1
    <3>2. CASE q # p
      <4>1. process'[q] = process[q] /\ process[q].job \in Job
        BY <2>1, <2>3, <3>2 DEF TypeInv, TypeOK, ProcessState
      <4>2. process[q].job # j
        BY <2>2, <2>3, <3>2, <4>1 DEF Holds
      <4>3. QED
        BY <2>2, <2>3, <4>1, <4>2 DEF Holds, LeaseInv, LeaseFencing
    <3>3. QED
      BY <3>1, <3>2
  <2>4. /\ job[j].attempt \in Nat
        /\ job[j].reclaims \in Nat
        /\ job[j].status \in {"queued", "running"}
    BY <2>1 DEF TypeInv, TypeOK, JobRow, Active
  <2>5. job'[j].attempt <= MaximumAttempts + job'[j].reclaims
    BY <2>2, <2>4 DEF LeaseInv, AttemptBudget
  <2>6. QED
    BY <2>2, <2>3, <2>5 DEF LeaseInv, LeaseFencing, AttemptBudget
<1>2. CASE ~ \E p \in Process : Claim(p)
  <2>1. \A p \in Process : \/ process'[p].job = None
                           \/ /\ process'[p].job = process[p].job
                              /\ process'[p].attempt = process[p].attempt
    BY <1>2, HandSteps
  <2>2. LeaseFencing'
    <3> SUFFICES ASSUME NEW p \in Process, process'[p].job # None, Holds(p)'
                 PROVE  job'[process'[p].job].attempt = process'[p].attempt
      BY DEF LeaseFencing
    <3>1. /\ process'[p].job = process[p].job
          /\ process'[p].attempt = process[p].attempt
          /\ process[p].job \in Job
      BY <2>1 DEF TypeInv, TypeOK, ProcessState
    <3>2. job'[process[p].job] = job[process[p].job]
      BY <1>2, <3>1, RowSteps DEF Holds
    <3>3. QED
      BY <3>1, <3>2 DEF Holds, LeaseInv, LeaseFencing
  <2>3. ASSUME NEW j \in Job
        PROVE  /\ job'[j].attempt <= MaximumAttempts + job'[j].reclaims
               /\ job'[j].status = "queued" =>
                    job'[j].attempt < MaximumAttempts + job'[j].reclaims
    <3>1. job[j].attempt \in Nat /\ job[j].reclaims \in Nat
      BY DEF TypeInv, TypeOK, JobRow
    <3>2. CASE job'[j] = job[j]
      BY <3>2 DEF LeaseInv, AttemptBudget
    <3>3. CASE job'[j].attempt = 0 /\ job'[j].reclaims = 0
      BY <3>3
    <3>4. ASSUME NEW p \in Process,
                 job'[j].attempt = job[j].attempt,
                 job'[j].reclaims = job[j].reclaims,
                 process[p].job = j, Holds(p),
                 job'[j].status = "queued" => process[p].attempt < MaximumAttempts
          PROVE  /\ job'[j].attempt <= MaximumAttempts + job'[j].reclaims
                 /\ job'[j].status = "queued" =>
                      job'[j].attempt < MaximumAttempts + job'[j].reclaims
      <4>1. job[j].attempt = process[p].attempt
        BY <3>4, NoneAssumption DEF LeaseInv, LeaseFencing
      <4>2. QED
        BY <3>1, <3>4, <4>1 DEF LeaseInv, AttemptBudget
    <3>5. QED
      BY <1>2, <3>2, <3>3, <3>4, RowSteps
  <2>4. QED
    BY <2>2, <2>3 DEF LeaseInv, AttemptBudget
<1>3. QED
  BY <1>1, <1>2

LEMMA LeaseInvariant == Spec => []LeaseInv
<1>1. TypeInv /\ LeaseInv /\ [Next]_vars => LeaseInv'
  BY NextLeaseInv
<1>2. QED
  BY <1>1, InitLeaseInv, TypeInvariant, PTL DEF Spec

\* An answer to an attempt that another processor has taken over is never
\* accepted: whoever still owns the job works on its current attempt.
THEOREM LeaseFencingHolds == Spec => []LeaseFencing
<1>1. LeaseInv => LeaseFencing
  BY DEF LeaseInv
<1>2. QED
  BY <1>1, LeaseInvariant, PTL

\* maximumAttempts bounds the answered attempts of every job, and only lost
\* leases can push the stored attempt number beyond it.
THEOREM AttemptBudgetHolds == Spec => []AttemptBudget
<1>1. LeaseInv => AttemptBudget
  BY DEF LeaseInv
<1>2. QED
  BY <1>1, LeaseInvariant, PTL

---------------------------------------------------------------------------
(* One process at a time *)

\* What a step may do to one process.
LEMMA ProcessSteps ==
  ASSUME TypeInv, [Next]_vars, NEW p \in Process
  PROVE  \/ process'[p] = process[p]
         \/ Live(p) /\ process'[p].step # "resolved"
         \/ Resolve(p) /\ Live(p)
         \/ Start(p)
<1> DEFINE Kept(q) == \/ process'[p] = process[p]
                      \/ p = q /\ process'[q].step # "resolved"
<1> USE DEF TypeInv, TypeOK
<1>1. CASE UNCHANGED process
  BY <1>1
<1>2. ASSUME NEW q \in Process, NEW w \in Workspace, Admit(q, w)
      PROVE  Kept(q) /\ Live(q)
  BY <1>2, AdmitEffect DEF Admit, Free, At, Live
<1>3. ASSUME NEW q \in Process, Claim(q)
      PROVE  Kept(q) /\ Live(q)
  BY <1>3, ClaimEffect DEF Claim, At, Live
<1>4. ASSUME NEW q \in Process, NEW s \in {"idle", "polled"}, Goto(q, s)
      PROVE  Kept(q)
  BY <1>4, GotoEffect
<1>5. ASSUME NEW q \in Process, Return(q)
      PROVE  Kept(q)
  BY <1>5, ReturnEffect
<1>6. ASSUME NEW q \in Process, NEW s \in {"idle", "gone"},
             process' = [process EXCEPT ![q] = AtRest(s)]
      PROVE  Kept(q)
  BY <1>6, AtRestEffect
<1>7. ASSUME NEW q \in Process, Resolve(q) \/ Start(q)
      PROVE  process'[p] = process[p] \/ p = q
  BY <1>7, GotoEffect, ReturnEffect DEF Resolve, Start
<1>8. \A q \in Process : Resolve(q) => Live(q)
  BY DEF Resolve, At, Live
<1>9. \/ UNCHANGED process
      \/ \E q \in Process, w \in Workspace : Admit(q, w)
      \/ \E q \in Process : Claim(q) \/ Resolve(q) \/ Start(q)
      \/ \E q \in Process : Live(q) /\ \E s \in {"idle", "polled"} : Goto(q, s)
      \/ \E q \in Process : Live(q) /\ Return(q)
      \/ \E q \in Process : Live(q) /\ \E s \in {"idle", "gone"} :
           process' = [process EXCEPT ![q] = AtRest(s)]
  BY DEF Next, vars, CreateWorkspace, Enqueue, EnqueueFails, Poll, ClaimNothing,
         Send, Succeed, Requeue, Fail, LoseLease, Release, Answered, Free, At, Live,
         Stop, SetControl, ChangeEntitlement, RemoveMember, Tick
<1>10. QED
  BY <1>1, <1>2, <1>3, <1>4, <1>5, <1>6, <1>7, <1>8, <1>9

\* Only the answer of a worker makes a workspace ready.
LEMMA ReadySteps ==
  ASSUME TypeInv, [Next]_vars, NEW w \in Workspace, state'[w] = "ready"
  PROVE  \/ state[w] = "ready"
         \/ \E p \in Process : Succeed(p)
<1>1. ASSUME NEW p \in Process, NEW v \in Workspace, CreateWorkspace(p, v)
      PROVE  state[w] = "ready"
  BY <1>1 DEF CreateWorkspace, TypeInv, TypeOK
<1>2. ASSUME NEW p \in Process, Enqueue(p)
      PROVE  state[w] = "ready"
  BY <1>2 DEF Enqueue, TypeInv, TypeOK
<1>3. ASSUME NEW p \in Process, Claim(p) \/ Requeue(p)
      PROVE  state[w] = "ready"
  BY <1>3 DEF Claim, Requeue
<1>4. ASSUME NEW p \in Process, Fail(p)
      PROVE  state[w] = "ready"
  BY <1>4 DEF Fail, TypeInv, TypeOK
<1>5. ASSUME NEW v \in Workspace, RemoveMember(v)
      PROVE  state[w] = "ready"
  BY <1>5 DEF RemoveMember, TypeInv, TypeOK
<1>6. QED
  BY <1>1, <1>2, <1>3, <1>4, <1>5, TableSteps

\* What holds while processes do not overlap: the workspace that a handler has
\* read is still not ready when the handler comes to insert the job.
OneProcess == \A p, q \in Process : Live(p) /\ Live(q) => p = q

ReadIsFresh ==
  \A p \in Process : At(p, "resolved") => state[process[p].target] # "ready"

SoloInv == ~Overlap => OneProcess /\ ReadIsFresh /\ ReadyHasNoActiveJob

LEMMA InitSoloInv == Init => SoloInv
  BY DEF Init, AtRest, SoloInv, OneProcess, ReadIsFresh, ReadyHasNoActiveJob, Live, At

LEMMA NextOneProcess ==
  ASSUME TypeInv, OneProcess, ~Overlap, [Next]_vars
  PROVE  OneProcess'
<1> SUFFICES ASSUME NEW p \in Process, NEW q \in Process, p # q, Live(p)', Live(q)'
             PROVE  FALSE
  BY DEF OneProcess
<1>1. \A r \in Process : Start(r) => /\ ~Live(r)
                                     /\ \A s \in Process : ~Live(s)
                                     /\ \A s \in Process \ {r} : process'[s] = process[s]
  BY GotoEffect DEF Start, At, Live, TypeInv, TypeOK
<1>2. /\ Live(p) \/ Start(p)
      /\ Live(q) \/ Start(q)
  BY ProcessSteps DEF Live
<1>3. QED
  BY <1>1, <1>2 DEF OneProcess, Live

LEMMA NextReadIsFresh ==
  ASSUME TypeInv, OneProcess, ReadIsFresh, [Next]_vars
  PROVE  ReadIsFresh'
<1> SUFFICES ASSUME NEW p \in Process, At(p, "resolved")'
             PROVE  state'[process'[p].target] # "ready"
  BY DEF ReadIsFresh
<1>1. CASE process'[p] = process[p]
  <2>1. At(p, "resolved") /\ process[p].target \in Workspace
    BY <1>1 DEF At, TypeInv, ProcessShape
  <2>2. \A q \in Process : ~Succeed(q)
    BY <2>1 DEF OneProcess, Succeed, Answered, Free, At, Live
  <2>3. QED
    BY <1>1, <2>1, <2>2, ReadySteps DEF ReadIsFresh
<1>2. CASE Resolve(p)
  <2>1. ~Return(p)
    BY ReturnEffect DEF At, TypeInv, TypeOK
  <2>2. /\ state[process[p].target] # "ready"
        /\ Goto(p, "resolved")
        /\ UNCHANGED state
    BY <1>2, <2>1 DEF Resolve, Startable
  <2>3. process'[p].target = process[p].target
    BY <2>2, GotoEffect DEF TypeInv, TypeOK
  <2>4. QED
    BY <2>2, <2>3
<1>3. CASE Start(p)
  BY <1>3, GotoEffect DEF Start, At, TypeInv, TypeOK
<1>4. QED
  BY <1>1, <1>2, <1>3, ProcessSteps DEF At

LEMMA NextReadyHasNoActiveJob ==
  ASSUME TypeInv, TableInv, ReadIsFresh, ReadyHasNoActiveJob, [Next]_vars
  PROVE  ReadyHasNoActiveJob'
<1> DEFINE Kept == ReadyHasNoActiveJob'
<1>1. CASE UNCHANGED <<state, bound, job>>
  BY <1>1 DEF ReadyHasNoActiveJob, ActiveJobs, Active
<1>2. ASSUME NEW p \in Process, NEW w \in Workspace, CreateWorkspace(p, w)
      PROVE  Kept
  BY <1>2 DEF CreateWorkspace, TypeInv, TypeOK, ReadyHasNoActiveJob, ActiveJobs, Active
<1>3. ASSUME NEW p \in Process, Enqueue(p)
      PROVE  Kept
  <2> DEFINE w == process[p].target
  <2>1. /\ w \in Workspace
        /\ state[w] # "ready"
        /\ state' = [state EXCEPT ![w] = "provisioning"]
    BY <1>3 DEF Enqueue, At, ReadIsFresh, TypeInv, TypeOK, ProcessShape
  <2>2. \A k \in Job : Active(k)' /\ job'[k].workspace # w
                         => Active(k) /\ job'[k].workspace = job[k].workspace
    <3>1. CASE UNCHANGED job
      BY <3>1 DEF Active
    <3>2. ASSUME NEW j \in Job, job' = [job EXCEPT ![j] = QueuedRow(w)]
          PROVE  \A k \in Job : Active(k)' /\ job'[k].workspace # w
                                  => Active(k) /\ job'[k].workspace = job[k].workspace
      BY <2>1, <3>2, QueuedRowEffect DEF TypeInv, TypeOK, Active
    <3>3. QED
      BY <1>3, <3>1, <3>2 DEF Enqueue
  <2>3. QED
    BY <2>1, <2>2 DEF TypeInv, TypeOK, ReadyHasNoActiveJob, ActiveJobs
<1>4. ASSUME NEW p \in Process, Claim(p)
      PROVE  Kept
  <2>1. PICK j \in Job : /\ Active(j)
                         /\ job[j].attempt < AttemptBound
                         /\ job' = [job EXCEPT ![j] = ClaimedRow(p, j)]
    BY <1>4, ClaimEffect DEF TypeInv, TypeOK
  <2>2. \A k \in Job : /\ Active(k)' <=> Active(k)
                       /\ job'[k].workspace = job[k].workspace
    BY <2>1, ClaimedRowEffect DEF TypeInv, TypeOK, Active
  <2>3. QED
    BY <1>4, <2>2 DEF Claim, ReadyHasNoActiveJob, ActiveJobs
<1>5. ASSUME NEW p \in Process, Succeed(p) \/ Requeue(p) \/ Fail(p)
      PROVE  Kept
  <2> DEFINE j == process[p].job
  <2>1. j \in Job /\ Active(j) /\ job[j].workspace \in Workspace
    BY <1>5, HeldJobIsActive DEF Succeed, Requeue, Fail
  <2>2. PICK t \in Nat, s \in {"queued", "succeeded", "failed"} :
          /\ job' = [job EXCEPT ![j] = FinishedRow(j, s, t)]
          /\ s = "queued" => UNCHANGED state
          /\ s = "succeeded" => state' = [state EXCEPT ![job[j].workspace] = "ready"]
          /\ s = "failed" => state' = [state EXCEPT ![job[j].workspace] = "failed"]
    <3>1. process[p].attempt \in 1..AttemptBound
      BY <1>5, HeldJobIsActive DEF Succeed, Requeue, Fail
    <3>2. now \in Nat /\ now + RetryDelay[process[p].attempt] \in Nat
      BY <3>1, DelayAssumption DEF TypeInv, TypeOK
    <3>3. QED
      BY <1>5, <3>2 DEF Succeed, Requeue, Fail
  <2>3. /\ \A k \in Job \ {j} : job'[k] = job[k]
        /\ job'[j].status = s
        /\ job'[j].workspace = job[j].workspace
    BY <2>1, <2>2, FinishedRowEffect DEF TypeInv, TypeOK
  <2>4. CASE s = "queued"
    BY <2>1, <2>2, <2>3, <2>4 DEF ReadyHasNoActiveJob, ActiveJobs, Active
  <2>5. CASE s # "queued"
    <3>1. \A k \in Job : Active(k)' => k # j /\ Active(k) /\ job'[k] = job[k]
      BY <2>2, <2>3, <2>5 DEF Active
    <3>2. \A k \in Job : Active(k)' => job'[k].workspace # job[j].workspace
      BY <2>1, <3>1 DEF TableInv, OneActiveJob
    <3>3. \A w \in Workspace \ {job[j].workspace} : state'[w] = state[w]
      BY <2>1, <2>2, <2>5 DEF TypeInv, TypeOK
    <3>4. QED
      BY <3>1, <3>2, <3>3 DEF ReadyHasNoActiveJob, ActiveJobs
  <2>6. QED
    BY <2>4, <2>5
<1>6. ASSUME NEW w \in Workspace, RemoveMember(w)
      PROVE  Kept
  <2>1. \A k \in Job : Active(k)' => Active(k) /\ job'[k] = job[k]
    BY <1>6, RemoveMemberEffect DEF TypeInv, TypeOK, Active
  <2>2. QED
    BY <1>6, <2>1 DEF RemoveMember, TypeInv, TypeOK, ReadyHasNoActiveJob, ActiveJobs
<1>7. QED
  BY <1>1, <1>2, <1>3, <1>4, <1>5, <1>6, TableSteps

LEMMA SoloInvariant == Spec => []SoloInv
<1>1. TypeInv /\ TableInv /\ SoloInv /\ [Next]_vars => SoloInv'
  BY NextOneProcess, NextReadIsFresh, NextReadyHasNoActiveJob DEF SoloInv
<1>2. QED
  BY <1>1, InitSoloInv, TypeInvariant, TableInvariant, PTL DEF Spec

\* While one process serves the database at a time, a ready workspace is never
\* given a job: the two transactions of ensureWorkspaceRunning act as one.
THEOREM ReadyHasNoActiveJobHolds ==
  ASSUME ~Overlap
  PROVE  Spec => []ReadyHasNoActiveJob
<1>1. SoloInv => ReadyHasNoActiveJob
  BY DEF SoloInv
<1>2. QED
  BY <1>1, SoloInvariant, PTL

\* While one process serves the database at a time, no late or repeated answer
\* of a worker takes a workspace out of ready.
THEOREM ReadyStaysReadyHolds ==
  ASSUME ~Overlap
  PROVE  Spec => ReadyStaysReady
<1> DEFINE Kept == \A w \in Workspace :
                     state[w] = "ready" => state'[w] \in {"ready", "deleted"}
<1>1. ASSUME TypeInv, TableInv, SoloInv, [Next]_vars
      PROVE  Kept
  <2>1. CASE UNCHANGED <<state, bound, job>>
    BY <2>1
  <2>2. ASSUME NEW p \in Process, NEW w \in Workspace, CreateWorkspace(p, w)
        PROVE  Kept
    BY <1>1, <2>2 DEF CreateWorkspace, TypeInv, TypeOK
  <2>3. ASSUME NEW p \in Process, Enqueue(p)
        PROVE  Kept
    BY <1>1, <2>3 DEF Enqueue, TypeInv, TypeOK
  <2>4. ASSUME NEW p \in Process, Claim(p) \/ Requeue(p)
        PROVE  Kept
    BY <2>4 DEF Claim, Requeue
  <2>5. ASSUME NEW p \in Process, Succeed(p)
        PROVE  Kept
    BY <1>1, <2>5 DEF Succeed, TypeInv, TypeOK
  <2>6. ASSUME NEW p \in Process, Fail(p)
        PROVE  Kept
    <3>1. /\ process[p].job \in Job
          /\ Active(process[p].job)
          /\ job[process[p].job].workspace \in Workspace
      BY <1>1, <2>6, HeldJobIsActive DEF Fail
    <3>2. state[job[process[p].job].workspace] # "ready"
      BY <1>1, <3>1 DEF SoloInv, ReadyHasNoActiveJob, ActiveJobs
    <3>3. QED
      BY <1>1, <2>6, <3>1, <3>2 DEF Fail, TypeInv, TypeOK
  <2>7. ASSUME NEW w \in Workspace, RemoveMember(w)
        PROVE  Kept
    BY <1>1, <2>7 DEF RemoveMember, TypeInv, TypeOK
  <2>8. QED
    BY <1>1, <2>1, <2>2, <2>3, <2>4, <2>5, <2>6, <2>7, TableSteps
<1>2. QED
  BY <1>1, TypeInvariant, TableInvariant, SoloInvariant, PTL DEF Spec, ReadyStaysReady

---------------------------------------------------------------------------
(* The queue implements its contract *)

\* The request that a job stands for.
Shown(r) == [status |-> IF r.status \in {"queued", "running"} THEN "open" ELSE r.status,
             workspace |-> r.workspace]

\* A job shows an open request exactly while it is active.
LEMMA RequestShown ==
  [j \in Job |-> [status    |-> IF Active(j) THEN "open" ELSE job[j].status,
                  workspace |-> job[j].workspace]]
    = [j \in Job |-> Shown(job[j])]
  BY DEF Active, Shown

LEMMA InitContract == Init => Contract!Init
  BY DEF Init, NoRow, Active, Contract!Init

\* A step that shows the same requests and workspaces is not seen.
LEMMA Unseen ==
  ASSUME UNCHANGED state, \A j \in Job : Shown(job'[j]) = Shown(job[j])
  PROVE  UNCHANGED Contract!vars
<1>1. [j \in Job |-> Shown(job'[j])] = [j \in Job |-> Shown(job[j])]
  OBVIOUS
<1>2. UNCHANGED [j \in Job |-> [status    |-> IF Active(j) THEN "open" ELSE job[j].status,
                                workspace |-> job[j].workspace]]
  BY <1>1 DEF Active, Shown
<1>3. QED
  BY <1>2 DEF Contract!vars

\* Closing an active job is the answer of its request.
LEMMA FinishAnswers ==
  ASSUME TypeInv, NEW j \in Job, Active(j), NEW t \in Nat,
         NEW s \in {"succeeded", "failed"}, NEW v \in {"ready", "failed"},
         job' = [job EXCEPT ![j] = FinishedRow(j, s, t)],
         state' = [state EXCEPT ![job[j].workspace] = v]
  PROVE  Contract!Answer(j, s, v)
<1> DEFINE request == [k \in Job |-> [status    |-> IF Active(k) THEN "open" ELSE job[k].status,
                                      workspace |-> job[k].workspace]]
<1>1. /\ \A k \in Job \ {j} : job'[k] = job[k]
      /\ job'[j].status = s
      /\ job'[j].workspace = job[j].workspace
  BY FinishedRowEffect DEF TypeInv, TypeOK
<1>2. \A k \in Job \ {j} : request'[k] = request[k]
  BY <1>1 DEF Active
<1>3. /\ ~Active(j)'
      /\ request'[j] = [status |-> s, workspace |-> request[j].workspace]
  BY <1>1 DEF Active
<1>4. request[j] = [status |-> "open", workspace |-> job[j].workspace]
  OBVIOUS
<1>5. request' = [request EXCEPT ![j].status = s]
  BY <1>2, <1>3, <1>4
<1>6. state' = [state EXCEPT ![request[j].workspace] = v]
  BY <1>4
<1>7. QED
  BY <1>4, <1>5, <1>6 DEF Contract!Answer, Contract!Open

LEMMA NextContract ==
  TypeInv /\ TableInv /\ SoloInv /\ [Next]_vars => [Contract!Next]_(Contract!vars)
<1> SUFFICES ASSUME TypeInv, TableInv, SoloInv, [Next]_vars
             PROVE  Contract!Next \/ UNCHANGED Contract!vars
  OBVIOUS
<1> DEFINE request == [k \in Job |-> [status    |-> IF Active(k) THEN "open" ELSE job[k].status,
                                      workspace |-> job[k].workspace]]
<1>1. CASE UNCHANGED <<state, bound, job>>
  BY <1>1, Unseen
<1>2. ASSUME NEW p \in Process, NEW w \in Workspace, CreateWorkspace(p, w)
      PROVE  Contract!Create(w)
  BY <1>2 DEF CreateWorkspace, Active, Contract!Create
<1>3. ASSUME NEW p \in Process, Enqueue(p)
      PROVE  Contract!Next \/ UNCHANGED Contract!vars
  <2> DEFINE w == process[p].target
  <2>1. /\ w \in Workspace
        /\ Exists(w)
        /\ At(p, "resolved")
        /\ state' = [state EXCEPT ![w] = IF @ = "ready" THEN @ ELSE "provisioning"]
    BY <1>3 DEF Enqueue, At, TypeInv, ProcessShape
  <2>2. CASE ActiveJobs(w) # {} /\ UNCHANGED job
    <3>1. state[w] \in {"provisioning", "ready"}
      BY <2>2 DEF ActiveJobs, TableInv, StateMatchesJob
    <3>2. UNCHANGED state
      BY <2>1, <3>1 DEF TypeInv, TypeOK
    <3>3. QED
      BY <2>2, <3>2, Unseen
  <2>3. ASSUME NEW j \in Job, ActiveJobs(w) = {}, job[j].status = "unused",
               job' = [job EXCEPT ![j] = QueuedRow(w)]
        PROVE  Contract!Submit(w, j)
    <3>1. /\ \A k \in Job \ {j} : job'[k] = job[k]
          /\ job'[j].status = "queued"
          /\ job'[j].workspace = w
      BY <2>1, <2>3, QueuedRowEffect DEF TypeInv, TypeOK
    <3>2. /\ \A k \in Job \ {j} : request'[k] = request[k]
          /\ request'[j] = [status |-> "open", workspace |-> w]
      BY <3>1 DEF Active
    <3>3. request' = [request EXCEPT ![j] = [status |-> "open", workspace |-> w]]
      BY <3>2
    <3>4. request[j].status = "unused"
      BY <2>3 DEF Active
    <3>5. \A k \in Job : request[k].status = "open" => request[k].workspace # w
      <4>1. \A k \in Job : request[k].status = "open" => Active(k)
        <5>1. \A k \in Job : job[k].status # "open"
          BY DEF TypeInv, TypeOK, JobRow
        <5>2. QED
          BY <5>1
      <4>2. QED
        BY <2>3, <4>1 DEF ActiveJobs
    <3>6. state[w] = "ready" => Overlap
      BY <2>1, OverlapAssumption DEF SoloInv, ReadIsFresh
    <3>7. QED
      BY <2>1, <3>3, <3>4, <3>5, <3>6 DEF Exists, Contract!Submit, Contract!Open
  <2>4. QED
    BY <1>3, <2>1, <2>2, <2>3 DEF Enqueue, Contract!Next
<1>4. ASSUME NEW p \in Process, Claim(p)
      PROVE  UNCHANGED Contract!vars
  <2>1. PICK j \in Job : /\ Active(j)
                         /\ job[j].attempt < AttemptBound
                         /\ job' = [job EXCEPT ![j] = ClaimedRow(p, j)]
    BY <1>4, ClaimEffect DEF TypeInv, TypeOK
  <2>2. \A k \in Job : Shown(job'[k]) = Shown(job[k])
    BY <2>1, ClaimedRowEffect DEF TypeInv, TypeOK, Active, Shown
  <2>3. QED
    BY <1>4, <2>2, Unseen DEF Claim
<1>5. ASSUME NEW p \in Process, Succeed(p)
      PROVE  Contract!Next
  <2>1. process[p].job \in Job /\ Active(process[p].job)
    BY <1>5, HeldJobIsActive DEF Succeed
  <2>2. Contract!Answer(process[p].job, "succeeded", "ready")
    BY <1>5, <2>1, FinishAnswers DEF Succeed, TypeInv, TypeOK
  <2>3. QED
    BY <2>1, <2>2 DEF Contract!Next
<1>6. ASSUME NEW p \in Process, Requeue(p)
      PROVE  UNCHANGED Contract!vars
  <2>1. /\ process[p].job \in Job
        /\ Active(process[p].job)
        /\ process[p].attempt \in 1..AttemptBound
    BY <1>6, HeldJobIsActive DEF Requeue
  <2>2. now + RetryDelay[process[p].attempt] \in Nat
    BY <2>1, DelayAssumption DEF TypeInv, TypeOK
  <2>3. /\ \A k \in Job \ {process[p].job} : job'[k] = job[k]
        /\ job'[process[p].job].status = "queued"
        /\ job'[process[p].job].workspace = job[process[p].job].workspace
    BY <1>6, <2>1, <2>2, FinishedRowEffect DEF Requeue, TypeInv, TypeOK
  <2>4. \A k \in Job : Shown(job'[k]) = Shown(job[k])
    BY <2>1, <2>3 DEF Active, Shown
  <2>5. QED
    BY <1>6, <2>4, Unseen DEF Requeue
<1>7. ASSUME NEW p \in Process, Fail(p)
      PROVE  Contract!Next
  <2>1. process[p].job \in Job /\ Active(process[p].job)
    BY <1>7, HeldJobIsActive DEF Fail
  <2>2. Contract!Answer(process[p].job, "failed", "failed")
    BY <1>7, <2>1, FinishAnswers DEF Fail, TypeInv, TypeOK
  <2>3. QED
    BY <2>1, <2>2 DEF Contract!Next
<1>8. ASSUME NEW w \in Workspace, RemoveMember(w)
      PROVE  Contract!Remove(w)
  <2>1. \A k \in Job :
          job'[k] = IF job[k].workspace = w THEN NoRow("deleted") ELSE job[k]
    BY <1>8 DEF RemoveMember
  <2>2. \A k \in Job :
          request'[k] = IF request[k].workspace = w
                          THEN [status |-> "deleted", workspace |-> None]
                          ELSE request[k]
    BY <2>1 DEF NoRow, Active
  <2>3. request' = [k \in Job |-> IF request[k].workspace = w
                                    THEN [status |-> "deleted", workspace |-> None]
                                    ELSE request[k]]
    BY <2>2
  <2>4. QED
    BY <1>8, <2>3 DEF RemoveMember, Exists, Contract!Remove
<1>9. QED
  BY <1>1, <1>2, <1>3, <1>4, <1>5, <1>6, <1>7, <1>8, TableSteps DEF Contract!Next

\* Leases, attempts, retries, crashes and reclaims are invisible: what is seen
\* of the workspaces and of their start requests follows WorkspaceContract.
THEOREM QueueImplementsContract == Spec => ImplementsContract
<1>1. TypeInv /\ TableInv /\ SoloInv /\ [Next]_vars => [Contract!Next]_(Contract!vars)
  BY NextContract
<1>2. QED
  BY <1>1, InitContract, TypeInvariant, TableInvariant, SoloInvariant, PTL
  DEF Spec, ImplementsContract, Contract!Spec

===========================================================================
