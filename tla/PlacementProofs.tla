-------------------------- MODULE PlacementProofs --------------------------
(***************************************************************************)
(* Proofs about the worker registry and placement, for any sets of hosts   *)
(* and workspaces, any ceilings and any reservations.                      *)
(***************************************************************************)
EXTENDS Placement, FiniteSetTheorems, TLAPS

---------------------------------------------------------------------------
(* Rows *)

LEMMA UpsertEffect ==
  ASSUME host \in [Host -> HostRow], NEW h \in Host, NEW t \in Capacity[h],
         NEW e \in BOOLEAN, NEW s \in BOOLEAN, Upsert(h, t, e, s)
  PROVE  /\ host' \in [Host -> HostRow]
         /\ \A g \in Host \ {h} : host'[g] = host[g]
         /\ host'[h].enabled = e
         /\ host'[h].schedulable = s
         /\ host'[h].state = host[h].state
         /\ host'[h].total = t
         /\ host'[h].reserved = host[h].reserved
         /\ Covers(t, host[h].reserved)
  BY CapacityAssumption DEF Upsert, HostRow

LEMMA ScheduledEffect ==
  ASSUME NEW row \in HostRow, NEW t \in [Resource -> Nat], NEW c \in Command
  PROVE  /\ Scheduled([row EXCEPT !.total = t], c) \in HostRow
         /\ Scheduled([row EXCEPT !.total = t], c).total = t
         /\ Scheduled([row EXCEPT !.total = t], c).reserved = row.reserved
         /\ c \in {"enable", "disable", "drain"}
              => ~Scheduled([row EXCEPT !.total = t], c).schedulable
         /\ c = "drain" => Scheduled([row EXCEPT !.total = t], c).state = "draining"
         /\ c = "none" => /\ Scheduled([row EXCEPT !.total = t], c).state = row.state
                          /\ Scheduled([row EXCEPT !.total = t], c).schedulable = row.schedulable
                          /\ Scheduled([row EXCEPT !.total = t], c).enabled = row.enabled
  BY DEF Scheduled, Command, HostRow

LEMMA ObservedEffect ==
  ASSUME NEW row \in HostRow, NEW s \in {"healthy", "unavailable"}, NEW b \in BOOLEAN
  PROVE  /\ Observed(row, s, b) \in HostRow
         /\ Observed(row, s, b).total = row.total
         /\ Observed(row, s, b).reserved = row.reserved
         /\ Observed(row, s, b).enabled = row.enabled
         /\ Observed(row, s, b).schedulable = row.schedulable
         /\ row.state = "draining" => Observed(row, s, b).state = "draining"
  BY DEF Observed, HostRow

\* Assign takes a candidate with room for the reservation.
LEMMA AssignEffect ==
  ASSUME TypeOK, NEW w \in Workspace, Assign(w)
  PROVE  \E h \in Host :
           /\ h \in Candidates
           /\ host' \in [Host -> HostRow]
           /\ \A g \in Host \ {h} : host'[g] = host[g]
           /\ host'[h].enabled = host[h].enabled
           /\ host'[h].schedulable = host[h].schedulable
           /\ host'[h].state = host[h].state
           /\ Covers(host'[h].total, host'[h].reserved)
           /\ place[w].host = None
           /\ place' = [place EXCEPT ![w] =
                          [status |-> "present", host |-> h, reserved |-> need]]
           /\ place' \in [Workspace -> Place]
<1>1. PICK h \in Preferred :
        /\ host' = [host EXCEPT ![h] =
                      [@ EXCEPT !.reserved = [r \in Resource |-> host[h].reserved[r] + need[r]]]]
        /\ place' = [place EXCEPT ![w] =
                       [status |-> "present", host |-> h, reserved |-> need]]
  BY DEF Assign
<1>2. h \in Candidates /\ h \in Host /\ Fits(h)
  BY DEF Preferred, Candidates, Registered
<1>3. need \in [Resource -> Nat]
  BY NeedAssumption DEF TypeOK
<1>4. /\ host[h] \in HostRow
      /\ host[h].reserved \in [Resource -> Nat]
      /\ host[h].total \in [Resource -> Nat]
  BY <1>2 DEF TypeOK, HostRow
<1> DEFINE sum == [r \in Resource |-> host[h].reserved[r] + need[r]]
<1>5. sum \in [Resource -> Nat]
  BY <1>3, <1>4
<1>6. Covers(host[h].total, sum)
  BY <1>2, <1>3, <1>4 DEF Fits, Covers
<1> HIDE DEF sum
<1>7. /\ host' \in [Host -> HostRow]
      /\ \A g \in Host \ {h} : host'[g] = host[g]
      /\ host'[h].enabled = host[h].enabled
      /\ host'[h].schedulable = host[h].schedulable
      /\ host'[h].state = host[h].state
      /\ host'[h].total = host[h].total
      /\ host'[h].reserved = sum
  <2>1. host' = [host EXCEPT ![h] = [@ EXCEPT !.reserved = sum]]
    BY <1>1 DEF sum
  <2>2. QED
    BY <1>2, <1>4, <1>5, <2>1 DEF TypeOK, HostRow
<1>8. place' \in [Workspace -> Place]
  BY <1>1, <1>2, <1>3 DEF TypeOK, Place
<1>9. place[w].host = None
  BY DEF Assign, Unassigned
<1>10. QED
  BY <1>1, <1>2, <1>6, <1>7, <1>8, <1>9

LEMMA ReleasedEffect ==
  ASSUME NEW a \in [Resource -> Nat], NEW b \in [Resource -> Nat]
  PROVE  /\ Released(a, b) \in [Resource -> Nat]
         /\ \A r \in Resource : Released(a, b)[r] <= a[r]
  BY DEF Released

---------------------------------------------------------------------------
(* Types, ceilings and withdrawn hosts *)

\* A withdrawn host stays out of the candidates: a drained one by its state,
\* any other by its scheduling flags until a start seeds it.
WithdrawnIsOut ==
  \A h \in Host :
    /\ withdrawn[h] = "drained" => host[h].state = "draining"
    /\ withdrawn[h] = "unschedulable" => ~(host[h].enabled /\ host[h].schedulable)

Inv == TypeOK /\ NeverOverbooked /\ WithdrawnIsOut

LEMMA InitInv == Init => Inv
<1> SUFFICES ASSUME Init PROVE Inv
  OBVIOUS
<1>1. Nothing \in [Resource -> Nat] /\ Covers(Nothing, Nothing)
  BY DEF Nothing, Covers
<1>2. Unregistered \in HostRow
  BY <1>1 DEF Unregistered, HostRow
<1>3. Unplaced("present") \in Place /\ Unplaced("absent") \in Place
  BY <1>1 DEF Unplaced, Place
<1>4. TypeOK
  BY <1>2, <1>3 DEF Init, TypeOK
<1>5. NeverOverbooked
  BY <1>1 DEF Init, NeverOverbooked, Unregistered
<1>6. WithdrawnIsOut
  BY DEF Init, WithdrawnIsOut
<1>7. QED
  BY <1>4, <1>5, <1>6 DEF Inv

LEMMA NextInv == Inv /\ [Next]_vars => Inv'
<1> SUFFICES ASSUME Inv, [Next]_vars PROVE Inv'
  OBVIOUS
<1> USE DEF Inv
<1>1. ASSUME NEW h \in Host, NEW t \in Capacity[h], NEW e \in BOOLEAN, NEW s \in BOOLEAN,
             Register(h, t, e, s)
      PROVE  Inv'
  <2>1. Upsert(h, t, e, s)
    BY <1>1 DEF Register
  <2>2. /\ host' \in [Host -> HostRow]
        /\ \A g \in Host \ {h} : host'[g] = host[g]
        /\ host'[h].enabled = e
        /\ host'[h].schedulable = s
        /\ host'[h].total = t
        /\ host'[h].reserved = host[h].reserved
        /\ Covers(t, host[h].reserved)
    BY <2>1, UpsertEffect DEF TypeOK
  <2>3. withdrawn' = [withdrawn EXCEPT ![h] = IF e /\ s THEN "no" ELSE "unschedulable"]
    BY <1>1 DEF Register
  <2>4. TypeOK'
    BY <1>1, <2>2, <2>3 DEF Register, TypeOK
  <2>5. NeverOverbooked'
    BY <2>2 DEF NeverOverbooked
  <2>6. WithdrawnIsOut'
    BY <2>2, <2>3 DEF WithdrawnIsOut, TypeOK
  <2>7. QED
    BY <2>4, <2>5, <2>6
<1>2. ASSUME NEW h \in Host, NEW t \in Capacity[h], NEW c \in Command, Update(h, t, c)
      PROVE  Inv'
  <2> DEFINE row == Scheduled([host[h] EXCEPT !.total = t], c)
  <2>1. /\ host' = [host EXCEPT ![h] = row]
        /\ Covers(t, host[h].reserved)
    BY <1>2 DEF Update
  <2>2. host[h] \in HostRow /\ t \in [Resource -> Nat]
    BY CapacityAssumption DEF TypeOK
  <2>3. /\ row \in HostRow
        /\ row.total = t
        /\ row.reserved = host[h].reserved
        /\ c \in {"enable", "disable", "drain"} => ~row.schedulable
        /\ c = "drain" => row.state = "draining"
        /\ c = "none" => /\ row.state = host[h].state
                         /\ row.schedulable = host[h].schedulable
                         /\ row.enabled = host[h].enabled
    BY <2>2, ScheduledEffect
  <2> HIDE DEF row
  <2>4. withdrawn' = [withdrawn EXCEPT ![h] =
                        CASE c = "none"   -> @
                          [] c = "resume" -> "no"
                          [] c = "drain"  -> "drained"
                          [] OTHER        -> "unschedulable"]
    BY <1>2 DEF Update
  <2>5. TypeOK'
    BY <1>2, <2>1, <2>3, <2>4 DEF Update, TypeOK
  <2>6. NeverOverbooked'
    BY <2>1, <2>3 DEF NeverOverbooked, TypeOK
  <2>7. WithdrawnIsOut'
    BY <2>1, <2>3, <2>4 DEF WithdrawnIsOut, TypeOK, Command
  <2>8. QED
    BY <2>5, <2>6, <2>7
<1>3. ASSUME NEW h \in Host, Ready(h) \/ NotReady(h) \/ Unreachable(h)
      PROVE  Inv'
  <2>1. PICK s \in {"healthy", "unavailable"}, b \in BOOLEAN : Answer(h, s, b)
    BY <1>3 DEF Ready, NotReady, Unreachable
  <2> DEFINE row == Observed(host[h], s, b)
  <2>2. host' = [host EXCEPT ![h] = row]
    BY <2>1 DEF Answer
  <2>3. /\ row \in HostRow
        /\ row.total = host[h].total
        /\ row.reserved = host[h].reserved
        /\ row.enabled = host[h].enabled
        /\ row.schedulable = host[h].schedulable
        /\ host[h].state = "draining" => row.state = "draining"
    BY ObservedEffect DEF TypeOK
  <2> HIDE DEF row
  <2>4. TypeOK'
    BY <2>1, <2>2, <2>3 DEF Answer, TypeOK
  <2>5. NeverOverbooked'
    BY <2>2, <2>3 DEF NeverOverbooked, TypeOK
  <2>6. WithdrawnIsOut'
    BY <2>1, <2>2, <2>3 DEF Answer, WithdrawnIsOut, TypeOK
  <2>7. QED
    BY <2>4, <2>5, <2>6
<1>4. ASSUME NEW h \in Host, Age(h)
      PROVE  Inv'
  <2> DEFINE row == [host[h] EXCEPT !.fresh = FALSE]
  <2>1. host' = [host EXCEPT ![h] = row]
    BY <1>4 DEF Age
  <2>2. /\ row \in HostRow
        /\ row.total = host[h].total
        /\ row.reserved = host[h].reserved
        /\ row.enabled = host[h].enabled
        /\ row.schedulable = host[h].schedulable
        /\ row.state = host[h].state
    BY DEF TypeOK, HostRow
  <2> HIDE DEF row
  <2>3. TypeOK'
    BY <1>4, <2>1, <2>2 DEF Age, TypeOK
  <2>4. NeverOverbooked' /\ WithdrawnIsOut'
    BY <1>4, <2>1, <2>2 DEF Age, NeverOverbooked, WithdrawnIsOut, TypeOK
  <2>5. QED
    BY <2>3, <2>4
<1>5. ASSUME NEW w \in Workspace, Assign(w), UNCHANGED withdrawn
      PROVE  /\ host' \in [Host -> HostRow]
             /\ place' \in [Workspace -> Place]
             /\ NeverOverbooked'
             /\ WithdrawnIsOut'
  BY <1>5, AssignEffect DEF NeverOverbooked, WithdrawnIsOut
<1>6. ASSUME NEW w \in Workspace, CreateWorkspace(w)
      PROVE  Inv'
  <2>1. Unplaced("present") \in Place
    BY DEF Unplaced, Nothing, Place
  <2>2. QED
    BY <1>6, <2>1 DEF CreateWorkspace, TypeOK, NeverOverbooked, WithdrawnIsOut
<1>7. ASSUME NEW w \in Workspace, EnsureAssigned(w)
      PROVE  Inv'
  BY <1>5, <1>7 DEF EnsureAssigned, TypeOK
<1>8. ASSUME NEW w \in Workspace, RemoveMember(w)
      PROVE  Inv'
  <2> DEFINE h == place[w].host
             rest == Released(host[h].reserved, place[w].reserved)
             row == [host[h] EXCEPT !.reserved = rest]
  <2>1. Unplaced("deleted") \in Place
    BY DEF Unplaced, Nothing, Place
  <2>2. place' \in [Workspace -> Place]
    BY <1>8, <2>1 DEF RemoveMember, TypeOK
  <2>3. CASE h = None
    BY <1>8, <2>2, <2>3 DEF RemoveMember, TypeOK, NeverOverbooked, WithdrawnIsOut
  <2>4. CASE h # None
    <3>1. h \in Host /\ host' = [host EXCEPT ![h] = row]
      BY <1>8, <2>4 DEF RemoveMember, TypeOK, Place
    <3>2. /\ host[h] \in HostRow
          /\ host[h].reserved \in [Resource -> Nat]
          /\ host[h].total \in [Resource -> Nat]
          /\ place[w].reserved \in [Resource -> Nat]
      BY <3>1 DEF TypeOK, HostRow, Place
    <3>3. /\ rest \in [Resource -> Nat]
          /\ \A r \in Resource : rest[r] <= host[h].reserved[r]
      BY <3>2, ReleasedEffect
    <3>4. Covers(host[h].total, rest)
      BY <3>1, <3>2, <3>3 DEF NeverOverbooked, Covers
    <3> HIDE DEF rest
    <3>5. /\ row \in HostRow
          /\ row.total = host[h].total
          /\ row.reserved = rest
          /\ row.enabled = host[h].enabled
          /\ row.schedulable = host[h].schedulable
          /\ row.state = host[h].state
      BY <3>2, <3>3 DEF HostRow
    <3> HIDE DEF row
    <3>6. TypeOK'
      BY <1>8, <2>2, <3>1, <3>5 DEF RemoveMember, TypeOK
    <3>7. NeverOverbooked'
      BY <3>1, <3>4, <3>5 DEF NeverOverbooked, TypeOK
    <3>8. WithdrawnIsOut'
      BY <1>8, <3>1, <3>5 DEF RemoveMember, WithdrawnIsOut, TypeOK
    <3>9. QED
      BY <3>6, <3>7, <3>8
  <2>5. QED
    BY <2>3, <2>4
<1>9. ASSUME NEW n \in Need, Start(n)
      PROVE  Inv'
  <2>1. CASE UNCHANGED <<host, withdrawn>>
    BY <1>9, <2>1 DEF Start, TypeOK, NeverOverbooked, WithdrawnIsOut, Registered
  <2>2. ASSUME NEW h \in Seeded, NEW t \in Capacity[h], Upsert(h, t, TRUE, TRUE),
               withdrawn' = [withdrawn EXCEPT ![h] =
                               IF @ = "unschedulable" THEN "reseeded" ELSE @]
        PROVE  Inv'
    <3>1. /\ h \in Host
          /\ host' \in [Host -> HostRow]
          /\ \A g \in Host \ {h} : host'[g] = host[g]
          /\ host'[h].state = host[h].state
          /\ host'[h].total = t
          /\ host'[h].reserved = host[h].reserved
          /\ Covers(t, host[h].reserved)
      BY <2>2, HostAssumption, UpsertEffect DEF TypeOK
    <3>2. TypeOK'
      BY <1>9, <2>2, <3>1 DEF Start, TypeOK, Registered
    <3>3. NeverOverbooked'
      BY <3>1 DEF NeverOverbooked
    <3>4. WithdrawnIsOut'
      BY <2>2, <3>1 DEF WithdrawnIsOut, TypeOK
    <3>5. QED
      BY <3>2, <3>3, <3>4
  <2>3. QED
    BY <1>9, <2>1, <2>2 DEF Start
<1>10. ASSUME NEW w \in Workspace, AssignLegacy(w)
       PROVE  Inv'
  <2>1. CASE UNCHANGED <<host, place>>
    BY <1>10, <2>1 DEF AssignLegacy, TypeOK, NeverOverbooked, WithdrawnIsOut
  <2>2. CASE Assign(w)
    BY <1>5, <1>10, <2>2 DEF AssignLegacy, TypeOK
  <2>3. QED
    BY <1>10, <2>1, <2>2 DEF AssignLegacy
<1>11. CASE PollAll \/ FindLegacy \/ Serve \/ UNCHANGED vars
  BY <1>11 DEF PollAll, FindLegacy, Serve, vars, TypeOK, NeverOverbooked,
               WithdrawnIsOut, Registered
<1>12. QED
  BY <1>1, <1>2, <1>3, <1>4, <1>6, <1>7, <1>8, <1>9, <1>10, <1>11 DEF Next

LEMMA Invariant == Spec => []Inv
  BY InitInv, NextInv, PTL DEF Spec

\* The registry and the placements keep the values that the schema and the
\* code's writes allow.
THEOREM PlacementTypes == Spec => []TypeOK
<1>1. Inv => TypeOK
  BY DEF Inv
<1>2. QED
  BY <1>1, Invariant, PTL

\* No order of placements, removals, new registrations, changed capacities and
\* restarts promises more of a host than its registered ceilings.
THEOREM NeverOverbookedHolds == Spec => []NeverOverbooked
<1>1. Inv => NeverOverbooked
  BY DEF Inv
<1>2. QED
  BY <1>1, Invariant, PTL

---------------------------------------------------------------------------
(* Steps *)

\* The steps that change a placement.
LEMMA PlaceSteps ==
  ASSUME [Next]_vars
  PROVE  \/ UNCHANGED place
         \/ \E w \in Workspace : CreateWorkspace(w) \/ Assign(w) \/ RemoveMember(w)
  BY DEF Next, vars, Register, Update, Ready, NotReady, Unreachable, Answer, Age,
         EnsureAssigned, AssignLegacy, Start, PollAll, FindLegacy, Serve

\* Only a row that is present has a host.
OnlyPresentPlaced ==
  \A w \in Workspace : place[w].status # "present" => place[w].host = None

LEMMA OnlyPresentPlacedInvariant == Spec => []OnlyPresentPlaced
<1>1. Init => OnlyPresentPlaced
  BY DEF Init, OnlyPresentPlaced, Unplaced
<1>2. ASSUME Inv, OnlyPresentPlaced, [Next]_vars
      PROVE  OnlyPresentPlaced'
  <2>1. CASE UNCHANGED place
    BY <1>2, <2>1 DEF OnlyPresentPlaced
  <2>2. ASSUME NEW w \in Workspace, Assign(w)
        PROVE  OnlyPresentPlaced'
    BY <1>2, <2>2, AssignEffect DEF OnlyPresentPlaced, Inv, TypeOK
  <2>3. ASSUME NEW w \in Workspace, CreateWorkspace(w) \/ RemoveMember(w)
        PROVE  OnlyPresentPlaced'
    BY <1>2, <2>3 DEF CreateWorkspace, RemoveMember, Unplaced, OnlyPresentPlaced,
                      Inv, TypeOK
  <2>4. QED
    BY <1>2, <2>1, <2>2, <2>3, PlaceSteps
<1>3. QED
  BY <1>1, <1>2, Invariant, PTL DEF Spec

\* A workspace keeps its host until it is deleted with its member.
THEOREM AssignmentSticksHolds == Spec => AssignmentSticks
<1> DEFINE Kept == \A w \in Workspace :
                     place[w].host # None => \/ place'[w].host = place[w].host
                                             \/ place'[w].status = "deleted"
<1>1. ASSUME Inv, OnlyPresentPlaced, [Next]_vars
      PROVE  Kept
  <2>1. CASE UNCHANGED place
    BY <2>1
  <2>2. ASSUME NEW w \in Workspace, Assign(w)
        PROVE  Kept
    BY <1>1, <2>2, AssignEffect DEF Inv, TypeOK
  <2>3. ASSUME NEW w \in Workspace, CreateWorkspace(w)
        PROVE  Kept
    <3>1. place' = [place EXCEPT ![w] = Unplaced("present")] /\ place[w].host = None
      BY <1>1, <2>3 DEF CreateWorkspace, OnlyPresentPlaced
    <3>2. QED
      BY <1>1, <3>1 DEF Inv, TypeOK
  <2>4. ASSUME NEW w \in Workspace, RemoveMember(w)
        PROVE  Kept
    BY <1>1, <2>4 DEF RemoveMember, Unplaced, Inv, TypeOK
  <2>5. QED
    BY <1>1, <2>1, <2>2, <2>3, <2>4, PlaceSteps
<1>2. QED
  BY <1>1, Invariant, OnlyPresentPlacedInvariant, PTL DEF Spec, AssignmentSticks

\* No late answer to a health poll makes a withdrawn host take a workspace, and no
\* restart does but for the host it seeds, which takes none either if it drains.
THEOREM WithdrawnTakesNoWorkHolds == Spec => WithdrawnTakesNoWork
<1> DEFINE Kept == \A w \in Workspace, h \in Host :
                     Placed(w, h) => withdrawn[h] \in {"no", "reseeded"}
<1>1. ASSUME Inv, [Next]_vars
      PROVE  Kept
  <2> SUFFICES ASSUME NEW w \in Workspace, NEW h \in Host, Placed(w, h)
               PROVE  withdrawn[h] \in {"no", "reseeded"}
    OBVIOUS
  <2>1. Assign(w) /\ place'[w].host = h
    <3>1. ASSUME NEW v \in Workspace, Assign(v)
          PROVE  v = w
      BY <1>1, <3>1, HostAssumption, AssignEffect DEF Placed, Inv, TypeOK
    <3>2. ASSUME NEW v \in Workspace, CreateWorkspace(v) \/ RemoveMember(v)
          PROVE  FALSE
      BY <1>1, <3>2, HostAssumption
      DEF CreateWorkspace, RemoveMember, Unplaced, Placed, Inv, TypeOK
    <3>3. place'[w] # place[w]
      BY <1>1, HostAssumption DEF Placed
    <3>4. QED
      BY <1>1, <3>1, <3>2, <3>3, PlaceSteps DEF Placed
  <2>2. h \in Candidates
    BY <1>1, <2>1, AssignEffect DEF Inv, TypeOK
  <2>3. /\ host[h].state = "healthy"
        /\ host[h].enabled
        /\ host[h].schedulable
    BY <2>2 DEF Candidates
  <2>4. withdrawn[h] \in {"no", "drained", "unschedulable", "reseeded"}
    BY <1>1 DEF Inv, TypeOK
  <2>5. QED
    BY <1>1, <2>3, <2>4 DEF Inv, WithdrawnIsOut
<1>2. QED
  BY <1>1, Invariant, PTL DEF Spec, WithdrawnTakesNoWork

---------------------------------------------------------------------------
(* The ledger of reservations *)

\* The numbered units of one workspace are as many as it holds.
LEMMA ShareEffect ==
  ASSUME NEW w, NEW n \in Nat
  PROVE  /\ IsFiniteSet({w} \X (1..n))
         /\ Cardinality({w} \X (1..n)) = n
<1>1. IsFiniteSet({w}) /\ Cardinality({w}) = 1
  BY FS_Singleton
<1>2. IsFiniteSet(1..n) /\ Cardinality(1..n) = n
  BY FS_Interval
<1>3. /\ IsFiniteSet({w} \X (1..n))
      /\ Cardinality({w} \X (1..n)) = Cardinality({w}) * Cardinality(1..n)
  BY <1>1, <1>2, FS_Product, Zenon
<1>4. QED
  BY <1>1, <1>2, <1>3

\* The ledger balances with finitely many units, however many workspaces exist.
Ledger ==
  \A h \in Host, r \in Resource :
    /\ IsFiniteSet(Units(h, r))
    /\ host[h].reserved[r] = Cardinality(Units(h, r))

LedgerInv == Ledger /\ OnlyPresentPlaced

LEMMA InitLedger == Init => LedgerInv
<1> SUFFICES ASSUME Init PROVE LedgerInv
  OBVIOUS
<1>1. \A w \in Workspace : place[w].host = None
  BY DEF Init, Unplaced
<1>2. \A h \in Host, r \in Resource : Units(h, r) = {}
  BY <1>1, HostAssumption DEF Units, OnHost
<1>3. \A h \in Host, r \in Resource : host[h].reserved[r] = 0
  BY DEF Init, Unregistered, Nothing
<1>4. QED
  BY <1>1, <1>2, <1>3, FS_EmptySet DEF LedgerInv, Ledger, OnlyPresentPlaced

\* A step that changes neither placements nor reservations.
LEMMA LedgerKept ==
  ASSUME LedgerInv, UNCHANGED place, \A h \in Host : host'[h].reserved = host[h].reserved
  PROVE  LedgerInv'
  BY DEF LedgerInv, Ledger, OnlyPresentPlaced, Units, OnHost

LEMMA AssignLedger ==
  ASSUME Inv, LedgerInv, NEW w \in Workspace, Assign(w)
  PROVE  LedgerInv'
<1> USE DEF LedgerInv
<1>1. PICK g \in Preferred :
        /\ host' = [host EXCEPT ![g] =
                      [@ EXCEPT !.reserved = [r \in Resource |-> host[g].reserved[r] + need[r]]]]
        /\ place' = [place EXCEPT ![w] =
                       [status |-> "present", host |-> g, reserved |-> need]]
  BY DEF Assign
<1>2. /\ g \in Host
      /\ need \in [Resource -> Nat]
      /\ place[w].host = None
      /\ place[w].status = "present"
  BY NeedAssumption DEF Preferred, Candidates, Registered, Inv, TypeOK, Assign, Unassigned
<1>3. /\ \A v \in Workspace \ {w} : place'[v] = place[v]
      /\ place'[w].host = g
      /\ place'[w].status = "present"
      /\ place'[w].reserved = need
  BY <1>1 DEF Inv, TypeOK
<1>4. OnlyPresentPlaced'
  BY <1>3 DEF OnlyPresentPlaced
<1>5. ASSUME NEW h \in Host \ {g}, NEW r \in Resource
      PROVE  Units(h, r)' = Units(h, r) /\ host'[h].reserved[r] = host[h].reserved[r]
  <2>1. OnHost(h)' = OnHost(h) /\ w \notin OnHost(h)
    BY <1>2, <1>3, HostAssumption DEF OnHost
  <2>2. QED
    BY <1>1, <1>3, <2>1 DEF Units, OnHost, Inv, TypeOK
<1>6. ASSUME NEW r \in Resource
      PROVE  /\ IsFiniteSet(Units(g, r))'
             /\ host'[g].reserved[r] = Cardinality(Units(g, r))'
  <2> DEFINE share == {w} \X (1..need[r])
  <2>1. OnHost(g)' = OnHost(g) \cup {w} /\ w \notin OnHost(g)
    BY <1>2, <1>3, HostAssumption DEF OnHost
  <2>2. Units(g, r)' = Units(g, r) \cup share
    BY <1>3, <2>1 DEF Units, OnHost
  <2>3. Units(g, r) \cap share = {}
    BY <2>1 DEF Units
  <2>4. IsFiniteSet(share) /\ Cardinality(share) = need[r] /\ need[r] \in Nat
    BY <1>2, ShareEffect
  <2>5. /\ IsFiniteSet(Units(g, r))
        /\ host[g].reserved[r] = Cardinality(Units(g, r))
        /\ host[g].reserved[r] \in Nat
    BY <1>2 DEF Ledger, Inv, TypeOK, HostRow
  <2> HIDE DEF share
  <2>6. /\ IsFiniteSet(Units(g, r)')
        /\ Cardinality(Units(g, r)') = host[g].reserved[r] + need[r]
    BY <2>2, <2>3, <2>4, <2>5, FS_Union, FS_EmptySet
  <2>7. host'[g].reserved[r] = host[g].reserved[r] + need[r]
    BY <1>1, <1>2 DEF Inv, TypeOK, HostRow
  <2>8. QED
    BY <2>6, <2>7
<1>7. Ledger'
  BY <1>5, <1>6 DEF Ledger
<1>8. QED
  BY <1>4, <1>7

LEMMA RemoveLedger ==
  ASSUME Inv, LedgerInv, NEW w \in Workspace, RemoveMember(w)
  PROVE  LedgerInv'
<1> USE DEF LedgerInv
<1>0. PICK g \in Host \cup {None} : g = place[w].host
  BY DEF Inv, TypeOK, Place
<1>1. /\ place' = [place EXCEPT ![w] = Unplaced("deleted")]
      /\ host' = IF g = None
                   THEN host
                   ELSE [host EXCEPT ![g] =
                           [@ EXCEPT !.reserved = Released(host[g].reserved, place[w].reserved)]]
  BY <1>0 DEF RemoveMember
<1>2. /\ \A v \in Workspace \ {w} : place'[v] = place[v]
      /\ place'[w].host = None
  BY <1>1 DEF Inv, TypeOK, Unplaced
<1>3. OnlyPresentPlaced'
  BY <1>2 DEF OnlyPresentPlaced
<1>4. ASSUME NEW h \in Host, h # g, NEW r \in Resource
      PROVE  Units(h, r)' = Units(h, r) /\ host'[h].reserved[r] = host[h].reserved[r]
  <2>1. OnHost(h)' = OnHost(h) /\ w \notin OnHost(h)
    BY <1>0, <1>2, <1>4, HostAssumption DEF OnHost
  <2>2. QED
    BY <1>1, <1>2, <1>4, <2>1 DEF Units, OnHost, Inv, TypeOK
<1>5. ASSUME g \in Host, NEW r \in Resource
      PROVE  /\ IsFiniteSet(Units(g, r)')
             /\ host'[g].reserved[r] = Cardinality(Units(g, r)')
  <2> DEFINE share == {w} \X (1..place[w].reserved[r])
  <2>1. OnHost(g)' = OnHost(g) \ {w} /\ w \in OnHost(g)
    BY <1>0, <1>2, <1>5, HostAssumption DEF OnHost
  <2>2. Units(g, r)' = Units(g, r) \ share
    <3>1. \A v \in OnHost(g) \ {w} : ({v} \X (1..place[v].reserved[r])) \cap share = {}
      OBVIOUS
    <3>2. Units(g, r)' = UNION {{v} \X (1..place[v].reserved[r]) : v \in OnHost(g) \ {w}}
      BY <1>2, <2>1 DEF Units, OnHost
    <3>3. Units(g, r) =
            (UNION {{v} \X (1..place[v].reserved[r]) : v \in OnHost(g) \ {w}}) \cup share
      BY <2>1 DEF Units
    <3> HIDE DEF share
    <3>4. QED
      BY <3>1, <3>2, <3>3
  <2>3. Units(g, r) \cap share = share
    BY <2>1 DEF Units
  <2>4. /\ place[w].reserved \in [Resource -> Nat]
        /\ host[g] \in HostRow
        /\ host[g].reserved \in [Resource -> Nat]
    BY <1>5 DEF Inv, TypeOK, Place, HostRow
  <2>5. IsFiniteSet(share) /\ Cardinality(share) = place[w].reserved[r]
    BY <2>4, ShareEffect
  <2>6. /\ IsFiniteSet(Units(g, r))
        /\ host[g].reserved[r] = Cardinality(Units(g, r))
    BY <1>5 DEF Ledger
  <2> HIDE DEF share
  <2>7. /\ IsFiniteSet(Units(g, r)')
        /\ Cardinality(Units(g, r)') = host[g].reserved[r] - place[w].reserved[r]
    <3>1. /\ IsFiniteSet(Units(g, r) \ share)
          /\ Cardinality(Units(g, r) \ share)
               = Cardinality(Units(g, r)) - Cardinality(Units(g, r) \cap share)
      BY <2>5, <2>6, FS_Difference, Zenon
    <3>2. QED
      BY <2>2, <2>3, <2>5, <2>6, <3>1
  <2>8. place[w].reserved[r] <= host[g].reserved[r]
    BY <2>3, <2>4, <2>5, <2>6, FS_Subset
  <2>9. host'[g].reserved[r] = Released(host[g].reserved, place[w].reserved)[r]
    BY <1>1, <1>5, <2>4, HostAssumption DEF Inv, TypeOK, HostRow
  <2>10. QED
    BY <2>4, <2>7, <2>8, <2>9 DEF Released
<1>6. Ledger'
  BY <1>4, <1>5 DEF LedgerInv, Ledger
<1>7. QED
  BY <1>3, <1>6

LEMMA NextLedger == Inv /\ LedgerInv /\ [Next]_vars => LedgerInv'
<1> SUFFICES ASSUME Inv, LedgerInv, [Next]_vars PROVE LedgerInv'
  OBVIOUS
<1> DEFINE Same == \A h \in Host : host'[h].reserved = host[h].reserved
<1>1. ASSUME NEW h \in Host, NEW t \in Capacity[h], NEW e \in BOOLEAN, NEW s \in BOOLEAN,
             Upsert(h, t, e, s)
      PROVE  Same
  BY <1>1, UpsertEffect DEF Inv, TypeOK
<1>2. ASSUME NEW h \in Host, NEW t \in Capacity[h], NEW c \in Command, Update(h, t, c)
      PROVE  Same
  <2>1. host' = [host EXCEPT ![h] = Scheduled([@ EXCEPT !.total = t], c)]
    BY <1>2 DEF Update
  <2>2. Scheduled([host[h] EXCEPT !.total = t], c).reserved = host[h].reserved
    BY CapacityAssumption, ScheduledEffect DEF Inv, TypeOK
  <2>3. QED
    BY <2>1, <2>2 DEF Inv, TypeOK
<1>3. ASSUME NEW h \in Host, Ready(h) \/ NotReady(h) \/ Unreachable(h) \/ Age(h)
      PROVE  Same
  <2>1. CASE Age(h)
    BY <2>1 DEF Age, Inv, TypeOK, HostRow
  <2>2. ASSUME NEW s \in {"healthy", "unavailable"}, NEW b \in BOOLEAN, Answer(h, s, b)
        PROVE  Same
    BY <2>2, ObservedEffect DEF Answer, Inv, TypeOK
  <2>3. QED
    BY <1>3, <2>1, <2>2 DEF Ready, NotReady, Unreachable
<1>4. ASSUME NEW n \in Need, Start(n)
      PROVE  Same
  BY <1>1, <1>4, HostAssumption DEF Start
<1>5. ASSUME NEW w \in Workspace, CreateWorkspace(w)
      PROVE  LedgerInv'
  <2>1. /\ place' = [place EXCEPT ![w] = Unplaced("present")]
        /\ place[w].host = None
        /\ UNCHANGED host
    BY <1>5 DEF CreateWorkspace, LedgerInv, OnlyPresentPlaced
  <2>2. /\ \A v \in Workspace \ {w} : place'[v] = place[v]
        /\ place'[w].host = None
    BY <2>1 DEF Inv, TypeOK, Unplaced
  <2>3. \A h \in Host : OnHost(h)' = OnHost(h) /\ w \notin OnHost(h)
    BY <2>1, <2>2, HostAssumption DEF OnHost
  <2>4. ASSUME NEW h \in Host, NEW r \in Resource
        PROVE  Units(h, r)' = Units(h, r)
    <3>1. OnHost(h) \subseteq Workspace \ {w}
      BY <2>3 DEF OnHost
    <3>2. QED
      BY <2>2, <2>3, <3>1 DEF Units
  <2>5. OnlyPresentPlaced'
    BY <2>2 DEF LedgerInv, OnlyPresentPlaced
  <2>6. Ledger'
    BY <2>1, <2>4 DEF LedgerInv, Ledger
  <2>7. QED
    BY <2>5, <2>6 DEF LedgerInv
<1>6. ASSUME NEW w \in Workspace, EnsureAssigned(w) \/ RemoveMember(w) \/ AssignLegacy(w)
      PROVE  LedgerInv'
  BY <1>6, AssignLedger, RemoveLedger, LedgerKept DEF EnsureAssigned, AssignLegacy
<1>7. CASE PollAll \/ FindLegacy \/ Serve \/ UNCHANGED vars
  BY <1>7, LedgerKept DEF PollAll, FindLegacy, Serve, vars
<1> HIDE DEF Same
<1>8. ASSUME UNCHANGED place, Same
      PROVE  LedgerInv'
  BY <1>8, LedgerKept DEF Same
<1>9. QED
  BY <1>1, <1>2, <1>3, <1>4, <1>5, <1>6, <1>7, <1>8
  DEF Next, Register, Update, Ready, NotReady, Unreachable, Answer, Age, Start

\* What a host holds reserved is the sum of what its workspaces hold: no order of
\* placements, removals, new registrations and restarts with another reservation
\* loses a unit or gives one back twice (workspace_worker_reservation_release).
THEOREM LedgerBalancesHolds == Spec => []LedgerBalances
<1>1. LedgerInv => LedgerBalances
  BY DEF LedgerInv, Ledger, LedgerBalances
<1>2. QED
  BY <1>1, InitLedger, NextLedger, Invariant, PTL DEF Spec

===========================================================================
