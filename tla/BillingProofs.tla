--------------------------- MODULE BillingProofs ---------------------------
(***************************************************************************)
(* Proofs about the billing projection, for any events, contents, members  *)
(* and number of processes: the snapshots show the newest processed event, *)
(* the seats stay within the subscription and give access exactly while it *)
(* is paid, and no deadline is extended.                                   *)
(***************************************************************************)
EXTENDS Billing, FiniteSetTheorems, TLAPS

---------------------------------------------------------------------------
(* Rows *)

SeatState == {"active", "grace", "suspended"}

\* A row whose deadline is set exactly while a payment is missing.
PaymentRow ==
  {row \in SubscriptionRow : row.payment = "current" <=> row.graceEndsAt = None}

LEMMA AccessType ==
  ASSUME NEW row \in SubscriptionRow, NEW time
  PROVE  /\ Access(row, time).state \in SeatState
         /\ Access(row, time).endsAt \in Nat \cup {None}
  BY DEF Access, SeatState, SubscriptionRow

\* The seat s shows the access that row gave at some time up to now.
Copies(s, row, time) ==
  \/ /\ s.state = "grace"
     /\ row.payment = "grace"
     /\ s.endsAt = row.graceEndsAt
  \/ /\ s.state = "active"
     /\ row.payment = "current"
     /\ row.status = "active"
     /\ s.endsAt = row.periodEnd
  \/ /\ s.state = "suspended"
     /\ Access(row, time).state = "suspended"

LEMMA AccessCopies ==
  ASSUME NEW row \in PaymentRow, NEW time \in Nat, NEW s \in SeatRow,
         s.state = Access(row, time).state, s.endsAt = Access(row, time).endsAt
  PROVE  Copies(s, row, time)
  BY DEF Access, Copies, PaymentRow, SubscriptionRow, SeatRow

\* Access that ended does not come back by the passing of time.
LEMMA SuspendedStays ==
  ASSUME NEW row \in PaymentRow, NEW time \in Nat,
         Access(row, time).state = "suspended"
  PROVE  Access(row, time + 1).state = "suspended"
  BY NoneAssumption DEF Access, PaymentRow, SubscriptionRow

LEMMA ContentKinds ==
  ASSUME TypeOK, NEW e \in Event, sent[e] # None
  PROVE  /\ sent[e] \in SentRow
         /\ sent[e].at \in Nat
         /\ Said(e) \in Content
         /\ Kind(e) = "subscription" => Said(e) \in SubscriptionContent
         /\ Kind(e) = "customer" => Said(e) \in CustomerContent
         /\ Kind(e) \in {"paid", "payment_failed"} => Said(e) \in InvoiceContent
<1>1. sent[e] \in [content : Content, at : 0..MaxTime]
  BY DEF TypeOK
<1>2. /\ Said(e) \in Content
      /\ sent[e] \in SentRow
      /\ sent[e].at \in Nat
  BY <1>1, GraceAssumption DEF Said, SentRow
<1>3. \/ Said(e) \in SubscriptionContent
      \/ Said(e) \in CustomerContent
      \/ Said(e) \in InvoiceContent
  BY <1>2, ContentAssumption
<1>4. QED
  BY <1>2, <1>3 DEF Kind, SubscriptionContent, CustomerContent, InvoiceContent

---------------------------------------------------------------------------
(* Deliveries *)

Step == {"idle", "registered", "projecting", "failing"}

Result == {"unknown", "pending", "applied", "ignored", "failed"}

\* A delivery that is under way after the step was under way before it, with
\* the same event.
Carried ==
  \A q \in Process :
    delivery'[q].step # "idle" => /\ delivery[q].step # "idle"
                                  /\ delivery'[q].event = delivery[q].event

LEMMA GotoEffect ==
  ASSUME delivery \in [Process -> DeliveryState], NEW p \in Process,
         NEW s \in Step, delivery[p].step # "idle", Goto(p, s)
  PROVE  delivery' \in [Process -> DeliveryState] /\ Carried
  BY DEF Goto, DeliveryState, Carried, Step

LEMMA ReturnEffect ==
  ASSUME delivery \in [Process -> DeliveryState], NEW p \in Process, Return(p)
  PROVE  delivery' \in [Process -> DeliveryState] /\ Carried
  BY DEF Return, Idle, DeliveryState, Carried

LEMMA CompleteEffect ==
  ASSUME delivery \in [Process -> DeliveryState], inbox \in [Event -> Result],
         NEW p \in Process, NEW r \in Result, delivery[p].event \in Event,
         Complete(p, r)
  PROVE  /\ delivery' \in [Process -> DeliveryState]
         /\ Carried
         /\ inbox' \in [Event -> Result]
         /\ inbox'[delivery[p].event] = r
         /\ \A e \in Event \ {delivery[p].event} : inbox'[e] = inbox[e]
<1>1. inbox' = [inbox EXCEPT ![delivery[p].event] = r]
  BY DEF Complete
<1>2. delivery' = [q \in Process |->
                     IF q = p THEN Idle
                     ELSE IF delivery[q].event = delivery[p].event
                       THEN [delivery[q] EXCEPT !.alone = FALSE]
                     ELSE delivery[q]]
  BY DEF Complete
<1>3. \A q \in Process : [delivery[q] EXCEPT !.alone = FALSE] \in DeliveryState
  BY DEF DeliveryState
<1>4. Idle \in DeliveryState
  BY DEF Idle, DeliveryState
<1>5. delivery' \in [Process -> DeliveryState]
  BY <1>2, <1>3, <1>4
<1>6. Carried
  BY <1>2 DEF Carried, Idle, DeliveryState
<1>7. QED
  BY <1>1, <1>5, <1>6

\* The events that deliveries and rows refer to were sent.
Bookkeeping ==
  /\ \A e \in Event : inbox[e] # "unknown" => sent[e] # None
  /\ \A p \in Process :
       delivery[p].step # "idle" => /\ delivery[p].event \in Event
                                    /\ sent[delivery[p].event] # None
  /\ customer # None => sent[customer.event] # None
  /\ subscription # None =>
       /\ sent[subscription.event] # None
       /\ subscription.invoice # None => sent[subscription.invoice] # None

\* Every assigned seat copies the access of the stored subscription.
SeatsCopy ==
  \A m \in Assigned : /\ subscription # None
                      /\ seat[m].startsAt <= now
                      /\ Copies(seat[m], subscription, now)

Inv == TypeOK /\ Bookkeeping /\ NewestWins /\ SeatsWithinSubscription /\ SeatsCopy

LEMMA MoveEffect ==
  ASSUME delivery \in [Process -> DeliveryState], NEW p \in Process,
         NEW d \in DeliveryState, delivery' = [delivery EXCEPT ![p] = d],
         delivery[p].step # "idle", d.event = delivery[p].event
  PROVE  delivery' \in [Process -> DeliveryState] /\ Carried
  BY DEF Carried

\* The deliveries under way refer to sent events.
Sound ==
  \A p \in Process :
    delivery[p].step # "idle" => /\ delivery[p].event \in Event
                                 /\ sent[delivery[p].event] # None

LEMMA CarriedSound ==
  ASSUME Bookkeeping, Carried, UNCHANGED sent
  PROVE  Sound'
  BY DEF Bookkeeping, Carried, Sound

\* A step of the inbox alone, that processes no event of a snapshot.
LEMMA InboxStep ==
  ASSUME Inv,
         UNCHANGED <<now, sent, customer, subscription, seat, disabled>>,
         delivery' \in [Process -> DeliveryState],
         inbox' \in [Event -> Result],
         Sound',
         \A e \in Event : inbox'[e] # "unknown" => sent[e] # None,
         \A e \in Event : Processed(e)' =>
           Processed(e) \/ Kind(e) \in {"paid", "payment_failed"}
  PROVE  Inv'
<1>1. TypeOK'
  BY DEF Inv, TypeOK, Result, Assigned
<1>2. Bookkeeping'
  BY DEF Inv, Bookkeeping, Sound
<1>3. NewestWins'
  BY DEF Inv, NewestWins, Newest, Kind, Said, Before
<1>4. SeatsWithinSubscription' /\ SeatsCopy'
  BY DEF Inv, SeatsWithinSubscription, SeatsCopy, Assigned, Copies, Access
<1>5. QED
  BY <1>1, <1>2, <1>3, <1>4 DEF Inv

---------------------------------------------------------------------------
(* Snapshots *)

\* What Newest says of a row after the step.
NewestNext(kind, row) ==
  \A f \in Event :
    Processed(f)' /\ Kind(f) = kind =>
      /\ row # None
      /\ row.event = f \/ Before(f, row.event)

\* An event that is newer than the stored row replaces it.
LEMMA NewestApplied ==
  ASSUME NEW kind, NEW row, NEW next, NEW e \in Event,
         Event \subseteq Nat,
         \A f \in Event : Processed(f) => sent[f].at \in Nat,
         sent[e].at \in Nat,
         row # None => row.event \in Event /\ sent[row.event].at \in Nat,
         Newest(kind, row), Newer(e, row), next # None, next.event = e,
         \A f \in Event \ {e} : inbox'[f] = inbox[f]
  PROVE  NewestNext(kind, next)
<1> SUFFICES ASSUME NEW f \in Event, Processed(f)', Kind(f) = kind, f # e
             PROVE  Before(f, e)
  BY DEF NewestNext
<1>1. Processed(f)
  BY DEF Processed
<1>2. row # None /\ (row.event = f \/ Before(f, row.event)) /\ Before(row.event, e)
  BY <1>1 DEF Newest, Newer
<1>3. QED
  BY <1>1, <1>2 DEF Before, Older

\* An event that is not newer leaves the row as it is.
LEMMA NewestIgnored ==
  ASSUME NEW kind, NEW row, NEW e \in Event,
         Event \subseteq Nat, sent[e].at \in Nat,
         row # None => row.event \in Event /\ sent[row.event].at \in Nat,
         Newest(kind, row), ~Newer(e, row),
         \A f \in Event \ {e} : inbox'[f] = inbox[f]
  PROVE  NewestNext(kind, row)
<1>1. row # None /\ ~Before(row.event, e)
  BY DEF Newer
<1>2. row.event \in Nat /\ e \in Nat /\ sent[row.event].at \in Nat
  BY <1>1
<1>3. row.event = e \/ Before(e, row.event)
  BY <1>1, <1>2 DEF Before, Older
<1>4. QED
  BY <1>1, <1>3 DEF NewestNext, Newest, Processed

\* An event of another kind leaves the row as it is.
LEMMA NewestOther ==
  ASSUME NEW kind, NEW row, NEW next, NEW e \in Event,
         Newest(kind, row), Kind(e) # kind,
         row # None => next # None /\ next.event = row.event,
         \A f \in Event \ {e} : inbox'[f] = inbox[f]
  PROVE  NewestNext(kind, next)
  BY DEF NewestNext, Newest, Processed

LEMMA NewestWinsNext ==
  ASSUME UNCHANGED sent, NewestNext("customer", customer'),
         NewestNext("subscription", subscription')
  PROVE  NewestWins'
  BY DEF NewestWins, Newest, NewestNext, Kind, Said, Before

---------------------------------------------------------------------------
(* Seats *)

LEMMA AssignedFinite == IsFiniteSet(Assigned) /\ Cardinality(Assigned) \in Nat
  BY MemberAssumption, FS_Subset, FS_CardinalityType DEF Assigned

LEMMA ReconciledEffect ==
  ASSUME TypeOK, NEW row \in PaymentRow, Reconcilable(row),
         \A m \in Assigned : seat[m].startsAt <= now,
         UNCHANGED now, seat' = Reconciled(row)
  PROVE  /\ seat' \in [Member -> SeatRow]
         /\ Assigned' = Assigned
         /\ \A m \in Assigned' :
              /\ seat'[m].endsAt # None => seat'[m].endsAt > seat'[m].startsAt
              /\ seat'[m].startsAt <= now'
              /\ Copies(seat'[m], row, now')
<1> DEFINE access == Access(row, now)
<1>1. access.state \in SeatState /\ access.endsAt \in Nat \cup {None}
  BY AccessType DEF PaymentRow
<1>2. now \in Nat /\ seat \in [Member -> SeatRow]
  BY GraceAssumption DEF TypeOK
<1>3. seat' = [m \in Member |->
                 IF m \in Assigned
                   THEN [seat[m] EXCEPT !.state = access.state, !.endsAt = access.endsAt]
                   ELSE seat[m]]
  BY DEF Reconciled
<1>4. \A m \in Assigned : Consistent(seat[m].startsAt, access.endsAt)
  BY DEF Reconcilable
<1> HIDE DEF access
<1>5. ASSUME NEW m \in Assigned
      PROVE  /\ seat'[m] \in SeatRow
             /\ seat'[m].state = access.state
             /\ seat'[m].endsAt = access.endsAt
             /\ seat'[m].startsAt = seat[m].startsAt
  <2>1. m \in Member /\ seat[m] \in SeatRow
    BY <1>2 DEF Assigned
  <2>2. seat'[m] = [seat[m] EXCEPT !.state = access.state, !.endsAt = access.endsAt]
    BY <1>3, <2>1
  <2>3. QED
    BY <1>1, <2>1, <2>2 DEF SeatRow, SeatState
<1>6. ASSUME NEW m \in Member \ Assigned
      PROVE  seat'[m] = seat[m]
  BY <1>3
<1>7. seat' \in [Member -> SeatRow]
  BY <1>2, <1>3, <1>5, <1>6
<1>8. Assigned' = Assigned
  <2>1. Assigned' = {m \in Member : seat'[m].state # "none"}
    BY DEF Assigned
  <2>2. QED
    BY <1>1, <1>5, <1>6, <2>1 DEF Assigned, SeatState
<1>9. ASSUME NEW m \in Assigned
      PROVE  Copies(seat'[m], row, now)
  BY <1>2, <1>5, AccessCopies DEF access
<1>10. QED
  BY <1>4, <1>5, <1>7, <1>8, <1>9 DEF Consistent

\* The stored row is replaced and every assigned seat follows it.
LEMMA RowStep ==
  ASSUME Inv, NEW row \in PaymentRow, Reconcilable(row),
         UNCHANGED <<now, sent, disabled>>,
         subscription' = row, seat' = Reconciled(row),
         customer' \in CustomerRow \cup {None},
         delivery' \in [Process -> DeliveryState],
         inbox' \in [Event -> Result],
         Assigned # {} => Cardinality(Assigned) <= row.seats
  PROVE  TypeOK' /\ SeatsWithinSubscription' /\ SeatsCopy'
<1>1. /\ seat' \in [Member -> SeatRow]
      /\ Assigned' = Assigned
      /\ \A m \in Assigned' :
           /\ seat'[m].endsAt # None => seat'[m].endsAt > seat'[m].startsAt
           /\ seat'[m].startsAt <= now'
           /\ Copies(seat'[m], row, now')
  BY ReconciledEffect DEF Inv, SeatsCopy
<1>2. row # None /\ row \in SubscriptionRow
  BY RowAssumption DEF PaymentRow
<1>3. subscription' \in SubscriptionRow \cup {None}
  BY <1>2
<1>4. TypeOK'
  BY <1>1, <1>3 DEF Inv, TypeOK, Result, PaymentRow
<1>5. SeatsWithinSubscription'
  BY <1>1, <1>2 DEF SeatsWithinSubscription
<1>6. SeatsCopy'
  BY <1>1, <1>2 DEF SeatsCopy, Copies, Access
<1>7. QED
  BY <1>4, <1>5, <1>6

---------------------------------------------------------------------------
(* The invariant *)

LEMMA InitInv == Init => Inv
<1> SUFFICES ASSUME Init PROVE Inv
  OBVIOUS
<1>1. NoSeat \in SeatRow /\ Idle \in DeliveryState
  BY DEF NoSeat, SeatRow, Idle, DeliveryState
<1>2. Assigned = {}
  BY DEF Init, Assigned, NoSeat
<1>3. TypeOK
  BY <1>1, <1>2, GraceAssumption DEF Init, TypeOK
<1>4. Bookkeeping /\ NewestWins
  BY DEF Init, Bookkeeping, NewestWins, Newest, Processed, Idle
<1>5. SeatsWithinSubscription /\ SeatsCopy
  BY <1>2 DEF SeatsWithinSubscription, SeatsCopy
<1>6. QED
  BY <1>3, <1>4, <1>5 DEF Inv

\* What every step of a delivery under way may use.
LEMMA UnderWay ==
  ASSUME Inv, NEW p \in Process, delivery[p].step # "idle"
  PROVE  /\ delivery \in [Process -> DeliveryState]
         /\ inbox \in [Event -> Result]
         /\ delivery[p].event \in Event
         /\ sent[delivery[p].event] # None
         /\ sent[delivery[p].event].at \in Nat
         /\ Event \subseteq Nat
         /\ \A f \in Event : Processed(f) => sent[f].at \in Nat
         /\ customer # None =>
              customer.event \in Event /\ sent[customer.event].at \in Nat
         /\ subscription # None =>
              /\ subscription \in PaymentRow
              /\ subscription.event \in Event
              /\ sent[subscription.event].at \in Nat
<1>1. TypeOK /\ Bookkeeping
  BY DEF Inv
<1>2. delivery[p].event \in Event /\ sent[delivery[p].event] # None
  BY <1>1 DEF Bookkeeping
<1>3. customer # None => customer.event \in Event /\ sent[customer.event] # None
  BY <1>1 DEF TypeOK, Bookkeeping, CustomerRow
<1>4. subscription # None =>
        /\ subscription \in PaymentRow
        /\ subscription.event \in Event
        /\ sent[subscription.event] # None
  BY <1>1 DEF TypeOK, Bookkeeping, PaymentRow, SubscriptionRow
<1>5. \A f \in Event : sent[f] # None => sent[f].at \in Nat
  BY <1>1, ContentKinds
<1>6. \A f \in Event : Processed(f) => sent[f] # None
  BY <1>1 DEF Bookkeeping, Processed
<1>7. delivery \in [Process -> DeliveryState] /\ inbox \in [Event -> Result]
  BY <1>1 DEF TypeOK, Result
<1>8. QED
  BY <1>2, <1>3, <1>4, <1>5, <1>6, <1>7, EventAssumption

LEMMA EmitInv == ASSUME Inv, NEW e \in Event, NEW c \in Content, Emit(e, c)
                 PROVE  Inv'
<1> DEFINE new == [content |-> c, at |-> now]
<1>1. new \in [content : Content, at : 0..MaxTime] /\ new \in SentRow
  BY GraceAssumption DEF Inv, TypeOK, SentRow
<1>2. new # None
  BY <1>1, RowAssumption
<1> HIDE DEF new
<1>3. sent' = [sent EXCEPT ![e] = new] /\ sent[e] = None
  BY DEF Emit, new
<1>4. TypeOK'
  BY <1>1, <1>3 DEF Emit, Inv, TypeOK, Assigned
<1>5. \A f \in Event : sent[f] # None => sent'[f] = sent[f] /\ sent'[f] # None
  BY <1>3 DEF Inv, TypeOK
<1>6. Bookkeeping'
  <2>1. customer # None => customer.event \in Event
    BY DEF Inv, TypeOK, CustomerRow
  <2>2. subscription # None =>
          /\ subscription.event \in Event
          /\ subscription.invoice # None => subscription.invoice \in Event
    BY DEF Inv, TypeOK, SubscriptionRow
  <2>3. QED
    BY <1>5, <2>1, <2>2 DEF Emit, Inv, Bookkeeping
<1>7. NewestWins'
  <2>1. ASSUME NEW kind, NEW row, row # None => row.event \in Event /\ sent[row.event] # None,
               Newest(kind, row)
        PROVE  \A f \in Event :
                 Processed(f)' /\ Kind(f)' = kind =>
                   /\ row # None
                   /\ row.event = f \/ Before(f, row.event)'
    <3> SUFFICES ASSUME NEW f \in Event, Processed(f)', Kind(f)' = kind
                 PROVE  row # None /\ (row.event = f \/ Before(f, row.event)')
      OBVIOUS
    <3>1. Processed(f) /\ sent[f] # None
      BY DEF Emit, Processed, Inv, Bookkeeping
    <3>2. sent'[f] = sent[f]
      BY <1>5, <3>1
    <3>3. Kind(f) = kind
      BY <3>2 DEF Kind, Said
    <3>4. row # None /\ (row.event = f \/ Before(f, row.event))
      BY <2>1, <3>1, <3>3 DEF Newest
    <3>5. sent'[row.event] = sent[row.event]
      BY <1>5, <2>1, <3>4
    <3>6. QED
      BY <3>2, <3>4, <3>5 DEF Before
  <2>2. /\ customer # None => customer.event \in Event /\ sent[customer.event] # None
        /\ subscription # None =>
             subscription.event \in Event /\ sent[subscription.event] # None
    BY DEF Inv, TypeOK, Bookkeeping, CustomerRow, SubscriptionRow
  <2>3. UNCHANGED <<customer, subscription>>
    BY DEF Emit
  <2>4. Newest("customer", customer) /\ Newest("subscription", subscription)
    BY DEF Inv, NewestWins
  <2>5. QED
    BY <2>1, <2>2, <2>3, <2>4 DEF NewestWins, Newest
<1>8. SeatsWithinSubscription' /\ SeatsCopy'
  BY DEF Emit, Inv, SeatsWithinSubscription, SeatsCopy, Assigned, Copies, Access
<1>9. QED
  BY <1>4, <1>6, <1>7, <1>8 DEF Inv

LEMMA ReceiveInv == ASSUME Inv, NEW p \in Process, NEW e \in Event, Receive(p, e)
                    PROVE  Inv'
<1> DEFINE d == [Idle EXCEPT !.step = "registered", !.event = e]
<1>1. d \in DeliveryState /\ d.event = e
  BY DEF Idle, DeliveryState
<1> HIDE DEF d
<1>2. delivery' = delivery \/ delivery' = [delivery EXCEPT ![p] = d]
  BY DEF Receive, d
<1>3. delivery' \in [Process -> DeliveryState]
  BY <1>1, <1>2 DEF Inv, TypeOK
<1>4. sent[e] # None
  BY DEF Receive
<1>5. Sound'
  BY <1>1, <1>2, <1>4 DEF Receive, Sound, Inv, Bookkeeping, TypeOK
<1>6. inbox' = [inbox EXCEPT ![e] = IF @ = "unknown" THEN "pending" ELSE @]
  BY DEF Receive
<1>7. inbox' \in [Event -> Result]
  BY <1>6 DEF Inv, TypeOK, Result
<1>8. \A f \in Event : inbox'[f] # "unknown" => sent[f] # None
  BY <1>4, <1>6 DEF Inv, TypeOK, Bookkeeping
<1>9. \A f \in Event : Processed(f)' => Processed(f)
  BY <1>6 DEF Inv, TypeOK, Processed
<1>10. QED
  BY <1>3, <1>5, <1>7, <1>8, <1>9, InboxStep DEF Receive

\* A step of a delivery that leaves the inbox alone.
LEMMA MoveInv ==
  ASSUME Inv, delivery' \in [Process -> DeliveryState], Carried,
         UNCHANGED <<now, sent, inbox, customer, subscription, seat, disabled>>
  PROVE  Inv'
<1>1. Sound'
  BY CarriedSound DEF Inv
<1>2. inbox' \in [Event -> Result]
  BY DEF Inv, TypeOK, Result
<1>3. \A e \in Event : inbox'[e] # "unknown" => sent[e] # None
  BY DEF Inv, Bookkeeping
<1>4. \A e \in Event : Processed(e)' => Processed(e)
  BY DEF Processed
<1>5. QED
  BY <1>1, <1>2, <1>3, <1>4, InboxStep

LEMMA PrepareEffect ==
  ASSUME Inv, NEW p \in Process, Prepare(p)
  PROVE  delivery' \in [Process -> DeliveryState] /\ Carried
<1> DEFINE d == [delivery[p] EXCEPT !.step = "projecting", !.alone = TRUE]
<1>1. delivery \in [Process -> DeliveryState] /\ delivery[p].step # "idle"
  BY DEF Prepare, At, Inv, TypeOK
<1>2. d \in DeliveryState /\ d.event = delivery[p].event
  BY <1>1 DEF DeliveryState
<1>3. \/ Goto(p, "failing")
      \/ Return(p)
      \/ delivery' = [delivery EXCEPT ![p] = d]
  BY DEF Prepare
<1> HIDE DEF d
<1>4. QED
  BY <1>1, <1>2, <1>3, GotoEffect, ReturnEffect, MoveEffect DEF Step

LEMMA PrepareInv == ASSUME Inv, NEW p \in Process, Prepare(p)
                    PROVE  Inv'
  BY PrepareEffect, MoveInv DEF Prepare

LEMMA RejectEffect ==
  ASSUME Inv, NEW p \in Process, RejectSubscription(p) \/ RejectInvoice(p)
  PROVE  delivery' \in [Process -> DeliveryState] /\ Carried
<1> DEFINE d == [delivery[p] EXCEPT !.step = "failing", !.forced = TRUE]
<1>1. delivery \in [Process -> DeliveryState] /\ delivery[p].step # "idle"
  BY DEF RejectSubscription, RejectInvoice, Invoice, At, Inv, TypeOK
<1>2. d \in DeliveryState /\ d.event = delivery[p].event
  BY <1>1 DEF DeliveryState
<1>3. Goto(p, "failing") \/ delivery' = [delivery EXCEPT ![p] = d]
  BY DEF RejectSubscription, RejectInvoice
<1> HIDE DEF d
<1>4. QED
  BY <1>1, <1>2, <1>3, GotoEffect, MoveEffect DEF Step

LEMMA RejectInv ==
  ASSUME Inv, NEW p \in Process, RejectSubscription(p) \/ RejectInvoice(p)
  PROVE  Inv'
  BY RejectEffect, MoveInv DEF RejectSubscription, RejectInvoice

LEMMA CrashInv == ASSUME Inv, NEW p \in Process, Crash(p)
                  PROVE  Inv'
<1>1. delivery' \in [Process -> DeliveryState] /\ Carried
  BY ReturnEffect DEF Crash, Inv, TypeOK
<1>2. QED
  BY <1>1, MoveInv DEF Crash

\* An event that is completed without changing a row, of a snapshot only when
\* it failed.
LEMMA CompleteInv ==
  ASSUME Inv, NEW p \in Process, delivery[p].step # "idle",
         NEW r \in Result, Complete(p, r),
         UNCHANGED <<now, sent, customer, subscription, seat, disabled>>,
         r = "failed" \/ Kind(delivery[p].event) \in {"paid", "payment_failed"}
  PROVE  Inv'
<1> DEFINE e == delivery[p].event
<1>1. /\ delivery \in [Process -> DeliveryState]
      /\ inbox \in [Event -> Result]
      /\ e \in Event
      /\ sent[e] # None
  BY UnderWay
<1>2. /\ delivery' \in [Process -> DeliveryState]
      /\ Carried
      /\ inbox' \in [Event -> Result]
      /\ inbox'[e] = r
      /\ \A f \in Event \ {e} : inbox'[f] = inbox[f]
  BY <1>1, CompleteEffect
<1>3. Sound'
  BY <1>2, CarriedSound DEF Inv
<1>4. \A f \in Event : inbox'[f] # "unknown" => sent[f] # None
  BY <1>1, <1>2 DEF Inv, Bookkeeping
<1>5. \A f \in Event : Processed(f)' =>
        Processed(f) \/ Kind(f) \in {"paid", "payment_failed"}
  BY <1>2 DEF Processed
<1>6. QED
  BY <1>2, <1>3, <1>4, <1>5, InboxStep

LEMMA IgnoreInvoiceInv == ASSUME Inv, NEW p \in Process, IgnoreInvoice(p)
                          PROVE  Inv'
<1>1. /\ delivery[p].step # "idle"
      /\ Complete(p, "ignored")
      /\ UNCHANGED <<now, sent, customer, subscription, seat, disabled>>
      /\ Kind(delivery[p].event) \in {"paid", "payment_failed"}
  BY DEF IgnoreInvoice, Invoice, At
<1>2. QED
  BY <1>1, CompleteInv DEF Result

LEMMA RecordFailureInv == ASSUME Inv, NEW p \in Process, RecordFailure(p)
                          PROVE  Inv'
<1>1. /\ delivery[p].step # "idle"
      /\ Complete(p, "failed") \/ (Return(p) /\ UNCHANGED inbox)
      /\ UNCHANGED <<now, sent, customer, subscription, seat, disabled>>
  BY DEF RecordFailure, At
<1>2. CASE Complete(p, "failed")
  BY <1>1, <1>2, CompleteInv DEF Result
<1>3. CASE Return(p) /\ UNCHANGED inbox
  <2>1. delivery' \in [Process -> DeliveryState] /\ Carried
    BY <1>3, ReturnEffect DEF Inv, TypeOK
  <2>2. QED
    BY <1>1, <1>3, <2>1, MoveInv
<1>4. QED
  BY <1>1, <1>2, <1>3

\* The bookkeeping after an event is completed.
LEMMA CompletedBookkeeping ==
  ASSUME Inv, NEW p \in Process, delivery[p].step # "idle",
         NEW r \in Result, Complete(p, r), UNCHANGED sent,
         customer' # None => sent[customer'.event] # None,
         subscription' # None =>
           /\ sent[subscription'.event] # None
           /\ subscription'.invoice # None => sent[subscription'.invoice] # None
  PROVE  /\ Bookkeeping'
         /\ delivery' \in [Process -> DeliveryState]
         /\ inbox' \in [Event -> Result]
         /\ \A f \in Event \ {delivery[p].event} : inbox'[f] = inbox[f]
<1>1. /\ delivery' \in [Process -> DeliveryState]
      /\ Carried
      /\ inbox' \in [Event -> Result]
      /\ \A f \in Event \ {delivery[p].event} : inbox'[f] = inbox[f]
  BY UnderWay, CompleteEffect
<1>2. Sound'
  BY <1>1, CarriedSound DEF Inv
<1>3. sent[delivery[p].event] # None
  BY UnderWay
<1>4. \A f \in Event : inbox'[f] # "unknown" => sent[f] # None
  BY <1>1, <1>3 DEF Inv, Bookkeeping
<1>5. QED
  BY <1>1, <1>2, <1>4 DEF Bookkeeping, Sound

LEMMA ProjectCustomerInv == ASSUME Inv, NEW p \in Process, ProjectCustomer(p)
                            PROVE  Inv'
<1> DEFINE e == delivery[p].event
<1>1. /\ delivery[p].step # "idle"
      /\ Kind(e) = "customer"
      /\ UNCHANGED <<now, sent, subscription, seat, disabled>>
  BY DEF ProjectCustomer, At
<1>2. /\ e \in Event
      /\ sent[e] # None
      /\ sent[e].at \in Nat
      /\ Event \subseteq Nat
      /\ \A f \in Event : Processed(f) => sent[f].at \in Nat
      /\ customer # None =>
           customer.event \in Event /\ sent[customer.event].at \in Nat
  BY <1>1, UnderWay
<1>3. Said(e) \in CustomerContent
  BY <1>1, <1>2, ContentKinds DEF Inv
<1>4. \/ /\ Newer(e, customer)
         /\ customer' = [customer |-> Said(e).customer, event |-> e]
         /\ Complete(p, "applied")
      \/ /\ ~Newer(e, customer)
         /\ UNCHANGED customer
         /\ Complete(p, "ignored")
  BY DEF ProjectCustomer
<1>5. Newest("customer", customer) /\ Newest("subscription", subscription)
  BY DEF Inv, NewestWins
<1>6. /\ customer' \in CustomerRow \cup {None}
      /\ customer' # None => sent[customer'.event] # None
  BY <1>2, <1>3, <1>4 DEF Inv, TypeOK, Bookkeeping, CustomerRow, CustomerContent
<1>7. PICK r \in Result : Complete(p, r)
  BY <1>4 DEF Result
<1>8. subscription' # None =>
        /\ sent[subscription'.event] # None
        /\ subscription'.invoice # None => sent[subscription'.invoice] # None
  BY <1>1 DEF Inv, Bookkeeping
<1>9. /\ Bookkeeping'
      /\ delivery' \in [Process -> DeliveryState]
      /\ inbox' \in [Event -> Result]
      /\ \A f \in Event \ {e} : inbox'[f] = inbox[f]
  BY <1>1, <1>6, <1>7, <1>8, CompletedBookkeeping
<1>10. NewestNext("customer", customer')
  <2>1. CASE Newer(e, customer)
    <3>1. customer' # None /\ customer'.event = e
      <4>1. [customer |-> Said(e).customer, event |-> e] \in CustomerRow
        BY <1>2, <1>3 DEF CustomerRow, CustomerContent
      <4>2. QED
        BY <1>4, <2>1, <4>1, RowAssumption
    <3>2. QED
      BY <1>2, <1>5, <1>9, <2>1, <3>1, NewestApplied
  <2>2. CASE ~Newer(e, customer)
    <3>1. customer' = customer
      BY <1>4, <2>2
    <3>2. NewestNext("customer", customer)
      BY <1>2, <1>5, <1>9, <2>2, NewestIgnored
    <3>3. QED
      BY <3>1, <3>2
  <2>3. QED
    BY <2>1, <2>2
<1>11. NewestNext("subscription", subscription')
  BY <1>1, <1>2, <1>5, <1>9, NewestOther
<1>12. NewestWins'
  BY <1>1, <1>10, <1>11, NewestWinsNext
<1>13. TypeOK'
  BY <1>1, <1>6, <1>9 DEF Inv, TypeOK, Result, Assigned
<1>14. SeatsWithinSubscription' /\ SeatsCopy'
  BY <1>1 DEF Inv, SeatsWithinSubscription, SeatsCopy, Assigned, Copies, Access
<1>15. QED
  BY <1>9, <1>12, <1>13, <1>14 DEF Inv

LEMMA ProjectSubscriptionInv ==
  ASSUME Inv, NEW p \in Process, ProjectSubscription(p)
  PROVE  Inv'
<1> DEFINE e == delivery[p].event
           row == Stored(e)
<1>1. /\ delivery[p].step # "idle"
      /\ Kind(e) = "subscription"
      /\ ~Conflicts(e)
      /\ Reconcilable(row)
      /\ subscription' = row
      /\ seat' = Reconciled(row)
      /\ UNCHANGED <<now, sent, customer, disabled>>
  BY DEF ProjectSubscription, At
<1>2. PICK r \in Result : Complete(p, r)
  BY DEF ProjectSubscription, Result
<1>3. /\ e \in Event
      /\ sent[e] # None
      /\ sent[e].at \in Nat
      /\ Event \subseteq Nat
      /\ \A f \in Event : Processed(f) => sent[f].at \in Nat
      /\ subscription # None =>
           /\ subscription \in PaymentRow
           /\ subscription.event \in Event
           /\ sent[subscription.event].at \in Nat
  BY <1>1, UnderWay
<1>4. Said(e) \in SubscriptionContent
  BY <1>1, <1>3, ContentKinds DEF Inv
<1>5. /\ Projected(e) \in PaymentRow
      /\ Projected(e).event = e
      /\ Projected(e).seats = Said(e).seats
      /\ Projected(e).invoice # None =>
           subscription # None /\ Projected(e).invoice = subscription.invoice
  BY <1>3, <1>4 DEF Projected, PaymentRow, SubscriptionRow, SubscriptionContent
<1>6. \/ Newer(e, subscription) /\ row = Projected(e)
      \/ ~Newer(e, subscription) /\ row = subscription /\ subscription # None
  BY DEF Stored, Newer
<1> HIDE DEF row
<1>7. row \in PaymentRow
  BY <1>3, <1>5, <1>6
<1>8. row # None
  BY <1>7, RowAssumption DEF PaymentRow
<1>9. sent[row.event] # None /\ (row.invoice # None => sent[row.invoice] # None)
  BY <1>3, <1>5, <1>6 DEF Inv, Bookkeeping
<1>10. /\ Bookkeeping'
       /\ delivery' \in [Process -> DeliveryState]
       /\ inbox' \in [Event -> Result]
       /\ \A f \in Event \ {e} : inbox'[f] = inbox[f]
  <2>1. customer' # None => sent[customer'.event] # None
    BY <1>1 DEF Inv, Bookkeeping
  <2>2. QED
    BY <1>1, <1>2, <1>9, <2>1, CompletedBookkeeping
<1>11. Newest("customer", customer) /\ Newest("subscription", subscription)
  BY DEF Inv, NewestWins
<1>12. NewestNext("subscription", row)
  <2>1. CASE Newer(e, subscription)
    BY <1>3, <1>5, <1>6, <1>8, <1>10, <1>11, <2>1, NewestApplied
  <2>2. CASE ~Newer(e, subscription)
    <3>1. NewestNext("subscription", subscription)
      BY <1>3, <1>10, <1>11, <2>2, NewestIgnored
    <3>2. QED
      BY <1>6, <2>2, <3>1
  <2>3. QED
    BY <2>1, <2>2
<1>13. NewestNext("customer", customer')
  BY <1>1, <1>3, <1>10, <1>11, NewestOther
<1>14. NewestWins'
  BY <1>1, <1>12, <1>13, NewestWinsNext
<1>15. Assigned # {} => Cardinality(Assigned) <= row.seats
  <2>1. CASE Newer(e, subscription)
    <3>1. row.seats = Said(e).seats /\ Said(e).seats \in Nat
      BY <1>4, <1>5, <1>6, <2>1 DEF SubscriptionContent
    <3>2. QED
      BY <1>1, <3>1, AssignedFinite DEF Conflicts, AssignedSeats
  <2>2. CASE ~Newer(e, subscription)
    BY <1>6, <2>2 DEF Inv, SeatsWithinSubscription
  <2>3. QED
    BY <2>1, <2>2
<1>16. customer' \in CustomerRow \cup {None}
  BY <1>1 DEF Inv, TypeOK
<1>17. TypeOK' /\ SeatsWithinSubscription' /\ SeatsCopy'
  BY <1>1, <1>7, <1>10, <1>15, <1>16, RowStep
<1>18. QED
  BY <1>10, <1>14, <1>17 DEF Inv

\* An invoice event sets the payment and its deadline together.
LEMMA InvoicedEffect ==
  ASSUME NEW e \in Event, subscription \in PaymentRow, sent[e].at \in Nat,
         Kind(e) \in {"paid", "payment_failed"}
  PROVE  /\ Invoiced(e) \in PaymentRow
         /\ Invoiced(e).event = subscription.event
         /\ Invoiced(e).seats = subscription.seats
         /\ Invoiced(e).invoice = e
         /\ Kind(e) = "paid" => Invoiced(e).graceEndsAt = None
         /\ Kind(e) # "paid" => Invoiced(e).graceEndsAt = Deadline(e)
<1>1. subscription \in SubscriptionRow
  BY DEF PaymentRow
<1>2. CASE Kind(e) = "paid"
  <2>1. Invoiced(e) = [subscription EXCEPT !.payment = "current",
                                           !.graceEndsAt = None, !.invoice = e]
    BY <1>2 DEF Invoiced
  <2>2. QED
    BY <1>1, <1>2, <2>1 DEF PaymentRow, SubscriptionRow
<1>3. CASE Kind(e) # "paid"
  <2> DEFINE payment == IF Deadline(e) > now THEN "grace" ELSE "delinquent"
  <2>1. Deadline(e) \in Nat
    BY <1>1, GraceAssumption DEF Deadline, SubscriptionRow
  <2>2. Deadline(e) # None
    BY <2>1, NoneAssumption
  <2>3. Invoiced(e) = [subscription EXCEPT !.payment = payment,
                                           !.graceEndsAt = Deadline(e), !.invoice = e]
    BY <1>3 DEF Invoiced
  <2>4. payment \in {"grace", "delinquent"}
    OBVIOUS
  <2> HIDE DEF payment
  <2>5. QED
    BY <1>1, <1>3, <2>1, <2>2, <2>3, <2>4 DEF PaymentRow, SubscriptionRow
<1>4. QED
  BY <1>2, <1>3

LEMMA ProjectInvoiceInv == ASSUME Inv, NEW p \in Process, ProjectInvoice(p)
                           PROVE  Inv'
<1> DEFINE e == delivery[p].event
           row == Invoiced(e)
<1>1. /\ delivery[p].step # "idle"
      /\ Kind(e) \in {"paid", "payment_failed"}
      /\ subscription # None
      /\ Reconcilable(row)
      /\ subscription' = row
      /\ seat' = Reconciled(row)
      /\ Complete(p, "applied")
      /\ UNCHANGED <<now, sent, customer, disabled>>
  BY DEF ProjectInvoice, Invoice, At, KnownContract
<1>2. /\ e \in Event
      /\ sent[e] # None
      /\ sent[e].at \in Nat
      /\ subscription \in PaymentRow
  BY <1>1, UnderWay
<1>3. /\ row \in PaymentRow
      /\ row.event = subscription.event
      /\ row.seats = subscription.seats
      /\ row.invoice = e
  BY <1>1, <1>2, InvoicedEffect
<1> HIDE DEF row
<1>4. row # None
  BY <1>3, RowAssumption DEF PaymentRow
<1>5. sent[row.event] # None /\ sent[row.invoice] # None
  BY <1>1, <1>2, <1>3 DEF Inv, Bookkeeping
<1>6. customer' # None => sent[customer'.event] # None
  BY <1>1 DEF Inv, Bookkeeping
<1>7. /\ Bookkeeping'
      /\ delivery' \in [Process -> DeliveryState]
      /\ inbox' \in [Event -> Result]
      /\ \A f \in Event \ {e} : inbox'[f] = inbox[f]
  BY <1>1, <1>5, <1>6, CompletedBookkeeping DEF Result
<1>8. Newest("customer", customer) /\ Newest("subscription", subscription)
  BY DEF Inv, NewestWins
<1>9. NewestNext("customer", customer') /\ NewestNext("subscription", row)
  BY <1>1, <1>2, <1>3, <1>4, <1>7, <1>8, NewestOther
<1>10. NewestWins'
  BY <1>1, <1>9, NewestWinsNext
<1>11. Assigned # {} => Cardinality(Assigned) <= row.seats
  BY <1>3 DEF Inv, SeatsWithinSubscription
<1>12. customer' \in CustomerRow \cup {None}
  BY <1>1 DEF Inv, TypeOK
<1>13. TypeOK' /\ SeatsWithinSubscription' /\ SeatsCopy'
  BY <1>1, <1>3, <1>7, <1>11, <1>12, RowStep
<1>14. QED
  BY <1>7, <1>10, <1>13 DEF Inv

---------------------------------------------------------------------------
(* Members and time *)

\* A step that leaves events, inbox, rows and deliveries alone.
LEMMA BooksKept ==
  ASSUME Inv, UNCHANGED <<sent, inbox, customer, subscription, delivery>>
  PROVE  Bookkeeping' /\ NewestWins'
<1>1. Bookkeeping'
  BY DEF Inv, Bookkeeping
<1>2. NewestWins'
  BY DEF Inv, NewestWins, Newest, Processed, Kind, Said, Before
<1>3. QED
  BY <1>1, <1>2

LEMMA AssignSeatInv == ASSUME Inv, NEW m \in Member, AssignSeat(m)
                       PROVE  Inv'
<1> DEFINE access == Access(subscription, now)
           new == [state |-> access.state, startsAt |-> now, endsAt |-> access.endsAt]
<1>1. /\ subscription # None
      /\ Cardinality(Assigned \ {m}) < subscription.seats
      /\ Consistent(now, access.endsAt)
      /\ seat' = [seat EXCEPT ![m] = new]
      /\ UNCHANGED <<now, sent, inbox, customer, subscription, disabled, delivery>>
  BY DEF AssignSeat
<1>2. /\ subscription \in SubscriptionRow
      /\ subscription \in PaymentRow
      /\ seat \in [Member -> SeatRow]
      /\ now \in Nat
  BY <1>1, GraceAssumption DEF Inv, TypeOK, PaymentRow
<1>3. access.state \in SeatState /\ access.endsAt \in Nat \cup {None}
  BY <1>2, AccessType
<1>4. /\ new \in SeatRow
      /\ new.state # "none"
      /\ new.startsAt = now
      /\ new.state = access.state
      /\ new.endsAt = access.endsAt
  BY <1>2, <1>3 DEF SeatRow, SeatState
<1>5. Copies(new, subscription, now)
  BY <1>2, <1>4, AccessCopies
<1> HIDE DEF new, access
<1>6. /\ seat' \in [Member -> SeatRow]
      /\ seat'[m] = new
      /\ \A n \in Member \ {m} : seat'[n] = seat[n]
  BY <1>1, <1>2, <1>4
<1>7. Assigned' = (Assigned \ {m}) \cup {m}
  <2>1. Assigned' = {n \in Member : seat'[n].state # "none"}
    BY DEF Assigned
  <2>2. QED
    BY <1>4, <1>6, <2>1 DEF Assigned
<1>8. Cardinality(Assigned') <= subscription.seats
  <2>1. IsFiniteSet(Assigned \ {m}) /\ Cardinality(Assigned \ {m}) \in Nat
    BY AssignedFinite, FS_RemoveElement, FS_CardinalityType
  <2>2. Cardinality(Assigned') = Cardinality(Assigned \ {m}) + 1
    BY <1>7, <2>1, FS_AddElement
  <2>3. subscription.seats \in Nat
    BY <1>2 DEF SubscriptionRow
  <2>4. QED
    BY <1>1, <2>1, <2>2, <2>3
<1>9. TypeOK'
  BY <1>1, <1>4, <1>6, <1>7 DEF Inv, TypeOK, Consistent
<1>10. SeatsWithinSubscription'
  BY <1>1, <1>8 DEF SeatsWithinSubscription
<1>11. SeatsCopy'
  <2>1. \A n \in Assigned' : /\ seat'[n].startsAt <= now
                             /\ Copies(seat'[n], subscription, now)
    BY <1>2, <1>4, <1>5, <1>6, <1>7 DEF Inv, SeatsCopy, Assigned
  <2>2. QED
    BY <1>1, <2>1 DEF SeatsCopy, Copies, Access
<1>12. QED
  BY <1>1, <1>9, <1>10, <1>11, BooksKept DEF Inv

\* GiveUpSeat and RemoveMember: the seat of a member ends.
LEMMA NoSeatInv ==
  ASSUME Inv, NEW m \in Member, seat' = [seat EXCEPT ![m] = NoSeat],
         disabled' \subseteq Member,
         UNCHANGED <<now, sent, inbox, customer, subscription, delivery>>
  PROVE  Inv'
<1>1. NoSeat \in SeatRow /\ NoSeat.state = "none"
  BY DEF NoSeat, SeatRow
<1>2. seat' \in [Member -> SeatRow]
  BY <1>1 DEF Inv, TypeOK
<1>3. /\ Assigned' = Assigned \ {m}
      /\ \A n \in Assigned' : seat'[n] = seat[n]
  <2>1. Assigned' = {n \in Member : seat'[n].state # "none"}
    BY DEF Assigned
  <2>2. QED
    BY <1>1, <2>1 DEF Inv, TypeOK, Assigned
<1>4. Cardinality(Assigned') <= Cardinality(Assigned) /\ Cardinality(Assigned') \in Nat
  BY <1>3, AssignedFinite, FS_Subset, FS_CardinalityType
<1>5. TypeOK'
  BY <1>2, <1>3 DEF Inv, TypeOK
<1>6. SeatsWithinSubscription'
  <2>1. ASSUME Assigned' # {}
        PROVE  /\ subscription # None
               /\ Cardinality(Assigned) <= subscription.seats
               /\ subscription.seats \in Nat
    BY <1>3, <2>1 DEF Inv, TypeOK, SeatsWithinSubscription, SubscriptionRow
  <2>2. QED
    BY <1>4, <2>1, AssignedFinite DEF SeatsWithinSubscription
<1>7. SeatsCopy'
  BY <1>3 DEF Inv, SeatsCopy, Copies, Access
<1>8. QED
  BY <1>5, <1>6, <1>7, BooksKept DEF Inv

LEMMA SetDisabledInv == ASSUME Inv, NEW m \in Member, SetDisabled(m)
                        PROVE  Inv'
<1>1. TypeOK'
  BY DEF SetDisabled, Inv, TypeOK, Assigned
<1>2. SeatsWithinSubscription' /\ SeatsCopy'
  BY DEF SetDisabled, Inv, SeatsWithinSubscription, SeatsCopy, Assigned, Copies, Access
<1>3. QED
  BY <1>1, <1>2, BooksKept DEF SetDisabled, Inv

LEMMA TickInv == ASSUME Inv, Tick
                 PROVE  Inv'
<1>1. /\ now' = now + 1
      /\ now < MaxTime
      /\ now \in Nat
      /\ UNCHANGED <<sent, inbox, customer, subscription, seat, disabled, delivery>>
  BY GraceAssumption DEF Tick, Inv, TypeOK
<1>2. TypeOK'
  BY <1>1, GraceAssumption DEF Inv, TypeOK, Assigned
<1>3. SeatsWithinSubscription'
  BY <1>1 DEF Inv, SeatsWithinSubscription, Assigned
<1>4. SeatsCopy'
  <2> SUFFICES ASSUME NEW m \in Assigned
               PROVE  /\ subscription # None
                      /\ seat[m].startsAt <= now + 1
                      /\ Copies(seat[m], subscription, now + 1)
    BY <1>1 DEF SeatsCopy, Assigned, Copies, Access
  <2>1. /\ subscription # None
        /\ seat[m].startsAt <= now
        /\ Copies(seat[m], subscription, now)
    BY DEF Inv, SeatsCopy
  <2>2. seat[m].startsAt \in Nat
    BY DEF Inv, TypeOK, Assigned, SeatRow
  <2>3. subscription \in PaymentRow
    BY <2>1 DEF Inv, TypeOK, PaymentRow
  <2>4. Copies(seat[m], subscription, now + 1)
    BY <1>1, <2>1, <2>3, SuspendedStays DEF Copies
  <2>5. QED
    BY <1>1, <2>1, <2>2, <2>4
<1>5. QED
  BY <1>1, <1>2, <1>3, <1>4, BooksKept DEF Inv

LEMMA NextInv == Inv /\ [Next]_vars => Inv'
<1> SUFFICES ASSUME Inv, [Next]_vars PROVE Inv'
  OBVIOUS
<1>1. ASSUME NEW e \in Event, NEW c \in Content, Emit(e, c)
      PROVE  Inv'
  BY <1>1, EmitInv
<1>2. ASSUME NEW p \in Process, NEW e \in Event, Receive(p, e)
      PROVE  Inv'
  BY <1>2, ReceiveInv
<1>3. ASSUME NEW p \in Process, Deliver(p)
      PROVE  Inv'
  BY <1>3, PrepareInv, ProjectCustomerInv, ProjectSubscriptionInv, RejectInv,
     ProjectInvoiceInv, IgnoreInvoiceInv, RecordFailureInv DEF Deliver
<1>4. ASSUME NEW p \in Process, Crash(p)
      PROVE  Inv'
  BY <1>4, CrashInv
<1>5. ASSUME NEW m \in Member, AssignSeat(m)
      PROVE  Inv'
  BY <1>5, AssignSeatInv
<1>6. ASSUME NEW m \in Member, GiveUpSeat(m) \/ RemoveMember(m)
      PROVE  Inv'
  <2>1. disabled' \subseteq Member
    BY <1>6 DEF GiveUpSeat, RemoveMember, Inv, TypeOK
  <2>2. /\ seat' = [seat EXCEPT ![m] = NoSeat]
        /\ UNCHANGED <<now, sent, inbox, customer, subscription, delivery>>
    BY <1>6 DEF GiveUpSeat, RemoveMember
  <2>3. QED
    BY <2>1, <2>2, NoSeatInv
<1>7. ASSUME NEW m \in Member, SetDisabled(m)
      PROVE  Inv'
  BY <1>7, SetDisabledInv
<1>8. CASE Tick
  BY <1>8, TickInv
<1>9. CASE UNCHANGED vars
  <2>1. UNCHANGED <<now, sent, inbox, customer, subscription, seat, disabled, delivery>>
    BY <1>9 DEF vars
  <2>2. TypeOK'
    BY <2>1 DEF Inv, TypeOK, Assigned
  <2>3. SeatsWithinSubscription' /\ SeatsCopy'
    BY <2>1 DEF Inv, SeatsWithinSubscription, SeatsCopy, Assigned, Copies, Access
  <2>4. QED
    BY <2>1, <2>2, <2>3, BooksKept DEF Inv
<1>10. QED
  BY <1>1, <1>2, <1>3, <1>4, <1>5, <1>6, <1>7, <1>8, <1>9 DEF Next

LEMMA Invariant == Spec => []Inv
  BY InitInv, NextInv, PTL DEF Spec

---------------------------------------------------------------------------
(* Theorems *)

\* Every variable keeps its type, seats end after they start, and a deadline is
\* set exactly while a payment is missing.
THEOREM BillingTypes == Spec => []TypeOK
<1>1. Inv => TypeOK
  BY DEF Inv
<1>2. QED
  BY <1>1, Invariant, PTL

\* Whatever the order of deliveries, retries and crashes, and with any number
\* of processes, the snapshots show the newest event that was processed.
THEOREM NewestWinsHolds == Spec => []NewestWins
<1>1. Inv => NewestWins
  BY DEF Inv
<1>2. QED
  BY <1>1, Invariant, PTL

\* The organization never has more seats assigned than its subscription has.
THEOREM SeatsWithinSubscriptionHolds == Spec => []SeatsWithinSubscription
<1>1. Inv => SeatsWithinSubscription
  BY DEF Inv
<1>2. QED
  BY <1>1, Invariant, PTL

\* An assigned seat gives access exactly while the subscription does, at any
\* time after the rows were last written.
THEOREM SeatFollowsSubscriptionHolds == Spec => []SeatFollowsSubscription
<1>1. Inv => SeatFollowsSubscription
  <2> SUFFICES ASSUME Inv, NEW m \in Assigned
               PROVE  Effective(m) <=>
                        Access(subscription, now).state \in {"active", "grace"}
    BY DEF SeatFollowsSubscription
  <2>1. /\ subscription # None
        /\ seat[m].startsAt <= now
        /\ Copies(seat[m], subscription, now)
    BY DEF Inv, SeatsCopy
  <2>2. subscription \in PaymentRow /\ now \in Nat
    BY <2>1, GraceAssumption DEF Inv, TypeOK, PaymentRow
  <2>3. seat[m] \in SeatRow
    BY DEF Inv, TypeOK, Assigned
  <2>4. CASE seat[m].state = "grace"
    BY <2>1, <2>2, <2>3, <2>4, NoneAssumption
    DEF Copies, Effective, Access, PaymentRow, SubscriptionRow
  <2>5. CASE seat[m].state = "active"
    BY <2>1, <2>2, <2>3, <2>5, NoneAssumption
    DEF Copies, Effective, Access, PaymentRow, SubscriptionRow
  <2>6. CASE seat[m].state = "suspended"
    BY <2>1, <2>6 DEF Copies, Effective
  <2>7. QED
    BY <2>1, <2>4, <2>5, <2>6 DEF Copies
<1>2. QED
  BY <1>1, Invariant, PTL

\* The grace period of a payment is never extended and ends early only when a
\* paid invoice is projected.
THEOREM GraceFixedHolds == Spec => GraceFixed
<1> DEFINE Fixed ==
      subscription # None /\ subscription.graceEndsAt # None =>
        \/ subscription'.graceEndsAt = subscription.graceEndsAt
        \/ /\ subscription'.graceEndsAt = None
           /\ Kind(subscription'.invoice) = "paid"
<1>1. ASSUME Inv, [Next]_vars
      PROVE  Fixed
  <2>1. ASSUME NEW p \in Process, ProjectSubscription(p)
        PROVE  Fixed
    BY <2>1 DEF ProjectSubscription, Stored, Projected
  <2>2. ASSUME NEW p \in Process, ProjectInvoice(p)
        PROVE  Fixed
    <3>1. /\ delivery[p].step # "idle"
          /\ subscription # None
          /\ subscription' = Invoiced(delivery[p].event)
          /\ Kind(delivery[p].event) \in {"paid", "payment_failed"}
      BY <2>2 DEF ProjectInvoice, Invoice, At, KnownContract
    <3>2. /\ delivery[p].event \in Event
          /\ sent[delivery[p].event].at \in Nat
          /\ subscription \in PaymentRow
      BY <1>1, <3>1, UnderWay
    <3>3. QED
      BY <3>1, <3>2, InvoicedEffect DEF Deadline
  <2>3. CASE UNCHANGED subscription
    BY <2>3
  <2>4. QED
    BY <1>1, <2>1, <2>2, <2>3
    DEF Next, Emit, Receive, Deliver, Prepare, ProjectCustomer, RejectSubscription,
        IgnoreInvoice, RejectInvoice, RecordFailure, Crash, AssignSeat, GiveUpSeat,
        SetDisabled, RemoveMember, Tick, vars
<1>2. QED
  BY <1>1, Invariant, PTL DEF Spec, GraceFixed

\* One process never works on an event that is processed already.
Fresh == \A p \in Process : delivery[p].step # "idle" => ~Settled(delivery[p].event)

\* With one process, an event that was answered with success is never processed
\* again and never becomes a failure.
THEOREM SettledStaysSettledHolds ==
  ASSUME NEW q, Process = {q}
  PROVE  Spec => SettledStaysSettled
<1> DEFINE Stays == \A e \in Event : Processed(e) => inbox'[e] = inbox[e]
<1>1. Init => Fresh
  BY DEF Init, Fresh, Idle
<1>2. ASSUME Inv, Fresh, NEW r \in Result, Complete(q, r), delivery[q].step # "idle"
      PROVE  Fresh' /\ Stays
  <2>1. /\ delivery'[q] = Idle
        /\ \A f \in Event \ {delivery[q].event} : inbox'[f] = inbox[f]
    BY <1>2, UnderWay, CompleteEffect DEF Complete
  <2>2. Fresh'
    BY <2>1 DEF Fresh, Idle
  <2>3. ~Processed(delivery[q].event)
    BY <1>2 DEF Fresh, Settled, Processed
  <2>4. QED
    BY <2>1, <2>2, <2>3
<1>3. ASSUME Inv, Fresh, Carried, UNCHANGED inbox
      PROVE  Fresh' /\ Stays
  BY <1>3 DEF Fresh, Carried, Settled
<1>4. ASSUME Inv, Fresh, [Next]_vars
      PROVE  Fresh' /\ Stays
  <2>1. delivery \in [Process -> DeliveryState]
    BY <1>4 DEF Inv, TypeOK
  <2>2. ASSUME UNCHANGED <<inbox, delivery>>
        PROVE  Fresh' /\ Stays
    BY <1>4, <2>2 DEF Fresh, Settled
  <2>3. ASSUME NEW e \in Event, Receive(q, e)
        PROVE  Fresh' /\ Stays
    <3>1. inbox' = [inbox EXCEPT ![e] = IF @ = "unknown" THEN "pending" ELSE @]
      BY <2>3 DEF Receive
    <3>2. \A f \in Event : Processed(f)' <=> Processed(f)
      BY <1>4, <3>1 DEF Inv, TypeOK, Processed
    <3>3. Stays
      BY <1>4, <3>1 DEF Inv, TypeOK, Processed
    <3>4. \/ delivery'[q].step = "idle"
          \/ delivery'[q].event = e /\ ~Settled(e)
      BY <2>1, <2>3 DEF Receive, At, Idle
    <3>5. Fresh'
      BY <3>2, <3>4 DEF Fresh, Settled, Processed
    <3>6. QED
      BY <3>3, <3>5
  <2>4. ASSUME Prepare(q) \/ RejectSubscription(q) \/ RejectInvoice(q)
        PROVE  Fresh' /\ Stays
    <3>1. Carried
      BY <1>4, <2>4, PrepareEffect, RejectEffect
    <3>2. UNCHANGED inbox
      BY <2>4 DEF Prepare, RejectSubscription, RejectInvoice
    <3>3. QED
      BY <1>3, <1>4, <3>1, <3>2
  <2>5. ASSUME Crash(q)
        PROVE  Fresh' /\ Stays
    BY <1>3, <1>4, <2>1, <2>5, ReturnEffect DEF Crash
  <2>6. ASSUME ProjectCustomer(q) \/ ProjectSubscription(q) \/ ProjectInvoice(q)
                 \/ IgnoreInvoice(q)
        PROVE  Fresh' /\ Stays
    <3>1. delivery[q].step # "idle" /\ \E r \in Result : Complete(q, r)
      BY <2>6
      DEF ProjectCustomer, ProjectSubscription, ProjectInvoice, IgnoreInvoice, Invoice,
          At, Result
    <3>2. QED
      BY <1>2, <1>4, <3>1
  <2>7. ASSUME RecordFailure(q)
        PROVE  Fresh' /\ Stays
    <3>1. /\ delivery[q].step # "idle"
          /\ \/ Complete(q, "failed")
             \/ Return(q) /\ UNCHANGED inbox
      BY <2>7 DEF RecordFailure, At
    <3>2. CASE Complete(q, "failed")
      BY <1>2, <1>4, <3>1, <3>2 DEF Result
    <3>3. CASE Return(q) /\ UNCHANGED inbox
      BY <1>3, <1>4, <2>1, <3>3, ReturnEffect
    <3>4. QED
      BY <3>1, <3>2, <3>3
  <2>8. QED
    BY <1>4, <2>2, <2>3, <2>4, <2>5, <2>6, <2>7
    DEF Next, Emit, Deliver, AssignSeat, GiveUpSeat, SetDisabled, RemoveMember, Tick, vars
<1>5. QED
  BY <1>1, <1>4, Invariant, PTL DEF Spec, SettledStaysSettled

===========================================================================
