------------------------------ MODULE Billing ------------------------------
(***************************************************************************)
(* The billing projection: the inbox of Stripe events, the snapshots of    *)
(* one organization's customer and subscription, and the Operator seats    *)
(* that follow the subscription.                                           *)
(*                                                                         *)
(* Stripe delivers an event at least once, in any order, and again after   *)
(* every answer but a success.  One database call is one step; the steps   *)
(* of one delivery are interrupted by a crash, or by another process.      *)
(***************************************************************************)
EXTENDS Integers, FiniteSets

CONSTANTS
  Event,      \* ids of Stripe events; their order is that of the id strings
  Content,    \* what an event may say
  Customer,   \* Stripe customer ids
  Contract,   \* Stripe subscription ids
  Member,     \* members of the organization
  Process,    \* control-plane processes that serve the webhook
  None,       \* SQL NULL
  Grace,      \* stripePaymentGraceDurationMs
  MaxTime     \* bound: events are created, and time is told, up to here

SubscriptionContent ==
  [kind : {"subscription"}, customer : Customer, contract : Contract,
   named : BOOLEAN,               \* metadata carries nubols_organization_id
   status : {"active", "canceled"},   \* active or trialing, and any other
   seats : Nat, periodEnd : Nat \cup {None}]

CustomerContent ==
  [kind : {"customer"}, customer : Customer, named : BOOLEAN]

InvoiceContent == [kind : {"paid", "payment_failed"}, contract : Contract]

ASSUME EventAssumption   == Event \subseteq Nat
ASSUME NoneAssumption    == None \notin Nat \cup Event
ASSUME ContentAssumption ==
  \A c \in Content : \/ c \in SubscriptionContent
                     \/ c \in CustomerContent
                     \/ c \in InvoiceContent
ASSUME GraceAssumption   == Grace \in Nat /\ MaxTime \in Nat
ASSUME MemberAssumption  == IsFiniteSet(Member)

VARIABLES
  now,          \* Date.now(); Stripe's clock shows the same
  sent,         \* Stripe: the events it created
  inbox,        \* stripe_event.processing_result
  customer,     \* the billing_customer row
  subscription, \* the subscription row
  seat,         \* the entitlement rows
  disabled,     \* members whose access is disabled
  delivery      \* where each process is in process() of the webhook

vars == <<now, sent, inbox, customer, subscription, seat, disabled, delivery>>

---------------------------------------------------------------------------
(* Rows.  A row that was never inserted is None. *)

Said(e) == sent[e].content

Kind(e) == Said(e).kind

\* The cursor of a snapshot is the pair of creation time and event id.
Older(at1, e1, at2, e2) == at1 < at2 \/ (at1 = at2 /\ e1 < e2)

Before(e, f) == Older(sent[e].at, e, sent[f].at, f)

\* The row that a subscription event inserts or overwrites.  The payment
\* columns belong to the invoices and are kept.
SubscriptionRow ==
  [contract : Contract, status : {"active", "canceled"}, seats : Nat,
   periodEnd : Nat \cup {None}, event : Event,
   payment : {"current", "grace", "delinquent"},
   graceEndsAt : Nat \cup {None}, invoice : Event \cup {None}]

CustomerRow == [customer : Customer, event : Event]

SentRow == [content : Content, at : Nat]

ASSUME RowAssumption == None \notin SubscriptionRow \cup CustomerRow \cup SentRow

\* "none": there is no row, or a row that no billing event touches, because it
\* is revoked or of another source.
SeatRow ==
  [state    : {"none", "active", "grace", "suspended"},
   startsAt : Nat,
   endsAt   : Nat \cup {None}]

NoSeat == [state |-> "none", startsAt |-> 0, endsAt |-> None]

\* source = 'stripe' AND state != 'revoked'
Assigned == {m \in Member : seat[m].state # "none"}

\* step "failing": the catch clause is about to record the failure;
\* alone: nobody else completed the event since this process read its row;
\* forced: completeStripeEvent is called without looking at the row again.
DeliveryState ==
  [step   : {"idle", "registered", "projecting", "failing"},
   event  : Event \cup {None},
   alone  : BOOLEAN,
   forced : BOOLEAN]

Idle == [step |-> "idle", event |-> None, alone |-> TRUE, forced |-> FALSE]

Init ==
  /\ now = 0
  /\ sent = [e \in Event |-> None]
  /\ inbox = [e \in Event |-> "unknown"]
  /\ customer = None
  /\ subscription = None
  /\ seat = [m \in Member |-> NoSeat]
  /\ disabled = {}
  /\ delivery = [p \in Process |-> Idle]

---------------------------------------------------------------------------
(* Stripe *)

\* Creation times are whole seconds, so that events may share one.
Emit(e, c) ==
  /\ sent[e] = None
  /\ sent' = [sent EXCEPT ![e] = [content |-> c, at |-> now]]
  /\ UNCHANGED <<now, inbox, customer, subscription, seat, disabled, delivery>>

---------------------------------------------------------------------------
(* Seats *)

\* stripeEntitlementAccess
Access(row, time) ==
  IF row.payment = "grace" /\ row.graceEndsAt # None /\ row.graceEndsAt > time
    THEN [state |-> "grace", endsAt |-> row.graceEndsAt]
  ELSE IF /\ row.payment = "current"
          /\ row.status = "active"
          /\ row.periodEnd = None \/ row.periodEnd > time
    THEN [state |-> "active", endsAt |-> row.periodEnd]
  ELSE [state |-> "suspended", endsAt |-> row.graceEndsAt]

\* Mutant: the constraint is missing.
Unconstrained(startsAt, endsAt) == TRUE

\* CHECK (ends_at IS NULL OR ends_at > starts_at)
Consistent(startsAt, endsAt) == endsAt # None => endsAt > startsAt

\* Mutant: only the seats that give access now are adjusted.
ReconciledActive(row) ==
  LET access == Access(row, now) IN
  [m \in Member |->
     IF seat[m].state \in {"active", "grace"}
       THEN [seat[m] EXCEPT !.state = access.state, !.endsAt = access.endsAt]
       ELSE seat[m]]

\* reconcileStripeAssignedEntitlements: every assigned seat follows the row.
Reconciled(row) ==
  LET access == Access(row, now) IN
  [m \in Member |->
     IF m \in Assigned
       THEN [seat[m] EXCEPT !.state = access.state, !.endsAt = access.endsAt]
       ELSE seat[m]]

\* The UPDATE fails as a whole where a seat would end before it starts.
Reconcilable(row) ==
  \A m \in Assigned : Consistent(seat[m].startsAt, Access(row, now).endsAt)

---------------------------------------------------------------------------
(* Deliveries *)

\* Mutant: an event that was seen once is taken for processed.
Seen(e) == inbox[e] # "unknown"

\* Mutant: only an event that changed nothing is taken for processed.
Discarded(e) == inbox[e] = "ignored"

Settled(e) == inbox[e] \in {"applied", "ignored"}

At(p, step) == delivery[p].step = step

Return(p) == delivery' = [delivery EXCEPT ![p] = Idle]

Goto(p, step) == delivery' = [delivery EXCEPT ![p] = [@ EXCEPT !.step = step]]

\* completeStripeEvent by p: the attempt count shows it to the others.
Complete(p, result) ==
  LET e == delivery[p].event IN
  /\ inbox' = [inbox EXCEPT ![e] = result]
  /\ delivery' = [q \in Process |->
                    IF q = p THEN Idle
                    ELSE IF delivery[q].event = e THEN [delivery[q] EXCEPT !.alone = FALSE]
                    ELSE delivery[q]]

\* process(): the event is registered before any state depends on it.
Receive(p, e) ==
  /\ At(p, "idle")
  /\ sent[e] # None
  /\ inbox' = [inbox EXCEPT ![e] = IF @ = "unknown" THEN "pending" ELSE @]
  /\ IF Settled(e)
       THEN UNCHANGED delivery
       ELSE delivery' = [delivery EXCEPT ![p] =
                           [Idle EXCEPT !.step = "registered", !.event = e]]
  /\ UNCHANGED <<now, sent, customer, subscription, seat, disabled>>

\* customerOrganizationId: the metadata name the organization, or a projected
\* customer does.
Resolvable(c) ==
  \/ c.named
  \/ customer # None /\ customer.customer = c.customer

\* The projection is built, and apply...Projection looks at the event again.
Prepare(p) ==
  LET e == delivery[p].event IN
  /\ At(p, "registered")
  /\ IF Kind(e) \in {"customer", "subscription"} /\ ~Resolvable(Said(e))
       THEN Goto(p, "failing")
     ELSE IF Settled(e)
       THEN Return(p)
     ELSE delivery' = [delivery EXCEPT ![p] =
                         [@ EXCEPT !.step = "projecting", !.alone = TRUE]]
  /\ UNCHANGED <<now, sent, inbox, customer, subscription, seat, disabled>>

\* Mutant: events of the same second are not told apart.
LaterSecond(e, row) == row = None \/ sent[row.event].at < sent[e].at

\* WHERE excluded.last_event_created_at > ... OR (= ... AND id > ...)
Newer(e, row) == row = None \/ Before(row.event, e)

ProjectCustomer(p) ==
  LET e == delivery[p].event IN
  /\ At(p, "projecting")
  /\ Kind(e) = "customer"
  /\ IF Newer(e, customer)
       THEN /\ customer' = [customer |-> Said(e).customer, event |-> e]
            /\ Complete(p, "applied")
       ELSE /\ UNCHANGED customer
            /\ Complete(p, "ignored")
  /\ UNCHANGED <<now, sent, subscription, seat, disabled>>

\* The stored row as event e leaves it.
Projected(e) ==
  [contract    |-> Said(e).contract,
   status      |-> Said(e).status,
   seats       |-> Said(e).seats,
   periodEnd   |-> Said(e).periodEnd,
   event       |-> e,
   payment     |-> IF subscription = None THEN "current" ELSE subscription.payment,
   graceEndsAt |-> IF subscription = None THEN None ELSE subscription.graceEndsAt,
   invoice     |-> IF subscription = None THEN None ELSE subscription.invoice]

\* The row after the transaction, written or not.
Stored(e) == IF Newer(e, subscription) THEN Projected(e) ELSE subscription

\* Mutant: suspended seats do not count.
PayingSeats == Cardinality({m \in Member : seat[m].state \in {"active", "grace"}})

AssignedSeats == Cardinality(Assigned)

\* OperatorSeatQuantityConflictError
Conflicts(e) == Said(e).seats < AssignedSeats

ProjectSubscription(p) ==
  LET e == delivery[p].event IN
  /\ At(p, "projecting")
  /\ Kind(e) = "subscription"
  /\ ~Conflicts(e)
  /\ Reconcilable(Stored(e))
  /\ subscription' = Stored(e)
  /\ seat' = Reconciled(Stored(e))
  /\ Complete(p, IF Newer(e, subscription) THEN "applied" ELSE "ignored")
  /\ UNCHANGED <<now, sent, customer, disabled>>

\* The transaction rolls back; the catch clause follows.
RejectSubscription(p) ==
  LET e == delivery[p].event IN
  /\ At(p, "projecting")
  /\ Kind(e) = "subscription"
  /\ Conflicts(e) \/ ~Reconcilable(Stored(e))
  /\ delivery' = [delivery EXCEPT ![p] = [@ EXCEPT !.step = "failing", !.forced = TRUE]]
  /\ UNCHANGED <<now, sent, inbox, customer, subscription, seat, disabled>>

\* Mutant: every failed payment starts its own grace period.
RestartedDeadline(e) == sent[e].at + Grace

\* A failed payment keeps the deadline of the first one.
Deadline(e) ==
  IF subscription.graceEndsAt # None
    THEN subscription.graceEndsAt
    ELSE sent[e].at + Grace

\* The row after the invoice event e.
Invoiced(e) ==
  IF Kind(e) = "paid"
    THEN [subscription EXCEPT !.payment = "current", !.graceEndsAt = None, !.invoice = e]
    ELSE [subscription EXCEPT
            !.payment = IF Deadline(e) > now THEN "grace" ELSE "delinquent",
            !.graceEndsAt = Deadline(e),
            !.invoice = e]

Invoice(p) ==
  /\ At(p, "projecting")
  /\ Kind(delivery[p].event) \in {"paid", "payment_failed"}

KnownContract(e) == subscription # None /\ subscription.contract = Said(e).contract

NewerInvoice(e) == subscription.invoice # None => Before(subscription.invoice, e)

ProjectInvoice(p) ==
  LET e == delivery[p].event IN
  /\ Invoice(p)
  /\ KnownContract(e)
  /\ NewerInvoice(e)
  /\ Reconcilable(Invoiced(e))
  /\ subscription' = Invoiced(e)
  /\ seat' = Reconciled(Invoiced(e))
  /\ Complete(p, "applied")
  /\ UNCHANGED <<now, sent, customer, disabled>>

IgnoreInvoice(p) ==
  LET e == delivery[p].event IN
  /\ Invoice(p)
  /\ KnownContract(e)
  /\ ~NewerInvoice(e)
  /\ Complete(p, "ignored")
  /\ UNCHANGED <<now, sent, customer, subscription, seat, disabled>>

\* The invoice's subscription was not found, or a seat would end before it
\* starts.
RejectInvoice(p) ==
  LET e == delivery[p].event IN
  /\ Invoice(p)
  /\ KnownContract(e) => NewerInvoice(e) /\ ~Reconcilable(Invoiced(e))
  /\ Goto(p, "failing")
  /\ UNCHANGED <<now, sent, inbox, customer, subscription, seat, disabled>>

\* The failure is recorded and Stripe gets an error; unless the event was
\* completed by somebody else in between.
RecordFailure(p) ==
  /\ At(p, "failing")
  /\ IF \/ delivery[p].forced
        \/ delivery[p].alone /\ ~Settled(delivery[p].event)
       THEN Complete(p, "failed")
       ELSE Return(p) /\ UNCHANGED inbox
  /\ UNCHANGED <<now, sent, customer, subscription, seat, disabled>>

\* The process dies in a delivery and is restarted.
Crash(p) ==
  /\ ~At(p, "idle")
  /\ Return(p)
  /\ UNCHANGED <<now, sent, inbox, customer, subscription, seat, disabled>>

---------------------------------------------------------------------------
(* Members *)

\* assignStripeOperatorSeat by an administrator of the organization.
AssignSeat(m) ==
  LET access == Access(subscription, now) IN
  /\ m \notin disabled
  /\ subscription # None
  /\ Cardinality(Assigned \ {m}) < subscription.seats
  /\ Consistent(now, access.endsAt)
  /\ seat' = [seat EXCEPT ![m] =
                [state |-> access.state, startsAt |-> now, endsAt |-> access.endsAt]]
  /\ UNCHANGED <<now, sent, inbox, customer, subscription, disabled, delivery>>

\* revokeStripeOperatorSeat, revokeOperatorEntitlement, or an
\* upsertOperatorEntitlement with the source 'beta' or 'admin'.
GiveUpSeat(m) ==
  /\ m \in Assigned
  /\ seat' = [seat EXCEPT ![m] = NoSeat]
  /\ UNCHANGED <<now, sent, inbox, customer, subscription, disabled, delivery>>

\* setOrganizationMemberDisabled
SetDisabled(m) ==
  /\ \/ disabled' = disabled \cup {m}
     \/ disabled' = disabled \ {m}
  /\ UNCHANGED <<now, sent, inbox, customer, subscription, seat, delivery>>

\* The rows of a removed member are deleted with it; another member follows.
RemoveMember(m) ==
  /\ seat' = [seat EXCEPT ![m] = NoSeat]
  /\ disabled' = disabled \ {m}
  /\ UNCHANGED <<now, sent, inbox, customer, subscription, delivery>>

Tick ==
  /\ now < MaxTime
  /\ now' = now + 1
  /\ UNCHANGED <<sent, inbox, customer, subscription, seat, disabled, delivery>>

---------------------------------------------------------------------------

Deliver(p) ==
  \/ Prepare(p)
  \/ ProjectCustomer(p)
  \/ ProjectSubscription(p)
  \/ RejectSubscription(p)
  \/ ProjectInvoice(p)
  \/ IgnoreInvoice(p)
  \/ RejectInvoice(p)
  \/ RecordFailure(p)

Next ==
  \/ \E e \in Event, c \in Content : Emit(e, c)
  \/ \E p \in Process : \/ \E e \in Event : Receive(p, e)
                        \/ Deliver(p)
                        \/ Crash(p)
  \/ \E m \in Member : \/ AssignSeat(m) \/ GiveUpSeat(m)
                       \/ SetDisabled(m) \/ RemoveMember(m)
  \/ Tick

Spec == Init /\ [][Next]_vars

\* Stripe delivers an event again until its delivery succeeds; a process that
\* does not die ends its synchronous stretch, and some day none dies any more.
Fairness ==
  /\ \A e \in Event : SF_vars(~Settled(e) /\ \E p \in Process : Receive(p, e))
  /\ \A p \in Process : WF_vars(Deliver(p))
  /\ <>[][~\E p \in Process : Crash(p)]_vars

FairSpec == Spec /\ Fairness

---------------------------------------------------------------------------
(* Properties *)

\* Every variable keeps its type, a seat ends after it starts, and a deadline is
\* set exactly while a payment is missing.
TypeOK ==
  /\ now \in 0..MaxTime
  /\ sent \in [Event -> [content : Content, at : 0..MaxTime] \cup {None}]
  /\ inbox \in [Event -> {"unknown", "pending", "applied", "ignored", "failed"}]
  /\ customer \in CustomerRow \cup {None}
  /\ subscription \in SubscriptionRow \cup {None}
  /\ subscription # None =>
       (subscription.payment = "current" <=> subscription.graceEndsAt = None)
  /\ seat \in [Member -> SeatRow]
  /\ \A m \in Assigned :
       seat[m].endsAt # None => seat[m].endsAt > seat[m].startsAt
  /\ disabled \subseteq Member
  /\ delivery \in [Process -> DeliveryState]

Processed(e) == inbox[e] \in {"applied", "ignored"}

\* A snapshot shows the newest of its events that were processed: whatever the
\* order of deliveries, retries and crashes, no event that was answered with
\* success is newer than the stored row (projectBillingCustomer,
\* projectBillingSubscription).
Newest(kind, row) ==
  \A e \in Event :
    Processed(e) /\ Kind(e) = kind =>
      /\ row # None
      /\ row.event = e \/ Before(e, row.event)

NewestWins == Newest("customer", customer) /\ Newest("subscription", subscription)

\* The members hold no more seats than the organization pays for, through
\* quantity changes, assignments and late events (assignStripeOperatorSeat
\* against projectBillingSubscription).
SeatsWithinSubscription ==
  Assigned # {} => /\ subscription # None
                   /\ Cardinality(Assigned) <= subscription.seats

\* The seat of m gives access now (hasActiveOperatorEntitlement, which also asks
\* that m is not disabled: no business of the subscription).
Effective(m) ==
  /\ seat[m].state \in {"active", "grace"}
  /\ seat[m].startsAt <= now
  /\ seat[m].endsAt = None \/ seat[m].endsAt > now

\* An assigned seat gives access exactly while the subscription is paid or in
\* its grace period, also as time passes without any event: what was copied
\* into the entitlement rows never disagrees with the subscription row
\* (reconcileStripeAssignedEntitlements, stripeEntitlementAccess).
SeatFollowsSubscription ==
  \A m \in Assigned :
    Effective(m) <=> Access(subscription, now).state \in {"active", "grace"}

\* The deadline of a payment grace is never moved: it is only cleared, by the
\* projection of a paid invoice (applyStripeInvoiceProjection).
GraceFixed ==
  [][subscription # None /\ subscription.graceEndsAt # None =>
       \/ subscription'.graceEndsAt = subscription.graceEndsAt
       \/ /\ subscription'.graceEndsAt = None
          /\ Kind(subscription'.invoice) = "paid"]_vars

\* An event that was processed is never processed again (the inbox of
\* applyStripeBillingProjection); stated for one process.
SettledStaysSettled ==
  [][\A e \in Event : Processed(e) => inbox'[e] = inbox[e]]_vars

\* Every event that Stripe sent of subscriptions.
SubscriptionEvents ==
  {e \in Event : sent[e] # None /\ Kind(e) = "subscription"}

\* The newest subscription event of all.
Latest(e) ==
  e \in SubscriptionEvents /\ \A f \in SubscriptionEvents : f = e \/ Before(f, e)

\* The stored subscription becomes the newest snapshot that Stripe sent,
\* unless it stays in conflict with the assigned seats or its organization
\* stays unknown.
Converges ==
  \A e \in Event :
    []<>(Latest(e) => \/ subscription # None /\ subscription.event = e
                      \/ Conflicts(e)
                      \/ ~Resolvable(Said(e)))

===========================================================================
