-------------------------------- MODULE Mail --------------------------------
(***************************************************************************)
(* Transactional mail and the contact form. A message of the contact form  *)
(* is stored before the inbox of the service is notified of it; other mail *)
(* takes the same sender without a row of its own. The sender keeps one    *)
(* row of each delivery, which the provider's webhooks move on, late,      *)
(* twice or out of order.                                                  *)
(*                                                                         *)
(* Up to the call of the provider, and from its answer on, a handler does  *)
(* not wait: but the process may die between what it writes.               *)
(***************************************************************************)
EXTENDS Naturals, FiniteSets

CONSTANTS
  Mailing,       \* requests that send a message
  Contact,       \* ids of contact requests
  AboutContact,  \* the contact request of each mailing, NoContact for other mail
  Recipient,     \* the address of each mailing
  NoContact,
  MaxContacts,   \* contact requests of one source in an hour
  Hour,          \* the window of that limit, in ticks
  Retention,     \* age at which contact requests are deleted, in ticks
  MaxTime        \* bound: ticks of the clock

ASSUME MailAssumption ==
  /\ NoContact \notin Contact /\ AboutContact \in [Mailing -> Contact \cup {NoContact}]
  /\ DOMAIN Recipient = Mailing
ASSUME ContactAssumption ==
  MaxContacts \in Nat \ {0} /\ Hour \in Nat \ {0} /\ Retention >= Hour /\ MaxTime \in Nat

VARIABLES
  contact,    \* contact_request: notification status and age of each
  delivery,   \* email_delivery: the status of each mailing's row
  mailing,    \* how far each request is
  accepted,   \* mailings whose message the provider has
  time        \* the clock

mailVars == <<contact, delivery, mailing, accepted, time>>

---------------------------------------------------------------------------
NoRequest == [status |-> "none", created |-> 0]

Terminal == {"bounced", "complained", "suppressed"}
Reported == {"delivered", "delayed"} \cup Terminal
UnderWay == {"calling", "receipt", "thrown"}

\* An address with a terminal delivery gets no more mail.
Suppressed(a) == \E m \in Mailing : Recipient[m] = a /\ delivery[m] \in Terminal

\* Contact requests of the last hour.
Recent == {k \in Contact : contact[k].status # "none" /\ contact[k].created + Hour >= time}

Kept == [k \in Contact |-> IF contact[k].created + Retention < time THEN NoRequest ELSE contact[k]]

\* The row of a mailing, if it is about a contact request, becomes s.
Notified(m, s) ==
  IF AboutContact[m] \in Contact /\ contact[AboutContact[m]].status # "none"
    THEN [contact EXCEPT ![AboutContact[m]].status = s] ELSE contact

---------------------------------------------------------------------------
(* Sending *)

\* submitContact deletes what is too old and stores what is new within the limit;
\* a contact request that is there is left as it is.
Limited(m) ==
  /\ AboutContact[m] \in Contact
  /\ Kept[AboutContact[m]].status = "none" /\ Cardinality(Recent) >= MaxContacts

Stored(m) ==
  IF AboutContact[m] \notin Contact THEN contact
  ELSE IF Limited(m) \/ Kept[AboutContact[m]].status # "none" THEN Kept
  ELSE [Kept EXCEPT ![AboutContact[m]] = [status |-> "pending", created |-> time]]

AlreadyNotified(m) == AboutContact[m] \in Contact /\ Stored(m)[AboutContact[m]].status = "sent"

\* One stretch up to the call of the provider.  Sign-up, recovery, verification
\* and invitations have nothing to store.
Submit(m) ==
  /\ mailing[m] = "idle"
  /\ contact' = Stored(m)
  /\ mailing' = [mailing EXCEPT ![m] =
       IF Limited(m) THEN "failed"
       ELSE IF AlreadyNotified(m) THEN "answered"
       ELSE IF Suppressed(Recipient[m]) THEN "thrown" ELSE "calling"]
  /\ delivery' = [delivery EXCEPT ![m] = IF mailing'[m] = "calling" THEN "sending" ELSE @]
  /\ UNCHANGED <<accepted, time>>

\* The provider takes the message; its answer is under way, or gets lost.
ProviderAccepts(m) ==
  /\ mailing[m] = "calling"
  /\ accepted' = accepted \cup {m}
  /\ UNCHANGED <<contact, delivery, mailing, time>>

MarkSent(m) ==
  /\ mailing[m] = "calling" /\ m \in accepted
  /\ delivery' = [delivery EXCEPT ![m] = IF @ = "sending" THEN "sent" ELSE @]
  /\ mailing' = [mailing EXCEPT ![m] = "receipt"]
  /\ UNCHANGED <<contact, accepted, time>>

MarkFailed(m) ==
  /\ mailing[m] = "calling"
  /\ delivery' = [delivery EXCEPT ![m] = IF @ = "sending" THEN "failed" ELSE @]
  /\ mailing' = [mailing EXCEPT ![m] = "thrown"]
  /\ UNCHANGED <<contact, accepted, time>>

NotificationResult(m) == Notified(m, IF mailing[m] = "receipt" THEN "sent" ELSE "failed")

\* The result of a request whose row was deleted meanwhile makes it fail.
Reply(m) ==
  IF /\ mailing[m] = "receipt"
     /\ AboutContact[m] \in Contact => contact[AboutContact[m]].status # "none"
    THEN "answered" ELSE "failed"

NoteResult(m) ==
  /\ mailing[m] \in {"receipt", "thrown"}
  /\ contact' = NotificationResult(m)
  /\ mailing' = [mailing EXCEPT ![m] = Reply(m)]
  /\ UNCHANGED <<delivery, accepted, time>>

---------------------------------------------------------------------------
(* Webhooks, time and crashes *)

\* Mutant: the last event wins.
LastEvent(old, new) == new

\* A complaint or a bounce is final, and a delivery is not delayed afterwards.
Projected(old, new) ==
  IF old \in Terminal \/ (old = "delivered" /\ new = "delayed") THEN old ELSE new

\* The row is found by the provider's id, which it has from markEmailDeliverySent
\* on: an event that comes before is acknowledged and lost.
ReceiveWebhook(m) ==
  /\ m \in accepted
  /\ \E s \in Reported :
       delivery' = [delivery EXCEPT ![m] =
         IF @ \in {"sent"} \cup Reported THEN Projected(@, s) ELSE @]
  /\ UNCHANGED <<contact, mailing, accepted, time>>

MailTick ==
  /\ time < MaxTime
  /\ time' = time + 1
  /\ UNCHANGED <<contact, delivery, mailing, accepted>>

Purge == contact' = Kept

\* An administrator's listing or export deletes what is too old.
PurgeContacts ==
  /\ Kept # contact
  /\ Purge
  /\ UNCHANGED <<delivery, mailing, accepted, time>>

\* The process dies with its requests, perhaps between the row of a contact
\* request and that of its delivery.  It deletes what is too old when it starts.
MailDies ==
  \E m \in Mailing :
    /\ \/ mailing[m] \in UnderWay /\ Purge
       \/ mailing[m] = "idle" /\ AboutContact[m] \in Contact /\ contact' = Stored(m)
    /\ mailing' = [n \in Mailing |-> IF n = m \/ mailing[n] \in UnderWay THEN "lost" ELSE mailing[n]]
    /\ UNCHANGED <<delivery, accepted, time>>

---------------------------------------------------------------------------
MailInit ==
  /\ contact = [k \in Contact |-> NoRequest]
  /\ delivery = [m \in Mailing |-> "none"]
  /\ mailing = [m \in Mailing |-> "idle"]
  /\ accepted = {}
  /\ time = 0

MailNext ==
  \/ \E m \in Mailing :
       Submit(m) \/ ProviderAccepts(m) \/ MarkSent(m)
       \/ MarkFailed(m) \/ NoteResult(m) \/ ReceiveWebhook(m)
  \/ MailTick \/ PurgeContacts \/ MailDies

---------------------------------------------------------------------------
(* Properties *)

MailTypeOK ==
  /\ contact \in [Contact -> [status : {"none", "pending", "sent", "failed"}, created : 0..MaxTime]]
  /\ delivery \in [Mailing -> {"none", "sending", "sent", "failed"} \cup Reported]
  /\ mailing \in [Mailing -> {"idle", "answered", "failed", "lost"} \cup UnderWay]
  /\ accepted \subseteq Mailing
  /\ time \in 0..MaxTime

\* A contact request counts as notified only if the provider has a message
\* about it, and a delivery has a status of the provider's only if it has the
\* message, whichever of two submissions of one request wrote last
\* (setContactNotificationResult, markEmailDeliverySent).
NotificationsTrue ==
  /\ \A k \in Contact : contact[k].status = "sent" =>
       \E m \in accepted : AboutContact[m] = k /\ delivery[m] \notin {"none", "sending", "failed"}
  /\ \A m \in Mailing : delivery[m] \in {"sent"} \cup Reported => m \in accepted

\* Once an address bounced or complained nothing more is sent to it, whatever
\* webhooks arrive later (projectEmailDeliveryStatus, isEmailRecipientSuppressed).
SuppressionHolds ==
  [][\A m \in Mailing :
       Suppressed(Recipient[m]) => /\ Suppressed(Recipient[m])'
                                   /\ delivery[m] = "none" => delivery'[m] = "none"]_mailVars

\* No source has more contact requests than the limit within an hour
\* (createContactRequest).
ContactsLimited ==
  \A t \in 0..MaxTime :
    Cardinality({k \in Contact : contact[k].status # "none"
                                  /\ contact[k].created \in t..(t + Hour)}) <= MaxContacts
=============================================================================
