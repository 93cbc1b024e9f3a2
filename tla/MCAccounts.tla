----------------------------- MODULE MCAccounts -----------------------------
(***************************************************************************)
(* Instances of the four components behind the accounts (an organization,  *)
(* the starts of its workspaces, mail and the limiter of attempts to sign  *)
(* in) and of three of the web application in front of them. A behaviour   *)
(* moves one of them, its subject, and the others rest: what one of them   *)
(* needs of another is an action of its own.                               *)
(***************************************************************************)
EXTENDS Organization, Starts, Mail, Attempts, Visit, UsageView, Terminals, TLC

CONSTANTS
  founder, deputy, newcomer,   \* users
  r1, r2,               \* requests, of every component
  g1, g2, g3, k1, k2,   \* mailings and contact requests
  i1, i2, x1,           \* clients and a mailbox
  o1, o2, days7, days30,       \* organizations and ranges of usage
  t1, t2, t3, w1, w2, w3      \* terminals and their sockets

VARIABLE subject

serviceVars == <<organizationVars, startVars, mailVars, attemptVars>>
webVars == <<visitVars, usageViewVars, terminalVars>>
accountVars == <<subject, serviceVars, webVars>>

FirstRoles == founder :> "owner" @@ deputy :> "admin" @@ newcomer :> "none"
MailAbout == g1 :> k1 @@ g2 :> k1 @@ g3 :> k2
MailTo == g1 :> "inbox" @@ g2 :> "inbox" @@ g3 :> "inbox"
Limits == i1 :> 2 @@ i2 :> 2 @@ x1 :> 1

AccountInit ==
  /\ subject \in {"organization", "starts", "mail", "attempts", "visit", "usage", "terminals"}
  /\ OrganizationInit /\ StartsInit /\ MailInit /\ AttemptsInit
  /\ VisitInit /\ UsageViewInit /\ TerminalsInit
  /\ subject # "starts" => required
  /\ subject # "visit" => ~signedIn /\ path = "login" /\ \A o \in Org : account[o] = "absent"
  /\ selected = t1 /\ mounted[t1] = w1

ServiceNext ==
  \/ subject = "organization" /\ OrganizationNext /\ UNCHANGED <<startVars, mailVars, attemptVars>>
  \/ subject = "starts" /\ StartsNext /\ UNCHANGED <<organizationVars, mailVars, attemptVars>>
  \/ subject = "mail" /\ MailNext /\ UNCHANGED <<organizationVars, startVars, attemptVars>>
  \/ subject = "attempts" /\ AttemptsNext /\ UNCHANGED <<organizationVars, startVars, mailVars>>

WebNext ==
  \/ subject = "visit" /\ VisitNext /\ UNCHANGED <<usageViewVars, terminalVars>>
  \/ subject = "usage" /\ UsageViewNext /\ UNCHANGED <<visitVars, terminalVars>>
  \/ subject = "terminals" /\ TerminalsNext /\ UNCHANGED <<visitVars, usageViewVars>>

AccountNext ==
  /\ UNCHANGED subject
  /\ \/ ServiceNext /\ UNCHANGED webVars
     \/ WebNext /\ UNCHANGED serviceVars

AccountSpec == AccountInit /\ [][AccountNext]_accountVars

\* Requests are alike, mailings of one contact request and clients too.
Symmetry == Permutations({r1, r2}) \cup Permutations({g1, g2}) \cup Permutations({i1, i2})

\* One type invariant for all of them.
TypeOK ==
  /\ OrganizationTypeOK /\ StartsTypeOK /\ MailTypeOK /\ AttemptsTypeOK
  /\ VisitTypeOK /\ UsageViewTypeOK /\ TerminalsTypeOK

\* A change or a start that is reported as done is in the audit table, and what
\* took effect is missing there only when the process died in between, the member
\* who asked for it was one no longer, or a worker that did what it was asked did
\* not confirm it (recordAuditEvent).
AuditComplete == OrganizationAudited /\ StartsAudited

\* What mail reports did happen, and a suppressed address stays suppressed.
MailHolds == []NotificationsTrue /\ SuppressionHolds

\* Neither sign-ins nor contact requests exceed their limits.
LimitsHold == AttemptsLimited /\ ContactsLimited

\* What a page shows is of what is selected on it now, whatever answers late;
\* it does not become older, and what was left asks for nothing more.
PageIsCurrent ==
  [](StartIsOfPage /\ UsageIsOfRange /\ StatusIsOfSocket)
  /\ LeftIsSilent /\ UsageNeverGoesBack
=============================================================================
