---------------------------- MODULE AccountsProofs ----------------------------
(***************************************************************************)
(* The accounts and the pages in front of them together: each of the parts *)
(* behaves in the whole as its own specification says, and so what was     *)
(* proved of it holds there.                                               *)
(***************************************************************************)
EXTENDS MCAccounts, ServiceProofs, WebProofs

\* An organization moves in the whole as it does alone.
LEMMA ImplementsOrganization == AccountSpec => OrganizationSpec
<1>1. AccountInit => OrganizationInit
  BY DEF AccountInit
<1>2. [AccountNext]_accountVars => [OrganizationNext]_organizationVars
  BY DEF AccountNext, ServiceNext, accountVars, serviceVars
<1>3. QED
  BY <1>1, <1>2, PTL DEF AccountSpec, OrganizationSpec

\* So do the starts of workspaces.
LEMMA ImplementsStarts == AccountSpec => StartsSpec
<1>1. AccountInit => StartsInit
  BY DEF AccountInit
<1>2. [AccountNext]_accountVars => [StartsNext]_startVars
  BY DEF AccountNext, ServiceNext, accountVars, serviceVars
<1>3. QED
  BY <1>1, <1>2, PTL DEF AccountSpec, StartsSpec

\* So does mail.
LEMMA ImplementsMail == AccountSpec => MailSpec
<1>1. AccountInit => MailInit
  BY DEF AccountInit
<1>2. [AccountNext]_accountVars => [MailNext]_mailVars
  BY DEF AccountNext, ServiceNext, accountVars, serviceVars
<1>3. QED
  BY <1>1, <1>2, PTL DEF AccountSpec, MailSpec

\* So does the limiter of attempts to sign in.
LEMMA ImplementsAttempts == AccountSpec => AttemptsSpec
<1>1. AccountInit => AttemptsInit
  BY DEF AccountInit
<1>2. [AccountNext]_accountVars => [AttemptsNext]_attemptVars
  BY DEF AccountNext, ServiceNext, accountVars, serviceVars
<1>3. QED
  BY <1>1, <1>2, PTL DEF AccountSpec, AttemptsSpec

\* So does a visit of the application.
LEMMA ImplementsVisit == AccountSpec => VisitSpec
<1>1. AccountInit => VisitInit
  BY DEF AccountInit
<1>2. [AccountNext]_accountVars => [VisitNext]_visitVars
  BY DEF AccountNext, WebNext, accountVars, webVars
<1>3. QED
  BY <1>1, <1>2, PTL DEF AccountSpec, VisitSpec

\* So does the usage page.
LEMMA ImplementsUsageView == AccountSpec => UsageViewSpec
<1>1. AccountInit => UsageViewInit
  BY DEF AccountInit
<1>2. [AccountNext]_accountVars => [UsageViewNext]_usageViewVars
  BY DEF AccountNext, WebNext, accountVars, webVars
<1>3. QED
  BY <1>1, <1>2, PTL DEF AccountSpec, UsageViewSpec

\* So do the terminals.
LEMMA ImplementsTerminals == AccountSpec => TerminalsSpec
<1>1. AccountInit => TerminalsInit
  BY DEF AccountInit
<1>2. [AccountNext]_accountVars => [TerminalsNext]_terminalVars
  BY DEF AccountNext, WebNext, accountVars, webVars
<1>3. QED
  BY <1>1, <1>2, PTL DEF AccountSpec, TerminalsSpec

\* Whatever the accounts and the pages do, all of them keep their types.
THEOREM AccountTypes == AccountSpec => []TypeOK
<1>1. AccountSpec => [](OrganizationTypeOK /\ StartsTypeOK /\ MailTypeOK /\ AttemptsTypeOK)
  BY ImplementsOrganization, ImplementsStarts, ImplementsMail, ImplementsAttempts,
     OrganizationTypes, StartsTypes, MailTypes, AttemptsTypes, PTL
<1>2. AccountSpec => [](VisitTypeOK /\ UsageViewTypeOK /\ TerminalsTypeOK)
  BY ImplementsVisit, ImplementsUsageView, ImplementsTerminals,
     VisitTypes, UsageViewTypes, TerminalsTypes, PTL
<1>3. QED
  BY <1>1, <1>2, PTL DEF TypeOK

\* An organization keeps its owner, with full access (setOrganizationMemberDisabled,
\* joinOrganizationByCode).
THEOREM AccountsKeepOwner == AccountSpec => []OwnerStays
  BY ImplementsOrganization, OwnerStaysHolds, PTL

\* Members change only as somebody with the role for it asked
\* (requireOrganizationAdministrator).
THEOREM AccountsAuthorized == AccountSpec => ChangesAreAuthorized
  BY ImplementsOrganization, ChangesAreAuthorizedHolds, PTL

\* What is reported as done is in the audit table, and what took effect and is missing there
\* died in between, was asked for by a member who is one no longer, or is a restart that the
\* worker did not confirm (recordAuditEvent).
THEOREM AccountsAudited == AccountSpec => AuditComplete
  BY ImplementsOrganization, ImplementsStarts, OrganizationAuditedHolds, StartsAuditedHolds, PTL
  DEF AuditComplete

\* What mail reports did happen, and a suppressed address stays suppressed
\* (recordDelivery, the webhook of the mail service).
THEOREM AccountsMailHolds == AccountSpec => MailHolds
  BY ImplementsMail, NotificationsTrueHolds, SuppressionHoldsAlways, PTL DEF MailHolds

\* Sign-ins and contact requests stay within their limits, for all limits, windows and
\* numbers of clients (AuthRateLimiter.#consume, createContactRequest).
THEOREM AccountsLimited == AccountSpec => []LimitsHold
  BY ImplementsMail, ImplementsAttempts, AttemptsLimitedHolds, ContactsLimitedHolds, PTL
  DEF LimitsHold

\* A page shows what is of its selection now, never something older than before, and what
\* was left asks for nothing more.
THEOREM AccountsPageIsCurrent == AccountSpec => PageIsCurrent
<1>1. AccountSpec => []StartIsOfPage /\ []UsageIsOfRange /\ []StatusIsOfSocket
  BY ImplementsVisit, ImplementsUsageView, ImplementsTerminals, StartIsOfPageHolds,
     UsageIsOfRangeHolds, StatusIsOfSocketHolds, PTL
<1>2. AccountSpec => LeftIsSilent /\ UsageNeverGoesBack
  BY ImplementsVisit, ImplementsUsageView, LeftIsSilentHolds, UsageNeverGoesBackHolds, PTL
<1>3. QED
  BY <1>1, <1>2, PTL DEF PageIsCurrent

===============================================================================
