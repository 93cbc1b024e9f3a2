SPECIFICATION AccountSpec
CONSTANTS
  founder = founder
  deputy = deputy
  newcomer = newcomer
  r1 = r1
  r2 = r2
  g1 = g1
  g2 = g2
  g3 = g3
  k1 = k1
  k2 = k2
  i1 = i1
  i2 = i2
  x1 = x1
  o1 = o1
  o2 = o2
  days7 = days7
  days30 = days30
  t1 = t1
  t2 = t2
  t3 = t3
  w1 = w1
  w2 = w2
  w3 = w3
  User = {founder, deputy, newcomer}
  InitRole <- FirstRoles
  Invited = {newcomer}
  Request = {r1, r2}
  MaxCodes = 2
  Person = {deputy, newcomer}
  Admins = {deputy}
  Opener = {newcomer}
  Start = {r1, r2}
  Mailing = {g1, g2, g3}
  Contact = {k1, k2}
  AboutContact <- MailAbout
  Recipient <- MailTo
  NoContact = NoContact
  MaxContacts = 1
  Hour = 1
  Retention = 2
  MaxTime = 3
  Ip = {i1, i2}
  Mailbox = {x1}
  NoMailbox = NoMailbox
  AttemptLimit <- Limits
  LimitWindow = 2
  MaxAttempts = 3
  LastTick = 3
  Org = {o1, o2}
  Run = {r1, r2}
  NoOrg = NoOrg
  NoRun = NoRun
  MaxPolls = 1
  MaxProbes = 2
  Period = {days7, days30}
  First = days30
  Fetch = {r1, r2}
  MaxVersion = 2
  MaxLoads = 3
  Tab = {t1, t2, t3}
  Socket = {w1, w2, w3}
  NoSocket = NoSocket
  MaxTabs = 2
  MaxRetries = 2
SYMMETRY Symmetry
INVARIANTS
  TypeOK
  OwnerStays
  LimitsHold
PROPERTIES
  ChangesAreAuthorized
  AuditComplete
  MailHolds
  PageIsCurrent
CHECK_DEADLOCK FALSE
