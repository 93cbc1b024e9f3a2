\* Seats, payments and snapshots of one organization.
SPECIFICATION Spec
CONSTANTS
  Event = {1, 2, 3}
  Content <- MCContent
  Customer = {"cus"}
  Contract = {"sub"}
  Member = {m1, m2}
  Process = {p1}
  None = None
  Grace = 1
  MaxTime = 2
SYMMETRY Symmetry
INVARIANTS
  TypeOK
  NewestWins
  SeatsWithinSubscription
  SeatFollowsSubscription
PROPERTIES
  GraceFixed
  SettledStaysSettled
