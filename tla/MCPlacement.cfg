\* A seeded host and a registered one; restarts with other configurations.
SPECIFICATION Spec
CONSTANTS
  Workspace = {w1, w2}
  Legacy = {w1}
  Host = {h1, h2}
  Seeded = {h1}
  None = None
  Capacity <- MCCapacity
  Need <- MCNeed
INVARIANTS
  TypeOK
  LedgerBalances
  NeverOverbooked
PROPERTIES
  AssignmentSticks
  WithdrawnTakesNoWork
