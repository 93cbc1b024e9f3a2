\* Every order of three snapshots, crashes and redeliveries.
SPECIFICATION FairSpec
CONSTANTS
  Event = {1, 2, 3}
  Content <- MCContentConverge
  Customer = {"cus"}
  Contract = {"sub"}
  Member = {m1}
  Process = {p1}
  None = None
  Grace = 1
  MaxTime = 1
PROPERTIES
  Converges
