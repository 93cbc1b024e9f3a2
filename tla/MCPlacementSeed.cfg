\* A disabled host across a restart that seeds it.
SPECIFICATION Spec
CONSTANTS
  Workspace = {w1, w2}
  Legacy = {w1}
  Host = {h1, h2}
  Seeded = {h1}
  None = None
  Capacity <- MCCapacity
  Need <- MCNeed
PROPERTIES
  NoWorkUntilResumed
