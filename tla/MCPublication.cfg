\* Concurrent publications, revocations, reconciliations and tunnels.
SPECIFICATION Spec
CONSTANTS
  s1 = s1
  s2 = s2
  w1 = w1
  w2 = w2
  Service = {s1, s2}
  Workspace = {w1, w2}
  WorkspaceOf <- MCWorkspaceOf
  Port = {1, 2}
  Ranges <- MCRanges
  Request = {r1, r2}
  Connection = {c1}
  None = None
  WorkspaceLimit = 1
  OrganizationLimit = 2
INVARIANTS
  TypeOK
  NoOrphanTunnel
  TunnelKeepsPort
SYMMETRY Symmetry
