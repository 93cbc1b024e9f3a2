SPECIFICATION GatewaySpec
CONSTANTS
  c1 = c1
  c2 = c2
  r1 = r1
  v1 = v1
  m1 = m1
  m2 = m2
  d1 = d1
  d2 = d2
  d3 = d3
  global = global
  worker = worker
  organization = organization
  ra = ra
  rb = rb
  t1 = t1
  k1 = k1
  k2 = k2
  a1 = a1
  a2 = a2
  key1 = key1
  key2 = key2
  key3 = key3
  Chat = {c1, c2}
  ChatRequest = {r1}
  ChatOf <- UsageChatOf
  Visit = {v1}
  Model = {m1, m2}
  FirstModel = m1
  RateOf <- UsageRates
  Turns <- UsageTurns
  MaxTurns = 2
  Download = {d1, d2, d3}
  Key = {global, worker, organization, ra, rb}
  Scope <- TrafficScope
  LeaseLimit <- TrafficLeases
  ByteLimit <- TrafficBytes
  Window = 2
  Sizes = {1, 2}
  MaxTicks = 2
  Terminal = {t1}
  MaxPending = 2
  MaxOutput = 4
  MaxInput = 2
  Call = {k1, k2}
  Address = {a1, a2}
  KeyId = {key1, key2, key3}
  Configured = {key1, key2}
  NoClient = NoClient
INVARIANTS
  TypeOK
  LimitersAccount
  ConsoleInOrder
  CallsAreCurrent
PROPERTIES
  UsageChargedOnce
  UsageReported
  EndsMeet
CHECK_DEADLOCK FALSE
