SPECIFICATION Spec
CONSTANTS
  hard = hard  soft = soft  legal = legal  unclear = unclear  pii = pii  broken = broken
  None = None
  r1 = r1  m1 = m1  m2 = m2  w1 = w1  w2 = w2  a1 = a1  a2 = a2
  Payloads <- MCPayloads
  PlansOf <- MCPlansOf
  PIIPayloads = {pii}
  HardStops = {hard}
  LowPayloads = {}
  Rejected = {broken}
  Approvers = {a1}
  Requests = {r1}
  Messages = {m1}
  Direct = {}
  RidOf <- AllToR1
  BodiesOf <- OnlyLegal
  Workers = {w1}
  BatchSize = 1
  Local = FALSE
  Durable = TRUE
  Deployments <- WorkerAndAPI
  Mishaps = {}
  MaxMishaps = 0
  MaxDeliveries = 3
CHECK_DEADLOCK FALSE
PROPERTY ApproveOnlySuspended
