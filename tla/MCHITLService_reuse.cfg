SPECIFICATION Spec
CONSTANTS
  hard = hard  soft = soft  legal = legal  unclear = unclear  pii = pii  broken = broken
  None = None
  r1 = r1  m1 = m1  m2 = m2  w1 = w1  w2 = w2  a1 = a1  a2 = a2
  Payloads <- MCPayloads
  PlansOf <- MCPlansOf
  PIIPayloads = {pii}
  HardStops = {hard}
  LowPayloads = {}
  Rejected = {broken}
  Approvers = {a1}
  Requests = {r1}
  Messages = {m1, m2}
  Direct = {m2}
  RidOf <- AllToR1
  BodiesOf <- ReuseBodies
  Workers = {w1}
  BatchSize = 1
  Local = FALSE
  Durable = FALSE
  Deployments <- OneProcess
  Mishaps = {"restart"}
  MaxMishaps = 1
  MaxDeliveries = 1
CHECK_DEADLOCK FALSE
INVARIANTS HardStopNeedsApproval ModuleAOnlyOnClear GateEntryIsTheResult PlanConserved PIIHaltsRun
