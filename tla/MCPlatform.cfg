SPECIFICATION Spec
CONSTANTS
  Messages = {m1, m2}
  Processes = {p1, p2}
  MaxDeliveries = 2
  Employees = {e1, e2}
  Gateways = {p1, p2}
  Strangers = {x1}
  Record <- MCRecord
  Containers = {c1, c2}
  Calendar <- MCCalendar
  Modes = {"check", "worker", "api", "server"}
  MaxFaults = 2
  d1 = d1
  d2 = d2
  d3 = d3
  e1 = e1
  e2 = e2
  MaxEnqueued = 5
CHECK_DEADLOCK FALSE
INVARIANTS
  StricterInCalifornia
  NeverDowngraded
  SafetyWinsTies
  ConfidentOnlyInOne
  OffersFollowLevels
  AgeBandHoldsAge
  ScanMissesOnlyBelowExempt
  NoTicketMeansDone
  ContextsAreClean
  StartedMeansCalendar
PROPERTIES
  ServesLikeBands
  ImplementsAtLeastOnce
  CalendarOnlyGrows
