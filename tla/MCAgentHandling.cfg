SPECIFICATION Spec
CONSTANTS
  Runs = {r1, r2}
  Requests <- MCRequests
  MinimumCohortSize = 10
  MaxFaults = 2
CHECK_DEADLOCK FALSE
INVARIANTS
  HandlingTypeOK
  ActedOnRecord
  VerdictBeforeReasoning
  StoppedNeverReasoned
  MandatoryReachesHuman
  NotifiedKnowsWhat
  SuppressedOnRecord
  QueryServes
PROPERTY
  TrailTellsOneStory
