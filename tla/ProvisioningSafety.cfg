\* One building, everything that can go wrong with it.
CONSTANTS
  Building = {b1}
  Worker = {w1, w2}
  Client = {c1}
  Consumer = consumer
  Telemetry = telemetry
  NoBuilding = nobuilding
  Faults = {"crash", "store", "publish"}
  MaxFaults = 2
  MaxAttempts = 2
  MaxCalls = 1
  PurgeRaces = TRUE
SPECIFICATION Spec
CHECK_DEADLOCK FALSE
INVARIANTS ReadyIsServed CommittedAnswersResolved CommittedRequestsAnswered NotifiedAtMostOnce NoOrphanedTwin
PROPERTY KeepsThePromise
SYMMETRY Symmetry
