\* Fewer faults than attempts: every upload is decided, and a failed one cleaned up.
CONSTANTS
  Building = {b1}
  Worker = {w1, w2}
  Client = {}
  Consumer = consumer
  Telemetry = telemetry
  NoBuilding = nobuilding
  Faults = {"crash", "store", "publish"}
  MaxFaults = 2
  MaxAttempts = 3
  MaxCalls = 0
  PurgeRaces = FALSE
SPECIFICATION FairSpec
CHECK_DEADLOCK FALSE
PROPERTIES EveryUploadIsDecided FailedTwinGoesAway
