\* Three records of one condition or unfit for delivery, two at a time; stops and errors of redis, twin and Kafka.
CONSTANTS
  Key = {k1}
  IN_FLIGHT = 2
  MaxRecords = 3
  MaxFaults = 2
SPECIFICATION FairSpec
CHECK_DEADLOCK FALSE
INVARIANTS CommittedIsHandled SuppressedAfterTold NothingHeldBack DuplicatesAbsorbed
PROPERTY EveryBreachIsHandled
