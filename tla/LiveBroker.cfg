\* Redis goes away once, the page stays.
CONSTANTS
  MAX_READINGS = 2
  MAX_TRIES = 1
  MAX_CONNECTIONS = 0
  MAX_VISITS = 0
  MAX_REDIS_BREAKS = 1
  MAX_RESTARTS = 0
SPECIFICATION Spec
PROPERTY EveryReadingRendered
CHECK_DEADLOCK FALSE
