\* Two connections to one building that belongs to one domain or to none.
CONSTANTS
  Socket = {s1, s2}
  Domain = {d1}
  TTL = 2
  TIMEOUT = 1
  LIFETIME = 3
  SPREAD = 1
  SWEEP = 2
SPECIFICATION Spec
INVARIANT RoomFollowsDomains
PROPERTY EverySubscribeIsAnswered
CHECK_DEADLOCK FALSE
