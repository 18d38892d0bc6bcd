\* Two provisioners, users of their own, two lost calls or ticks, then quiet; or a page of one
\* account that makes two calls beside its timer, with one change of memberships and one lost call.
CONSTANTS
  Org = {o1, o2}
  Provisioner = {p1, p2}
  NoOrg = noorg
  MaxFaults = 2
  Account = {a1}
  NoAccount = noone
  InOrganization = {a1}
  Task = {t1}
  KeepAlive = keepalive
  TTL = 3
  INTERVAL = 2
  MAX_CALLS = 2
  MAX_CHANGES = 1
  MAX_LOST = 1
SPECIFICATION MCSpec
CHECK_DEADLOCK FALSE
INVARIANT ReadyHasDomain
PROPERTIES EveryOrgIsDecided ClaimsCatchUp
