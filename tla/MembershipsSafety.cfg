\* Four requests of three accounts, two at once; or a page of two accounts with three
\* calls, two at once beside its timer's.
CONSTANTS
  Account = {a1, a2, a3}
  Request = {q1, q2}
  Code = {c1}
  NoOne = noone
  NoCode = nocode
  InvitedRole = {"standard_customer", "business_admin", "admin"}
  IdPRole = {"standard_customer", "admin"}
  MaxRequests = 4
  User = {u1, u2}
  InOrganization = {u1}
  Call = {t1, t2}
  KeepAlive = keepalive
  TTL = 3
  INTERVAL = 2
  MAX_CALLS = 3
  MAX_CHANGES = 0
  MAX_LOST = 0
SPECIFICATION MCSpec
CHECK_DEADLOCK FALSE
INVARIANTS AdminComesFromTheIdP PageIsOnesOwn
PROPERTIES LastManagerGuarded RankRespected
SYMMETRY Symmetry
