\* One phone between two routers; ticks enough to forget it and meet it again.
CONSTANTS
  Phone = {p1}
  Router = {r1, r2}
  FORGET = 2
  GEOMETRY_TTL = 2
  MAX_TICK_AGE = 1
  Ahead = 1
  MaxTicks = 4
  MaxLag = 1
  Placings = {{r1}, {r2}}
  MaxEdits = 1
  MaxFaults = 1
SPECIFICATION Spec
INVARIANTS NoGhosts CountedOnce PlanNotMixed CountsSettled
CHECK_DEADLOCK FALSE
SYMMETRY RouterSymmetry
