\* Two accounts, one of which states its preferences in two requests at once; or two devices
\* that pass between the accounts, and a request; or five changes among three sets of columns;
\* or three starts and stops of one building.
CONSTANTS
  Account = {a1, a2}
  Chooser = {a1}
  Device = {d1, d2}
  Request = {r1, r2}
  Replica = {n1}
  Push = {p1}
  Temperature = temperature
  NewMetric = co2
  Unknown = unknown
  Nobody = nobody
  Columns = {defaults, ca, cb}
  Defaults = defaults
  MAX_CHANGES = 5
  Building = {b1}
  Clocked = {thermostat}
  Drifting = {station}
  Start = {1, 2, 3}
  MAX_EDITS = 1
  MAX_RESTARTS = 1
SPECIFICATION MCSpec
INVARIANTS ChoiceHolds ReachesEveryDevice SavedWhenAlone AnsweredIsHeld RunningTicks
SYMMETRY Symmetry
CHECK_DEADLOCK FALSE
