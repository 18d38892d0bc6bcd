\* Three questions, two at once, to a conversation with room for two exchanges; or two readings that may fail and be
\* sent again, against a page that connects twice more and is opened once more.
CONSTANTS
  Ask = {a1, a2, a3}
  MAX_TOOL_HOPS = 2
  MAX_MESSAGES = 4
  Untitled = untitled
  Chosen = chosen
  MaxAtOnce = 2
  MaxTogether = 3
  MAX_READINGS = 2
  MAX_TRIES = 2
  MAX_CONNECTIONS = 2
  MAX_VISITS = 1
  MAX_REDIS_BREAKS = 1
  MAX_RESTARTS = 1
SPECIFICATION PagesSpec
INVARIANTS BoundedOverrun KeptIsWhole OutageRecovered
SYMMETRY AskSymmetry
CHECK_DEADLOCK FALSE
