\* MANUAL: one write call.
CONSTANTS
  Modes = {"MANUAL"}
  Tools = {"delete_pod"}
  MaxIter = 1
  MaxTexts = 1
  MaxToolUses = 1
  MaxClicks = 0
  EventCap = 2
SPECIFICATION StreamSpec
CHECK_DEADLOCK FALSE
INVARIANT WaitsForAdmin
