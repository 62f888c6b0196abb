\* MANUAL: two write calls, two clicks.
CONSTANTS
  Modes = {"MANUAL"}
  Tools = {"delete_pod"}
  MaxIter = 1
  MaxTexts = 0
  MaxToolUses = 2
  MaxClicks = 2
  EventCap = 2
SPECIFICATION Spec
CHECK_DEADLOCK FALSE
INVARIANT FreshConsent
