\* The browser's own session (always MANUAL): one answer with up to one text
\* and one call, then the loop's end; one click; more events than the channel
\* holds; a stream opened and cut at any moment.
CONSTANTS
  Modes = {"MANUAL"}
  Tools = {"delete_pod"}
  MaxIter = 1
  MaxTexts = 1
  MaxToolUses = 1
  MaxClicks = 1
  EventCap = 1
SPECIFICATION StreamSpec
\* With the session closed and the stream ended nothing is left to do.
CHECK_DEADLOCK FALSE
INVARIANTS
  StreamTypeOK
  InOrder
PROPERTIES
  RestAfterEnd
  StreamEnds
