\* Every autonomy mode, an unknown one included; a read tool, a write tool and
\* a name the executor does not know; one answer of up to two calls and the
\* loop's end, two clicks at any moment, more events than the buffer holds.
CONSTANTS
  Modes = {"MANUAL", "COUNTDOWN", "FULL_AUTO", "AUTO"}
  Tools = {"get_events", "delete_pod", "drain_node"}
  MaxIter = 1
  MaxTexts = 1
  MaxToolUses = 2
  MaxClicks = 2
  EventCap = 2
SPECIFICATION Spec
\* A finished session does nothing more.
CHECK_DEADLOCK FALSE
INVARIANTS
  TypeOK
  OneClickOneChange
  AuditTrail
  ToolResultsComplete
PROPERTIES
  FinalIsFinal
  ComesCloser
  ImplementsWriteGate
  Finishes
