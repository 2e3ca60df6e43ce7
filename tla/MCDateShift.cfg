CONSTANTS
  Programs <- MCPrograms
  Calls <- MCDateShift
  Edits <- MCEdits
  Spoils <- MCSpoils
  Once <- MCOnce
  Outline <- MCOutline
  MaxRepeats = 0
  MaxFaults = 0
SPECIFICATION Spec
INVARIANT
  ColumnsKept
\* Only PostgreSQL has the call.
CHECK_DEADLOCK FALSE
