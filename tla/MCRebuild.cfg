CONSTANTS
  Programs <- MCPrograms
  Calls <- MCCalls
  Edits <- MCEdits
  Spoils <- MCSpoils
  Once <- MCOnce
  Outline <- MCOutline
  MaxRepeats = 1
  MaxFaults = 2
SPECIFICATION Spec
INVARIANTS
  TypeOK
  CopyKept
  SourceWhole
  AnswerHolds
  Repeatable
\* A way through the code that the columns at hand rule out stops at its branch.
CHECK_DEADLOCK FALSE
