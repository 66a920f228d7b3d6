CONSTANTS
  MaxPressed <- MCMaxPressed
  MaxHappened <- MCMaxHappened
  Run = {1, 2}
  MaxJobs = 2
  Body <- MCBody
  Writable = {1}
  Asker = {1, 2}
SPECIFICATION PanesSpec
INVARIANTS PanesTypeOK PanesShowRightly
PROPERTIES PanesSettle
CHECK_DEADLOCK FALSE
