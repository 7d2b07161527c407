SPECIFICATION DraftSpec
CONSTANTS
  Calls = {c1, c2}
  MaxRetries = 2
CHECK_DEADLOCK FALSE
INVARIANTS JudgedIsRecorded
