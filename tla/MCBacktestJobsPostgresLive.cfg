SPECIFICATION FairSpec
CONSTANTS
  Requests = {r1, r2, r3}
  Jobs = {j1}
  MaxCrashes = 1
PROPERTY RunsSettle
