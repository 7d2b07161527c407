SPECIFICATION Spec
CONSTANTS
  Requests = {r1, r2, r3}
  MaxStrategies = 4
  MaxVersions = 5
  PoolSize = 3
  Payloads = {"draft", "backtested"}
INVARIANT SaveIsAtomic
