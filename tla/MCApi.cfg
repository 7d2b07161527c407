SPECIFICATION MCSpec
CONSTANTS
  Callers = {c1, c2}
  MaxRequests = 2
  W = 2
  MaxTime = 4
  MaxCalls = 4
  Requests = {r1, r2}
  Tokens = {t1, t2, t3}
  Users = {alice, bob}
  t1 = t1
  t2 = t2
  alice = alice
  bob = bob
  Nobody = nobody
  MaxTokens = 2
  Ttl = 0
  Allowance = 1
  Now = 1
  MaxChanges = 3
CHECK_DEADLOCK FALSE
INVARIANTS TypeOK LimitsHold AuditIsComplete 
PROPERTY ImplementsQuota
