SPECIFICATION Spec
CONSTANTS
  Requests = {r1, r2, r3, r4}
  Commands = {c1}
  Keys = {k1}
  Native = TRUE
  Nobody = nobody
SYMMETRY Symmetry
INVARIANTS  RunningNodeReachable
PROPERTY DisposeAfterExit
