SPECIFICATION Spec
CONSTANTS
  Requests = {r1, r2, r3, r4}
  Jobs = {j1}
SYMMETRY Symmetry
INVARIANTS EvidenceBackedEverywhere StartedBeforeSucceeded FixtureOnlyAfterCancel
