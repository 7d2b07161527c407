SPECIFICATION Spec
CONSTANTS
  Requests = {r1, r2, r3, r4}
  Jobs = {j1}
  MaxCrashes = 1
SYMMETRY Symmetry
INVARIANTS EvidenceBacked RunningHasOwner FixtureOnlyAfterCreateRace
PROPERTY CancelClearedOnlyByCreate
