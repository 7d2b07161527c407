SPECIFICATION MCSpec
CONSTANTS
  Prices = {1, 2, 3}
  SmaPeriod = 2
  EmaPeriod = 3
  RsiPeriod = 2
  MaxTicks = 4
  Calls = {c1, c2}
  MaxRetries = 2
  MaxBoots = 2
  Runners = {r1, r2}
  MaxRollbacks = 1
  MaxDeaths = 1
CHECK_DEADLOCK FALSE
INVARIANTS TypeOK    DraftsAreRecorded StartIsGuarded
PROPERTIES RulesAsWritten MigrationsAreWhole
