SPECIFICATION StreamSpec
CONSTANTS
  MaxEntries = 2
  MaxTrades = 3
  MaxNow = 1
  StaleAge = 0
  ReadCount = 1
  BufferCap = 2
INVARIANTS StreamTypeOK 
PROPERTIES  ReturnsToRedis
