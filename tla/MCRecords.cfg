SPECIFICATION MCSpec
CONSTANTS
  Verifiers = {v1, v2}
  Projects = {"p", "q"}
  MaxSaves = 2
  EvidenceKeys <- Kinds
  MaxWrites = 3
  Entries = {e1, e2}
  Requests = {r1, r2}
  OfP = {r1}
  Threaded = {r1, r2}
  ResultIds = {a, b}
  SuggestionIds = {s}
  MaxFaults = 2
  Threads = {t1, t2, t3}
  Demo = 1
  Slots = {s1, s2}
  Commands = {c1}
  MaxKills = 1
  ReplayJobs = {j1}
  CatalogPaths = {d1, d2}
  MaxChanges = 2
CHECK_DEADLOCK FALSE
INVARIANTS TypeOK    VersionsStayOwn  
