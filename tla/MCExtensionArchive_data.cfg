SPECIFICATION Safety
CONSTANTS
  Worker = {w1, w2}
  Row = {r1, r2}
  Table = {t1, t2}
  TableOf <- OneEach
  MaxVersion = 2
  MaxJobs = 1
  StuckAfter = 1
  ArchiveAfter = 3
  RunLimit = 1
  IgnoreAge = FALSE
  LateWrites = {"create"}
SYMMETRY WorkerSymmetry
INVARIANTS TypeOK OffSince
PROPERTY KeepsData
