SPECIFICATION Spec
CONSTANTS
  Worker = {w1, w2}
  Row = {r1}
  Table = {t1}
  TableOf <- SameTable
  MaxVersion = 0
  MaxJobs = 1
  StuckAfter = 1
  ArchiveAfter = 1
  RunLimit = 1
  IgnoreAge = TRUE
  LateWrites = {}
PROPERTY ComesFree
