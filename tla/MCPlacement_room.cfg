\* Two requests at a time and the sweep, which expires one reservation a run.
CONSTANTS
  Cluster = {c1}
  Workspace = {v1, v2}
  Key = {k1, k2}
  Operator = {o1, o2}
  Sweeper = {s1}
  Rooms = {2}
  MaxAssigned = 1
  Limit = 1
SPECIFICATION Spec
INVARIANTS TypeOK Fenced
PROPERTIES NeverOverPromised LapsedIsReleased
CHECK_DEADLOCK FALSE
