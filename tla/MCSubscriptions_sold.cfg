\* Three months, two workers.
CONSTANTS
  Worker = {w1, w2}
  FirstDay <- Calendar
  Months = 3
  GraceDays = 1
  TrialDays = 1
  MaxRows = 4
  MaxAddOns = 1
SYMMETRY WorkerSymmetry
SPECIFICATION Spec
INVARIANTS TypeOK PaidIsGiven GivenOnce  
PROPERTY EndsInTime
CHECK_DEADLOCK FALSE
