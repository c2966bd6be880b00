\* One worker: an extension paused when its trial ended, and paid for after.
CONSTANTS
  Worker = {w1}
  FirstDay <- Calendar
  Months = 3
  GraceDays = 1
  TrialDays = 1
  MaxRows = 3
  MaxAddOns = 2
SPECIFICATION Spec
INVARIANT PaidIsAvailable
CHECK_DEADLOCK FALSE
