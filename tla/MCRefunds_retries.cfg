\* Requests that race, die and are repeated.
CONSTANTS
  Key = {k1, k2}
  Worker = {w1, w2}
  NoKey = NoKey
  Total = 2
  Amount = {1, 2}
  Answers = {"succeeded", "pending", "failed", "refused"}
  MaxLedger = 2
SPECIFICATION FairSpec
PROPERTY GivenIsBooked
CHECK_DEADLOCK FALSE
