\* Refunds of parts of one payment, two requests at a time.
CONSTANTS
  Key = {k1, k2, k3}
  Worker = {w1, w2}
  NoKey = NoKey
  Total = 3
  Amount = {1, 2}
  Answers = {"succeeded", "pending", "failed", "refused"}
  MaxLedger = 2
SYMMETRY WorkerSymmetry
SPECIFICATION Spec
INVARIANTS TypeOK NeverOverRefunded BookedIsGiven LedgerOnce RefundedIsWhole
PROPERTY GivesBack
CHECK_DEADLOCK FALSE
