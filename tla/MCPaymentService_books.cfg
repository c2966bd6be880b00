\* Two attempts at one order, two requests at a time, every answer of the gateway.
CONSTANTS
  Order = {o1}
  Payment = {p1, p2}
  Worker = {w1, w2}
  NoOrder = NoOrder
  NoPayment = NoPayment
  Kinds = {"card", "offline"}
  Outcomes = {"succeeded", "requires_action", "processing", "failed", "exception"}
  MaxIntents = 1
  MaxLedger = 2
  MaxWritten = 1
VIEW WithoutAnswers
SYMMETRY WorkerSymmetry
SPECIFICATION Spec
INVARIANTS TypeOK MoneyBehindLedger BooksAgree
CHECK_DEADLOCK FALSE
