\* The client-side flow, with crashes and redelivered webhooks.
CONSTANTS
  Order = {o1}
  Payment = {p1}
  Worker = {w1, w2}
  NoOrder = NoOrder
  NoPayment = NoPayment
  Kinds = {"card"}
  Outcomes = {"succeeded", "failed"}
  MaxIntents = 1
  MaxLedger = 2
  MaxWritten = 2
SPECIFICATION IntentFlowSpec
INVARIANT AnsweredIsBooked
PROPERTY ChargedIsBooked
CHECK_DEADLOCK FALSE
