\* One order and two views that hold it, or the inventory row, while it is placed and paid.
CONSTANTS
  Order = {o1}
  Worker = {w1, w2}
  NoOrder = NoOrder
  VariantQty <- One
  SimpleQty <- One
  Stock = 2
  SimpleStock = 2
  Counts = {1, 2}
  ItemCounts = {0, 2}
SYMMETRY OrderSymmetry
SPECIFICATION Spec
INVARIANTS TypeOK CancelledHoldsNothing PaidIsDeductedOrFlagged
CHECK_DEADLOCK FALSE
