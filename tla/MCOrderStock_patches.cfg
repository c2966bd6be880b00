\* Two orders that compete for the stock, one view.
CONSTANTS
  Order = {o1, o2}
  Worker = {w1}
  NoOrder = NoOrder
  VariantQty <- One
  SimpleQty <- One
  Stock = 2
  SimpleStock = 1
  Counts = {1}
  ItemCounts = {0, 2}
SYMMETRY OrderSymmetry
SPECIFICATION Spec
INVARIANTS ReservedAccounted VariantTakenOnce
CHECK_DEADLOCK FALSE
