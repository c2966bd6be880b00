\* Two carts of one customer, two requests at a time.
CONSTANTS
  Someone = Someone
  Cart = {c1, c2}
  Customer = {Someone}
  CustomerOf <- Theirs
  Guest = {g1}
  Line = {l1, l2}
  Worker = {w1, w2}
  Asked <- CouponOrCard
  Off = 1
  Limits <- OnceOrOnceEach
  CardValue = 1
  MaxOverwritten = 1
SYMMETRY CheckoutSymmetry
SPECIFICATION Spec
INVARIANTS TypeOK OrderedOnce NothingVanishes CardSpentOnce CouponWithinLimits
PROPERTY SoldAsChecked
CHECK_DEADLOCK FALSE
