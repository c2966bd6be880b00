----------------------------- MODULE MCCheckout -----------------------------
(* Instances of Checkout for TLC. *)
EXTENDS Checkout, TLC

CONSTANT Someone

CheckoutSymmetry ==
  Permutations(Cart) \cup Permutations(Line) \cup Permutations(Worker)

\* One customer, with a cart for each device.
Theirs == [c \in Cart |-> Someone]

\* Checkouts that use the coupon, the card or both.
CouponOrCard == {ask \in [cart: Cart, coupon: BOOLEAN, card: BOOLEAN] :
                   ask.coupon \/ ask.card}

\* A coupon that ends with its first use, and one for once per customer.
OnceOrOnceEach == {<<1, 2>>, <<2, 1>>}
=============================================================================
