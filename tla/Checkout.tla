------------------------------ MODULE Checkout ------------------------------
(***************************************************************************)
(* From a cart to an order (shop/services/order_service.py), with one      *)
(* coupon and one gift card, and what else writes these: the shopper's     *)
(* cart requests and the merge of a guest's cart at sign-in                *)
(* (cart_service.py), staff redeeming or switching the card and editing    *)
(* the coupon (marketing/views.py).                                        *)
(*                                                                         *)
(* A checkout is one transaction.  It locks the cart, then the coupon,     *)
(* then the card, reading at each; what it writes appears at its commit.   *)
(* A line of a cart costs one unit of money; its quantity is left out.     *)
(*                                                                         *)
(* Cart requests, merges and staff save rows whole as they read them, with *)
(* no lock between; the histories say what such saves undid.               *)
(***************************************************************************)
EXTENDS Integers, Sequences, FiniteSets, FiniteSetsExt, Functions

CONSTANTS
  Cart, Customer, CustomerOf,
  Guest,          \* Cart rows of visitors who have not signed in
  Line,           \* bound: a line is put in a cart once
  Worker,         \* requests being handled
  Asked,          \* what a checkout names: its cart, the coupon or not, the card
  Off,            \* what the coupon takes off
  Limits,         \* the coupon's usage_limit and usage_limit_per_customer
  CardValue,      \* the card's initial_value
  MaxOverwritten  \* bound: saves that undo another request's write

ASSUME CheckoutAssumption ==
  /\ CustomerOf \in [Cart -> Customer] /\ IsFiniteSet(Line)
  /\ Cart \cap Guest = {}
  /\ Asked \subseteq [cart: Cart, coupon: BOOLEAN, card: BOOLEAN]
  /\ Off \in Nat \ {0} /\ CardValue \in Nat \ {0}
  /\ Limits \subseteq (Nat \ {0}) \X (Nat \ {0})
  /\ MaxOverwritten \in Nat

VARIABLES
  unseen,         \* lines no cart has had
  removed,        \* lines a shopper took out of a cart
  cart,           \* the CartItem rows of each cart
  merged,         \* guests' carts that were merged and deleted
  coupon, card,
  orders,         \* Order rows
  redeemed,       \* what staff took off the card
  worker,
  holds,          \* the rows each worker has locked
  revived,        \* history: lines saved to a cart that they had left
  dropped,        \* history: lines that joined a guest's cart being merged
  restored,       \* history: what stale saves put back on the card
  forgotten,      \* history: uses of the coupon that stale saves took back
  overwritten     \* history: how often a save undid another request's write

\* Where the lines are, and what is spent.
goods == <<unseen, removed, cart, merged, revived, dropped>>
money == <<coupon, card, redeemed, restored, forgotten>>

vars == <<goods, money, orders, worker, holds, overwritten>>

AnyCart == Cart \cup Guest

-----------------------------------------------------------------------------

\* limit and each: its usage_limit, over all and per customer.
Coupon == [used: Nat, active: BOOLEAN, limit: Nat \ {0}, each: Nat \ {0}]
Card == [balance: 0 .. CardValue, active: BOOLEAN]

\* lines: its OrderItem rows.  subtotal, off and card: what was charged.
Order == [customer: Customer, lines: SUBSET Line, subtotal: Nat, off: Nat,
          coupon: BOOLEAN, card: 0 .. CardValue, paid: BOOLEAN]

DBRow == ({"cart"} \X Cart) \cup {<<"coupon", 0>>, <<"card", 0>>}

Run == [at: {"idle"}]
  \cup [at: {"read"}, ask: Asked, lines: SUBSET Line]
  \cup [at: {"priced", "checked"}, ask: Asked, lines: SUBSET Line,
        subtotal: Nat, off: Nat]
  \cup [at: {"settled"}, ask: Asked, lines: SUBSET Line, subtotal: Nat,
        off: Nat, card: 0 .. CardValue, balance: 0 .. CardValue]
  \cup [at: {"card"}, row: Card]
  \cup [at: {"coupon"}, row: Coupon]
  \cup [at: {"line"}, cart: Cart, lines: SUBSET Line]
  \cup [at: {"merge"}, guest: Guest, cart: Cart, lines: SUBSET Line]

TypeOK ==
  /\ unseen \subseteq Line
  /\ removed \subseteq Line
  /\ cart \in [AnyCart -> SUBSET Line]
  /\ merged \subseteq Guest
  /\ coupon \in Coupon
  /\ card \in Card
  /\ orders \in Seq(Order)
  /\ redeemed \in Nat
  /\ worker \in [Worker -> Run]
  /\ holds \in [Worker -> SUBSET DBRow]
  /\ revived \subseteq Line /\ dropped \subseteq Line
  /\ restored \in Int /\ forgotten \in Int /\ overwritten \in Nat

Idle == [at |-> "idle"]

Init ==
  /\ unseen = Line
  /\ removed = {}
  /\ cart = [c \in AnyCart |-> {}]
  /\ merged = {}
  /\ \E l \in Limits :
       coupon = [used |-> 0, active |-> TRUE, limit |-> l[1], each |-> l[2]]
  /\ card = [balance |-> CardValue, active |-> TRUE]
  /\ orders = << >>
  /\ redeemed = 0
  /\ worker = [w \in Worker |-> Idle]
  /\ holds = [w \in Worker |-> {}]
  /\ revived = {} /\ dropped = {}
  /\ restored = 0 /\ forgotten = 0 /\ overwritten = 0

CartRow(c) == <<"cart", c>>
CouponRow == <<"coupon", 0>>
CardRow == <<"card", 0>>

Free(row) == \A w \in Worker : row \notin holds[w]

\* SELECT ... FOR UPDATE
Lock(w, row) ==
  /\ Free(row)
  /\ holds' = [holds EXCEPT ![w] = @ \cup {row}]

\* A row is saved; is that over what another request wrote?
Overwrites(stale) ==
  IF stale THEN /\ overwritten < MaxOverwritten
                /\ overwritten' = overwritten + 1
           ELSE UNCHANGED overwritten

Goto(w, run) == worker' = [worker EXCEPT ![w] = run]

\* The transaction ends.
End(w) ==
  /\ holds' = [holds EXCEPT ![w] = {}]
  /\ Goto(w, Idle)

-----------------------------------------------------------------------------
(* The shopper's cart: no request for it locks the cart *)

\* Mutant: nothing keeps a row from joining a cart that is being ordered.
AddToCart_Unlocked(c) ==
  /\ \E l \in unseen :
       /\ unseen' = unseen \ {l}
       /\ cart' = [cart EXCEPT ![c] = @ \cup {l}]
  /\ UNCHANGED <<removed, merged, revived, dropped, money, orders, worker,
                  holds, overwritten>>

\* A new row names its cart, which a checkout has locked until it is done.
AddToCart(c) ==
  /\ c \notin merged /\ Free(CartRow(c))
  /\ \E l \in unseen :
       /\ unseen' = unseen \ {l}
       /\ cart' = [cart EXCEPT ![c] = @ \cup {l}]
  /\ UNCHANGED <<removed, merged, revived, dropped, money, orders, worker,
                  holds, overwritten>>

\* remove_from_cart takes one out, clear_cart all.
RemoveFromCart(c) ==
  /\ \E gone \in {{l} : l \in cart[c]} \cup {cart[c]} :
       /\ gone # {}
       /\ cart' = [cart EXCEPT ![c] = @ \ gone]
       /\ removed' = removed \cup gone
  /\ UNCHANGED <<unseen, merged, revived, dropped, money, orders, worker, holds,
                  overwritten>>

\* update_item, and add_item of what is in the cart already: the row is read,
ReadLine(w, c) ==
  /\ worker[w].at = "idle"
  /\ \E l \in cart[c] :
       Goto(w, [at |-> "line", cart |-> c, lines |-> {l}])
  /\ UNCHANGED <<goods, money, orders, holds, overwritten>>

\* and saved with its new quantity, as a row of the cart it was read in.  One
\* that is gone is inserted again.
SaveLine(w) ==
  LET c == worker[w].cart
      lines == worker[w].lines
      gone == lines \ cart[c]
  IN  /\ worker[w].at = "line"
      /\ gone # {} => Free(CartRow(c))
      /\ cart' = [d \in AnyCart |-> IF d = c THEN cart[c] \cup lines
                                             ELSE cart[d] \ lines]
      /\ revived' = revived \cup gone
      /\ Overwrites(gone # {})
      /\ Goto(w, Idle)
      /\ UNCHANGED <<unseen, removed, merged, dropped, money, orders, holds>>

\* merge_guest_cart_to_customer, run by every request that still sends the
\* guest's key: the guest's rows are read,
BeginMerge(w, g, c) ==
  /\ worker[w].at = "idle"
  /\ g \notin merged
  /\ Goto(w, [at |-> "merge", guest |-> g, cart |-> c, lines |-> cart[g]])
  /\ UNCHANGED <<goods, money, orders, holds, overwritten>>

\* and each is saved as a row of the customer's cart; then the guest's cart is
\* deleted with what is left in it.
FinishMerge(w) ==
  LET g == worker[w].guest
      c == worker[w].cart
      lines == worker[w].lines
      gone == lines \ (cart[g] \cup cart[c])
  IN  /\ worker[w].at = "merge"
      /\ lines \subseteq cart[c] \/ Free(CartRow(c))
      /\ cart' = [d \in AnyCart |-> CASE d = c -> cart[c] \cup lines
                                     [] d = g -> {}
                                     [] OTHER -> cart[d] \ lines]
      /\ merged' = merged \cup {g}
      /\ revived' = revived \cup gone
      /\ dropped' = dropped \cup (cart[g] \ lines)
      /\ Overwrites(gone # {})
      /\ Goto(w, Idle)
      /\ UNCHANGED <<unseen, removed, money, orders, holds>>

-----------------------------------------------------------------------------
(* create_order_from_cart *)

\* Mutant: two checkouts of one cart read it at once.
BeginCheckout_NoLock(w, ask) ==
  /\ worker[w].at = "idle"
  /\ cart[ask.cart] # {}
  /\ Goto(w, [at |-> "read", ask |-> ask, lines |-> cart[ask.cart]])
  /\ UNCHANGED <<goods, money, orders, holds, overwritten>>

\* The cart is locked, and its lines are read: there must be some.
BeginCheckout(w, ask) ==
  /\ worker[w].at = "idle"
  /\ Lock(w, CartRow(ask.cart))
  /\ cart[ask.cart] # {}
  /\ Goto(w, [at |-> "read", ask |-> ask, lines |-> cart[ask.cart]])
  /\ UNCHANGED <<goods, money, orders, overwritten>>

UsesBy(customer) ==
  Cardinality({i \in DOMAIN orders : /\ orders[i].coupon
                                     /\ orders[i].customer = customer})

\* _validate_coupon, for a coupon that is active
Valid(customer) ==
  /\ coupon.active
  /\ coupon.used < coupon.limit
  /\ UsesBy(customer) < coupon.each

\* _calculate_coupon_discount: a coupon that is not valid takes nothing off.
Discount(ask, subtotal) ==
  IF ask.coupon /\ Valid(CustomerOf[ask.cart]) THEN Min({Off, subtotal}) ELSE 0

\* calculate_order_totals reads the lines again, and the coupon unlocked.
Price(w) ==
  LET ask == worker[w].ask
      subtotal == Cardinality(cart[ask.cart])
  IN  /\ worker[w].at = "read"
      /\ Goto(w, [at |-> "priced", ask |-> ask, lines |-> worker[w].lines,
                  subtotal |-> subtotal, off |-> Discount(ask, subtotal)])
      /\ UNCHANGED <<goods, money, orders, holds, overwritten>>

\* Mutant: the coupon is not looked at again.
CheckCoupon_Trusts(w) ==
  /\ worker[w].at = "priced"
  /\ Goto(w, [worker[w] EXCEPT !.at = "checked"])
  /\ UNCHANGED <<goods, money, orders, holds, overwritten>>

\* The coupon is locked, and validated once more.
CheckCoupon(w) ==
  LET ask == worker[w].ask
  IN  /\ worker[w].at = "priced"
      /\ IF ask.coupon
           THEN /\ Valid(CustomerOf[ask.cart])
                /\ Lock(w, CouponRow)
           ELSE UNCHANGED holds
      /\ Goto(w, [worker[w] EXCEPT !.at = "checked"])
      /\ UNCHANGED <<goods, money, orders, overwritten>>

Settled(w, amount, balance) ==
  [at |-> "settled", ask |-> worker[w].ask, lines |-> worker[w].lines,
   subtotal |-> worker[w].subtotal, off |-> worker[w].off,
   card |-> amount, balance |-> balance]

\* Mutant: the card is read without being locked.
TakeCard_Reads(w) ==
  LET amount == Min({card.balance, worker[w].subtotal - worker[w].off})
  IN  /\ worker[w].at = "checked"
      /\ IF worker[w].ask.card
           THEN /\ card.active /\ amount > 0
                /\ Goto(w, Settled(w, amount, card.balance - amount))
           ELSE Goto(w, Settled(w, 0, 0))
      /\ UNCHANGED <<goods, money, orders, holds, overwritten>>

\* Mutant: the card pays all that is due.
TakeCard_Whole(w) ==
  LET amount == worker[w].subtotal - worker[w].off
  IN  /\ worker[w].at = "checked"
      /\ IF worker[w].ask.card
           THEN /\ card.active /\ amount > 0
                /\ Lock(w, CardRow)
                /\ Goto(w, Settled(w, amount, card.balance - amount))
           ELSE /\ Goto(w, Settled(w, 0, 0))
                /\ UNCHANGED holds
      /\ UNCHANGED <<goods, money, orders, overwritten>>

\* The card is locked, and pays what it can; a card that can pay nothing
\* refuses the order.
TakeCard(w) ==
  LET amount == Min({card.balance, worker[w].subtotal - worker[w].off})
  IN  /\ worker[w].at = "checked"
      /\ IF worker[w].ask.card
           THEN /\ card.active /\ amount > 0
                /\ Lock(w, CardRow)
                /\ Goto(w, Settled(w, amount, card.balance - amount))
           ELSE /\ Goto(w, Settled(w, 0, 0))
                /\ UNCHANGED holds
      /\ UNCHANGED <<goods, money, orders, overwritten>>

\* The order with its items; whatever the cart holds by now is deleted; the
\* use is counted where the row is; an order the card pays is paid.
PlaceOrder(w) ==
  LET ask == worker[w].ask
      run == worker[w]
  IN  /\ run.at = "settled"
      /\ orders' = Append(orders,
           [customer |-> CustomerOf[ask.cart], lines |-> run.lines,
            subtotal |-> run.subtotal, off |-> run.off,
            coupon |-> ask.coupon, card |-> run.card,
            paid |-> ask.card /\ run.subtotal = run.off + run.card])
      /\ cart' = [cart EXCEPT ![ask.cart] = {}]
      /\ coupon' = [coupon EXCEPT !.used = IF ask.coupon THEN @ + 1 ELSE @]
      /\ card' = IF ask.card THEN [balance |-> run.balance,
                                   active |-> run.balance > 0]
                             ELSE card
      /\ End(w)
      /\ UNCHANGED <<unseen, removed, merged, revived, dropped, redeemed,
                      restored, forgotten, overwritten>>

\* A refusal, or the end of the process: the transaction is undone.
Abort(w) ==
  /\ worker[w].at \in {"read", "priced", "checked", "settled"}
  /\ End(w)
  /\ UNCHANGED <<goods, money, orders, overwritten>>

-----------------------------------------------------------------------------
(* Staff *)

\* redeem, one transaction with the card locked
Redeem ==
  /\ Free(CardRow)
  /\ card.active
  /\ \E amount \in 1 .. card.balance :
       /\ card' = [balance |-> card.balance - amount,
                   active |-> card.balance > amount]
       /\ redeemed' = redeemed + amount
  /\ UNCHANGED <<goods, coupon, restored, forgotten, orders, worker, holds,
                  overwritten>>

\* activate and deactivate read the row, and save all of it.
ReadCard(w) ==
  /\ worker[w].at = "idle"
  /\ Goto(w, [at |-> "card", row |-> card])
  /\ UNCHANGED <<goods, money, orders, holds, overwritten>>

SaveCard(w) ==
  /\ worker[w].at = "card"
  /\ Free(CardRow)
  /\ card' = [worker[w].row EXCEPT !.active = ~ @]
  /\ restored' = restored + worker[w].row.balance - card.balance
  /\ Overwrites(worker[w].row.balance # card.balance)
  /\ Goto(w, Idle)
  /\ UNCHANGED <<goods, coupon, redeemed, forgotten, orders, holds>>

\* So does an edit of the coupon, times_used with the rest.
ReadCoupon(w) ==
  /\ worker[w].at = "idle"
  /\ Goto(w, [at |-> "coupon", row |-> coupon])
  /\ UNCHANGED <<goods, money, orders, holds, overwritten>>

SaveCoupon(w) ==
  /\ worker[w].at = "coupon"
  /\ Free(CouponRow)
  /\ \E active \in BOOLEAN :
       coupon' = [coupon EXCEPT !.used = worker[w].row.used, !.active = active]
  /\ forgotten' = forgotten + coupon.used - worker[w].row.used
  /\ Overwrites(worker[w].row.used # coupon.used)
  /\ Goto(w, Idle)
  /\ UNCHANGED <<goods, card, redeemed, restored, orders, holds>>

\* An edit that is not saved, or a merge that is rolled back.
DropEdit(w) ==
  /\ worker[w].at \in {"card", "coupon", "line", "merge"}
  /\ Goto(w, Idle)
  /\ UNCHANGED <<goods, money, orders, holds, overwritten>>

-----------------------------------------------------------------------------

Next ==
  \/ \E c \in AnyCart : AddToCart(c) \/ RemoveFromCart(c)
  \/ \E w \in Worker :
       \/ \E ask \in Asked : BeginCheckout(w, ask)
       \/ Price(w) \/ CheckCoupon(w) \/ TakeCard(w) \/ PlaceOrder(w)
       \/ Abort(w)
       \/ (\E c \in Cart : ReadLine(w, c)) \/ SaveLine(w)
       \/ (\E g \in Guest, c \in Cart : BeginMerge(w, g, c)) \/ FinishMerge(w)
       \/ ReadCard(w) \/ SaveCard(w) \/ ReadCoupon(w) \/ SaveCoupon(w)
       \/ DropEdit(w)
  \/ Redeem

Spec == Init /\ [][Next]_vars

-----------------------------------------------------------------------------
(* Properties *)

\* Two checkouts, of one cart or of two, do not order the same line twice, but
\* for a line that update_item, add_item or a merge saved to a cart it had left
\* since they read it.
OrderedOnce ==
  \A i, j \in DOMAIN orders :
    i # j => orders[i].lines \cap orders[j].lines \subseteq revived

\* What a shopper put in a cart, and did not take out, is in a cart or in an
\* order: the clearing of the cart at the end of a checkout throws no line
\* away, and a merge only what joined the guest's cart since it was read.
NothingVanishes ==
  Line = unseen \cup removed \cup dropped
              \cup (UNION {cart[c] : c \in AnyCart})
              \cup (UNION {orders[i].lines : i \in DOMAIN orders})

\* What orders were paid by the card, and staff took off it, is what is
\* missing from it, but for what saves of the card put back on it.
CardSpentOnce ==
  LET paid == [i \in DOMAIN orders |-> orders[i].card]
  IN  card.balance + redeemed + SumFunctionOnSet(paid, DOMAIN orders)
        = CardValue + restored

\* What a checkout found when it looked at the coupon and at the card is still
\* so when it places the order: the customer may use the coupon, and the card
\* is active and has what the order takes from it, although staff switch both
\* and other checkouts use both meanwhile.
SoldAsChecked ==
  [][orders' # orders =>
       LET o == orders'[Len(orders')]
       IN  /\ o.coupon => Valid(o.customer)
           /\ o.card > 0 => card.active
           /\ card'.balance = card.balance - o.card]_vars

\* No customer uses the coupon more often than allowed; each use is counted,
\* but for those that edits of the coupon took back; and the count stays in
\* the limit for all, so the uses exceed it by no more than those.
CouponWithinLimits ==
  /\ \A customer \in Customer : UsesBy(customer) <= coupon.each
  /\ coupon.used + forgotten
       = Cardinality({i \in DOMAIN orders : orders[i].coupon})
  /\ coupon.used <= coupon.limit

\* An order charges for the lines it has.  Does not hold: the lines are read
\* twice, and a line can leave a locked cart in between.
ChargedIsOrdered ==
  \A i \in DOMAIN orders : orders[i].subtotal = Cardinality(orders[i].lines)
=============================================================================
