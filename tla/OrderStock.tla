----------------------------- MODULE OrderStock -----------------------------
(***************************************************************************)
(* The stock behind orders: reserved at checkout, taken when an order is   *)
(* paid, freed when it is cancelled (shop/services/order_service.py and    *)
(* inventory_service.py), with the admin views that move an order or       *)
(* overwrite an inventory row (shop/viewsets/cart_order.py, product.py).   *)
(*                                                                         *)
(* Services lock the order they work on, and a service's transaction is    *)
(* one action.  A view first reads the order (get_object) without a lock   *)
(* and several of them write that object back whole; the action between    *)
(* read and write is any other request's.                                  *)
(*                                                                         *)
(* There is one variant in one active warehouse and one product without    *)
(* variants; an order holds one item of either or of both.                 *)
(***************************************************************************)
EXTENDS Integers, FiniteSets, Functions

CONSTANTS
  Order, Worker, NoOrder,
  VariantQty,     \* units of the variant in each order at checkout, 0: none
  SimpleQty,      \* units of the product without variants, 0: none
  Stock,          \* units of the variant at the start
  SimpleStock,    \* units of the product at the start
  Counts,         \* what staff may enter as the variant's quantity
  ItemCounts      \* what staff may enter as an item's quantity

ASSUME OrderStockAssumption ==
  /\ NoOrder \notin Order /\ IsFiniteSet(Order)
  /\ VariantQty \in [Order -> Nat] /\ SimpleQty \in [Order -> Nat]
  /\ Stock \in Nat /\ SimpleStock \in Nat
  /\ Counts \subseteq Nat /\ ItemCounts \subseteq Nat

VARIABLES
  order,          \* Order rows
  item,           \* units of the variant each order asks for now
  reservation,    \* OrderItemStockReservation rows of the variant items
  quantity,       \* VariantInventory.quantity
  reserved,       \* VariantInventory.reserved
  product,        \* Product.stock_quantity
  worker,         \* what each view holds between its read and its write
  taken,          \* history: how often each order's items left the stock
  drift,          \* history: what stale inventory edits added to reserved
  patched         \* history: orders a PATCH called cancelled, or paid

stock == <<reservation, quantity, reserved, product, taken, drift>>

vars == <<order, item, stock, worker, patched>>

-----------------------------------------------------------------------------

\* "open" stands for every status that is neither cancelled nor refunded, and
\* payment status "pending" for "failed" too.
Status == {"none", "open", "cancelled", "refunded"}

\* deducted: stock_deducted_at is set; error: stock_error is not blank.
Row == [status: Status, pay: {"pending", "paid", "refunded"},
        deducted: BOOLEAN, error: BOOLEAN]

NewRow == [status |-> "none", pay |-> "pending",
           deducted |-> FALSE, error |-> FALSE]

Idle == [at |-> "idle", order |-> NoOrder, row |-> NewRow, reserved |-> 0]

TypeOK ==
  /\ order \in [Order -> Row]
  /\ item \in [Order -> Nat]
  /\ reservation \in [Order ->
       [state: {"none", "reserved", "consumed", "released"}, qty: Nat]]
  /\ quantity \in Nat /\ reserved \in Nat /\ product \in Nat
  /\ taken \in [Order -> [variant: Nat, simple: Nat]]
  /\ drift \in Int
  /\ patched \subseteq Order \X {"cancelled", "paid"}
  /\ worker \in [Worker -> [at: {"idle", "order", "refund", "inventory"},
                            order: Order \cup {NoOrder}, row: Row,
                            reserved: Nat]]
  /\ \A w \in Worker :
       worker[w].at \in {"order", "refund"} => worker[w].order \in Order

Init ==
  /\ order = [o \in Order |-> NewRow]
  /\ item = VariantQty
  /\ reservation = [o \in Order |-> [state |-> "none", qty |-> 0]]
  /\ quantity = Stock
  /\ reserved = 0
  /\ product = SimpleStock
  /\ taken = [o \in Order |-> [variant |-> 0, simple |-> 0]]
  /\ worker = [w \in Worker |-> Idle]
  /\ drift = 0
  /\ patched = {}

-----------------------------------------------------------------------------
(* Helpers *)

Exists(o) == order[o].status # "none"

Available == quantity - reserved

Reservation(o, state, n) ==
  reservation' = [reservation EXCEPT ![o] = [state |-> state, qty |-> n]]

Write(o, row) == order' = [order EXCEPT ![o] = row]

WithStatus(row, s) ==
  [status |-> s, pay |-> row.pay, deducted |-> row.deducted,
   error |-> row.error]

WithPay(row, p) ==
  [status |-> row.status, pay |-> p, deducted |-> row.deducted,
   error |-> row.error]

WithStock(row, deducted, error) ==
  [status |-> row.status, pay |-> row.pay, deducted |-> deducted,
   error |-> error]

Holds(w, at, o, row, n) ==
  worker' = [worker EXCEPT ![w] =
               [at |-> at, order |-> o, row |-> row, reserved |-> n]]

Ends(w) == worker' = [worker EXCEPT ![w] = Idle]

-----------------------------------------------------------------------------
(* reserve_stock_for_order, in the transaction of create_order_from_cart *)

\* A reservation that fails is noted on the order, which is placed anyway.
PlaceOrder(o) ==
  LET row == WithStatus(NewRow, "open") IN
  /\ ~ Exists(o)
  /\ IF item[o] <= Available
       THEN /\ Write(o, row)
            /\ IF item[o] = 0 THEN UNCHANGED reservation
                              ELSE Reservation(o, "reserved", item[o])
            /\ reserved' = reserved + item[o]
       ELSE /\ Write(o, WithStock(row, FALSE, TRUE))
            /\ UNCHANGED <<reservation, reserved>>
  /\ UNCHANGED <<item, quantity, product, worker, taken, drift, patched>>

-----------------------------------------------------------------------------
(* mark_as_paid and deduct_stock *)

\* The variant's item can be taken: its reservation stands as it was made, or
\* one can be made now.
MayTakeVariant(o) ==
  /\ quantity >= item[o]
  /\ IF reservation[o].state = "none"
       THEN item[o] <= Available
       ELSE /\ reservation[o] = [state |-> "reserved", qty |-> item[o]]
            /\ reserved >= item[o]

MayDeduct(o) ==
  /\ order[o].status \notin {"cancelled", "refunded"}
  /\ item[o] > 0 => MayTakeVariant(o)
  /\ product >= SimpleQty[o]

\* A new reservation is made and consumed at once.
TakeVariant(o) ==
  /\ UNCHANGED drift
  /\ IF item[o] = 0
     THEN UNCHANGED <<reservation, quantity, reserved>>
     ELSE /\ quantity' = quantity - item[o]
          /\ reserved' = IF reservation[o].state = "none" THEN reserved
                                                         ELSE reserved - item[o]
          /\ Reservation(o, "consumed", item[o])

Took(o) ==
  taken' = [taken EXCEPT ![o] =
    [variant |-> IF item[o] > 0 THEN @.variant + 1 ELSE @.variant,
     simple  |-> IF SimpleQty[o] > 0 THEN @.simple + 1 ELSE @.simple]]

\* Mutant: a failed deduction is only logged.
MarkAsPaid_ForgetsError(o) ==
  /\ Exists(o)
  /\ order[o].pay # "paid"
  /\ IF ~ order[o].deducted /\ MayDeduct(o)
       THEN /\ Write(o, WithStock(WithPay(order[o], "paid"), TRUE, FALSE))
            /\ TakeVariant(o)
            /\ product' = product - SimpleQty[o]
            /\ Took(o)
       ELSE /\ Write(o, WithPay(order[o], "paid"))
            /\ UNCHANGED stock
  /\ UNCHANGED <<item, worker, patched>>

\* Mutant: an order is stamped as deducted although its stock was not there.
MarkAsPaid_StampsAnyway(o) ==
  /\ Exists(o)
  /\ order[o].pay # "paid"
  /\ Write(o, WithStock(WithPay(order[o], "paid"), TRUE, FALSE))
  /\ IF ~ order[o].deducted /\ MayDeduct(o)
       THEN TakeVariant(o) /\ product' = product - SimpleQty[o] /\ Took(o)
       ELSE UNCHANGED stock
  /\ UNCHANGED <<item, worker, patched>>

\* Payment is confirmed, and the stock leaves once (payment_confirmed); what
\* prevents that is noted on the order, which is paid all the same.
MarkAsPaid(o) ==
  /\ Exists(o)
  /\ order[o].pay # "paid"
  /\ \/ /\ order[o].deducted
        /\ Write(o, WithPay(order[o], "paid"))
        /\ UNCHANGED stock
     \/ /\ ~ order[o].deducted /\ MayDeduct(o)
        /\ Write(o, WithStock(WithPay(order[o], "paid"), TRUE, FALSE))
        /\ TakeVariant(o)
        /\ product' = product - SimpleQty[o]
        /\ Took(o)
     \/ /\ ~ order[o].deducted /\ ~ MayDeduct(o)
        /\ Write(o, WithStock(WithPay(order[o], "paid"), FALSE, TRUE))
        /\ UNCHANGED stock
  /\ UNCHANGED <<item, worker, patched>>

-----------------------------------------------------------------------------
(* The views that hold an order *)

\* get_object, without a lock.
ReadOrder(w, o) ==
  /\ worker[w].at = "idle"
  /\ Exists(o)
  /\ Holds(w, "order", o, order[o], 0)
  /\ UNCHANGED <<order, item, stock, patched>>

\* Mutant: what was consumed is put back with what was reserved.
Release_Consumed(o) ==
  IF reservation[o].state \in {"reserved", "consumed"}
    THEN /\ Reservation(o, "released", reservation[o].qty)
         /\ reserved' = reserved - reservation[o].qty
    ELSE UNCHANGED <<reservation, reserved>>

\* release_stock_reservations, under the order's lock.
Release(o) ==
  IF reservation[o].state = "reserved"
    THEN /\ reserved >= reservation[o].qty
         /\ Reservation(o, "released", reservation[o].qty)
         /\ reserved' = reserved - reservation[o].qty
    ELSE UNCHANGED <<reservation, reserved>>

\* Mutant: cancel_order writes the object the view read, and frees nothing
\* that object does not know of.
Cancel_Stale(w) ==
  LET o == worker[w].order IN
  /\ worker[w].at = "order"
  /\ worker[w].row.status = "open"
  /\ Write(o, WithStatus(worker[w].row, "cancelled"))
  /\ Ends(w)
  /\ UNCHANGED <<item, stock, patched>>

\* cancel_order, and update_order_status with 'cancelled', which takes any
\* order. The row written is the one release_stock_reservations read again.
Cancel(w) ==
  LET o == worker[w].order IN
  /\ worker[w].at = "order"
  /\ Release(o)
  /\ Write(o, WithStatus(order[o], "cancelled"))
  /\ Ends(w)
  /\ UNCHANGED <<item, quantity, product, taken, drift, patched>>

\* update_order_status with any other status: the object read is written back.
UpdateStatus(w, s) ==
  /\ worker[w].at = "order"
  /\ Write(worker[w].order, WithStatus(worker[w].row, s))
  /\ Ends(w)
  /\ UNCHANGED <<item, stock, patched>>

\* POST refund: update_order_status, then payment_status in a second write.
BeginRefund(w) ==
  LET o == worker[w].order
      row == WithStatus(worker[w].row, "refunded") IN
  /\ worker[w].at = "order"
  /\ Write(o, row)
  /\ Holds(w, "refund", o, row, 0)
  /\ UNCHANGED <<item, stock, patched>>

EndRefund(w) ==
  LET o == worker[w].order IN
  /\ worker[w].at = "refund"
  /\ Write(o, WithPay(order[o], "refunded"))
  /\ Ends(w)
  /\ UNCHANGED <<item, stock, patched>>

\* PATCH: the serializer saves the object read with the fields sent. It takes a
\* status and a payment status as they come, and moves no stock for them.
PatchOrder(w, s, pay) ==
  LET o == worker[w].order
      row == worker[w].row
      sent == {x \in {<<o, "cancelled">>} : s = "cancelled" /\ s # row.status}
                \cup {x \in {<<o, "paid">>} : pay = "paid" /\ pay # row.pay} IN
  /\ worker[w].at = "order"
  /\ Write(o, WithPay(WithStatus(row, s), pay))
  /\ patched' = patched \cup sent
  /\ Ends(w)
  /\ UNCHANGED <<item, stock>>

\* update_items: the variant's item is added, resized or removed, and the object
\* read is saved. An item that has a reservation cannot be removed and stays.
UpdateItems(w, n) ==
  LET o == worker[w].order IN
  /\ worker[w].at = "order"
  /\ item' = IF n = 0 /\ reservation[o].state # "none"
               THEN item ELSE [item EXCEPT ![o] = n]
  /\ Write(o, worker[w].row)
  /\ Ends(w)
  /\ UNCHANGED <<stock, patched>>

\* The view ends early: a release that fails, a refused cancel, a crash.
Abandon(w) ==
  /\ worker[w].at # "idle"
  /\ Ends(w)
  /\ UNCHANGED <<order, item, stock, patched>>

-----------------------------------------------------------------------------
(* PUT inventory *)

\* The inventory row is read without a lock.
ReadInventory(w) ==
  /\ worker[w].at = "idle"
  /\ Holds(w, "inventory", NoOrder, NewRow, reserved)
  /\ UNCHANGED <<order, item, stock, patched>>

\* Mutant: the new quantity frees what was reserved of the old one.
SaveInventory_ResetsReserved(w, n) ==
  /\ worker[w].at = "inventory"
  /\ quantity' = n
  /\ reserved' = 0
  /\ drift' = drift + worker[w].reserved - reserved
  /\ Ends(w)
  /\ UNCHANGED <<order, item, reservation, product, taken, patched>>

\* The new quantity is saved, and with it the reserved count that was read.
SaveInventory(w, n) ==
  /\ worker[w].at = "inventory"
  /\ quantity' = n
  /\ reserved' = worker[w].reserved
  /\ drift' = drift + worker[w].reserved - reserved
  /\ Ends(w)
  /\ UNCHANGED <<order, item, reservation, product, taken, patched>>

-----------------------------------------------------------------------------

Next ==
  \/ \E o \in Order : PlaceOrder(o) \/ MarkAsPaid(o)
  \/ \E w \in Worker :
       \/ \E o \in Order : ReadOrder(w, o)
       \/ Cancel(w) \/ BeginRefund(w) \/ EndRefund(w) \/ Abandon(w)
       \/ \E s \in {"open", "refunded"} : UpdateStatus(w, s)
       \/ \E s \in Status \ {"none"}, pay \in {"pending", "paid", "refunded"} :
            PatchOrder(w, s, pay)
       \/ \E n \in ItemCounts : UpdateItems(w, n)
       \/ ReadInventory(w)
       \/ \E n \in Counts : SaveInventory(w, n)

Spec == Init /\ [][Next]_vars

-----------------------------------------------------------------------------
(* Properties *)

Holding == {o \in Order : reservation[o].state = "reserved"}

\* The reserved count is what the orders hold, off by exactly what inventory
\* edits wrote back of changes made since they were read: no stale order, edit
\* of an item, cancellation, payment or PATCH adds to that. A count that is too
\* low makes release and deduction fail for ever, one too high hides stock.
ReservedAccounted ==
  reserved = drift
    + SumFunctionOnSet([o \in Order |-> reservation[o].qty], Holding)

\* A cancelled order holds no stock, whichever of the requests that raced with
\* the cancellation wrote its row last, unless a PATCH called it cancelled.
CancelledHoldsNothing ==
  \A o \in Order : order[o].status = "cancelled" =>
    o \notin Holding \/ <<o, "cancelled">> \in patched

\* A paid order has had its stock taken, or says that it has not (there is
\* nothing else that would make anyone look), unless a PATCH called it paid.
PaidIsDeductedOrFlagged ==
  \A o \in Order : order[o].pay = "paid" =>
    order[o].deducted \/ order[o].error \/ <<o, "paid">> \in patched

\* An order that claims its stock was deducted has no reservation it did not
\* consume, and no order takes the variant twice, even when a stale write has
\* made it unpaid and undeducted again or its item is edited meanwhile.
VariantTakenOnce ==
  \A o \in Order :
    /\ taken[o].variant <= 1
    /\ order[o].deducted => reservation[o].state \in {"none", "consumed"}

\* No order's items are taken twice.  (order_service.py, deduct_stock: "Deduct
\* once independently of payment".)  Does not hold for products without
\* variants: a stale write erases the stamp, and nothing is reserved for them.
DeductedOnce ==
  \A o \in Order : taken[o].variant <= 1 /\ taken[o].simple <= 1

=============================================================================
