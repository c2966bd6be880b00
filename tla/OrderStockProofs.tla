-------------------------- MODULE OrderStockProofs --------------------------
(***************************************************************************)
(* For any orders, views, quantities and stocks: OrderStock keeps its      *)
(* types and takes an order's variant once; no paid order is silently left *)
(* undeducted, and no cancelled one holds stock, but those that a PATCH    *)
(* called paid or cancelled; and what is counted as reserved is what the   *)
(* orders hold, off by what stale edits of the inventory added.            *)
(***************************************************************************)
EXTENDS OrderStock, Sums, TLAPS

USE OrderStockAssumption

Reservations == [state: {"none", "reserved", "consumed", "released"}, qty: Nat]

Takings == [variant: Nat, simple: Nat]

WorkerStates ==
  [at: {"idle", "order", "refund", "inventory"}, order: Order \cup {NoOrder},
   row: Row, reserved: Nat]

\* TypeOK by parts: the rows, the stock and the views.
StockOK ==
  /\ reservation \in [Order -> Reservations]
  /\ quantity \in Nat /\ reserved \in Nat /\ product \in Nat
  /\ taken \in [Order -> Takings]
  /\ drift \in Int

WorkersOK ==
  /\ worker \in [Worker -> WorkerStates]
  /\ \A w \in Worker :
       worker[w].at \in {"order", "refund"} => worker[w].order \in Order

LEMMA TypeParts ==
  TypeOK <=> /\ order \in [Order -> Row] /\ item \in [Order -> Nat]
             /\ StockOK /\ WorkersOK
             /\ patched \subseteq Order \X {"cancelled", "paid"}
BY DEF TypeOK, StockOK, WorkersOK, Reservations, Takings, WorkerStates

LEMMA RowTypes ==
  /\ NewRow \in Row
  /\ \A row \in Row, s \in Status : WithStatus(row, s) \in Row
  /\ \A row \in Row, p \in {"pending", "paid", "refunded"} :
       WithPay(row, p) \in Row
  /\ \A row \in Row, d \in BOOLEAN, e \in BOOLEAN : WithStock(row, d, e) \in Row
BY DEF NewRow, Row, Status, WithStatus, WithPay, WithStock

LEMMA WriteType ==
  ASSUME order \in [Order -> Row], NEW o \in Order, NEW row \in Row,
         Write(o, row)
  PROVE  order' \in [Order -> Row]
BY DEF Write

\* A view that takes hold of well-typed values, or lets go of them.
LEMMA HoldsType ==
  ASSUME WorkersOK, NEW w \in Worker,
         NEW at \in {"order", "refund", "inventory"},
         NEW o \in Order \cup {NoOrder}, NEW row \in Row, NEW n \in Nat,
         at \in {"order", "refund"} => o \in Order,
         Holds(w, at, o, row, n)
  PROVE  WorkersOK'
BY DEF Holds, WorkersOK, WorkerStates

LEMMA EndsType ==
  ASSUME WorkersOK, NEW w \in Worker, Ends(w)
  PROVE  WorkersOK'
BY RowTypes DEF Ends, WorkersOK, WorkerStates, Idle

LEMMA ReleaseType ==
  ASSUME StockOK, NEW o \in Order, Release(o)
  PROVE  reservation' \in [Order -> Reservations] /\ reserved' \in Nat
<1>1. CASE reservation[o].state = "reserved"
  <2>1. reservation[o].qty \in Nat
    BY DEF StockOK, Reservations
  <2>2. [state |-> "released", qty |-> reservation[o].qty] \in Reservations
    BY <2>1 DEF Reservations
  <2>3. reservation' = [reservation EXCEPT ![o] =
                          [state |-> "released", qty |-> reservation[o].qty]]
    BY <1>1 DEF Release, Reservation
  <2>4. reserved' \in Nat
    BY <1>1, <2>1 DEF Release, StockOK
  <2> QED
    BY <2>2, <2>3, <2>4 DEF StockOK
<1>2. CASE reservation[o].state # "reserved"
  BY <1>2 DEF Release, StockOK
<1> QED
  BY <1>1, <1>2

LEMMA TakeType ==
  ASSUME StockOK, item \in [Order -> Nat], NEW o \in Order, MayDeduct(o),
         TakeVariant(o), product' = product - SimpleQty[o], Took(o)
  PROVE  StockOK'
<1>0. item[o] \in Nat /\ SimpleQty[o] \in Nat
  OBVIOUS
<1>1. product' \in Nat
  BY <1>0 DEF StockOK, MayDeduct
<1>2. taken' \in [Order -> Takings]
  <2>1. taken[o].variant \in Nat /\ taken[o].simple \in Nat
    BY DEF StockOK, Takings
  <2> DEFINE v == IF item[o] > 0 THEN taken[o].variant + 1
                                 ELSE taken[o].variant
             s == IF SimpleQty[o] > 0 THEN taken[o].simple + 1
                                      ELSE taken[o].simple
  <2>2. v \in Nat /\ s \in Nat
    BY <2>1
  <2>3. taken' = [taken EXCEPT ![o] = [variant |-> v, simple |-> s]]
    BY DEF Took
  <2> HIDE DEF v, s
  <2>4. [variant |-> v, simple |-> s] \in Takings
    BY <2>2 DEF Takings
  <2> QED
    BY <2>3, <2>4 DEF StockOK
<1>3. /\ reservation' \in [Order -> Reservations]
      /\ quantity' \in Nat /\ reserved' \in Nat
  <2>1. CASE item[o] = 0
    BY <2>1 DEF TakeVariant, StockOK
  <2>2. CASE item[o] # 0
    <3>1. MayTakeVariant(o)
      BY <1>0, <2>2 DEF MayDeduct
    <3>2. quantity' \in Nat
      BY <1>0, <2>2, <3>1 DEF MayTakeVariant, TakeVariant, StockOK
    <3>3. reserved' \in Nat
      BY <1>0, <2>2, <3>1 DEF MayTakeVariant, TakeVariant, StockOK
    <3>4. [state |-> "consumed", qty |-> item[o]] \in Reservations
      BY <1>0 DEF Reservations
    <3>5. reservation' = [reservation EXCEPT ![o] =
                            [state |-> "consumed", qty |-> item[o]]]
      BY <2>2 DEF TakeVariant, Reservation
    <3> QED
      BY <3>2, <3>3, <3>4, <3>5 DEF StockOK
  <2> QED
    BY <2>1, <2>2
<1>4. drift' \in Int
  BY DEF TakeVariant, StockOK
<1> QED
  BY <1>1, <1>2, <1>3, <1>4 DEF StockOK

-----------------------------------------------------------------------------
(* Type correctness *)

LEMMA TypeInit == Init => TypeOK
<1> SUFFICES ASSUME Init PROVE TypeOK
  OBVIOUS
<1>1. StockOK
  BY DEF Init, StockOK, Reservations, Takings
<1>2. WorkersOK
  BY RowTypes DEF Init, WorkersOK, WorkerStates, Idle
<1>3. order \in [Order -> Row] /\ item \in [Order -> Nat]
  BY RowTypes DEF Init
<1>4. patched \subseteq Order \X {"cancelled", "paid"}
  BY DEF Init
<1> QED
  BY <1>1, <1>2, <1>3, <1>4, TypeParts

\* A service that touches neither an item nor a view.
LEMMA FrameType ==
  ASSUME item \in [Order -> Nat], WorkersOK, order' \in [Order -> Row],
         patched \subseteq Order \X {"cancelled", "paid"},
         StockOK', UNCHANGED <<item, worker, patched>>
  PROVE  TypeOK'
<1>1. item' \in [Order -> Nat] /\ WorkersOK'
  BY DEF WorkersOK
<1> QED
  BY <1>1 DEF TypeOK, StockOK, WorkersOK, Reservations, Takings, WorkerStates

LEMMA PlaceOrderType ==
  ASSUME TypeOK, NEW o \in Order, PlaceOrder(o)
  PROVE  TypeOK'
<1>0. /\ order \in [Order -> Row] /\ item \in [Order -> Nat]
      /\ StockOK /\ WorkersOK
      /\ patched \subseteq Order \X {"cancelled", "paid"}
  BY TypeParts
<1> DEFINE row == WithStatus(NewRow, "open")
<1>1. row \in Row /\ WithStock(row, FALSE, TRUE) \in Row
  BY RowTypes DEF Status
<1>2. order' \in [Order -> Row]
  BY <1>0, <1>1, WriteType DEF PlaceOrder
<1>3. item[o] \in Nat
  BY <1>0
<1>4. reserved' \in Nat
  <2>1. /\ reserved \in Nat
        /\ reserved' = reserved + item[o] \/ UNCHANGED reserved
    BY <1>0 DEF PlaceOrder, StockOK
  <2> QED
    BY <1>3, <2>1
<1>5. reservation' \in [Order -> Reservations]
  <2>1. [state |-> "reserved", qty |-> item[o]] \in Reservations
    BY <1>3 DEF Reservations
  <2>2. \/ UNCHANGED reservation
        \/ reservation' = [reservation EXCEPT ![o] =
                             [state |-> "reserved", qty |-> item[o]]]
    BY DEF PlaceOrder, Reservation
  <2> QED
    BY <1>0, <2>1, <2>2 DEF StockOK
<1>6. StockOK'
  BY <1>0, <1>4, <1>5 DEF PlaceOrder, StockOK
<1>7. UNCHANGED <<item, worker, patched>>
  BY DEF PlaceOrder
<1> QED
  BY <1>0, <1>2, <1>6, <1>7, FrameType

LEMMA MarkAsPaidType ==
  ASSUME TypeOK, NEW o \in Order, MarkAsPaid(o)
  PROVE  TypeOK'
<1>0. /\ order \in [Order -> Row] /\ item \in [Order -> Nat]
      /\ StockOK /\ WorkersOK
      /\ patched \subseteq Order \X {"cancelled", "paid"}
  BY TypeParts
<1> DEFINE row == WithPay(order[o], "paid")
<1>1. /\ row \in Row /\ WithStock(row, TRUE, FALSE) \in Row
      /\ WithStock(row, FALSE, TRUE) \in Row
  BY <1>0, RowTypes
<1>2. order' \in [Order -> Row]
  BY <1>0, <1>1, WriteType DEF MarkAsPaid
<1>3. StockOK'
  <2>1. CASE UNCHANGED stock
    BY <1>0, <2>1 DEF stock, StockOK
  <2>2. CASE ~ UNCHANGED stock
    BY <1>0, <2>2, TakeType DEF MarkAsPaid
  <2> QED
    BY <2>1, <2>2
<1>4. UNCHANGED <<item, worker, patched>>
  BY DEF MarkAsPaid
<1> QED
  BY <1>0, <1>2, <1>3, <1>4, FrameType

\* A view that writes a well-typed row of its order and touches no stock.
LEMMA WritesType ==
  ASSUME TypeOK, NEW w \in Worker, worker[w].at \in {"order", "refund"},
         NEW row \in Row, Write(worker[w].order, row), WorkersOK',
         item' \in [Order -> Nat], StockOK',
         patched' \subseteq Order \X {"cancelled", "paid"}
  PROVE  TypeOK'
<1>1. worker[w].order \in Order /\ order \in [Order -> Row]
  BY TypeParts DEF WorkersOK
<1>2. order' \in [Order -> Row]
  BY <1>1, WriteType
<1> QED
  BY <1>2 DEF TypeOK, StockOK, WorkersOK, Reservations, Takings, WorkerStates

LEMMA TypeStep == TypeOK /\ [Next]_vars => TypeOK'
<1> SUFFICES ASSUME TypeOK, [Next]_vars PROVE TypeOK'
  OBVIOUS
<1>0. /\ order \in [Order -> Row] /\ item \in [Order -> Nat]
      /\ StockOK /\ WorkersOK
      /\ patched \subseteq Order \X {"cancelled", "paid"}
  BY TypeParts
<1>a. \A w \in Worker : worker[w].row \in Row /\ worker[w].reserved \in Nat
  BY <1>0 DEF WorkersOK, WorkerStates
<1>b. UNCHANGED stock => StockOK'
  BY <1>0 DEF stock, StockOK
<1>1. ASSUME NEW w \in Worker, NEW o \in Order, ReadOrder(w, o) PROVE TypeOK'
  <2>1. WorkersOK'
    BY <1>0, <1>1, HoldsType DEF ReadOrder
  <2> QED
    BY <1>0, <1>1, <2>1
    DEF ReadOrder, stock, TypeOK, WorkersOK, WorkerStates
<1>2. ASSUME NEW w \in Worker, Cancel(w) PROVE TypeOK'
  <2> DEFINE o == worker[w].order
  <2>1. o \in Order
    BY <1>0, <1>2 DEF Cancel, WorkersOK
  <2>2. WithStatus(order[o], "cancelled") \in Row
    BY <1>0, <2>1, RowTypes DEF Status
  <2>3. WorkersOK'
    BY <1>0, <1>2, EndsType DEF Cancel
  <2>4. StockOK'
    BY <1>0, <1>2, <2>1, ReleaseType DEF Cancel, StockOK
  <2> QED
    BY <1>0, <1>2, <2>2, <2>3, <2>4, WritesType DEF Cancel
<1>3. ASSUME NEW w \in Worker, BeginRefund(w) PROVE TypeOK'
  <2>1. WithStatus(worker[w].row, "refunded") \in Row
    BY <1>a, RowTypes DEF Status
  <2>2. WorkersOK'
    BY <1>0, <1>3, <2>1, HoldsType DEF BeginRefund, WorkersOK
  <2> QED
    BY <1>0, <1>b, <1>3, <2>1, <2>2, WritesType DEF BeginRefund
<1>4. ASSUME NEW w \in Worker, EndRefund(w) PROVE TypeOK'
  <2>1. worker[w].order \in Order
    BY <1>0, <1>4 DEF EndRefund, WorkersOK
  <2>2. WithPay(order[worker[w].order], "refunded") \in Row
    BY <1>0, <2>1, RowTypes
  <2>3. WorkersOK'
    BY <1>0, <1>4, EndsType DEF EndRefund
  <2> QED
    BY <1>0, <1>b, <1>4, <2>2, <2>3, WritesType DEF EndRefund
<1>5. ASSUME NEW w \in Worker, NEW s \in {"open", "refunded"},
             UpdateStatus(w, s)
      PROVE TypeOK'
  <2>1. WithStatus(worker[w].row, s) \in Row
    BY <1>a, RowTypes DEF Status
  <2>2. WorkersOK'
    BY <1>0, <1>5, EndsType DEF UpdateStatus
  <2> QED
    BY <1>0, <1>b, <1>5, <2>1, <2>2, WritesType DEF UpdateStatus
<1>6. ASSUME NEW w \in Worker, NEW s \in Status \ {"none"},
             NEW pay \in {"pending", "paid", "refunded"}, PatchOrder(w, s, pay)
      PROVE TypeOK'
  <2>1. WithPay(WithStatus(worker[w].row, s), pay) \in Row
    BY <1>a, RowTypes
  <2>2. WorkersOK'
    BY <1>0, <1>6, EndsType DEF PatchOrder
  <2>3. patched' \subseteq Order \X {"cancelled", "paid"}
    BY <1>0, <1>6 DEF PatchOrder, WorkersOK
  <2> QED
    BY <1>0, <1>b, <1>6, <2>1, <2>2, <2>3, WritesType DEF PatchOrder
<1>7. ASSUME NEW w \in Worker, NEW n \in ItemCounts, UpdateItems(w, n)
      PROVE TypeOK'
  <2>1. WorkersOK'
    BY <1>0, <1>7, EndsType DEF UpdateItems
  <2>2. item' \in [Order -> Nat]
    BY <1>0, <1>7 DEF UpdateItems
  <2> QED
    BY <1>0, <1>a, <1>b, <1>7, <2>1, <2>2, WritesType DEF UpdateItems
<1>8. ASSUME NEW w \in Worker, Abandon(w) PROVE TypeOK'
  <2>1. WorkersOK'
    BY <1>0, <1>8, EndsType DEF Abandon
  <2> QED
    BY <1>8, <2>1 DEF Abandon, stock, TypeOK, WorkersOK, WorkerStates
<1>9. ASSUME NEW w \in Worker, ReadInventory(w) PROVE TypeOK'
  <2>1. WorkersOK'
    BY <1>0, <1>9, HoldsType, RowTypes DEF ReadInventory, StockOK
  <2> QED
    BY <1>9, <2>1 DEF ReadInventory, stock, TypeOK, WorkersOK, WorkerStates
<1>10. ASSUME NEW w \in Worker, NEW n \in Counts, SaveInventory(w, n)
       PROVE TypeOK'
  <2>1. WorkersOK'
    BY <1>0, <1>10, EndsType DEF SaveInventory
  <2>2. quantity' \in Nat /\ reserved' \in Nat /\ drift' \in Int
    BY <1>0, <1>a, <1>10 DEF SaveInventory, StockOK
  <2> QED
    BY <1>10, <2>1, <2>2 DEF SaveInventory, TypeOK, WorkersOK, WorkerStates
<1>11. CASE UNCHANGED vars
  BY <1>11 DEF vars, stock, TypeOK
<1> QED
  BY <1>1, <1>2, <1>3, <1>4, <1>5, <1>6, <1>7, <1>8, <1>9, <1>10, <1>11,
     PlaceOrderType, MarkAsPaidType DEF Next

\* Orders, reservations and counts stay in their types: in particular no stock
\* count becomes negative, whatever stale rows the views write back.
THEOREM Typing == Spec => []TypeOK
<1> QED
  BY TypeInit, TypeStep, PTL DEF Spec

-----------------------------------------------------------------------------
(* The inductive invariant *)

\* What a PATCH has called an order.
Called(o, p) == {k \in {"cancelled", "paid"} : <<o, k>> \in p}

\* What a row may say beside a reservation in state st, if PATCHes called the
\* order what is in c. It holds of the rows the views hold as it does of those
\* stored: a view may write its row back.
Fits(row, st, c) ==
  /\ row.deducted => st \in {"none", "consumed"}
  /\ row.status = "cancelled" => st # "reserved" \/ "cancelled" \in c
  /\ row.pay = "paid" => row.deducted \/ row.error \/ "paid" \in c

\* Only an order that is being placed reserves; an item that is not there has
\* no reservation; what has left the stock is consumed, and stays so.
OrderFits(o) ==
  /\ Fits(order[o], reservation[o].state, Called(o, patched))
  /\ Exists(o) \/ reservation[o].state = "none"
  /\ item[o] = 0 => reservation[o].state = "none"
  /\ taken[o].variant = IF reservation[o].state = "consumed" THEN 1 ELSE 0

ViewFits(w) ==
  worker[w].at \in {"order", "refund"} =>
    /\ Exists(worker[w].order) /\ worker[w].row.status # "none"
    /\ Fits(worker[w].row, reservation[worker[w].order].state,
            Called(worker[w].order, patched))

StockInv ==
  /\ TypeOK
  /\ \A o \in Order : OrderFits(o)
  /\ \A w \in Worker : ViewFits(w)

\* How a reservation may change while rows of its order are held.
Moves(s, t) ==
  \/ t = s
  \/ s \in {"none", "reserved"} /\ t = "consumed"
  \/ s = "reserved" /\ t = "released"

LEMMA FitsStays ==
  ASSUME NEW row, NEW s, NEW t, NEW c, NEW d,
         Fits(row, s, c), Moves(s, t), c \subseteq d
  PROVE  Fits(row, t, d)
BY DEF Fits, Moves

LEMMA CalledGrows ==
  ASSUME NEW p, NEW q, p \subseteq q, NEW o
  PROVE  Called(o, p) \subseteq Called(o, q)
BY DEF Called

LEMMA FitsStatus ==
  ASSUME NEW row, NEW st, NEW c, Fits(row, st, c), NEW s,
         s # "cancelled" \/ st # "reserved"
  PROVE  Fits(WithStatus(row, s), st, c)
BY DEF Fits, WithStatus

LEMMA FitsPay ==
  ASSUME NEW row, NEW st, NEW c, Fits(row, st, c), NEW p,
         p # "paid" \/ row.pay = "paid" \/ row.deducted \/ row.error
  PROVE  Fits(WithPay(row, p), st, c)
BY DEF Fits, WithPay

\* A step of an order's service or of a view: the rows the other views hold
\* still fit.
LEMMA ViewsFit ==
  ASSUME StockInv,
         \A o \in Order : Exists(o) =>
           /\ Exists(o)'
           /\ Moves(reservation[o].state, reservation'[o].state),
         patched \subseteq patched', NEW w \in Worker, worker'[w] = worker[w]
  PROVE  ViewFits(w)'
<1>1. ViewFits(w)
  BY DEF StockInv
<1>2. worker[w].at \in {"order", "refund"} => worker[w].order \in Order
  BY DEF StockInv, TypeOK
<1>3. /\ worker'[w].at = worker[w].at /\ worker'[w].order = worker[w].order
      /\ worker'[w].row = worker[w].row
  OBVIOUS
<1> QED
  BY <1>1, <1>2, <1>3, FitsStays, CalledGrows DEF ViewFits

\* The view that makes the step lets go.
LEMMA EndFits ==
  ASSUME StockInv, NEW w \in Worker, Ends(w)
  PROVE  ViewFits(w)' /\ \A v \in Worker \ {w} : worker'[v] = worker[v]
<1>1. worker' = [worker EXCEPT ![w] = Idle] /\ DOMAIN worker = Worker
  BY DEF Ends, StockInv, TypeOK
<1>2. worker'[w].at = "idle"
  BY <1>1 DEF Idle
<1> QED
  BY <1>1, <1>2 DEF ViewFits

\* A view that writes a fitting row and touches no stock.
LEMMA WriteFits ==
  ASSUME StockInv, NEW w \in Worker, worker[w].at \in {"order", "refund"},
         NEW row, row.status # "none", patched \subseteq patched',
         Fits(row, reservation[worker[w].order].state,
              Called(worker[w].order, patched')),
         Write(worker[w].order, row), UNCHANGED <<reservation, taken>>,
         \A o \in Order : item'[o] = 0 => reservation[o].state = "none"
  PROVE  /\ \A o \in Order : OrderFits(o)'
         /\ \A o \in Order : Exists(o) =>
              /\ Exists(o)'
              /\ Moves(reservation[o].state, reservation'[o].state)
<1>1. worker[w].order \in Order /\ DOMAIN order = Order
  BY DEF StockInv, TypeOK
<1>2. order' = [order EXCEPT ![worker[w].order] = row]
  BY DEF Write
<1>3. Exists(worker[w].order)
  BY DEF StockInv, ViewFits
<1>4. ASSUME NEW o \in Order PROVE OrderFits(o)' /\ (Exists(o) => Exists(o)')
  <2>1. OrderFits(o)
    BY DEF StockInv
  <2>2. CASE o = worker[w].order
    BY <1>1, <1>2, <1>3, <2>1, <2>2 DEF OrderFits, Exists
  <2>3. CASE o # worker[w].order
    BY <1>1, <1>2, <2>1, <2>3, FitsStays, CalledGrows
    DEF OrderFits, Exists, Moves
  <2> QED
    BY <2>2, <2>3
<1> QED
  BY <1>4 DEF Moves

LEMMA InvInit == Init => StockInv
<1> SUFFICES ASSUME Init PROVE StockInv
  OBVIOUS
<1>1. \A o \in Order : OrderFits(o)
  BY DEF Init, OrderFits, Fits, NewRow
<1>2. \A w \in Worker : ViewFits(w)
  BY DEF Init, ViewFits, Idle
<1> QED
  BY <1>1, <1>2, TypeInit DEF StockInv

LEMMA PlaceOrderFits ==
  ASSUME StockInv, NEW o \in Order, PlaceOrder(o)
  PROVE  /\ \A p \in Order : OrderFits(p)'
         /\ \A w \in Worker : ViewFits(w)'
<1> DEFINE row == WithStatus(NewRow, "open")
<1> DEFINE c == Called(o, patched)
<1>0. /\ ~ Exists(o) /\ UNCHANGED <<item, taken, worker, patched>>
      /\ DOMAIN order = Order /\ DOMAIN reservation = Order
  BY DEF PlaceOrder, StockInv, TypeOK
<1>1. /\ Fits(row, "none", c) /\ Fits(row, "reserved", c)
      /\ Fits(WithStock(row, FALSE, TRUE), "none", c)
      /\ row.status = "open" /\ WithStock(row, FALSE, TRUE).status = "open"
  BY DEF Fits, NewRow, WithStatus, WithStock
<1>2. OrderFits(o) /\ reservation[o].state = "none" /\ taken[o].variant = 0
  BY <1>0 DEF StockInv, OrderFits
<1>3. OrderFits(o)'
  <2>1. CASE item[o] <= Available /\ item[o] # 0
    <3>1. order'[o] = row /\ reservation'[o].state = "reserved"
      BY <1>0, <2>1 DEF PlaceOrder, Write, Reservation
    <3> QED
      BY <1>0, <1>1, <1>2, <2>1, <3>1 DEF OrderFits, Exists
  <2>2. CASE item[o] <= Available /\ item[o] = 0
    <3>1. order'[o] = row /\ UNCHANGED reservation
      BY <1>0, <2>2 DEF PlaceOrder, Write
    <3> QED
      BY <1>0, <1>1, <1>2, <3>1 DEF OrderFits, Exists
  <2>3. CASE ~ (item[o] <= Available)
    <3>1. order'[o] = WithStock(row, FALSE, TRUE) /\ UNCHANGED reservation
      BY <1>0, <2>3 DEF PlaceOrder, Write
    <3> QED
      BY <1>0, <1>1, <1>2, <3>1 DEF OrderFits, Exists
  <2> QED
    BY <2>1, <2>2, <2>3
<1>4. ASSUME NEW p \in Order, p # o
      PROVE  order'[p] = order[p] /\ reservation'[p] = reservation[p]
  BY <1>0, <1>4 DEF PlaceOrder, Write, Reservation
<1>5. \A p \in Order : OrderFits(p)'
  BY <1>0, <1>3, <1>4 DEF StockInv, OrderFits, Exists
<1>6. \A p \in Order : Exists(p) =>
        Exists(p)' /\ Moves(reservation[p].state, reservation'[p].state)
  BY <1>0, <1>4 DEF Exists, Moves
<1> QED
  BY <1>0, <1>5, <1>6, ViewsFit

LEMMA MarkAsPaidFits ==
  ASSUME StockInv, NEW o \in Order, MarkAsPaid(o)
  PROVE  /\ \A p \in Order : OrderFits(p)'
         /\ \A w \in Worker : ViewFits(w)'
<1> DEFINE row == WithPay(order[o], "paid")
           st == reservation[o].state
           c == Called(o, patched)
<1>0. /\ Exists(o) /\ UNCHANGED <<item, worker, patched>>
      /\ DOMAIN order = Order /\ DOMAIN reservation = Order
      /\ DOMAIN taken = Order /\ item[o] \in Nat
  BY DEF MarkAsPaid, StockInv, TypeOK
<1>1. OrderFits(o) /\ Fits(order[o], st, c)
  BY DEF StockInv, OrderFits
<1>2. OrderFits(o)' /\ Exists(o)' /\ Moves(st, reservation'[o].state)
  <2>1. CASE order[o].deducted /\ Write(o, row) /\ UNCHANGED stock
    <3>1. order'[o] = row /\ UNCHANGED <<reservation, taken>>
      BY <1>0, <2>1 DEF Write, stock
    <3>2. Fits(row, st, c) /\ row.status = order[o].status
      BY <1>1, <2>1, FitsPay DEF WithPay
    <3> QED
      BY <1>0, <1>1, <3>1, <3>2 DEF OrderFits, Exists, Moves
  <2>2. CASE /\ MayDeduct(o) /\ Write(o, WithStock(row, TRUE, FALSE))
             /\ TakeVariant(o) /\ Took(o)
    <3> DEFINE new == WithStock(row, TRUE, FALSE)
    <3>1. order'[o] = new /\ new.status = order[o].status /\ new.deducted
      BY <1>0, <2>2 DEF Write, WithStock, WithPay
    <3>2. Fits(new, "none", c) /\ Fits(new, "consumed", c)
      BY <2>2, <3>1 DEF MayDeduct, Fits
    <3> HIDE DEF new
    <3>3. CASE item[o] = 0
      <4>1. st = "none" /\ UNCHANGED reservation
        BY <1>1, <2>2, <3>3 DEF OrderFits, TakeVariant
      <4>2. taken'[o].variant = taken[o].variant
        BY <1>0, <2>2, <3>3 DEF Took
      <4> QED
        BY <1>0, <1>1, <3>1, <3>2, <4>1, <4>2 DEF OrderFits, Exists, Moves
    <3>4. CASE item[o] # 0
      <4>1. item[o] > 0
        BY <1>0, <3>4
      <4>2. st \in {"none", "reserved"}
        BY <2>2, <4>1 DEF MayDeduct, MayTakeVariant
      <4>3. reservation'[o].state = "consumed"
        BY <1>0, <2>2, <3>4 DEF TakeVariant, Reservation
      <4>4. taken[o].variant = 0
        BY <1>1, <4>2 DEF OrderFits
      <4>5. taken'[o].variant = 1
        BY <1>0, <2>2, <4>1, <4>4 DEF Took
      <4> QED
        BY <1>0, <3>1, <3>2, <3>4, <4>2, <4>3, <4>5 DEF OrderFits, Exists, Moves
    <3> QED
      BY <3>3, <3>4
  <2>3. CASE Write(o, WithStock(row, FALSE, TRUE)) /\ UNCHANGED stock
    <3> DEFINE new == WithStock(row, FALSE, TRUE)
    <3>1. order'[o] = new /\ UNCHANGED <<reservation, taken>>
      BY <1>0, <2>3 DEF Write, stock
    <3>2. Fits(new, st, c) /\ new.status = order[o].status
      BY <1>1 DEF Fits, WithStock, WithPay
    <3> QED
      BY <1>0, <1>1, <3>1, <3>2 DEF OrderFits, Exists, Moves
  <2> QED
    BY <2>1, <2>2, <2>3 DEF MarkAsPaid
<1>3. ASSUME NEW p \in Order, p # o
      PROVE  /\ order'[p] = order[p] /\ reservation'[p] = reservation[p]
             /\ taken'[p] = taken[p]
  <2>1. order'[p] = order[p]
    BY <1>0, <1>3 DEF MarkAsPaid, Write
  <2>2. CASE UNCHANGED stock
    BY <2>1, <2>2 DEF stock
  <2>3. CASE TakeVariant(o) /\ Took(o)
    BY <1>0, <1>3, <2>1, <2>3 DEF TakeVariant, Took, Reservation
  <2> QED
    BY <2>2, <2>3 DEF MarkAsPaid
<1>4. \A p \in Order : OrderFits(p)'
  BY <1>0, <1>2, <1>3 DEF StockInv, OrderFits, Exists
<1>5. \A p \in Order : Exists(p) =>
        Exists(p)' /\ Moves(reservation[p].state, reservation'[p].state)
  BY <1>2, <1>3 DEF Exists, Moves
<1> QED
  BY <1>0, <1>4, <1>5, ViewsFit

LEMMA CancelFits ==
  ASSUME StockInv, NEW w \in Worker, Cancel(w)
  PROVE  /\ \A p \in Order : OrderFits(p)'
         /\ \A v \in Worker : ViewFits(v)'
<1>a. worker[w].order \in Order
  BY DEF Cancel, StockInv, TypeOK
<1>b. PICK o \in Order : o = worker[w].order
  BY <1>a
<1> DEFINE st == reservation[o].state
           row == WithStatus(order[o], "cancelled")
           c == Called(o, patched)
<1>0. /\ Cancel(w) /\ UNCHANGED <<item, taken, patched>>
      /\ DOMAIN order = Order /\ DOMAIN reservation = Order
  BY DEF Cancel, StockInv, TypeOK
<1>1. OrderFits(o) /\ Exists(o)
  BY <1>b DEF StockInv, ViewFits, Cancel
<1>2. order'[o] = row /\ row.status = "cancelled"
  BY <1>0, <1>b DEF Cancel, Write, WithStatus
<1>3. Moves(st, reservation'[o].state) /\ reservation'[o].state # "reserved"
  BY <1>0, <1>b DEF Cancel, Release, Reservation, Moves
<1>4. Fits(row, reservation'[o].state, c)
  <2>1. Fits(order[o], reservation'[o].state, c)
    BY <1>1, <1>3, FitsStays DEF OrderFits
  <2> QED
    BY <1>3, <2>1, FitsStatus
<1>5. (st = "none" <=> reservation'[o].state = "none")
      /\ (st = "consumed" <=> reservation'[o].state = "consumed")
  BY <1>0, <1>b DEF Cancel, Release, Reservation
<1>6. OrderFits(o)' /\ Exists(o)'
  <2> HIDE DEF row
  <2> QED
    BY <1>0, <1>1, <1>2, <1>4, <1>5 DEF OrderFits, Exists
<1>7. ASSUME NEW p \in Order, p # o
      PROVE  order'[p] = order[p] /\ reservation'[p] = reservation[p]
  BY <1>0, <1>7, <1>b DEF Cancel, Write, Release, Reservation
<1>8. \A p \in Order : OrderFits(p)'
  BY <1>0, <1>6, <1>7 DEF StockInv, OrderFits, Exists
<1>9. \A p \in Order : Exists(p) =>
        Exists(p)' /\ Moves(reservation[p].state, reservation'[p].state)
  BY <1>3, <1>6, <1>7 DEF Exists, Moves
<1>10. ViewFits(w)' /\ \A v \in Worker \ {w} : worker'[v] = worker[v]
  BY EndFits DEF Cancel
<1> QED
  BY <1>0, <1>8, <1>9, <1>10, ViewsFit

LEMMA BeginRefundFits ==
  ASSUME StockInv, NEW w \in Worker, BeginRefund(w)
  PROVE  /\ \A p \in Order : OrderFits(p)'
         /\ \A v \in Worker : ViewFits(v)'
<1> DEFINE o == worker[w].order
           row == WithStatus(worker[w].row, "refunded")
<1>0. /\ o \in Order /\ UNCHANGED <<item, reservation, taken, patched>>
      /\ DOMAIN worker = Worker /\ worker[w].at = "order"
  BY DEF BeginRefund, stock, StockInv, TypeOK
<1>1. ViewFits(w)
  BY DEF StockInv
<1>2. Fits(row, reservation[o].state, Called(o, patched)) /\ row.status = "refunded"
  <2>1. row.status = "refunded"
    BY DEF WithStatus
  <2> QED
    BY <1>0, <1>1, <2>1, FitsStatus DEF ViewFits
<1>3. /\ \A p \in Order : OrderFits(p)'
      /\ \A p \in Order : Exists(p) =>
           Exists(p)' /\ Moves(reservation[p].state, reservation'[p].state)
  <2>1. /\ Write(o, row)
        /\ \A p \in Order : item'[p] = 0 => reservation[p].state = "none"
    BY <1>0 DEF BeginRefund, StockInv, OrderFits
  <2> HIDE DEF row
  <2> QED
    BY <1>0, <1>2, <2>1, WriteFits
<1>4. /\ worker' = [worker EXCEPT ![w] =
           [at |-> "refund", order |-> o, row |-> row, reserved |-> 0]]
      /\ \A v \in Worker \ {w} : worker'[v] = worker[v]
  BY <1>0 DEF BeginRefund, Holds
<1>5. ViewFits(w)'
  <2> HIDE DEF row
  <2>1. worker'[w].order = o /\ worker'[w].row = row
    BY <1>0, <1>4
  <2> QED
    BY <1>0, <1>1, <1>2, <1>3, <2>1 DEF ViewFits
<1> QED
  BY <1>0, <1>3, <1>4, <1>5, ViewsFit

\* The other views that write an order's row.
LEMMA ViewEnds ==
  ASSUME StockInv, NEW w \in Worker, worker[w].at \in {"order", "refund"},
         NEW row, row.status # "none", patched \subseteq patched',
         Fits(row, reservation[worker[w].order].state,
              Called(worker[w].order, patched')),
         Write(worker[w].order, row), Ends(w), UNCHANGED <<reservation, taken>>,
         \A o \in Order : item'[o] = 0 => reservation[o].state = "none"
  PROVE  /\ \A p \in Order : OrderFits(p)'
         /\ \A v \in Worker : ViewFits(v)'
<1>1. ViewFits(w)' /\ \A v \in Worker \ {w} : worker'[v] = worker[v]
  BY EndFits
<1>2. /\ \A p \in Order : OrderFits(p)'
      /\ \A p \in Order : Exists(p) =>
           Exists(p)' /\ Moves(reservation[p].state, reservation'[p].state)
  BY WriteFits
<1> QED
  BY <1>1, <1>2, ViewsFit

\* A view that writes no order.
LEMMA ViewWaits ==
  ASSUME StockInv, NEW w \in Worker,
         UNCHANGED <<order, item, reservation, taken, patched>>,
         ViewFits(w)', \A v \in Worker \ {w} : worker'[v] = worker[v]
  PROVE  /\ \A p \in Order : OrderFits(p)'
         /\ \A v \in Worker : ViewFits(v)'
<1>1. \A p \in Order : OrderFits(p)'
  BY DEF StockInv, OrderFits, Exists
<1>2. \A p \in Order : Exists(p) =>
        Exists(p)' /\ Moves(reservation[p].state, reservation'[p].state)
  BY DEF Exists, Moves
<1> QED
  BY <1>1, <1>2, ViewsFit

LEMMA InvStep == StockInv /\ [Next]_vars => StockInv'
<1> SUFFICES ASSUME StockInv, [Next]_vars
             PROVE  /\ \A o \in Order : OrderFits(o)'
                    /\ \A w \in Worker : ViewFits(w)'
  BY TypeStep DEF StockInv
<1>a. /\ \A w \in Worker : ViewFits(w)
      /\ \A o \in Order : OrderFits(o)
      /\ \A o \in Order : item[o] = 0 => reservation[o].state = "none"
      /\ DOMAIN worker = Worker
      /\ \A w \in Worker :
           worker[w].at \in {"order", "refund"} => worker[w].order \in Order
  BY DEF StockInv, OrderFits, TypeOK
<1>1. ASSUME NEW w \in Worker, NEW o \in Order, ReadOrder(w, o)
      PROVE  /\ \A p \in Order : OrderFits(p)'
             /\ \A v \in Worker : ViewFits(v)'
  <2>1. /\ UNCHANGED <<order, item, reservation, taken, patched>> /\ Exists(o)
        /\ worker'[w] = [at |-> "order", order |-> o, row |-> order[o],
                         reserved |-> 0]
        /\ \A v \in Worker \ {w} : worker'[v] = worker[v]
    BY <1>a, <1>1 DEF ReadOrder, Holds, stock
  <2>2. worker'[w].order = o /\ worker'[w].row = order[o]
    BY <2>1
  <2>3. ViewFits(w)'
    BY <1>a, <2>1, <2>2 DEF ViewFits, OrderFits, Exists
  <2> QED
    BY <2>1, <2>3, ViewWaits
<1>2. ASSUME NEW w \in Worker, EndRefund(w)
      PROVE  /\ \A p \in Order : OrderFits(p)'
             /\ \A v \in Worker : ViewFits(v)'
  <2> DEFINE o == worker[w].order
             row == WithPay(order[o], "refunded")
  <2>1. o \in Order /\ Exists(o) /\ OrderFits(o)
    BY <1>a, <1>2 DEF EndRefund, ViewFits
  <2>2. Fits(row, reservation[o].state, Called(o, patched))
    BY <2>1, FitsPay DEF OrderFits
  <2>3. row.status # "none"
    BY <2>1 DEF WithPay, Exists
  <2>4. Write(o, row)
    BY <1>2 DEF EndRefund
  <2> HIDE DEF row
  <2> QED
    BY <1>a, <1>2, <2>2, <2>3, <2>4, ViewEnds DEF EndRefund, stock
<1>3. ASSUME NEW w \in Worker, NEW s \in {"open", "refunded"},
             UpdateStatus(w, s)
      PROVE  /\ \A p \in Order : OrderFits(p)'
             /\ \A v \in Worker : ViewFits(v)'
  <2> DEFINE o == worker[w].order
             row == WithStatus(worker[w].row, s)
  <2>1. Fits(row, reservation[o].state, Called(o, patched))
    BY <1>a, <1>3, FitsStatus DEF UpdateStatus, ViewFits
  <2>2. row.status # "none"
    BY DEF WithStatus
  <2>3. Write(o, row)
    BY <1>3 DEF UpdateStatus
  <2> HIDE DEF row
  <2> QED
    BY <1>a, <1>3, <2>1, <2>2, <2>3, ViewEnds DEF UpdateStatus, stock
<1>4. ASSUME NEW w \in Worker, NEW s \in Status \ {"none"},
             NEW pay \in {"pending", "paid", "refunded"}, PatchOrder(w, s, pay)
      PROVE  /\ \A p \in Order : OrderFits(p)'
             /\ \A v \in Worker : ViewFits(v)'
  <2> DEFINE o == worker[w].order
             held == worker[w].row
             row == WithPay(WithStatus(held, s), pay)
  <2>1. Fits(held, reservation[o].state, Called(o, patched))
    BY <1>a, <1>4 DEF PatchOrder, ViewFits
  <2>5. /\ patched \subseteq patched'
        /\ s = "cancelled" /\ s # held.status => "cancelled" \in Called(o, patched')
        /\ pay = "paid" /\ pay # held.pay => "paid" \in Called(o, patched')
    BY <1>4 DEF PatchOrder, Called
  <2>6. Fits(held, reservation[o].state, Called(o, patched'))
    BY <2>1, <2>5, FitsStays, CalledGrows DEF Moves
  <2>2. Fits(row, reservation[o].state, Called(o, patched'))
    BY <2>5, <2>6 DEF Fits, WithStatus, WithPay
  <2>3. row.status # "none"
    BY DEF WithStatus, WithPay
  <2>4. Write(o, row)
    BY <1>4 DEF PatchOrder
  <2> HIDE DEF row
  <2> QED
    BY <1>a, <1>4, <2>2, <2>3, <2>4, <2>5, ViewEnds DEF PatchOrder, stock
<1>5. ASSUME NEW w \in Worker, NEW n \in ItemCounts, UpdateItems(w, n)
      PROVE  /\ \A p \in Order : OrderFits(p)'
             /\ \A v \in Worker : ViewFits(v)'
  <2>1. \A o \in Order : item'[o] = 0 => reservation[o].state = "none"
    <3>1. DOMAIN item = Order
      BY DEF StockInv, TypeOK
    <3> QED
      BY <1>a, <1>5, <3>1 DEF UpdateItems
  <2> QED
    BY <1>a, <1>5, <2>1, ViewEnds DEF UpdateItems, ViewFits, stock
<1>6. ASSUME NEW w \in Worker, Abandon(w)
      PROVE  /\ \A p \in Order : OrderFits(p)'
             /\ \A v \in Worker : ViewFits(v)'
  BY <1>6, EndFits, ViewWaits DEF Abandon, stock
<1>7. ASSUME NEW w \in Worker, ReadInventory(w)
      PROVE  /\ \A p \in Order : OrderFits(p)'
             /\ \A v \in Worker : ViewFits(v)'
  <2>1. /\ worker'[w].at = "inventory"
        /\ \A v \in Worker \ {w} : worker'[v] = worker[v]
    BY <1>a, <1>7 DEF ReadInventory, Holds
  <2>2. ViewFits(w)'
    BY <2>1 DEF ViewFits
  <2> QED
    BY <1>7, <2>1, <2>2, ViewWaits DEF ReadInventory, stock
<1>8. ASSUME NEW w \in Worker, NEW n \in Counts, SaveInventory(w, n)
      PROVE  /\ \A p \in Order : OrderFits(p)'
             /\ \A v \in Worker : ViewFits(v)'
  BY <1>8, EndFits, ViewWaits DEF SaveInventory
<1>9. CASE UNCHANGED vars
  BY <1>a, <1>9 DEF vars, stock, OrderFits, ViewFits, Exists
<1> QED
  BY <1>1, <1>2, <1>3, <1>4, <1>5, <1>6, <1>7, <1>8, <1>9, PlaceOrderFits,
     MarkAsPaidFits, CancelFits, BeginRefundFits DEF Next

\* Whatever row of an order is stored, or held by a view that may write it back,
\* fits the order's reservation.
THEOREM StockInvariant == Spec => []StockInv
<1> QED
  BY InvInit, InvStep, PTL DEF Spec

\* A cancelled order holds no stock, whatever other requests held its row when
\* it was cancelled and wrote it back later; the only orders called cancelled
\* that may hold some are those a PATCH called so.
THEOREM CancelledIsFree == Spec => []CancelledHoldsNothing
<1>1. StockInv => CancelledHoldsNothing
  BY DEF StockInv, OrderFits, Fits, Called, CancelledHoldsNothing, Holding
<1> QED
  BY <1>1, StockInvariant, PTL

\* An order is paid only with its stock deducted or the failure to deduct it
\* noted, also after a stale write; the only others are those a PATCH called
\* paid.
THEOREM PaidIsNoted == Spec => []PaidIsDeductedOrFlagged
<1>1. StockInv => PaidIsDeductedOrFlagged
  BY DEF StockInv, OrderFits, Fits, Called, PaidIsDeductedOrFlagged
<1> QED
  BY <1>1, StockInvariant, PTL

\* The reservation row takes the variant from stock once for an order, although
\* the stamp that deduct_stock relies on can be erased by a stale write.
THEOREM TakenOnce == Spec => []VariantTakenOnce
<1>1. StockInv => VariantTakenOnce
  BY DEF StockInv, OrderFits, Fits, VariantTakenOnce
<1> QED
  BY <1>1, StockInvariant, PTL

-----------------------------------------------------------------------------
(* The reserved count is what the orders hold *)

Quantities == [o \in Order |-> reservation[o].qty]

\* What an order holds of the variant.
Held(o) == IF reservation[o].state = "reserved" THEN reservation[o].qty ELSE 0

LEMMA HoldingSummable == TypeOK => Summable(Quantities, Holding)
<1>1. Holding \in SUBSET Order
  BY DEF Holding
<1> QED
  BY <1>1, FS_Subset DEF TypeOK, Quantities, Holding, Summable

\* A step that moves one order's reservation, and the count by as much.
LEMMA CountFollows ==
  ASSUME TypeOK, TypeOK', ReservedAccounted, NEW o \in Order,
         \A u \in Order \ {o} : reservation'[u] = reservation[u],
         reserved' + Held(o) = reserved + Held(o)', UNCHANGED drift
  PROVE  ReservedAccounted'
<1> DEFINE before == SumFunctionOnSet(Quantities, Holding)
           after == SumFunctionOnSet(Quantities', Holding')
<1>1. Summable(Quantities, Holding) /\ Summable(Quantities', Holding')
  <2>1. TypeOK' => Summable(Quantities, Holding)'
    BY HoldingSummable, PTL
  <2> QED
    BY <2>1, HoldingSummable DEF Summable
<1>2. before + Share(Quantities', Holding', o)
        = after + Share(Quantities, Holding, o)
  <2>1. Holding \ {o} = Holding' \ {o}
    BY DEF Holding
  <2>2. \A u \in Holding \ {o} : Quantities[u] = Quantities'[u]
    BY DEF Holding, Quantities
  <2> QED
    BY <1>1, <2>1, <2>2, SumMoves
<1>3. /\ Share(Quantities, Holding, o) = Held(o)
      /\ Share(Quantities', Holding', o) = Held(o)'
  BY DEF Share, Quantities, Holding, Held
<1>4. before \in Nat /\ after \in Nat
  BY <1>1, SumType
<1>5. /\ Held(o) \in Nat /\ Held(o)' \in Nat
      /\ reserved \in Nat /\ reserved' \in Nat /\ drift \in Int
  BY DEF Held, TypeOK
<1>6. reserved = drift + before
  BY DEF ReservedAccounted, Quantities
<1> HIDE DEF before, after
<1>7. reserved' = drift' + after
  BY <1>2, <1>3, <1>4, <1>5, <1>6
<1> QED
  BY <1>7 DEF ReservedAccounted, Quantities, after

\* A step that moves neither.
LEMMA CountStays ==
  ASSUME ReservedAccounted, UNCHANGED <<reservation, reserved, drift>>
  PROVE  ReservedAccounted'
BY DEF ReservedAccounted, Holding

LEMMA CountStep ==
  ASSUME StockInv, ReservedAccounted, [Next]_vars
  PROVE  ReservedAccounted'
<1>0. TypeOK /\ TypeOK' /\ (\A o \in Order : item[o] \in Nat) /\ reserved \in Nat
  BY TypeStep DEF StockInv, TypeOK
<1>1. ASSUME NEW o \in Order, PlaceOrder(o) PROVE ReservedAccounted'
  <2>1. CASE UNCHANGED <<reservation, reserved, drift>>
    BY <2>1, CountStays
  <2>2. CASE ~ UNCHANGED <<reservation, reserved, drift>>
    <3>0. UNCHANGED drift
      BY <1>1 DEF PlaceOrder
    <3>1. reservation[o].state = "none"
      BY <1>1 DEF PlaceOrder, StockInv, OrderFits
    <3>2. item[o] # 0
      <4>1. item[o] = 0 => UNCHANGED reservation
        BY <1>1 DEF PlaceOrder
      <4>2. item[o] = 0 => reserved' \in {reserved, reserved + 0}
        BY <1>1 DEF PlaceOrder
      <4>3. reserved + 0 = reserved
        BY <1>0
      <4> QED
        BY <2>2, <3>0, <4>1, <4>2, <4>3
    <3>3. /\ reserved' = reserved + item[o]
          /\ reservation' = [reservation EXCEPT ![o] =
                               [state |-> "reserved", qty |-> item[o]]]
      BY <1>1, <2>2, <3>0, <3>2 DEF PlaceOrder, Reservation
    <3>4. /\ Held(o) = 0 /\ Held(o)' = item[o]
          /\ \A u \in Order \ {o} : reservation'[u] = reservation[u]
      BY <1>0, <3>1, <3>3 DEF Held, TypeOK
    <3>5. reserved' + Held(o) = reserved + Held(o)'
      BY <1>0, <3>3, <3>4
    <3> QED
      BY <1>0, <3>0, <3>4, <3>5, CountFollows
  <2> QED
    BY <2>1, <2>2
<1>2. ASSUME NEW o \in Order, MarkAsPaid(o) PROVE ReservedAccounted'
  <2>1. CASE UNCHANGED <<reservation, reserved, drift>>
    BY <2>1, CountStays
  <2>2. CASE ~ UNCHANGED <<reservation, reserved, drift>>
    <3>1. MayDeduct(o) /\ TakeVariant(o)
      BY <1>2, <2>2 DEF MarkAsPaid, stock
    <3>2. item[o] > 0
      BY <1>0, <2>2, <3>1 DEF TakeVariant
    <3>3. /\ reservation' = [reservation EXCEPT ![o] =
                               [state |-> "consumed", qty |-> item[o]]]
          /\ reserved' = IF reservation[o].state = "none" THEN reserved
                                                        ELSE reserved - item[o]
          /\ UNCHANGED drift
      BY <3>1, <3>2 DEF TakeVariant, Reservation
    <3>4. \/ reservation[o].state = "none"
          \/ reservation[o].state = "reserved" /\ reservation[o].qty = item[o]
      BY <3>1, <3>2 DEF MayDeduct, MayTakeVariant
    <3>5. /\ Held(o)' = 0
          /\ Held(o) = IF reservation[o].state = "none" THEN 0 ELSE item[o]
          /\ \A u \in Order \ {o} : reservation'[u] = reservation[u]
      BY <1>0, <3>3, <3>4 DEF Held, TypeOK
    <3>6. reserved' + Held(o) = reserved + Held(o)'
      BY <1>0, <3>3, <3>5
    <3> QED
      BY <1>0, <3>3, <3>5, <3>6, CountFollows
  <2> QED
    BY <2>1, <2>2
<1>3. ASSUME NEW w \in Worker, Cancel(w) PROVE ReservedAccounted'
  <2> DEFINE o == worker[w].order
             n == reservation[o].qty
  <2>0. o \in Order /\ Release(o)
    BY <1>0, <1>3 DEF Cancel, TypeOK
  <2>1. CASE UNCHANGED <<reservation, reserved, drift>>
    BY <2>1, CountStays
  <2>2. CASE ~ UNCHANGED <<reservation, reserved, drift>>
    <3>1. /\ reservation[o].state = "reserved"
          /\ reservation' = [reservation EXCEPT ![o] =
                               [state |-> "released", qty |-> n]]
          /\ reserved' = reserved - n /\ UNCHANGED drift
      BY <1>3, <2>0, <2>2 DEF Cancel, Release, Reservation
    <3>2. PICK u \in Order : u = o
      BY <2>0
    <3>3. /\ Held(u) = n /\ Held(u)' = 0
          /\ \A v \in Order \ {u} : reservation'[v] = reservation[v]
      BY <1>0, <3>1, <3>2 DEF Held, TypeOK
    <3>4. n \in Nat
      BY <1>0, <2>0 DEF TypeOK
    <3>5. reserved' + Held(u) = reserved + Held(u)'
      BY <1>0, <3>1, <3>3, <3>4
    <3> QED
      BY <1>0, <3>1, <3>3, <3>5, CountFollows
  <2> QED
    BY <2>1, <2>2
<1>4. ASSUME NEW w \in Worker, NEW n \in Counts, SaveInventory(w, n)
      PROVE ReservedAccounted'
  <2> DEFINE n0 == SumFunctionOnSet(Quantities, Holding)
  <2>1. n0 \in Nat /\ n0' = n0
    <3>1. UNCHANGED Quantities /\ UNCHANGED Holding
      BY <1>4 DEF SaveInventory, Quantities, Holding
    <3> QED
      BY <1>0, <3>1, HoldingSummable, SumType
  <2>2. /\ worker[w].reserved \in Nat /\ drift \in Int
        /\ reserved' = worker[w].reserved
        /\ drift' = drift + worker[w].reserved - reserved
    BY <1>0, <1>4 DEF SaveInventory, TypeOK
  <2>3. reserved = drift + n0
    BY DEF ReservedAccounted, Quantities
  <2> HIDE DEF n0
  <2>4. reserved' = drift' + n0'
    BY <1>0, <2>1, <2>2, <2>3
  <2> QED
    BY <2>4 DEF n0, ReservedAccounted, Quantities
<1>5. ASSUME NEW w \in Worker,
             \/ \E o \in Order : ReadOrder(w, o)
             \/ BeginRefund(w) \/ EndRefund(w) \/ Abandon(w)
             \/ \E s \in {"open", "refunded"} : UpdateStatus(w, s)
             \/ \E s \in Status \ {"none"},
                   pay \in {"pending", "paid", "refunded"} : PatchOrder(w, s, pay)
             \/ \E n \in ItemCounts : UpdateItems(w, n)
             \/ ReadInventory(w)
      PROVE ReservedAccounted'
  BY <1>5, CountStays DEF ReadOrder, BeginRefund, EndRefund, Abandon,
       UpdateStatus, PatchOrder, UpdateItems, ReadInventory, stock
<1>6. CASE UNCHANGED vars
  BY <1>6, CountStays DEF vars, stock
<1> QED
  BY <1>1, <1>2, <1>3, <1>4, <1>5, <1>6 DEF Next

\* VariantInventory.reserved is at all times the sum of what the orders hold
\* and of what inventory edits wrote back of changes made since they were read:
\* placing, paying, cancelling, editing, PATCHes and stale order rows keep it.
THEOREM ReservedIsHeld == Spec => []ReservedAccounted
<1>1. Init => ReservedAccounted
  <2> SUFFICES ASSUME Init PROVE ReservedAccounted
    OBVIOUS
  <2>1. Holding = {}
    BY DEF Init, Holding
  <2> QED
    BY <2>1, SumOfNone DEF Init, ReservedAccounted
<1>2. StockInv /\ ReservedAccounted /\ [Next]_vars => ReservedAccounted'
  BY CountStep
<1> QED
  BY <1>1, <1>2, StockInvariant, PTL DEF Spec

\* What an order holds is counted as reserved.
ReleaseCovered == \A o \in Holding : reservation[o].qty <= reserved

\* release_stock_reservations finds less reserved than it is to free, and
\* refuses the cancellation, only after inventory edits have taken more from
\* the reserved count than they have added.
THEOREM ReleaseSucceeds == Spec => [](drift >= 0 => ReleaseCovered)
<1>1. TypeOK /\ ReservedAccounted /\ drift >= 0 => ReleaseCovered
  <2> SUFFICES ASSUME TypeOK, ReservedAccounted, drift >= 0, NEW o \in Holding
               PROVE  reservation[o].qty <= reserved
    BY DEF ReleaseCovered
  <2> DEFINE n == SumFunctionOnSet(Quantities, Holding)
  <2>1. Quantities[o] <= n /\ n \in Nat
    BY HoldingSummable, SumBounds, SumType
  <2>2. Quantities[o] = reservation[o].qty /\ reservation[o].qty \in Nat
    BY DEF Quantities, Holding, TypeOK
  <2>3. reserved = drift + n /\ drift \in Int
    BY DEF ReservedAccounted, Quantities, TypeOK
  <2> HIDE DEF n
  <2> QED
    BY <2>1, <2>2, <2>3
<1> QED
  BY <1>1, ReservedIsHeld, Typing, PTL

=============================================================================
