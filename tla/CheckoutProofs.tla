--------------------------- MODULE CheckoutProofs ---------------------------
(***************************************************************************)
(* Proofs about Checkout, for any number of carts, customers, lines and    *)
(* requests.                                                               *)
(*                                                                         *)
(* The inductive invariant says where a line is (InPlace), what a checkout *)
(* knows by the rows it holds (Sound), and what has been counted (Counted).*)
(*                                                                         *)
(* KnowInv says what a checkout has found out: the coupon that staff wait  *)
(* to lock stays valid, and the card keeps what is to be taken from it.    *)
(***************************************************************************)
EXTENDS Checkout, Sums, FiniteSetTheorems, SequenceTheorems, TLAPS

Ordering == {"read", "priced", "checked", "settled"}

Used == {i \in DOMAIN orders : orders[i].coupon}

\* No two requests hold one row.
Apart == \A v, w \in Worker : v # w => holds[v] \cap holds[w] = {}

\* A line is new, in one cart, or in one order; a checkout has the lines its
\* cart had.  Only a revived line is in two of these at once.
Placed ==
  /\ \A c \in AnyCart : cart[c] \cap unseen = {}
  /\ \A c, d \in AnyCart : c # d => cart[c] \cap cart[d] = {}
  /\ \A i \in DOMAIN orders :
       /\ orders[i].lines \cap unseen = {}
       /\ \A c \in AnyCart : orders[i].lines \cap cart[c] \subseteq revived
  /\ \A w \in Worker : worker[w].at \in Ordering =>
       /\ worker[w].lines \cap unseen = {}
       /\ \A c \in AnyCart \ {worker[w].ask.cart} :
            worker[w].lines \cap cart[c] \subseteq revived
       /\ \A i \in DOMAIN orders :
            worker[w].lines \cap orders[i].lines \subseteq revived
  /\ \A v, w \in Worker :
       v # w /\ worker[v].at \in Ordering /\ worker[w].at \in Ordering
         => worker[v].lines \cap worker[w].lines \subseteq revived
  /\ \A w \in Worker : worker[w].at \in {"line", "merge"}
       => worker[w].lines \cap unseen = {}

\* No line is lost, and none joins a cart while it is being ordered.
Kept ==
  /\ NothingVanishes
  /\ \A w \in Worker : worker[w].at \in Ordering =>
       cart[worker[w].ask.cart] \subseteq worker[w].lines

\* Where the lines are.
InPlace == Placed /\ OrderedOnce /\ Kept

\* What a request in state run knows while it holds rows; and a coupon that is
\* edited was within its limit when it was read.
Sound(run, rows) ==
  /\ run.at \in Ordering => CartRow(run.ask.cart) \in rows
  /\ run.at \in {"checked", "settled"} /\ run.ask.coupon =>
       /\ CouponRow \in rows
       /\ coupon.used < coupon.limit
       /\ UsesBy(CustomerOf[run.ask.cart]) < coupon.each
  /\ run.at = "coupon" => run.row.used <= coupon.limit

\* CouponWithinLimits, said of sets.
Counted ==
  /\ coupon.used + forgotten = Cardinality(Used)
  /\ coupon.used <= coupon.limit
  /\ \A customer \in Customer : UsesBy(customer) <= coupon.each

IInv ==
  /\ TypeOK
  /\ Apart
  /\ \A w \in Worker : Sound(worker[w], holds[w])
  /\ InPlace
  /\ Counted

-----------------------------------------------------------------------------
(* Numbers *)

\* The lesser of two amounts (min, all over the pricing).
LEMMA Lesser ==
  ASSUME NEW a \in Int, NEW b \in Int
  PROVE  /\ Min({a, b}) \in {a, b}
         /\ Min({a, b}) <= a /\ Min({a, b}) <= b
<1>1. \E x \in {a, b} : \A y \in {a, b} : x =< y
  OBVIOUS
<1> QED BY <1>1 DEF Min

\* Lines are counted (subtotal).
LEMMA LineCount ==
  ASSUME NEW S \in SUBSET Line
  PROVE  Cardinality(S) \in Nat
  BY CheckoutAssumption, FS_Subset, FS_CardinalityType

\* So are orders, and their uses of the coupon.
LEMMA UseCount ==
  ASSUME TypeOK, NEW customer
  PROVE  /\ DOMAIN orders = 1 .. Len(orders) /\ Len(orders) \in Nat
         /\ IsFiniteSet(Used) /\ Cardinality(Used) \in Nat
         /\ UsesBy(customer) \in Nat
<1>1. DOMAIN orders = 1 .. Len(orders) /\ Len(orders) \in Nat
  BY DEF TypeOK
<1>2. IsFiniteSet(DOMAIN orders)
  BY <1>1, FS_Interval
<1>3. /\ Used \subseteq DOMAIN orders
      /\ {i \in DOMAIN orders : /\ orders[i].coupon
                                /\ orders[i].customer = customer}
           \subseteq DOMAIN orders
  BY DEF Used
<1> QED BY <1>1, <1>2, <1>3, FS_Subset, FS_CardinalityType DEF UsesBy

\* What the coupon takes off is an amount (_calculate_coupon_discount).
LEMMA DiscountAmount ==
  ASSUME NEW ask, NEW subtotal \in Nat
  PROVE  Discount(ask, subtotal) \in Nat
<1>1. Off \in Nat
  BY CheckoutAssumption
<1>2. Min({Off, subtotal}) \in Nat
  BY <1>1, Lesser
<1> QED BY <1>2 DEF Discount

-----------------------------------------------------------------------------
(* Requests *)

\* What a checkout may name.
LEMMA AskedType ==
  ASSUME NEW ask \in Asked
  PROVE  /\ ask.cart \in Cart /\ ask.cart \in AnyCart
         /\ ask.coupon \in BOOLEAN /\ ask.card \in BOOLEAN
         /\ CustomerOf[ask.cart] \in Customer
  BY CheckoutAssumption DEF AnyCart

\* The fields of a request's record, by where it is.
LEMMA Fields ==
  ASSUME TypeOK, NEW w \in Worker
  PROVE  /\ worker[w] \in Run /\ holds[w] \in SUBSET DBRow
         /\ worker[w].at \in Ordering =>
              worker[w].ask \in Asked /\ worker[w].lines \in SUBSET Line
         /\ worker[w].at = "priced" =>
              worker[w] \in [at: {"priced", "checked"}, ask: Asked,
                             lines: SUBSET Line, subtotal: Nat, off: Nat]
         /\ worker[w].at \in {"priced", "checked", "settled"} =>
              worker[w].subtotal \in Nat /\ worker[w].off \in Nat
         /\ worker[w].at = "settled" =>
              /\ worker[w].card \in 0 .. CardValue
              /\ worker[w].balance \in 0 .. CardValue
         /\ worker[w].at = "card" => worker[w].row \in Card
         /\ worker[w].at = "coupon" => worker[w].row \in Coupon
         /\ worker[w].at \in {"line", "merge"} =>
              worker[w].cart \in Cart /\ worker[w].lines \in SUBSET Line
         /\ worker[w].at = "merge" => worker[w].guest \in Guest
<1>1. worker[w] \in Run /\ holds[w] \in SUBSET DBRow
  BY DEF TypeOK
<1> QED BY <1>1 DEF Run, Ordering

\* A step without an order or a use of the coupon leaves what w knows.
LEMMA SameKnow ==
  ASSUME NEW w \in Worker, Sound(worker[w], holds[w]),
         worker'[w] = worker[w], holds'[w] = holds[w], orders' = orders,
         coupon'.used = coupon.used, coupon'.limit = coupon.limit,
         coupon'.each = coupon.each
  PROVE  Sound(worker[w], holds[w])'
<1>1. (worker[w].at \in Ordering => CartRow(worker[w].ask.cart) \in holds[w])'
  BY DEF Sound, CartRow
<1>2. UsesBy(CustomerOf[worker[w].ask.cart])'
        = UsesBy(CustomerOf[worker[w].ask.cart])
  BY DEF UsesBy
<1> QED BY <1>1, <1>2 DEF Sound, CouponRow

\* A step of a request that writes its own record and locks, and perhaps the
\* card, keeps the invariant if the request knows what it should.
LEMMA Moves ==
  ASSUME IInv, NEW w \in Worker, NEW run \in Run, NEW rows \in SUBSET DBRow,
         worker' = [worker EXCEPT ![w] = run],
         holds' = [holds EXCEPT ![w] = rows],
         \A v \in Worker \ {w} : holds[v] \cap rows = {},
         Sound(run, rows),
         run.at \in Ordering => /\ worker[w].at \in Ordering
                                /\ run.ask = worker[w].ask
                                /\ run.lines = worker[w].lines,
         run.at \in {"line", "merge"} => run.lines \cap unseen = {},
         card' \in Card, redeemed' \in Nat, restored' \in Int,
         overwritten' \in Nat,
         UNCHANGED <<unseen, removed, cart, merged, revived, dropped, coupon,
                     forgotten, orders>>
  PROVE  IInv'
<1>1. TypeOK'
  BY DEF IInv, TypeOK
<1>2. /\ worker'[w] = run /\ holds'[w] = rows
      /\ \A v \in Worker \ {w} : /\ worker'[v] = worker[v]
                                 /\ holds'[v] = holds[v]
  BY DEF IInv, TypeOK
<1>3. Apart'
  BY <1>2 DEF IInv, Apart
<1>4. InPlace'
  <2>1. \A v \in Worker : worker'[v].at \in Ordering =>
          /\ worker[v].at \in Ordering
          /\ worker'[v].ask = worker[v].ask
          /\ worker'[v].lines = worker[v].lines
    BY <1>2
  <2>2. \A v \in Worker : worker'[v].at \in {"line", "merge"}
          => worker'[v].lines \cap unseen = {}
    BY <1>2 DEF IInv, InPlace, Placed
  <2>3. Placed'
    BY <2>1, <2>2 DEF IInv, InPlace, Placed
  <2>4. Kept'
    BY <2>1 DEF IInv, InPlace, Kept, NothingVanishes
  <2>5. OrderedOnce'
    BY DEF IInv, InPlace, OrderedOnce
  <2> QED BY <2>3, <2>4, <2>5 DEF InPlace
<1>5. \A v \in Worker : Sound(worker[v], holds[v])'
  <2>1. \A v \in Worker : Sound(worker'[v], holds'[v])
    BY <1>2 DEF IInv
  <2> QED BY <2>1 DEF Sound, UsesBy, CartRow, CouponRow
<1>6. Counted'
  BY DEF IInv, Counted, Used, UsesBy
<1> QED BY <1>1, <1>3, <1>4, <1>5, <1>6 DEF IInv

\* calculate_order_totals
LEMMA PriceKeeps ==
  ASSUME IInv, NEW w \in Worker, Price(w)
  PROVE  IInv'
<1> DEFINE ask == worker[w].ask
           subtotal == Cardinality(cart[ask.cart])
           run == [at |-> "priced", ask |-> ask, lines |-> worker[w].lines,
                   subtotal |-> subtotal, off |-> Discount(ask, subtotal)]
<1>1. /\ worker[w].at = "read" /\ worker[w].at \in Ordering
      /\ worker' = [worker EXCEPT ![w] = run]
      /\ UNCHANGED <<unseen, removed, cart, merged, revived, dropped, coupon, card,
                     orders, redeemed, restored, forgotten, overwritten, holds>>
  BY DEF Price, Goto, Ordering, goods, money
<1>2. /\ ask \in Asked /\ worker[w].lines \in SUBSET Line
      /\ holds[w] \in SUBSET DBRow
  BY <1>1, Fields DEF IInv
<1>3. run \in Run
  <2>1. subtotal \in Nat
    BY <1>2, AskedType, LineCount DEF IInv, TypeOK
  <2>2. Discount(ask, subtotal) \in Nat
    BY <2>1, DiscountAmount
  <2> HIDE DEF ask, subtotal
  <2> QED BY <1>2, <2>1, <2>2 DEF Run, ask
<1>4. Sound(run, holds[w])
  BY <1>1 DEF IInv, Sound, Ordering
<1>5. /\ holds' = [holds EXCEPT ![w] = holds[w]]
      /\ \A v \in Worker \ {w} : holds[v] \cap holds[w] = {}
      /\ card' \in Card /\ redeemed' \in Nat /\ restored' \in Int
      /\ overwritten' \in Nat
  BY <1>1 DEF IInv, TypeOK, Apart
<1>6. run.at = "priced" /\ run.ask = worker[w].ask /\ run.lines = worker[w].lines
  OBVIOUS
<1> HIDE DEF run
<1> QED BY <1>1, <1>2, <1>3, <1>4, <1>5, <1>6, Moves

\* create_order_from_cart locks the coupon and validates it.
LEMMA CheckCouponKeeps ==
  ASSUME IInv, NEW w \in Worker, CheckCoupon(w)
  PROVE  IInv'
<1> DEFINE ask == worker[w].ask
           run == [worker[w] EXCEPT !.at = "checked"]
<1>1. /\ worker[w].at = "priced" /\ worker[w].at \in Ordering
      /\ worker' = [worker EXCEPT ![w] = run]
      /\ UNCHANGED <<unseen, removed, cart, merged, revived, dropped, coupon, card,
                     orders, redeemed, restored, forgotten, overwritten>>
      /\ Sound(worker[w], holds[w])
  BY DEF CheckCoupon, Goto, Ordering, IInv, goods, money
<1>2. /\ run \in [at: {"priced", "checked"}, ask: Asked, lines: SUBSET Line,
                  subtotal: Nat, off: Nat]
      /\ run.at = "checked" /\ run.ask = ask /\ run.lines = worker[w].lines
  BY <1>1, Fields DEF IInv
<1>3. run \in Run
  BY <1>2 DEF Run
<1>4. /\ card' \in Card /\ redeemed' \in Nat /\ restored' \in Int
      /\ overwritten' \in Nat
  BY <1>1 DEF IInv, TypeOK
<1> HIDE DEF run
<1>5. CASE ask.coupon
  <2> DEFINE rows == holds[w] \cup {CouponRow}
  <2>1. rows \in SUBSET DBRow
    BY Fields DEF IInv, CouponRow, DBRow
  <2>2. /\ holds' = [holds EXCEPT ![w] = rows]
        /\ \A v \in Worker \ {w} : holds[v] \cap rows = {}
        /\ Valid(CustomerOf[ask.cart])
    BY <1>5 DEF CheckCoupon, Lock, Free, IInv, Apart
  <2>3. Sound(run, rows)
    BY <1>1, <1>2, <2>2 DEF Sound, Valid, Ordering
  <2> QED BY <1>1, <1>2, <1>3, <1>4, <2>1, <2>2, <2>3, Moves
<1>6. CASE ~ ask.coupon
  <2>1. /\ holds' = [holds EXCEPT ![w] = holds[w]]
        /\ \A v \in Worker \ {w} : holds[v] \cap holds[w] = {}
        /\ holds[w] \in SUBSET DBRow
    BY <1>6 DEF CheckCoupon, IInv, Apart, TypeOK
  <2>2. Sound(run, holds[w])
    BY <1>1, <1>2, <1>6 DEF Sound, Ordering
  <2> QED BY <1>1, <1>2, <1>3, <1>4, <2>1, <2>2, Moves
<1> QED BY <1>5, <1>6

\* It locks the card, which pays no more than it has.
LEMMA TakeCardKeeps ==
  ASSUME IInv, NEW w \in Worker, TakeCard(w)
  PROVE  IInv'
<1> DEFINE amount == Min({card.balance, worker[w].subtotal - worker[w].off})
<1>1. /\ worker[w].at = "checked" /\ worker[w].at \in Ordering
      /\ UNCHANGED <<unseen, removed, cart, merged, revived, dropped, coupon, card,
                     orders, redeemed, restored, forgotten, overwritten>>
      /\ Sound(worker[w], holds[w])
      /\ card' \in Card /\ redeemed' \in Nat /\ restored' \in Int
      /\ overwritten' \in Nat
  BY DEF TakeCard, Ordering, IInv, TypeOK, goods, money
<1>2. /\ worker[w].ask \in Asked /\ worker[w].lines \in SUBSET Line
      /\ worker[w].subtotal \in Nat /\ worker[w].off \in Nat
      /\ holds[w] \in SUBSET DBRow
  BY <1>1, Fields DEF IInv
<1>3. CASE worker[w].ask.card
  <2> DEFINE run == Settled(w, amount, card.balance - amount)
             rows == holds[w] \cup {CardRow}
  <2>1. card.balance \in 0 .. CardValue /\ CardValue \in Nat
    BY CheckoutAssumption DEF IInv, TypeOK, Card
  <2>2. /\ worker' = [worker EXCEPT ![w] = run]
        /\ holds' = [holds EXCEPT ![w] = rows]
        /\ \A v \in Worker \ {w} : holds[v] \cap rows = {}
        /\ amount > 0
    BY <1>3 DEF TakeCard, Lock, Free, Goto, IInv, Apart
  <2>3. amount \in Int /\ amount <= card.balance
    <3>1. card.balance \in Int /\ worker[w].subtotal - worker[w].off \in Int
      BY <1>2, <2>1
    <3>2. amount \in {card.balance, worker[w].subtotal - worker[w].off}
            /\ amount <= card.balance
      BY <3>1, Lesser
    <3> QED BY <3>1, <3>2
  <2> HIDE DEF amount
  <2>4. amount \in 0 .. CardValue /\ card.balance - amount \in 0 .. CardValue
    BY <2>1, <2>2, <2>3
  <2>5. /\ run \in Run /\ run.at = "settled" /\ run.ask = worker[w].ask
        /\ run.lines = worker[w].lines
    BY <1>2, <2>4 DEF Run, Settled
  <2>6. rows \in SUBSET DBRow
    BY <1>2 DEF CardRow, DBRow
  <2> HIDE DEF run
  <2>7. Sound(run, rows)
    BY <1>1, <2>5 DEF Sound, Ordering
  <2> QED BY <1>1, <2>2, <2>5, <2>6, <2>7, Moves
<1>4. CASE ~ worker[w].ask.card
  <2> DEFINE run == Settled(w, 0, 0)
  <2>1. /\ run \in Run /\ run.at = "settled" /\ run.ask = worker[w].ask
        /\ run.lines = worker[w].lines
    BY <1>2, CheckoutAssumption DEF Run, Settled
  <2>2. /\ worker' = [worker EXCEPT ![w] = run]
        /\ holds' = [holds EXCEPT ![w] = holds[w]]
        /\ \A v \in Worker \ {w} : holds[v] \cap holds[w] = {}
    BY <1>4 DEF TakeCard, Goto, IInv, TypeOK, Apart
  <2> HIDE DEF run
  <2>3. Sound(run, holds[w])
    BY <1>1, <2>1 DEF Sound, Ordering
  <2> QED BY <1>1, <1>2, <2>1, <2>2, <2>3, Moves
<1> QED BY <1>3, <1>4

\* A request that stops, that reads a row to write it later, or a staff
\* member's save of the card.
LEMMA AsideKeeps ==
  ASSUME IInv, NEW w \in Worker,
         \/ Abort(w) \/ ReadCard(w) \/ SaveCard(w) \/ ReadCoupon(w)
         \/ DropEdit(w)
         \/ \E c \in Cart : ReadLine(w, c)
         \/ \E c \in Cart, g \in Guest : BeginMerge(w, g, c)
  PROVE  IInv'
<1>1. UNCHANGED <<unseen, removed, cart, merged, revived, dropped, coupon,
                  forgotten, orders, redeemed>>
  BY DEF Abort, ReadCard, SaveCard, ReadCoupon, DropEdit, ReadLine, BeginMerge,
         goods, money
<1>2. /\ card' \in Card /\ redeemed' \in Nat /\ restored' \in Int
      /\ overwritten' \in Nat
  <2>0. /\ card \in Card /\ redeemed \in Nat /\ restored \in Int
        /\ overwritten \in Nat /\ CardValue \in Nat
    BY CheckoutAssumption DEF IInv, TypeOK
  <2>1. CASE SaveCard(w)
    <3> DEFINE row == worker[w].row
    <3>1. /\ row \in Card
          /\ card' = [row EXCEPT !.active = ~ @]
          /\ restored' = restored + row.balance - card.balance
          /\ \/ UNCHANGED overwritten
             \/ overwritten' = overwritten + 1
      BY <2>1, Fields DEF SaveCard, Overwrites, IInv
    <3> HIDE DEF row
    <3>2. row.balance \in Int /\ card.balance \in Int
      BY <2>0, <3>1 DEF Card
    <3>3. card' \in Card
      BY <3>1 DEF Card
    <3> QED BY <1>1, <2>0, <3>1, <3>2, <3>3
  <2>2. CASE UNCHANGED <<card, restored, overwritten>>
    BY <1>1, <2>0, <2>2
  <2> QED BY <2>1, <2>2 DEF Abort, ReadCard, ReadCoupon, DropEdit, ReadLine,
                            BeginMerge, money
<1>3. PICK run \in Run, rows \in {{}, holds[w]} :
        /\ worker' = [worker EXCEPT ![w] = run]
        /\ holds' = [holds EXCEPT ![w] = rows]
        /\ run.at \in {"idle", "card", "coupon", "line", "merge"}
        /\ run.at \in {"line", "merge"} => run.lines \cap unseen = {}
        /\ run.at = "coupon" => run.row = coupon
  <2> DEFINE Fine(run) ==
        /\ run \in Run
        /\ run.at \in {"idle", "card", "coupon", "line", "merge"}
        /\ run.at \in {"line", "merge"} => run.lines \cap unseen = {}
        /\ run.at = "coupon" => run.row = coupon
  <2>1. /\ Fine(Idle)
        /\ Fine([at |-> "card", row |-> card])
        /\ Fine([at |-> "coupon", row |-> coupon])
    BY DEF Idle, Run, IInv, TypeOK
  <2>2. holds = [holds EXCEPT ![w] = holds[w]]
    BY DEF IInv, TypeOK
  <2>3. \A c \in AnyCart : cart[c] \subseteq Line /\ cart[c] \cap unseen = {}
    BY DEF IInv, TypeOK, InPlace, Placed
  <2>4. PICK run : Fine(run) /\ worker' = [worker EXCEPT ![w] = run]
    <3>1. CASE Abort(w) \/ SaveCard(w) \/ DropEdit(w)
      BY <2>1, <3>1 DEF Abort, SaveCard, DropEdit, End, Goto
    <3>2. CASE ReadCard(w)
      BY <2>1, <3>2 DEF ReadCard, Goto
    <3>3. CASE ReadCoupon(w)
      BY <2>1, <3>3 DEF ReadCoupon, Goto
    <3>4. CASE \E c \in Cart : ReadLine(w, c)
      <4>1. PICK c \in Cart : \E l \in cart[c] : worker' = [worker EXCEPT
              ![w] = [at |-> "line", cart |-> c, lines |-> {l}]]
        BY <3>4 DEF ReadLine, Goto
      <4>2. \A l \in cart[c] : Fine([at |-> "line", cart |-> c, lines |-> {l}])
        BY <2>3 DEF Run, AnyCart
      <4> QED BY <4>1, <4>2
    <3>5. CASE \E c \in Cart, g \in Guest : BeginMerge(w, g, c)
      <4>1. PICK c \in Cart, g \in Guest :
              worker' = [worker EXCEPT ![w] =
                [at |-> "merge", guest |-> g, cart |-> c, lines |-> cart[g]]]
        BY <3>5 DEF BeginMerge, Goto
      <4>2. Fine([at |-> "merge", guest |-> g, cart |-> c, lines |-> cart[g]])
        BY <2>3 DEF Run, AnyCart
      <4> QED BY <4>1, <4>2
    <3> QED BY <3>1, <3>2, <3>3, <3>4, <3>5
  <2>5. holds' = [holds EXCEPT ![w] = {}] \/ holds' = holds
    BY DEF Abort, ReadCard, SaveCard, ReadCoupon, DropEdit, ReadLine,
           BeginMerge, End
  <2> QED BY <2>2, <2>4, <2>5
<1>4. Sound(run, rows) /\ run.at \notin Ordering
  BY <1>3 DEF Sound, Ordering, IInv, Counted
<1>5. rows \in SUBSET DBRow /\ \A v \in Worker \ {w} : holds[v] \cap rows = {}
  BY Fields DEF IInv, Apart
<1> QED BY <1>1, <1>2, <1>3, <1>4, <1>5, Moves

\* redeem
LEMMA RedeemKeeps ==
  ASSUME IInv, Redeem
  PROVE  IInv'
<1>1. UNCHANGED <<unseen, removed, cart, merged, revived, dropped, coupon,
                  restored, forgotten, orders, worker, holds, overwritten>>
  BY DEF Redeem, goods
<1>2. card' \in Card /\ redeemed' \in Nat
  <2>1. PICK amount \in 1 .. card.balance :
          /\ card' = [balance |-> card.balance - amount,
                      active |-> card.balance > amount]
          /\ redeemed' = redeemed + amount
    BY DEF Redeem
  <2>2. card.balance \in 0 .. CardValue /\ redeemed \in Nat
    BY DEF IInv, TypeOK, Card
  <2>3. CardValue \in Nat
    BY CheckoutAssumption
  <2>4. card.balance - amount \in 0 .. CardValue
    BY <2>2, <2>3
  <2> QED BY <2>1, <2>2, <2>4 DEF Card
<1>3. TypeOK'
  BY <1>1, <1>2 DEF IInv, TypeOK
<1>4. \A w \in Worker : Sound(worker[w], holds[w])'
  BY <1>1, SameKnow DEF IInv
<1>5. Apart' /\ InPlace'
  BY <1>1 DEF IInv, Apart, InPlace, Placed, OrderedOnce, Kept, NothingVanishes
<1>6. Counted'
  BY <1>1 DEF IInv, Counted, Used, UsesBy
<1> QED BY <1>3, <1>4, <1>5, <1>6 DEF IInv

\* A step of a shopper: lines join carts that are not being ordered, others
\* leave them.
LEMMA LinesMove ==
  ASSUME IInv, NEW joins,
         UNCHANGED <<coupon, card, orders, redeemed, restored, forgotten, holds>>,
         \A w \in Worker : worker'[w] = worker[w] \/ worker'[w] = Idle,
         worker' \in [Worker -> Run], overwritten' \in Nat,
         unseen' \subseteq unseen, removed' \subseteq Line,
         merged' \subseteq Guest, dropped' \subseteq Line,
         revived \subseteq revived', revived' \subseteq Line,
         cart' \in [AnyCart -> SUBSET Line],
         \A c \in AnyCart : joins[c] # {} => Free(CartRow(c)),
         \A c \in AnyCart : cart'[c] \subseteq cart[c] \cup joins[c],
         \A c, d \in AnyCart : c # d => cart'[c] \cap cart'[d] = {},
         \A c \in AnyCart : cart'[c] \cap unseen' = {},
         \A c \in AnyCart, i \in DOMAIN orders :
           joins[c] \cap orders[i].lines \subseteq revived',
         \A c \in AnyCart, w \in Worker : worker[w].at \in Ordering =>
           joins[c] \cap worker[w].lines \subseteq revived',
         NothingVanishes'
  PROVE  IInv'
<1>1. TypeOK'
  BY DEF IInv, TypeOK
<1>2. Idle.at \notin Ordering \cup {"line", "merge", "coupon"}
  BY DEF Idle, Ordering
<1>3. \A w \in Worker : worker'[w].at \in Ordering \cup {"line", "merge"}
        => worker'[w] = worker[w]
  BY <1>2
<1>4. Placed'
  <2>0. Placed
    BY DEF IInv, InPlace
  <2>1. \A i \in DOMAIN orders :
          /\ orders[i].lines \cap unseen' = {}
          /\ \A c \in AnyCart : orders[i].lines \cap cart'[c] \subseteq revived'
    BY <2>0 DEF Placed
  <2>2. \A w \in Worker : worker[w].at \in Ordering =>
          /\ worker[w].lines \cap unseen' = {}
          /\ \A c \in AnyCart \ {worker[w].ask.cart} :
               worker[w].lines \cap cart'[c] \subseteq revived'
          /\ \A i \in DOMAIN orders :
               worker[w].lines \cap orders[i].lines \subseteq revived'
    BY <2>0 DEF Placed
  <2>3. \A v, w \in Worker :
          v # w /\ worker[v].at \in Ordering /\ worker[w].at \in Ordering
            => worker[v].lines \cap worker[w].lines \subseteq revived'
    BY <2>0 DEF Placed
  <2>4. \A w \in Worker : worker[w].at \in {"line", "merge"}
          => worker[w].lines \cap unseen' = {}
    BY <2>0 DEF Placed
  <2>5. \A w \in Worker : worker'[w].at \in Ordering =>
          worker'[w] = worker[w] /\ worker[w].at \in Ordering
    BY <1>3
  <2>6. \A w \in Worker : worker'[w].at \in {"line", "merge"} =>
          worker'[w] = worker[w] /\ worker[w].at \in {"line", "merge"}
    BY <1>3
  <2> QED BY <2>1, <2>2, <2>3, <2>4, <2>5, <2>6 DEF Placed
<1>5. Kept'
  <2>1. ASSUME NEW w \in Worker, worker[w].at \in Ordering
        PROVE  cart'[worker[w].ask.cart] \subseteq worker[w].lines
    <3>1. CartRow(worker[w].ask.cart) \in holds[w]
      BY <2>1 DEF IInv, Sound
    <3>2. worker[w].ask.cart \in AnyCart
      BY <2>1, Fields, AskedType DEF IInv
    <3>3. joins[worker[w].ask.cart] = {}
      BY <3>1, <3>2 DEF Free
    <3> QED BY <2>1, <3>2, <3>3 DEF IInv, InPlace, Kept
  <2> QED BY <1>3, <2>1 DEF Kept
<1>6. OrderedOnce'
  BY DEF IInv, InPlace, OrderedOnce
<1>7. \A w \in Worker : Sound(worker[w], holds[w])'
  <2>1. ASSUME NEW w \in Worker, worker'[w] = worker[w]
        PROVE  Sound(worker[w], holds[w])'
    BY <2>1, SameKnow DEF IInv
  <2>2. ASSUME NEW w \in Worker, worker'[w] = Idle
        PROVE  Sound(worker[w], holds[w])'
    BY <1>2, <2>2 DEF Sound, Ordering
  <2> QED BY <2>1, <2>2
<1>8. Apart' /\ Counted'
  BY DEF IInv, Apart, Counted, Used, UsesBy
<1> QED BY <1>1, <1>4, <1>5, <1>6, <1>7, <1>8 DEF IInv, InPlace

\* add_to_cart puts a new line in a cart.
LEMMA AddKeeps ==
  ASSUME IInv, NEW c \in AnyCart, AddToCart(c)
  PROVE  IInv'
<1>1. PICK l \in unseen :
        /\ Free(CartRow(c))
        /\ unseen' = unseen \ {l}
        /\ cart' = [cart EXCEPT ![c] = @ \cup {l}]
        /\ UNCHANGED <<removed, merged, revived, dropped, coupon, card, orders,
                       redeemed, restored, forgotten, worker, holds, overwritten>>
  BY DEF AddToCart, money
<1> DEFINE joins == [d \in AnyCart |-> IF d = c THEN {l} ELSE {}]
<1>2. /\ unseen' \subseteq unseen /\ removed' \subseteq Line
      /\ merged' \subseteq Guest /\ dropped' \subseteq Line
      /\ revived \subseteq revived' /\ revived' \subseteq Line
      /\ cart' \in [AnyCart -> SUBSET Line] /\ overwritten' \in Nat
      /\ worker' \in [Worker -> Run]
      /\ \A w \in Worker : worker'[w] = worker[w]
      /\ \A d \in AnyCart : cart'[d] = cart[d] \cup joins[d]
  BY <1>1 DEF IInv, TypeOK
<1>3. \A d \in AnyCart : joins[d] # {} => d = c /\ joins[d] = {l}
  OBVIOUS
<1> HIDE DEF joins
<1>4. /\ \A d \in AnyCart : cart[d] \cap unseen = {}
      /\ \A i \in DOMAIN orders : orders[i].lines \cap {l} = {}
      /\ \A w \in Worker : worker[w].at \in Ordering
           => worker[w].lines \cap {l} = {}
      /\ \A d, e \in AnyCart : d # e => cart[d] \cap cart[e] = {}
  BY <1>1 DEF IInv, InPlace, Placed
<1>5. /\ \A d, e \in AnyCart : d # e => cart'[d] \cap cart'[e] = {}
      /\ \A d \in AnyCart : cart'[d] \cap unseen' = {}
  BY <1>1, <1>2, <1>3, <1>4
<1>6. NothingVanishes'
  <2>1. l \in cart'[c]
    BY <1>1 DEF IInv, TypeOK
  <2>2. \A d \in AnyCart : cart[d] \subseteq cart'[d]
    BY <1>2
  <2> QED BY <1>1, <2>1, <2>2 DEF IInv, InPlace, Kept, NothingVanishes, TypeOK
<1>7. /\ \A d \in AnyCart : joins[d] # {} => Free(CartRow(d))
      /\ \A d \in AnyCart, i \in DOMAIN orders :
           joins[d] \cap orders[i].lines \subseteq revived'
      /\ \A d \in AnyCart, w \in Worker : worker[w].at \in Ordering =>
           joins[d] \cap worker[w].lines \subseteq revived'
  BY <1>1, <1>3, <1>4
<1> QED BY <1>1, <1>2, <1>5, <1>6, <1>7, LinesMove

\* remove_from_cart and clear_cart take lines out.
LEMMA RemoveKeeps ==
  ASSUME IInv, NEW c \in AnyCart, RemoveFromCart(c)
  PROVE  IInv'
<1>1. PICK gone \in {{l} : l \in cart[c]} \cup {cart[c]} :
        /\ cart' = [cart EXCEPT ![c] = @ \ gone]
        /\ removed' = removed \cup gone
        /\ UNCHANGED <<unseen, merged, revived, dropped, coupon, card, orders,
                       redeemed, restored, forgotten, worker, holds, overwritten>>
  BY DEF RemoveFromCart, money
<1> DEFINE joins == [d \in AnyCart |-> {}]
<1>2. gone \subseteq cart[c]
  OBVIOUS
<1>3. /\ unseen' \subseteq unseen /\ removed' \subseteq Line
      /\ merged' \subseteq Guest /\ dropped' \subseteq Line
      /\ revived \subseteq revived' /\ revived' \subseteq Line
      /\ cart' \in [AnyCart -> SUBSET Line] /\ overwritten' \in Nat
      /\ worker' \in [Worker -> Run]
      /\ \A w \in Worker : worker'[w] = worker[w]
      /\ \A d \in AnyCart : cart'[d] \subseteq cart[d]
  BY <1>1, <1>2 DEF IInv, TypeOK
<1>4. \A d \in AnyCart : joins[d] = {}
  OBVIOUS
<1> HIDE DEF joins
<1>5. NothingVanishes'
  <2>1. \A d \in AnyCart : cart[d] \subseteq cart'[d] \cup removed'
    BY <1>1, <1>2 DEF IInv, TypeOK
  <2> QED BY <1>1, <1>3, <2>1 DEF IInv, InPlace, Kept, NothingVanishes, TypeOK
<1>6. /\ \A d, e \in AnyCart : d # e => cart'[d] \cap cart'[e] = {}
      /\ \A d \in AnyCart : cart'[d] \cap unseen' = {}
  BY <1>3 DEF IInv, InPlace, Placed
<1> QED BY <1>1, <1>3, <1>4, <1>5, <1>6, LinesMove

\* update_item saves a row it has read, in the cart where it was: if it had
\* left that cart it is revived.
LEMMA SaveLineKeeps ==
  ASSUME IInv, NEW w \in Worker, SaveLine(w)
  PROVE  IInv'
<1> DEFINE c == worker[w].cart
           lines == worker[w].lines
           gone == lines \ cart[c]
           joins == [d \in AnyCart |-> IF d = c THEN gone ELSE {}]
<1>1. /\ gone # {} => Free(CartRow(c))
      /\ cart' = [d \in AnyCart |-> IF d = c THEN cart[c] \cup lines
                                             ELSE cart[d] \ lines]
      /\ revived' = revived \cup gone
      /\ overwritten' = overwritten \/ overwritten' = overwritten + 1
      /\ worker' = [worker EXCEPT ![w] = Idle]
      /\ UNCHANGED <<unseen, removed, merged, dropped, coupon, card, orders,
                     redeemed, restored, forgotten, holds>>
      /\ c \in AnyCart /\ lines \subseteq Line
      /\ lines \cap unseen = {}
  BY Fields DEF SaveLine, Goto, Overwrites, IInv, AnyCart, InPlace, Placed, money
<1>2. /\ \A d \in AnyCart : joins[d] # {} => d = c /\ joins[d] = gone
      /\ joins[c] = gone
  BY <1>1
<1> HIDE DEF c, lines, joins
<1>3. /\ unseen' \subseteq unseen /\ removed' \subseteq Line
      /\ merged' \subseteq Guest /\ dropped' \subseteq Line
      /\ revived \subseteq revived' /\ revived' \subseteq Line
      /\ overwritten' \in Nat
      /\ worker' \in [Worker -> Run]
      /\ \A v \in Worker : worker'[v] = worker[v] \/ worker'[v] = Idle
  BY <1>1 DEF IInv, TypeOK, Idle, Run
<1>4. /\ cart'[c] = cart[c] \cup gone /\ lines \subseteq cart'[c]
      /\ \A d \in AnyCart \ {c} : cart'[d] = cart[d] \ lines
  BY <1>1
<1>5. cart' \in [AnyCart -> SUBSET Line]
  BY <1>1 DEF IInv, TypeOK
<1>6. \A d \in AnyCart : cart'[d] \subseteq cart[d] \cup joins[d]
  BY <1>2, <1>4
<1>7. /\ \A d, e \in AnyCart : d # e => cart[d] \cap cart[e] = {}
      /\ \A d \in AnyCart : cart[d] \cap unseen = {}
  BY DEF IInv, InPlace, Placed
<1>8. /\ \A d \in AnyCart \ {c} : cart'[d] \cap cart'[c] = {}
      /\ \A d, e \in AnyCart \ {c} : d # e => cart'[d] \cap cart'[e] = {}
      /\ \A d \in AnyCart : cart'[d] \cap unseen' = {}
  BY <1>1, <1>4, <1>7
<1>9. \A d, e \in AnyCart : d # e => cart'[d] \cap cart'[e] = {}
  BY <1>8
<1>10. NothingVanishes'
  <2>1. \A d \in AnyCart : cart[d] \subseteq cart'[d] \cup cart'[c]
    BY <1>4
  <2> QED BY <1>1, <1>3, <1>5, <2>1 DEF IInv, InPlace, Kept, NothingVanishes,
                                        TypeOK
<1>11. /\ \A d \in AnyCart : joins[d] # {} => Free(CartRow(d))
       /\ \A d \in AnyCart : joins[d] \subseteq revived'
  BY <1>1, <1>2
<1> HIDE DEF gone
<1> QED BY <1>1, <1>3, <1>5, <1>6, <1>8, <1>9, <1>10, <1>11, LinesMove

\* merge_guest_cart_to_customer moves a guest's lines to a customer's cart; of
\* these, such as had left the guest's cart are revived.
LEMMA MergeKeeps ==
  ASSUME IInv, NEW w \in Worker, FinishMerge(w)
  PROVE  IInv'
<1> DEFINE g == worker[w].guest
           c == worker[w].cart
           lines == worker[w].lines
           gone == lines \ (cart[g] \cup cart[c])
           new == lines \ cart[c]
           joins == [d \in AnyCart |-> IF d = c THEN new ELSE {}]
<1>1. /\ new # {} => Free(CartRow(c))
      /\ cart' = [d \in AnyCart |-> CASE d = c -> cart[c] \cup lines
                                      [] d = g -> {}
                                      [] OTHER -> cart[d] \ lines]
      /\ merged' = merged \cup {g}
      /\ revived' = revived \cup gone
      /\ dropped' = dropped \cup (cart[g] \ lines)
      /\ overwritten' = overwritten \/ overwritten' = overwritten + 1
      /\ worker' = [worker EXCEPT ![w] = Idle]
      /\ UNCHANGED <<unseen, removed, coupon, card, orders, redeemed, restored,
                     forgotten, holds>>
      /\ c \in Cart /\ g \in Guest /\ lines \subseteq Line
      /\ lines \cap unseen = {}
  BY Fields DEF FinishMerge, Goto, Overwrites, IInv, InPlace, Placed, money
<1>2. c \in AnyCart /\ g \in AnyCart /\ c # g
  BY <1>1, CheckoutAssumption DEF AnyCart
<1>3. /\ \A d \in AnyCart : joins[d] # {} => d = c /\ joins[d] = new
      /\ joins[c] = new
  BY <1>2
<1> HIDE DEF g, c, lines, joins
<1>4. /\ unseen' \subseteq unseen /\ removed' \subseteq Line
      /\ merged' \subseteq Guest /\ dropped' \subseteq Line
      /\ revived \subseteq revived' /\ revived' \subseteq Line
      /\ overwritten' \in Nat
      /\ worker' \in [Worker -> Run]
      /\ \A v \in Worker : worker'[v] = worker[v] \/ worker'[v] = Idle
  BY <1>1, <1>2 DEF IInv, TypeOK, Idle, Run
<1>5. /\ cart'[c] = cart[c] \cup new /\ lines \subseteq cart'[c]
      /\ cart'[g] = {}
      /\ \A d \in AnyCart \ {c, g} : cart'[d] = cart[d] \ lines
  BY <1>1, <1>2
<1>6. cart' \in [AnyCart -> SUBSET Line]
  <2>1. \A d \in AnyCart : cart'[d] \in SUBSET Line
    BY <1>1, <1>2, <1>5 DEF IInv, TypeOK
  <2> QED BY <1>1, <2>1
<1>7. \A d \in AnyCart : cart'[d] \subseteq cart[d] \cup joins[d]
  BY <1>2, <1>3, <1>5
<1>8. /\ \A d, e \in AnyCart : d # e => cart[d] \cap cart[e] = {}
      /\ \A d \in AnyCart : cart[d] \cap unseen = {}
  BY DEF IInv, InPlace, Placed
<1>9. /\ \A d \in AnyCart \ {c} : cart'[d] \cap cart'[c] = {}
      /\ \A d, e \in AnyCart \ {c} : d # e => cart'[d] \cap cart'[e] = {}
      /\ \A d \in AnyCart : cart'[d] \cap unseen' = {}
  BY <1>1, <1>2, <1>5, <1>8
<1>10. \A d, e \in AnyCart : d # e => cart'[d] \cap cart'[e] = {}
  BY <1>9
<1>11. NothingVanishes'
  <2>1. \A d \in AnyCart : cart[d] \subseteq cart'[d] \cup cart'[c] \cup dropped'
    BY <1>1, <1>2, <1>5
  <2> QED BY <1>1, <1>2, <1>4, <1>6, <2>1 DEF IInv, InPlace, Kept,
                                              NothingVanishes, TypeOK
<1>12. new \subseteq revived' \cup cart[g]
  BY <1>1
<1> HIDE DEF new, gone
<1>13. \A i \in DOMAIN orders : new \cap orders[i].lines \subseteq revived'
  <2>1. \A i \in DOMAIN orders : orders[i].lines \cap cart[g] \subseteq revived
    BY <1>2 DEF IInv, InPlace, Placed
  <2> QED BY <1>4, <1>12, <2>1
<1>14. ASSUME NEW v \in Worker, worker[v].at \in Ordering
       PROVE  new \cap worker[v].lines \subseteq revived'
  <2>1. g # worker[v].ask.cart
    BY <1>1, <1>14, Fields, AskedType, CheckoutAssumption DEF IInv
  <2>2. worker[v].lines \cap cart[g] \subseteq revived
    BY <1>2, <1>14, <2>1 DEF IInv, InPlace, Placed
  <2> QED BY <1>4, <1>12, <2>2
<1>15. /\ \A d \in AnyCart : joins[d] # {} => Free(CartRow(d))
       /\ \A d \in AnyCart : joins[d] = {} \/ joins[d] = new
  BY <1>1, <1>3
<1>16. /\ \A d \in AnyCart, i \in DOMAIN orders :
            joins[d] \cap orders[i].lines \subseteq revived'
       /\ \A d \in AnyCart, v \in Worker : worker[v].at \in Ordering =>
            joins[d] \cap worker[v].lines \subseteq revived'
  BY <1>13, <1>14, <1>15
<1> QED BY <1>1, <1>4, <1>6, <1>7, <1>9, <1>10, <1>11, <1>15, <1>16, LinesMove

\* create_order_from_cart locks the cart and reads its lines.
LEMMA BeginCheckoutKeeps ==
  ASSUME IInv, NEW w \in Worker, NEW ask \in Asked, BeginCheckout(w, ask)
  PROVE  IInv'
<1> DEFINE run == [at |-> "read", ask |-> ask, lines |-> cart[ask.cart]]
<1>1. /\ UNCHANGED <<unseen, removed, cart, merged, revived, dropped, coupon,
                     card, orders, redeemed, restored, forgotten, overwritten>>
      /\ worker' = [worker EXCEPT ![w] = run]
      /\ holds' = [holds EXCEPT ![w] = @ \cup {CartRow(ask.cart)}]
      /\ \A v \in Worker : CartRow(ask.cart) \notin holds[v]
  BY DEF BeginCheckout, Lock, Free, Goto, goods, money
<1>2. /\ ask.cart \in Cart /\ run \in Run
      /\ run.at = "read" /\ run.ask = ask /\ run.lines = cart[ask.cart]
  BY AskedType DEF IInv, TypeOK, Run
<1> HIDE DEF run
<1>3. /\ worker'[w] = run
      /\ holds'[w] = holds[w] \cup {CartRow(ask.cart)}
      /\ \A v \in Worker \ {w} : worker'[v] = worker[v] /\ holds'[v] = holds[v]
  BY <1>1 DEF IInv, TypeOK
<1>4. TypeOK'
  <2>1. {CartRow(ask.cart)} \subseteq DBRow
    BY <1>2 DEF CartRow, DBRow
  <2> QED BY <1>1, <1>2, <1>3, <2>1 DEF IInv, TypeOK
<1>5. Apart'
  BY <1>1, <1>3 DEF IInv, Apart
<1>6. InPlace'
  <2>0. Placed /\ OrderedOnce /\ Kept /\ ask.cart \in AnyCart
    BY <1>2 DEF IInv, InPlace, AnyCart
  <2>1. \A v \in Worker \ {w} : worker[v].at \in Ordering =>
          worker[v].ask.cart # ask.cart
    BY <1>1 DEF IInv, Sound
  <2>2. \A v \in Worker \ {w} : worker[v].at \in Ordering =>
          worker[v].lines \cap cart[ask.cart] \subseteq revived
    BY <2>0, <2>1 DEF Placed
  <2>3. /\ cart[ask.cart] \cap unseen = {}
        /\ \A c \in AnyCart \ {ask.cart} : cart[ask.cart] \cap cart[c] = {}
        /\ \A i \in DOMAIN orders :
             cart[ask.cart] \cap orders[i].lines \subseteq revived
    BY <2>0 DEF Placed
  <2>4. \A v \in Worker : worker'[v].at \in Ordering =>
          /\ worker'[v].lines \cap unseen' = {}
          /\ \A c \in AnyCart \ {worker'[v].ask.cart} :
               worker'[v].lines \cap cart'[c] \subseteq revived'
          /\ \A i \in DOMAIN orders' :
               worker'[v].lines \cap orders'[i].lines \subseteq revived'
    BY <1>1, <1>2, <1>3, <2>0, <2>3 DEF Placed
  <2>5. \A u, v \in Worker :
          /\ u # v /\ worker'[u].at \in Ordering /\ worker'[v].at \in Ordering
          => worker'[u].lines \cap worker'[v].lines \subseteq revived'
    BY <1>1, <1>2, <1>3, <2>0, <2>2 DEF Placed
  <2>6. \A v \in Worker : worker'[v].at \in {"line", "merge"}
          => worker'[v].lines \cap unseen' = {}
    BY <1>1, <1>2, <1>3, <2>0 DEF Placed
  <2>7. Placed'
    BY <1>1, <2>0, <2>4, <2>5, <2>6 DEF Placed
  <2>8. Kept'
    BY <1>1, <1>2, <1>3, <2>0 DEF Kept, NothingVanishes
  <2>9. OrderedOnce'
    BY <1>1, <2>0 DEF OrderedOnce
  <2> QED BY <2>7, <2>8, <2>9 DEF InPlace
<1>7. \A v \in Worker : Sound(worker[v], holds[v])'
  <2>1. \A v \in Worker \ {w} : Sound(worker[v], holds[v])'
    BY <1>1, <1>3, SameKnow DEF IInv
  <2>2. Sound(worker[w], holds[w])'
    BY <1>2, <1>3 DEF Sound, CartRow
  <2> QED BY <2>1, <2>2
<1>8. Counted'
  BY <1>1 DEF IInv, Counted, Used, UsesBy
<1> QED BY <1>4, <1>5, <1>6, <1>7, <1>8 DEF IInv

\* An edit of the coupon waits for a checkout that relies on it, and takes
\* back the uses that were counted since it was read.
LEMMA SaveCouponKeeps ==
  ASSUME IInv, NEW w \in Worker, SaveCoupon(w)
  PROVE  IInv'
<1> DEFINE row == worker[w].row
<1>1. /\ UNCHANGED <<unseen, removed, cart, merged, revived, dropped, card,
                     orders, redeemed, restored, holds>>
      /\ worker' = [worker EXCEPT ![w] = Idle]
      /\ worker[w].at = "coupon" /\ row \in Coupon
      /\ Free(CouponRow)
      /\ forgotten' = forgotten + coupon.used - row.used
      /\ overwritten' = overwritten \/ overwritten' = overwritten + 1
  BY Fields DEF SaveCoupon, Goto, Overwrites, IInv, goods
<1>2. PICK active \in BOOLEAN :
        coupon' = [coupon EXCEPT !.used = row.used, !.active = active]
  BY DEF SaveCoupon
<1>3. row.used <= coupon.limit
  BY <1>1 DEF IInv, Sound
<1> HIDE DEF row
<1>4. /\ coupon \in Coupon /\ row.used \in Nat /\ coupon.used \in Nat
      /\ forgotten \in Int /\ overwritten \in Nat
  BY <1>1 DEF IInv, TypeOK, Coupon
<1>5. /\ coupon' \in Coupon
      /\ coupon'.used = row.used
      /\ coupon'.limit = coupon.limit /\ coupon'.each = coupon.each
  BY <1>2, <1>4 DEF Coupon
<1>6. Idle \in Run /\ Idle.at = "idle"
  BY DEF Idle, Run
<1>7. /\ forgotten' \in Int /\ overwritten' \in Nat
      /\ row.used + forgotten' = coupon.used + forgotten
  BY <1>1, <1>4
<1>8. TypeOK'
  BY <1>1, <1>5, <1>6, <1>7 DEF IInv, TypeOK
<1>9. /\ worker'[w] = Idle
      /\ \A v \in Worker \ {w} : worker'[v] = worker[v]
  BY <1>1 DEF IInv, TypeOK
<1>10. Apart'
  BY <1>1 DEF IInv, Apart
<1>11. InPlace'
  <2>1. \A v \in Worker : worker'[v].at \in Ordering \cup {"line", "merge"}
                            => worker'[v] = worker[v]
    BY <1>6, <1>9 DEF Ordering
  <2> QED BY <1>1, <2>1 DEF IInv, InPlace, Placed, OrderedOnce, Kept,
                            NothingVanishes
<1>12. ASSUME NEW v \in Worker PROVE Sound(worker[v], holds[v])'
  <2>1. CASE v = w
    BY <1>6, <1>9, <2>1 DEF Sound, Ordering
  <2>2. CASE v # w
    <3>1. /\ Sound(worker[v], holds[v]) /\ CouponRow \notin holds[v]
          /\ worker'[v] = worker[v] /\ holds'[v] = holds[v]
      BY <1>1, <1>9, <2>2 DEF IInv, Free
    <3> QED BY <1>5, <3>1 DEF Sound, CartRow, CouponRow
  <2> QED BY <2>1, <2>2
<1>13. Counted'
  <2>1. \A customer \in Customer : UsesBy(customer)' = UsesBy(customer)
    BY <1>1 DEF UsesBy
  <2>2. Used' = Used
    BY <1>1 DEF Used
  <2> QED BY <1>3, <1>5, <1>7, <2>1, <2>2 DEF IInv, Counted
<1> QED BY <1>8, <1>10, <1>11, <1>12, <1>13 DEF IInv

-----------------------------------------------------------------------------
(* The order *)

\* An order more is a use of the coupon more, if it has it.
LEMMA OneOrderMore ==
  ASSUME TypeOK, NEW o \in Order, orders' = Append(orders, o),
         NEW customer \in Customer
  PROVE  /\ Cardinality(Used)' = IF o.coupon THEN Cardinality(Used) + 1
                                             ELSE Cardinality(Used)
         /\ UsesBy(customer)' = IF o.coupon /\ o.customer = customer
                                  THEN UsesBy(customer) + 1
                                  ELSE UsesBy(customer)
<1> DEFINE n == Len(orders) + 1
           Theirs == {i \in DOMAIN orders : /\ orders[i].coupon
                                            /\ orders[i].customer = customer}
<1>1. /\ DOMAIN orders = 1 .. Len(orders) /\ Len(orders) \in Nat
      /\ DOMAIN orders' = 1 .. n
      /\ orders'[n] = o
      /\ \A i \in 1 .. Len(orders) : orders'[i] = orders[i]
  BY AppendProperties DEF TypeOK
<1>2. 1 .. n = (1 .. Len(orders)) \cup {n} /\ n \notin 1 .. Len(orders)
  BY <1>1
<1> HIDE DEF n
<1>3. Used' = IF o.coupon THEN Used \cup {n} ELSE Used
  BY <1>1, <1>2 DEF Used
<1>4. Theirs' = IF o.coupon /\ o.customer = customer THEN Theirs \cup {n}
                                                     ELSE Theirs
  BY <1>1, <1>2
<1>5. /\ IsFiniteSet(Used) /\ n \notin Used
      /\ IsFiniteSet(Theirs) /\ n \notin Theirs
  <2>1. IsFiniteSet(1 .. Len(orders))
    BY <1>1, FS_Interval
  <2>2. Used \subseteq 1 .. Len(orders) /\ Theirs \subseteq 1 .. Len(orders)
    BY <1>1 DEF Used
  <2> QED BY <1>2, <2>1, <2>2, FS_Subset
<1>6. /\ Cardinality(Used \cup {n}) = Cardinality(Used) + 1
      /\ Cardinality(Theirs \cup {n}) = Cardinality(Theirs) + 1
  BY <1>5, FS_AddElement
<1>7. UsesBy(customer) = Cardinality(Theirs)
      /\ UsesBy(customer)' = Cardinality(Theirs')
  BY DEF UsesBy
<1> HIDE DEF Theirs
<1> QED BY <1>3, <1>4, <1>6, <1>7

\* create_order_from_cart, at its commit.
LEMMA PlaceOrderKeeps ==
  ASSUME IInv, NEW w \in Worker, PlaceOrder(w)
  PROVE  IInv'
<1> DEFINE run == worker[w]
           ask == run.ask
           o == [customer |-> CustomerOf[ask.cart], lines |-> run.lines,
                 subtotal |-> run.subtotal, off |-> run.off,
                 coupon |-> ask.coupon, card |-> run.card,
                 paid |-> ask.card /\ run.subtotal = run.off + run.card]
<1>1. /\ run.at = "settled" /\ run.at \in Ordering
      /\ orders' = Append(orders, o)
      /\ cart' = [cart EXCEPT ![ask.cart] = {}]
      /\ coupon' = [coupon EXCEPT !.used = IF ask.coupon THEN @ + 1 ELSE @]
      /\ card' = IF ask.card THEN [balance |-> run.balance,
                                   active |-> run.balance > 0]
                             ELSE card
      /\ worker' = [worker EXCEPT ![w] = Idle]
      /\ holds' = [holds EXCEPT ![w] = {}]
      /\ UNCHANGED <<unseen, removed, merged, revived, dropped, redeemed,
                     restored, forgotten, overwritten>>
      /\ Sound(run, holds[w])
  BY DEF PlaceOrder, End, Goto, Ordering, IInv
<1>2. /\ ask \in Asked /\ ask.cart \in Cart /\ run.lines \in SUBSET Line
      /\ run.subtotal \in Nat /\ run.off \in Nat
      /\ run.card \in 0 .. CardValue /\ run.balance \in 0 .. CardValue
      /\ CustomerOf[ask.cart] \in Customer
  <2>1. /\ ask \in Asked /\ run.lines \in SUBSET Line
        /\ run.subtotal \in Nat /\ run.off \in Nat
        /\ run.card \in 0 .. CardValue /\ run.balance \in 0 .. CardValue
    BY <1>1, Fields DEF IInv
  <2>2. ask.cart \in Cart /\ CustomerOf[ask.cart] \in Customer
    BY <2>1, AskedType
  <2> QED BY <2>1, <2>2
<1>3. /\ o \in Order /\ o.lines = run.lines /\ o.coupon = ask.coupon
      /\ o.customer = CustomerOf[ask.cart]
  <2>1. ask.coupon \in BOOLEAN
    BY <1>2, AskedType
  <2>2. (ask.card /\ run.subtotal = run.off + run.card) \in BOOLEAN
    OBVIOUS
  <2> QED BY <1>2, <2>1, <2>2 DEF Order
<1>4. Idle \in Run /\ Idle.at = "idle" /\ Idle.at \notin Ordering
  BY DEF Idle, Run, Ordering
<1> HIDE DEF o
<1>5. /\ worker'[w] = Idle /\ holds'[w] = {}
      /\ \A v \in Worker \ {w} : worker'[v] = worker[v] /\ holds'[v] = holds[v]
      /\ cart'[ask.cart] = {}
      /\ \A c \in AnyCart \ {ask.cart} : cart'[c] = cart[c]
  BY <1>1, <1>2 DEF IInv, TypeOK, AnyCart
<1>6. /\ coupon' \in Coupon
      /\ coupon'.used = IF ask.coupon THEN coupon.used + 1 ELSE coupon.used
      /\ coupon'.limit = coupon.limit /\ coupon'.each = coupon.each
  <2>1. coupon \in Coupon
    BY DEF IInv, TypeOK
  <2> QED BY <1>1, <2>1 DEF Coupon
<1>7. TypeOK'
  <2>1. card' \in Card
    BY <1>1, <1>2 DEF IInv, TypeOK, Card
  <2>2. orders' \in Seq(Order)
    BY <1>1, <1>3, AppendProperties DEF IInv, TypeOK
  <2>3. cart' \in [AnyCart -> SUBSET Line]
    BY <1>1 DEF IInv, TypeOK
  <2>4. /\ worker' \in [Worker -> Run] /\ holds' \in [Worker -> SUBSET DBRow]
        /\ unseen' \subseteq Line /\ removed' \subseteq Line
        /\ redeemed' \in Nat /\ restored' \in Int /\ forgotten' \in Int
        /\ merged' \subseteq Guest /\ revived' \subseteq Line
        /\ dropped' \subseteq Line /\ overwritten' \in Nat
    BY <1>1, <1>4 DEF IInv, TypeOK
  <2> QED BY <1>6, <2>1, <2>2, <2>3, <2>4 DEF TypeOK
<1>8. Apart'
  BY <1>5 DEF IInv, Apart
<1>9. \A i \in DOMAIN orders' : \/ orders'[i] = o
                                \/ /\ i \in DOMAIN orders
                                   /\ orders'[i] = orders[i]
  BY <1>1, <1>3, AppendProperties DEF IInv, TypeOK
<1>10. /\ run.lines \cap unseen = {}
       /\ \A c \in AnyCart \ {ask.cart} :
            run.lines \cap cart[c] \subseteq revived
       /\ \A i \in DOMAIN orders :
            run.lines \cap orders[i].lines \subseteq revived
       /\ \A v \in Worker \ {w} : worker[v].at \in Ordering
            => worker[v].lines \cap run.lines \subseteq revived
       /\ cart[ask.cart] \subseteq run.lines
  BY <1>1 DEF IInv, InPlace, Placed, Kept
<1>11. Placed'
  <2>0. Placed
    BY DEF IInv, InPlace
  <2>1. /\ \A c \in AnyCart : cart'[c] \cap unseen' = {}
        /\ \A c, d \in AnyCart : c # d => cart'[c] \cap cart'[d] = {}
    BY <1>1, <1>5, <2>0 DEF Placed
  <2>2. \A i \in DOMAIN orders' :
          /\ orders'[i].lines \cap unseen' = {}
          /\ \A c \in AnyCart : orders'[i].lines \cap cart'[c] \subseteq revived'
    <3>1. \A i \in DOMAIN orders :
            /\ orders[i].lines \cap unseen = {}
            /\ \A c \in AnyCart : orders[i].lines \cap cart[c] \subseteq revived
      BY <2>0 DEF Placed
    <3> QED BY <1>1, <1>3, <1>5, <1>9, <1>10, <3>1
  <2>3. \A v \in Worker : worker'[v].at \in Ordering =>
          /\ v # w /\ worker'[v] = worker[v]
          /\ worker[v].lines \cap unseen = {}
          /\ \A c \in AnyCart \ {worker[v].ask.cart} :
               worker[v].lines \cap cart[c] \subseteq revived
          /\ \A i \in DOMAIN orders :
               worker[v].lines \cap orders[i].lines \subseteq revived
    BY <1>4, <1>5, <2>0 DEF Placed
  <2>4. \A v \in Worker : worker'[v].at \in Ordering =>
          /\ worker'[v].lines \cap unseen' = {}
          /\ \A c \in AnyCart \ {worker'[v].ask.cart} :
               worker'[v].lines \cap cart'[c] \subseteq revived'
          /\ \A i \in DOMAIN orders' :
               worker'[v].lines \cap orders'[i].lines \subseteq revived'
    BY <1>1, <1>3, <1>5, <1>9, <1>10, <2>3
  <2>5. \A u, v \in Worker :
          /\ u # v /\ worker'[u].at \in Ordering /\ worker'[v].at \in Ordering
          => worker'[u].lines \cap worker'[v].lines \subseteq revived'
    BY <1>1, <2>0, <2>3 DEF Placed
  <2>6. \A v \in Worker : worker'[v].at \in {"line", "merge"}
          => worker'[v].lines \cap unseen' = {}
    BY <1>1, <1>4, <1>5, <2>0 DEF Placed
  <2> QED BY <2>1, <2>2, <2>4, <2>5, <2>6 DEF Placed
<1>12. OrderedOnce' /\ Kept'
  <2>0. OrderedOnce /\ Kept
    BY DEF IInv, InPlace
  <2>1. /\ DOMAIN orders = 1 .. Len(orders)
        /\ DOMAIN orders' = 1 .. Len(orders) + 1
        /\ Len(orders) \in Nat
        /\ \A i \in 1 .. Len(orders) : orders'[i] = orders[i]
        /\ orders'[Len(orders) + 1] = o
    BY <1>1, <1>3, AppendProperties DEF IInv, TypeOK
  <2>2. \A i, j \in DOMAIN orders : i # j
          => orders[i].lines \cap orders[j].lines \subseteq revived
    BY <2>0 DEF OrderedOnce
  <2>3. \A i \in DOMAIN orders' : i \in DOMAIN orders \/ i = Len(orders) + 1
    BY <2>1
  <2>4. OrderedOnce'
    BY <1>1, <1>3, <1>10, <2>1, <2>2, <2>3 DEF OrderedOnce
  <2>5. NothingVanishes'
    <3>1. \E i \in DOMAIN orders' : orders'[i].lines = run.lines
      <4>1. Len(orders) + 1 \in DOMAIN orders'
        BY <2>1
      <4>2. orders'[Len(orders) + 1].lines = run.lines
        BY <1>3, <2>1
      <4> QED BY <4>1, <4>2
    <3>2. \A i \in DOMAIN orders :
            i \in DOMAIN orders' /\ orders'[i].lines = orders[i].lines
      BY <2>1
    <3>3. \A c \in AnyCart : cart[c] \subseteq cart'[c] \cup run.lines
      BY <1>5, <1>10
    <3>4. \A l \in Line : \/ l \in unseen
                          \/ l \in removed \cup dropped
                          \/ \E c \in AnyCart : l \in cart[c]
                          \/ \E i \in DOMAIN orders : l \in orders[i].lines
      BY <2>0 DEF Kept, NothingVanishes
    <3>5. ASSUME NEW l \in Line
          PROVE  \/ l \in unseen'
                 \/ l \in removed' \cup dropped'
                 \/ \E c \in AnyCart : l \in cart'[c]
                 \/ \E i \in DOMAIN orders' : l \in orders'[i].lines
      <4>1. CASE l \in unseen \/ l \in removed \cup dropped
        BY <1>1, <4>1
      <4>2. CASE \E c \in AnyCart : l \in cart[c]
        BY <3>1, <3>3, <4>2
      <4>3. CASE \E i \in DOMAIN orders : l \in orders[i].lines
        BY <3>2, <4>3
      <4> QED BY <3>4, <4>1, <4>2, <4>3
    <3>6. /\ unseen' \subseteq Line /\ removed' \subseteq Line
          /\ dropped' \subseteq Line
          /\ \A c \in AnyCart : cart'[c] \subseteq Line
      BY <1>7 DEF TypeOK
    <3>7. \A i \in DOMAIN orders' : orders'[i].lines \subseteq Line
      <4>1. \A i \in DOMAIN orders : orders[i].lines \subseteq Line
        <5>1. \A i \in DOMAIN orders : orders[i] \in Order
          BY <2>1, ElementOfSeq DEF IInv, TypeOK
        <5> QED BY <5>1 DEF Order
      <4> QED BY <1>2, <1>3, <1>9, <4>1
    <3> DEFINE inCarts == UNION {cart'[c] : c \in AnyCart}
               inOrders == UNION {orders'[i].lines : i \in DOMAIN orders'}
    <3>8. inCarts \subseteq Line /\ inOrders \subseteq Line
      BY <3>6, <3>7
    <3>9. \A l \in Line :
            l \in unseen' \cup removed' \cup dropped' \cup inCarts \cup inOrders
      BY <3>5
    <3>10. NothingVanishes' = (Line = unseen' \cup removed' \cup dropped'
                                        \cup inCarts \cup inOrders)
      BY DEF NothingVanishes
    <3> HIDE DEF inCarts, inOrders
    <3> QED BY <3>6, <3>8, <3>9, <3>10
  <2>6. ASSUME NEW v \in Worker, worker'[v].at \in Ordering
        PROVE  cart'[worker'[v].ask.cart] \subseteq worker'[v].lines
    <3>1. worker'[v] = worker[v] /\ worker[v].at \in Ordering
      BY <1>4, <1>5, <2>6
    <3>2. worker[v].ask.cart \in AnyCart
      BY <3>1, Fields, AskedType DEF IInv
    <3>3. cart'[worker[v].ask.cart] \subseteq cart[worker[v].ask.cart]
      BY <1>5, <3>2
    <3> QED BY <2>0, <3>1, <3>3 DEF Kept
  <2> QED BY <2>4, <2>5, <2>6 DEF Kept
<1>13. \A customer \in Customer :
         /\ UsesBy(customer) \in Nat
         /\ UsesBy(customer)' = IF ask.coupon /\ CustomerOf[ask.cart] = customer
                                  THEN UsesBy(customer) + 1
                                  ELSE UsesBy(customer)
         /\ Cardinality(Used)' = IF ask.coupon THEN Cardinality(Used) + 1
                                               ELSE Cardinality(Used)
  BY <1>1, <1>3, OneOrderMore, UseCount DEF IInv
<1>14. Counted'
  <2>1. ask.coupon => /\ coupon.used < coupon.limit
                      /\ UsesBy(CustomerOf[ask.cart]) < coupon.each
    BY <1>1 DEF Sound
  <2>2. /\ coupon.used \in Nat /\ coupon.limit \in Nat /\ coupon.each \in Nat
        /\ forgotten \in Int /\ forgotten' = forgotten
        /\ Cardinality(Used) \in Nat
    BY <1>1, UseCount DEF IInv, TypeOK, Coupon
  <2>3. /\ coupon.used + forgotten = Cardinality(Used)
        /\ coupon.used <= coupon.limit
        /\ \A customer \in Customer : UsesBy(customer) <= coupon.each
    BY DEF IInv, Counted
  <2>4. /\ coupon'.used + forgotten' = Cardinality(Used)'
        /\ coupon'.used <= coupon'.limit
    BY <1>2, <1>6, <1>13, <2>1, <2>2, <2>3
  <2>5. \A customer \in Customer : UsesBy(customer)' <= coupon'.each
    BY <1>6, <1>13, <2>1, <2>2, <2>3
  <2> QED BY <2>4, <2>5 DEF Counted
<1>15. \A v \in Worker : Sound(worker[v], holds[v])'
  <2>1. ASSUME NEW v \in Worker \ {w}
        PROVE  Sound(worker[v], holds[v])'
    <3>1. /\ worker'[v] = worker[v] /\ holds'[v] = holds[v]
          /\ Sound(worker[v], holds[v]) /\ holds[v] \cap holds[w] = {}
      BY <1>5 DEF IInv, Apart
    <3>2. CASE ask.coupon
      BY <1>1, <1>6, <3>1, <3>2 DEF Sound, Ordering, CartRow, CouponRow
    <3>3. CASE ~ ask.coupon
      <4>1. worker[v].at \in Ordering
              => CustomerOf[worker[v].ask.cart] \in Customer
        <5>1. worker[v].at \in Ordering => worker[v].ask.cart \in Cart
          BY Fields, AskedType DEF IInv
        <5> QED BY <5>1, CheckoutAssumption
      <4>2. \A customer \in Customer : UsesBy(customer)' = UsesBy(customer)
        BY <1>13, <3>3
      <4>3. coupon'.used = coupon.used
        BY <1>6, <3>3
      <4> QED BY <1>6, <3>1, <4>1, <4>2, <4>3 DEF Sound, Ordering, CartRow, CouponRow
    <3> QED BY <3>2, <3>3
  <2>2. Sound(worker[w], holds[w])'
    BY <1>4, <1>5 DEF Sound, Ordering
  <2> QED BY <2>1, <2>2
<1> QED BY <1>7, <1>8, <1>11, <1>12, <1>14, <1>15 DEF IInv, InPlace

-----------------------------------------------------------------------------
(* The theorems *)

\* Nothing is ordered, and the carts are empty (Init).
LEMMA InitIInv ==
  ASSUME Init
  PROVE  IInv
<1>1. TypeOK
  <2>1. CardValue \in Nat /\ 0 \in Nat
    BY CheckoutAssumption
  <2>2. coupon \in Coupon /\ card \in Card
    BY <2>1, CheckoutAssumption DEF Init, Coupon, Card
  <2>3. orders \in Seq(Order)
    BY EmptySeq DEF Init
  <2> QED BY <2>2, <2>3 DEF Init, TypeOK, Idle, Run
<1>2. DOMAIN orders = {}
  BY DEF Init
<1>3. Apart /\ InPlace
  BY <1>2 DEF Init, Apart, InPlace, Placed, OrderedOnce, Kept, NothingVanishes,
              Idle, Ordering
<1>4. \A w \in Worker : Sound(worker[w], holds[w])
  BY DEF Init, Sound, Idle, Ordering
<1>5. Counted
  <2>1. Used = {} /\ \A customer \in Customer : UsesBy(customer) = 0
    BY <1>2, FS_EmptySet DEF Used, UsesBy
  <2>2. Cardinality(Used) = 0
    BY <2>1, FS_EmptySet
  <2>3. /\ coupon.used = 0 /\ coupon.limit \in Nat /\ coupon.each \in Nat
        /\ forgotten = 0
    BY CheckoutAssumption DEF Init
  <2> QED BY <2>1, <2>2, <2>3 DEF Counted
<1> QED BY <1>1, <1>3, <1>4, <1>5 DEF IInv

\* Every request keeps it.
LEMMA NextIInv ==
  ASSUME IInv, [Next]_vars
  PROVE  IInv'
<1>1. CASE \E c \in AnyCart : AddToCart(c) \/ RemoveFromCart(c)
  BY <1>1, AddKeeps, RemoveKeeps
<1>2. CASE \E w \in Worker, ask \in Asked : BeginCheckout(w, ask)
  BY <1>2, BeginCheckoutKeeps
<1>3. CASE \E w \in Worker : \/ Price(w) \/ CheckCoupon(w) \/ TakeCard(w)
                             \/ PlaceOrder(w)
  BY <1>3, PriceKeeps, CheckCouponKeeps, TakeCardKeeps, PlaceOrderKeeps
<1>4. CASE \E w \in Worker : \/ Abort(w) \/ ReadCard(w) \/ SaveCard(w)
                             \/ ReadCoupon(w) \/ DropEdit(w)
                             \/ (\E c \in Cart : ReadLine(w, c))
                             \/ \E c \in Cart, g \in Guest : BeginMerge(w, g, c)
  BY <1>4, AsideKeeps
<1>5. CASE \E w \in Worker : SaveCoupon(w) \/ SaveLine(w) \/ FinishMerge(w)
  BY <1>5, SaveCouponKeeps, SaveLineKeeps, MergeKeeps
<1>6. CASE Redeem
  BY <1>6, RedeemKeeps
<1>7. CASE UNCHANGED vars
  <2>1. \A w \in Worker : Sound(worker[w], holds[w])'
    BY <1>7, SameKnow DEF vars, money, IInv
  <2>2. TypeOK' /\ Apart' /\ InPlace'
    BY <1>7 DEF vars, goods, money, IInv, TypeOK, Apart, InPlace, Placed,
                OrderedOnce, Kept, NothingVanishes
  <2>3. Counted'
    BY <1>7 DEF vars, money, IInv, Counted, Used, UsesBy
  <2> QED BY <2>1, <2>2, <2>3 DEF IInv
<1> QED BY <1>1, <1>2, <1>3, <1>4, <1>5, <1>6, <1>7 DEF Next

\* What a checkout may rely on between two locks, it may.
THEOREM CheckoutsRely == Spec => []IInv
<1>1. Init => IInv
  BY InitIInv
<1>2. IInv /\ [Next]_vars => IInv'
  BY NextIInv
<1> QED BY <1>1, <1>2, PTL DEF Spec

\* The state is of its types: no card is ever overdrawn.
THEOREM TypeCorrect == Spec => []TypeOK
<1>1. IInv => TypeOK
  BY DEF IInv
<1> QED BY <1>1, CheckoutsRely, PTL

\* No line is ordered twice, whatever checkouts and merges run at once, but
\* for those that a late save of the line or a merge revived.
THEOREM LinesOrderedOnce == Spec => []OrderedOnce
<1>1. IInv => OrderedOnce
  BY DEF IInv, InPlace
<1> QED BY <1>1, CheckoutsRely, PTL

\* None is thrown away by a checkout, and by a merge only what joined the
\* guest's cart since it was read.
THEOREM NothingLost == Spec => []NothingVanishes
<1>1. IInv => NothingVanishes
  BY DEF IInv, InPlace, Kept
<1> QED BY <1>1, CheckoutsRely, PTL

\* No customer uses the coupon more often than it allows; its count is that of
\* its orders but for what edits took back, and stays in its limit.
THEOREM CouponLimitsKept == Spec => []CouponWithinLimits
<1>1. IInv => CouponWithinLimits
  BY DEF IInv, Counted, CouponWithinLimits, Used
<1> QED BY <1>1, CheckoutsRely, PTL

-----------------------------------------------------------------------------
(* What was checked is so when the order is placed *)

\* What a request that holds the rows knows of the coupon and of the card.
Knows(run, rows) ==
  /\ run.at \in {"checked", "settled"} /\ run.ask.coupon =>
       CouponRow \in rows /\ Valid(CustomerOf[run.ask.cart])
  /\ run.at = "settled" =>
       IF run.ask.card
         THEN /\ CardRow \in rows /\ card.active
              /\ card.balance = run.balance + run.card
         ELSE run.card = 0

KnowInv == \A w \in Worker : Knows(worker[w], holds[w])

\* A step that leaves coupon, card and orders alone, of a request that knows
\* what it should, or of nobody.
LEMMA KnowStays ==
  ASSUME KnowInv, UNCHANGED <<coupon, card, orders>>,
         \A v \in Worker : \/ /\ worker'[v] = worker[v]
                              /\ holds'[v] = holds[v]
                           \/ Knows(worker'[v], holds'[v])
  PROVE  KnowInv'
<1>1. \A v \in Worker : Knows(worker'[v], holds'[v])
  BY DEF KnowInv
<1>2. \A customer : Valid(customer)' = Valid(customer)
  BY DEF Valid, UsesBy
<1> QED
  BY <1>1, <1>2 DEF KnowInv, Knows, CardRow, CouponRow

\* A request that is not past its checks need not know anything.
LEMMA NotYet ==
  ASSUME KnowInv, TypeOK, NEW w \in Worker, NEW run,
         UNCHANGED <<coupon, card, orders>>,
         run.at \notin {"checked", "settled"},
         worker' = [worker EXCEPT ![w] = run],
         \A v \in Worker \ {w} : holds'[v] = holds[v]
  PROVE  KnowInv'
<1>1. Knows(run, holds'[w])
  BY DEF Knows
<1>2. /\ worker'[w] = run
      /\ \A v \in Worker \ {w} : worker'[v] = worker[v]
  BY DEF TypeOK
<1> QED
  BY <1>1, <1>2, KnowStays

\* create_order_from_cart validates the coupon with its row locked,
LEMMA CheckCouponKnows ==
  ASSUME KnowInv, IInv, NEW w \in Worker, CheckCoupon(w)
  PROVE  KnowInv'
<1> DEFINE run == [worker[w] EXCEPT !.at = "checked"]
<1>1. /\ worker[w].at = "priced"
      /\ worker[w] \in [at: {"priced", "checked"}, ask: Asked,
                        lines: SUBSET Line, subtotal: Nat, off: Nat]
      /\ UNCHANGED <<coupon, card, orders>>
  BY Fields DEF CheckCoupon, IInv, money
<1>2. run.at = "checked" /\ run.ask = worker[w].ask
  BY <1>1
<1> HIDE DEF run
<1>3. /\ worker'[w] = run
      /\ \A v \in Worker \ {w} : /\ worker'[v] = worker[v]
                                 /\ holds'[v] = holds[v]
      /\ worker[w].ask.coupon => /\ CouponRow \in holds'[w]
                                 /\ Valid(CustomerOf[worker[w].ask.cart])
  BY DEF CheckCoupon, Lock, Goto, IInv, TypeOK, run
<1>4. Knows(run, holds'[w])
  BY <1>2, <1>3 DEF Knows
<1> QED
  BY <1>1, <1>3, <1>4, KnowStays

\* and reads the balance with the card locked.
LEMMA TakeCardKnows ==
  ASSUME KnowInv, IInv, NEW w \in Worker, TakeCard(w)
  PROVE  KnowInv'
<1> DEFINE amount == Min({card.balance, worker[w].subtotal - worker[w].off})
<1>1. /\ worker[w].at = "checked" /\ Knows(worker[w], holds[w])
      /\ UNCHANGED <<coupon, card, orders>>
      /\ holds[w] \subseteq holds'[w]
      /\ \A v \in Worker \ {w} : /\ worker'[v] = worker[v]
                                 /\ holds'[v] = holds[v]
  BY DEF TakeCard, Lock, Goto, IInv, TypeOK, KnowInv, money
<1>2. Knows(worker'[w], holds'[w])
  <2>1. CASE worker[w].ask.card
    <3>1. /\ worker'[w] = Settled(w, amount, card.balance - amount)
          /\ CardRow \in holds'[w] /\ card.active
      BY <2>1 DEF TakeCard, Lock, Goto, IInv, TypeOK
    <3>2. card.balance \in Int /\ amount \in Int
      <4>1. /\ card.balance \in Int
            /\ worker[w].subtotal - worker[w].off \in Int
        BY <1>1, Fields, CheckoutAssumption DEF IInv, TypeOK, Card
      <4> QED
        BY <4>1, Lesser
    <3> HIDE DEF amount
    <3>3. card.balance = (card.balance - amount) + amount
      BY <3>2
    <3> QED
      BY <1>1, <2>1, <3>1, <3>3 DEF Knows, Settled
  <2>2. CASE ~ worker[w].ask.card
    <3>1. worker'[w] = Settled(w, 0, 0)
      BY <2>2 DEF TakeCard, Goto, IInv, TypeOK
    <3> QED
      BY <1>1, <2>2, <3>1 DEF Knows, Settled
  <2> QED
    BY <2>1, <2>2
<1> QED
  BY <1>1, <1>2, KnowStays

\* No other checkout knows anything of a coupon or of a card that is used up
\* by this one, for none has them locked.
LEMMA PlaceOrderKnows ==
  ASSUME KnowInv, IInv, NEW w \in Worker, PlaceOrder(w)
  PROVE  KnowInv'
<1> DEFINE run == worker[w]
           o == [customer |-> CustomerOf[run.ask.cart], lines |-> run.lines,
                 subtotal |-> run.subtotal, off |-> run.off,
                 coupon |-> run.ask.coupon, card |-> run.card,
                 paid |-> run.ask.card /\ run.subtotal = run.off + run.card]
<1>1. /\ run.at = "settled" /\ Knows(run, holds[w])
      /\ orders' = Append(orders, o)
      /\ coupon' = [coupon EXCEPT !.used = IF run.ask.coupon THEN @ + 1 ELSE @]
      /\ ~ run.ask.card => card' = card
      /\ worker'[w] = Idle
      /\ \A v \in Worker \ {w} : worker'[v] = worker[v] /\ holds'[v] = holds[v]
  BY DEF PlaceOrder, End, Goto, IInv, TypeOK, KnowInv
<1>2. o \in Order
  <2>1. /\ run.ask \in Asked /\ run.lines \in SUBSET Line
        /\ run.subtotal \in Nat /\ run.off \in Nat
        /\ run.card \in 0 .. CardValue
    BY <1>1, Fields DEF IInv, Ordering
  <2>2. /\ CustomerOf[run.ask.cart] \in Customer /\ run.ask.coupon \in BOOLEAN
    BY <2>1, AskedType
  <2>3. (run.ask.card /\ run.subtotal = run.off + run.card) \in BOOLEAN
    OBVIOUS
  <2> QED
    BY <2>1, <2>2, <2>3 DEF Order
<1>3. o.coupon = run.ask.coupon
  OBVIOUS
<1> HIDE DEF o
<1>4. ASSUME NEW v \in Worker, v # w PROVE Knows(worker[v], holds[v])'
  <2> DEFINE customer == CustomerOf[worker[v].ask.cart]
  <2>1. /\ worker'[v] = worker[v] /\ holds'[v] = holds[v]
        /\ Knows(worker[v], holds[v]) /\ holds[v] \cap holds[w] = {}
    BY <1>1, <1>4 DEF KnowInv, IInv, Apart
  <2>2. CASE worker[v].at \in {"checked", "settled"} /\ worker[v].ask.coupon
    <3>1. ~ run.ask.coupon
      BY <1>1, <2>1, <2>2 DEF Knows
    <3>2. customer \in Customer
      <4>1. worker[v].ask \in Asked
        BY <2>2, Fields DEF IInv, Ordering
      <4> QED
        BY <4>1, AskedType
    <3>3. UsesBy(customer)' = UsesBy(customer)
      BY <1>1, <1>2, <1>3, <2>1, <3>1, <3>2, OneOrderMore DEF IInv
    <3>4. coupon' = coupon
      <4>1. coupon' = [coupon EXCEPT !.used = coupon.used]
        BY <1>1, <3>1
      <4>2. coupon \in Coupon
        BY DEF IInv, TypeOK
      <4> QED
        BY <4>1, <4>2 DEF Coupon
    <3>5. Valid(customer)'
      BY <2>1, <2>2, <3>3, <3>4 DEF Valid, Knows
    <3>6. CASE run.ask.card
      BY <1>1, <2>1, <2>2, <3>5, <3>6 DEF Knows, CouponRow, CardRow
    <3>7. CASE ~ run.ask.card
      BY <1>1, <2>1, <2>2, <3>5, <3>7 DEF Knows, CouponRow, CardRow
    <3> QED
      BY <3>6, <3>7
  <2>3. CASE ~ (worker[v].at \in {"checked", "settled"} /\ worker[v].ask.coupon)
    <3>1. CASE run.ask.card
      BY <1>1, <2>1, <2>3, <3>1 DEF Knows, CardRow
    <3>2. CASE ~ run.ask.card
      BY <1>1, <2>1, <2>3, <3>2 DEF Knows, CardRow
    <3> QED
      BY <3>1, <3>2
  <2> QED
    BY <2>2, <2>3
<1>5. Knows(worker[w], holds[w])'
  BY <1>1 DEF Knows, Idle
<1> QED
  BY <1>4, <1>5 DEF KnowInv

\* Staff redeem or switch the card, and edit the coupon, only while no
\* checkout has its row.
LEMMA StaffWait ==
  ASSUME KnowInv, IInv,
         Redeem \/ \E w \in Worker : SaveCard(w) \/ SaveCoupon(w)
  PROVE  KnowInv'
<1>1. \/ Free(CardRow) /\ UNCHANGED coupon
      \/ Free(CouponRow) /\ UNCHANGED card
  BY DEF Redeem, SaveCard, SaveCoupon
<1>2. UNCHANGED <<orders, holds>>
  BY DEF Redeem, SaveCard, SaveCoupon
<1>3. \A customer : coupon' = coupon => (Valid(customer)' = Valid(customer))
  BY <1>2 DEF Valid, UsesBy
<1>4. ASSUME NEW v \in Worker PROVE Knows(worker[v], holds[v])'
  <2>1. worker'[v] = worker[v] \/ worker'[v] = Idle
    BY DEF Redeem, SaveCard, SaveCoupon, Goto, IInv, TypeOK
  <2>2. Knows(worker[v], holds[v])
    BY DEF KnowInv
  <2>3. CASE worker'[v] = Idle
    BY <2>3 DEF Knows, Idle
  <2>4. CASE worker'[v] = worker[v] /\ Free(CardRow) /\ UNCHANGED coupon
    BY <1>2, <1>3, <2>2, <2>4 DEF Knows, CardRow, CouponRow, Free
  <2>5. CASE worker'[v] = worker[v] /\ Free(CouponRow) /\ UNCHANGED card
    BY <1>2, <2>2, <2>5 DEF Knows, CardRow, CouponRow, Free
  <2> QED
    BY <1>1, <2>1, <2>3, <2>4, <2>5
<1> QED
  BY <1>4 DEF KnowInv

\* Every request knows, of the rows it holds, what it checked.
LEMMA KnowStep ==
  ASSUME KnowInv, IInv, [Next]_vars
  PROVE  KnowInv'
<1>1. CASE UNCHANGED <<coupon, card, orders, worker, holds>>
  BY <1>1, KnowStays
<1>2. CASE \E w \in Worker : CheckCoupon(w) \/ TakeCard(w) \/ PlaceOrder(w)
  BY <1>2, CheckCouponKnows, TakeCardKnows, PlaceOrderKnows
<1>3. CASE Redeem \/ \E w \in Worker : SaveCard(w) \/ SaveCoupon(w)
  BY <1>3, StaffWait
<1>4. ASSUME NEW w \in Worker,
             \/ \E ask \in Asked : BeginCheckout(w, ask)
             \/ Price(w) \/ Abort(w)
             \/ (\E c \in Cart : ReadLine(w, c)) \/ SaveLine(w)
             \/ (\E g \in Guest, c \in Cart : BeginMerge(w, g, c))
             \/ FinishMerge(w) \/ ReadCard(w) \/ ReadCoupon(w) \/ DropEdit(w)
      PROVE  KnowInv'
  <2>1. PICK run :
          /\ worker' = [worker EXCEPT ![w] = run]
          /\ run.at \notin {"checked", "settled"}
    <3>1. CASE \E ask \in Asked : BeginCheckout(w, ask)
      BY <3>1 DEF BeginCheckout, Goto
    <3>2. CASE Price(w)
      <4> DEFINE lines == Cardinality(cart[worker[w].ask.cart])
                 run == [at |-> "priced", ask |-> worker[w].ask,
                         lines |-> worker[w].lines, subtotal |-> lines,
                         off |-> Discount(worker[w].ask, lines)]
      <4>1. /\ worker' = [worker EXCEPT ![w] = run]
            /\ run.at \notin {"checked", "settled"}
        BY <3>2 DEF Price, Goto
      <4> QED
        BY <4>1
    <3>3. CASE Abort(w) \/ SaveLine(w) \/ FinishMerge(w) \/ DropEdit(w)
      BY <3>3 DEF Abort, SaveLine, FinishMerge, DropEdit, End, Goto, Idle
    <3>4. CASE \/ \E c \in Cart : ReadLine(w, c)
               \/ \E g \in Guest, c \in Cart : BeginMerge(w, g, c)
               \/ ReadCard(w) \/ ReadCoupon(w)
      BY <3>4 DEF ReadLine, BeginMerge, ReadCard, ReadCoupon, Goto
    <3> QED
      BY <1>4, <3>1, <3>2, <3>3, <3>4
  <2>2. UNCHANGED <<coupon, card, orders>>
    BY <1>4 DEF BeginCheckout, Price, Abort, ReadLine, SaveLine, BeginMerge,
                FinishMerge, ReadCard, ReadCoupon, DropEdit, money
  <2>3. \A v \in Worker \ {w} : holds'[v] = holds[v]
    BY <1>4 DEF BeginCheckout, Price, Abort, ReadLine, SaveLine, BeginMerge,
                FinishMerge, ReadCard, ReadCoupon, DropEdit, End, Lock, IInv,
                TypeOK
  <2> QED
    BY <2>1, <2>2, <2>3, NotYet DEF IInv
<1> QED
  BY <1>1, <1>2, <1>3, <1>4 DEF Next, vars, AddToCart, RemoveFromCart, money

\* What PlaceOrder does to the card and to the orders.
LEMMA TheSale ==
  ASSUME IInv, KnowInv, NEW w \in Worker, PlaceOrder(w)
  PROVE  LET run == worker[w]
             x == Len(orders) + 1
         IN  /\ DOMAIN orders = 1 .. Len(orders) /\ Len(orders) \in Nat
             /\ DOMAIN orders' = 1 .. x /\ Len(orders') = x
             /\ \A i \in DOMAIN orders : orders'[i] = orders[i]
             /\ orders'[x].customer = CustomerOf[run.ask.cart]
             /\ orders'[x].coupon = run.ask.coupon
             /\ orders'[x].card = run.card
             /\ run.card \in Nat
             /\ run.card > 0 => run.ask.card
             /\ card'.balance \in Nat
             /\ card.balance = card'.balance + run.card
<1> DEFINE run == worker[w]
           o == [customer |-> CustomerOf[run.ask.cart], lines |-> run.lines,
                 subtotal |-> run.subtotal, off |-> run.off,
                 coupon |-> run.ask.coupon, card |-> run.card,
                 paid |-> run.ask.card /\ run.subtotal = run.off + run.card]
<1>1. /\ orders' = Append(orders, o) /\ orders \in Seq(Order)
      /\ run.at = "settled" /\ Knows(run, holds[w])
      /\ card' = IF run.ask.card THEN [balance |-> run.balance,
                                       active |-> run.balance > 0]
                                 ELSE card
  BY DEF PlaceOrder, IInv, TypeOK, KnowInv
<1>2. /\ o.customer = CustomerOf[run.ask.cart] /\ o.coupon = run.ask.coupon
      /\ o.card = run.card
  OBVIOUS
<1> HIDE DEF o
<1>3. /\ DOMAIN orders = 1 .. Len(orders) /\ Len(orders) \in Nat
      /\ DOMAIN orders' = 1 .. Len(orders) + 1 /\ Len(orders') = Len(orders) + 1
      /\ \A i \in DOMAIN orders : orders'[i] = orders[i]
      /\ orders'[Len(orders) + 1] = o
  BY <1>1
<1>4. /\ run.card \in Nat /\ run.balance \in Nat /\ card.balance \in Nat
  BY <1>1, Fields, CheckoutAssumption DEF IInv, TypeOK, Card
<1>5. CASE run.ask.card
  BY <1>1, <1>2, <1>3, <1>4, <1>5 DEF Knows
<1>6. CASE ~ run.ask.card
  <2>1. run.card = 0 /\ card' = card
    BY <1>1, <1>6 DEF Knows
  <2> QED
    BY <1>2, <1>3, <1>4, <2>1
<1> QED
  BY <1>5, <1>6

LEMMA KnowInit == Init => KnowInv
BY DEF Init, KnowInv, Knows, Idle

\* When an order is placed its customer may use the coupon and the card is
\* active and has what is taken from it, as the checkout found them, whatever
\* staff and other checkouts did meanwhile.
THEOREM CheckedHolds == Spec => SoldAsChecked
<1> DEFINE Sale ==
      orders' # orders =>
        LET o == orders'[Len(orders')]
        IN  /\ o.coupon => Valid(o.customer)
            /\ o.card > 0 => card.active
            /\ card'.balance = card.balance - o.card
<1>1. ASSUME IInv, KnowInv, [Next]_vars PROVE Sale
  <2>1. orders' = orders \/ \E w \in Worker : PlaceOrder(w)
    BY <1>1 DEF Next, vars, AddToCart, RemoveFromCart, BeginCheckout, Price,
                CheckCoupon, TakeCard, Abort, ReadLine, SaveLine, BeginMerge,
                FinishMerge, ReadCard, SaveCard, ReadCoupon, SaveCoupon,
                DropEdit, Redeem
  <2>2. ASSUME NEW w \in Worker, PlaceOrder(w) PROVE Sale
    <3> DEFINE o == orders'[Len(orders')]
               run == worker[w]
    <3>1. /\ o.customer = CustomerOf[run.ask.cart] /\ o.coupon = run.ask.coupon
          /\ o.card = run.card /\ run.card \in Nat
          /\ run.card > 0 => run.ask.card
          /\ card'.balance \in Nat
          /\ card.balance = card'.balance + run.card
      BY <1>1, <2>2, TheSale
    <3>2. run.at = "settled" /\ Knows(run, holds[w])
      BY <1>1, <2>2 DEF PlaceOrder, KnowInv
    <3> HIDE DEF o
    <3>3. o.coupon => Valid(o.customer)
      BY <3>1, <3>2 DEF Knows
    <3>4. o.card > 0 => card.active
      BY <3>1, <3>2 DEF Knows
    <3>5. card'.balance = card.balance - o.card
      BY <3>1
    <3> QED
      BY <3>3, <3>4, <3>5 DEF o
  <2> QED
    BY <2>1, <2>2
<1>2. IInv /\ KnowInv /\ [Next]_vars => [Sale]_vars
  BY <1>1
<1> QED
  BY <1>2, KnowInit, KnowStep, CheckoutsRely, PTL DEF Spec, SoldAsChecked

-----------------------------------------------------------------------------
(* The card's money *)

Paid == [i \in DOMAIN orders |-> orders[i].card]
Spent == SumFunctionOnSet(Paid, DOMAIN orders)

\* CardSpentOnce, by name.
LEMMA Balanced ==
  CardSpentOnce <=> card.balance + redeemed + Spent = CardValue + restored
BY DEF CardSpentOnce, Spent, Paid

\* What orders were paid by the card adds up (Order.gift_card_amount).
LEMMA PaidAddsUp ==
  ASSUME NEW rows \in Seq(Order)
  PROVE  LET paid == [i \in DOMAIN rows |-> rows[i].card]
         IN  /\ Summable(paid, DOMAIN rows)
             /\ SumFunctionOnSet(paid, DOMAIN rows) \in Nat
<1> DEFINE paid == [i \in DOMAIN rows |-> rows[i].card]
<1>1. DOMAIN rows = 1 .. Len(rows) /\ Len(rows) \in Nat
  OBVIOUS
<1>2. IsFiniteSet(DOMAIN rows)
  BY <1>1, FS_Interval
<1>3. ASSUME NEW i \in DOMAIN rows PROVE paid[i] \in Nat
  <2>1. rows[i] \in Order
    BY <1>1, <1>3, ElementOfSeq
  <2> QED
    BY <2>1, CheckoutAssumption DEF Order
<1>4. Summable(paid, DOMAIN rows)
  BY <1>2, <1>3 DEF Summable
<1> QED
  BY <1>4, SumType

\* The order is paid what the card loses, at one commit.
LEMMA PlaceOrderPays ==
  ASSUME CardSpentOnce, KnowInv, IInv, NEW w \in Worker, PlaceOrder(w), TypeOK'
  PROVE  CardSpentOnce'
<1> DEFINE run == worker[w]
           x == Len(orders) + 1
<1>1. /\ DOMAIN orders = 1 .. Len(orders) /\ Len(orders) \in Nat
      /\ DOMAIN orders' = 1 .. x
      /\ \A i \in DOMAIN orders : orders'[i] = orders[i]
      /\ orders'[x].card = run.card
      /\ run.card \in Nat /\ card'.balance \in Nat
      /\ card.balance = card'.balance + run.card
  BY TheSale
<1>2. /\ redeemed \in Nat /\ redeemed' = redeemed
      /\ restored \in Int /\ restored' = restored /\ CardValue \in Nat
  BY CheckoutAssumption DEF PlaceOrder, IInv, TypeOK
<1>3. Spent \in Nat /\ Spent' = Spent + run.card
  <2>1. /\ x \notin DOMAIN orders /\ x \in DOMAIN orders'
        /\ DOMAIN orders \ {x} = DOMAIN orders' \ {x}
    BY <1>1
  <2>2. /\ \A i \in DOMAIN orders \ {x} : Paid[i] = Paid'[i]
        /\ Paid'[x] = run.card
    BY <1>1, <2>1 DEF Paid
  <2>3. /\ Summable(Paid, DOMAIN orders) /\ Spent \in Nat
    BY PaidAddsUp DEF IInv, TypeOK, Paid, Spent
  <2>4. Summable(Paid', DOMAIN orders') /\ Spent' \in Nat
    BY PaidAddsUp DEF TypeOK, Paid, Spent
  <2> HIDE DEF x
  <2>5. SumFunctionOnSet(Paid, DOMAIN orders)
            + Share(Paid', DOMAIN orders', x)
          = SumFunctionOnSet(Paid', DOMAIN orders')
            + Share(Paid, DOMAIN orders, x)
    BY <2>1, <2>2, <2>3, <2>4, SumMoves
  <2>6. /\ Share(Paid', DOMAIN orders', x) = run.card
        /\ Share(Paid, DOMAIN orders, x) = 0
    BY <2>1, <2>2 DEF Share
  <2>7. Spent + run.card = Spent' + 0
    BY <2>5, <2>6 DEF Spent
  <2> QED
    BY <1>1, <2>3, <2>4, <2>7
<1>4. card.balance + redeemed + Spent = CardValue + restored
  BY Balanced
<1>5. card'.balance + redeemed' + Spent' = CardValue + restored'
  <2> DEFINE paid == run.card
  <2>1. /\ paid \in Nat /\ card'.balance \in Nat
        /\ card.balance = card'.balance + paid
    BY <1>1
  <2>2. Spent \in Nat /\ Spent' = Spent + paid
    BY <1>3
  <2> HIDE DEF paid, run, x
  <2> QED
    BY <1>2, <1>4, <2>1, <2>2
<1> QED
  BY <1>5 DEF CardSpentOnce, Spent, Paid

\* Every request keeps the card's books: a stale save of the card is in both.
LEMMA MoneyStep ==
  ASSUME CardSpentOnce, KnowInv, IInv, [Next]_vars, TypeOK'
  PROVE  CardSpentOnce'
<1>1. CASE UNCHANGED <<card, orders, redeemed, restored>>
  BY <1>1 DEF CardSpentOnce
<1>2. CASE \E w \in Worker : PlaceOrder(w)
  BY <1>2, PlaceOrderPays
<1>3. CASE Redeem \/ \E w \in Worker : SaveCard(w)
  <2>1. /\ card \in Card /\ card.balance \in Int /\ redeemed \in Int
        /\ restored \in Int /\ CardValue \in Nat
    BY CheckoutAssumption DEF IInv, TypeOK, Card
  <2>2. Spent \in Nat /\ Spent' = Spent
    <3>1. orders' = orders
      BY <1>3 DEF Redeem, SaveCard
    <3> QED
      BY <3>1, PaidAddsUp DEF IInv, TypeOK, Spent, Paid
  <2>3. card.balance + redeemed + Spent = CardValue + restored
    BY Balanced
  <2>4. CASE Redeem
    <3>1. PICK amount \in 1 .. card.balance :
            /\ card'.balance = card.balance - amount
            /\ redeemed' = redeemed + amount /\ restored' = restored
      BY <2>4 DEF Redeem
    <3>2. card'.balance + redeemed' + Spent' = CardValue + restored'
      BY <2>1, <2>2, <2>3, <3>1
    <3> QED
      BY <3>2 DEF CardSpentOnce, Spent, Paid
  <2>5. ASSUME NEW w \in Worker, SaveCard(w) PROVE CardSpentOnce'
    <3> DEFINE row == worker[w].row
    <3>1. /\ row \in Card /\ card' = [row EXCEPT !.active = ~ @]
          /\ redeemed' = redeemed
          /\ restored' = restored + row.balance - card.balance
      BY <2>5, Fields DEF SaveCard, IInv
    <3> HIDE DEF row
    <3>2. row.balance \in Int /\ card'.balance = row.balance
      BY <2>1, <3>1 DEF Card
    <3>3. card'.balance + redeemed' + Spent' = CardValue + restored'
      BY <2>1, <2>2, <2>3, <3>1, <3>2
    <3> QED
      BY <3>3 DEF CardSpentOnce, Spent, Paid
  <2> QED
    BY <1>3, <2>4, <2>5
<1> QED
  BY <1>1, <1>2, <1>3
     DEF Next, vars, AddToCart, RemoveFromCart, BeginCheckout, Price,
         CheckCoupon, TakeCard, Abort, ReadLine, SaveLine, BeginMerge,
         FinishMerge, ReadCard, ReadCoupon, SaveCoupon, DropEdit, money

\* What orders were paid by the card and staff took off it is what is missing
\* from it, whoever pays with it at once, but for what saves of the card put
\* back on it.
THEOREM CardPaysOnce == Spec => []CardSpentOnce
<1>1. Init => CardSpentOnce
  <2> SUFFICES ASSUME Init PROVE CardSpentOnce
    OBVIOUS
  <2>1. DOMAIN orders = {}
    BY DEF Init
  <2>2. Spent = 0
    BY <2>1, SumOfNone DEF Spent
  <2>3. /\ card.balance = CardValue /\ redeemed = 0 /\ restored = 0
        /\ CardValue \in Nat
    BY CheckoutAssumption DEF Init
  <2>4. card.balance + redeemed + Spent = CardValue + restored
    BY <2>2, <2>3
  <2> QED
    BY <2>4, Balanced
<1>2. CardSpentOnce /\ KnowInv /\ IInv /\ IInv' /\ [Next]_vars => CardSpentOnce'
  BY MoneyStep DEF IInv
<1> QED
  BY <1>1, <1>2, KnowInit, KnowStep, CheckoutsRely, PTL DEF Spec
=============================================================================
