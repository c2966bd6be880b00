----------------------------- MODULE MoneyBack -----------------------------
(***************************************************************************)
(* What somebody who paid Total may expect of the refunds of that payment  *)
(* (finance/services/payment_service.py, create_refund).  Each goes back   *)
(* once and whole, and all of them within what was paid; what is in the    *)
(* books went back; and of a payment that counts as refunded all went      *)
(* back, and nothing more does.  The books, not the money, may be wrong    *)
(* about a refund that was asked for twice at the same time.               *)
(***************************************************************************)
EXTENDS Naturals, Functions

CONSTANTS Key, Amount, Total

VARIABLES
  back,           \* what went back by each refund, 0: nothing
  booked,         \* the refunds in the books
  settled,        \* does the payment count as refunded?
  twice           \* refunds that were asked for twice at the same time

vars == <<back, booked, settled, twice>>

Init ==
  /\ back = [k \in Key |-> 0]
  /\ booked = {}
  /\ settled = FALSE
  /\ twice = {}

GiveBack(k, a) ==
  /\ settled => booked \cap twice # {}
  /\ back[k] = 0
  /\ SumFunctionOnSet(back, Key) + a <= Total
  /\ back' = [back EXCEPT ![k] = a]
  /\ UNCHANGED <<booked, settled, twice>>

\* The books may be closed with a refund only when all went back.
Book(k) ==
  /\ back[k] > 0 \/ k \in twice
  /\ booked' = booked \cup {k}
  /\ \/ UNCHANGED settled
     \/ /\ settled' = TRUE
        /\ \/ SumFunctionOnSet(back, booked') >= Total
           \/ booked' \cap twice # {}
  /\ UNCHANGED <<back, twice>>

AskTwice(k) ==
  /\ twice' = twice \cup {k}
  /\ UNCHANGED <<back, booked, settled>>

Next ==
  \E k \in Key :
    \/ \E a \in Amount : GiveBack(k, a)
    \/ Book(k)
    \/ AskTwice(k)

Spec == Init /\ [][Next]_vars
=============================================================================
