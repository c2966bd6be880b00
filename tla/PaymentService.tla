--------------------------- MODULE PaymentService ---------------------------
(***************************************************************************)
(* Taking money for an order: finance/services/payment_service.py, the     *)
(* storefront and admin views that call it, and the Stripe plugin through  *)
(* which it talks to the gateway.                                          *)
(*                                                                         *)
(* A request is handled by a Worker. A worker's database transaction is    *)
(* one action (the code takes row locks); between two transactions the     *)
(* worker only holds what it read, so every other worker, the gateway and  *)
(* the customer may move. A worker may die between two transactions.       *)
(*                                                                         *)
(* The order and the invoice are also written past the payment service: by *)
(* staff, and by saves of a whole row that was read earlier.               *)
(*                                                                         *)
(* Amounts are not modelled: create_payment refuses an amount that is not  *)
(* the order's and the invoice's total, and totals do not change here.     *)
(***************************************************************************)
EXTENDS Naturals, FiniteSets

CONSTANTS
  Order,        \* orders; each has the one invoice create_order_from_cart made
  Payment,      \* Payment rows that may ever be created
  Worker,       \* concurrently handled requests
  NoOrder, NoPayment,
  Kinds,        \* kinds of gateway in use: "card" (Stripe), "offline"
  Outcomes,     \* what the gateway may answer to a confirmation
  MaxIntents,   \* bound: PaymentIntents the gateway creates for one payment
  MaxLedger,    \* bound: ledger rows written for one payment
  MaxWritten    \* bound: documents others write between two bookings

ASSUME PaymentServiceAssumption ==
  /\ NoOrder \notin Order
  /\ NoPayment \notin Payment
  /\ Kinds \subseteq {"card", "offline"}
  /\ Outcomes \subseteq {"succeeded", "requires_action", "processing",
                  "failed", "exception"}
  /\ MaxIntents \in Nat \ {0}
  /\ MaxLedger \in Nat \ {0}
  /\ MaxWritten \in Nat

VARIABLES
  order,        \* Order rows
  attempt,      \* of each payment, the order and gateway it was created with
  payment,      \* the mutable fields of the Payment rows
  ledger,       \* number of 'payment' Transaction rows of each payment
  intent,       \* the gateway's PaymentIntents, by payment and number
  declined,     \* intents one of whose attempts the gateway reported declined
  answered,     \* succeeded intents whose webhook was answered 200
  overwritten,  \* orders and invoices written by others since a booking
  worker        \* what each request handler holds between transactions

vars ==
  <<order, attempt, payment, ledger, intent, declined, answered, overwritten,
    worker>>

-----------------------------------------------------------------------------
(* State *)

\* Intent 1 is the one made under the key bfg-payment-intent-<pk>; the others
\* are made by confirm_payment, without a key, when the row holds no id.
IntentNo == 1 .. MaxIntents

\* Values of Payment.gateway_transaction_id: 0 is the blank string.
TransactionId == 0 .. MaxIntents

PaymentStatus ==
  {"pending", "processing", "completed", "failed", "refunded"}

\* gateway_response as _gateway_response_succeeded tells it apart.
Response == {"none", "success", "failure"}

\* The fields of a Payment object held in memory that a full save() writes.
Row == [status: PaymentStatus, resp: Response, txn: TransactionId]

NoRow == [status |-> "pending", resp |-> "none", txn |-> 0]

Active == {"pending", "processing"}

\* A gateway's answer: its status and the transaction id it carries.
Reply ==
  [status: {"none", "pending", "succeeded", "requires_action", "failed",
            "processing", "exception"}, txn: TransactionId]

NoReply == [status |-> "none", txn |-> 0]

Idle == [at |-> "idle", pay |-> NoPayment, row |-> NoRow, reply |-> NoReply]

WorkerState ==
  [at: {"idle", "intent", "admin_intent", "call", "persist", "finalize",
        "webhook_ok", "webhook_failed", "webhook_finalize"},
   pay: Payment \cup {NoPayment}, row: Row, reply: Reply]

\* "closed" is cancelled or refunded; "unpaid" is any payment status, and
\* "sent" any invoice status, but paid.
OrderRow == [status: {"open", "closed"}, pay: {"unpaid", "paid"},
             invoice: {"sent", "paid"}]

\* The documents that say whether an order is paid.
Document == {"order", "invoice"}

TypeOK ==
  /\ order \in [Order -> OrderRow]
  /\ attempt \in [Payment -> [order: Order \cup {NoOrder},
                              kind: {"card", "offline"}]]
  /\ payment \in [Payment -> Row]
  /\ ledger \in [Payment -> Nat]
  /\ intent \in [Payment \X IntentNo ->
                   {"none", "open", "requires_action", "succeeded"}]
  /\ declined \subseteq Payment \X IntentNo
  /\ answered \subseteq Payment \X TransactionId
  /\ overwritten \subseteq Order \X Document
  /\ worker \in [Worker -> WorkerState]
  /\ \A w \in Worker : worker[w].at # "idle" => worker[w].pay \in Payment

\* An order that a gift card covered is paid as it is placed, with its invoice.
Init ==
  /\ \E gifts \in SUBSET Order :
       /\ order = [o \in Order |->
            [status  |-> "open",
             pay     |-> IF o \in gifts THEN "paid" ELSE "unpaid",
             invoice |-> IF o \in gifts THEN "paid" ELSE "sent"]]
       /\ overwritten = gifts \X Document
  /\ attempt = [p \in Payment |-> [order |-> NoOrder, kind |-> "card"]]
  /\ payment = [p \in Payment |-> NoRow]
  /\ ledger = [p \in Payment |-> 0]
  /\ intent = [pi \in Payment \X IntentNo |-> "none"]
  /\ declined = {}
  /\ answered = {}
  /\ worker = [w \in Worker |-> Idle]

-----------------------------------------------------------------------------
(* Helpers *)

Exists(p) == attempt[p].order # NoOrder

PaymentsOf(o) == {p \in Payment : attempt[p].order = o}

\* The checks create_payment makes under the order's and the invoice's locks.
MayCreatePayment(o) ==
  /\ order[o].pay # "paid"
  /\ order[o].invoice # "paid"
  /\ order[o].status = "open"
  /\ \A p \in PaymentsOf(o) :
        payment[p].status \notin Active \cup {"completed"}

NewPayment(o, p, k) ==
  /\ ~ Exists(p)
  /\ MayCreatePayment(o)
  /\ attempt' = [attempt EXCEPT ![p] = [order |-> o, kind |-> k]]
  /\ payment' = [payment EXCEPT ![p] = NoRow]

\* A worker keeps of the row only what it uses later: every field for a full
\* save, the transaction id for a call to the gateway or a webhook.
IdOf(row) == [status |-> "pending", resp |-> "none", txn |-> row.txn]

WithStatus(row, s) == [status |-> s, resp |-> row.resp, txn |-> row.txn]

WithTransaction(row, t) ==
  [status |-> row.status, resp |-> row.resp, txn |-> t]

Holds(w, at, p, row, reply) ==
  worker' = [worker EXCEPT ![w] =
               [at |-> at, pay |-> p, row |-> row, reply |-> reply]]

Ends(w) == worker' = [worker EXCEPT ![w] = Idle]

-----------------------------------------------------------------------------
(* The payment API *)

\* POST payments: PaymentViewSet.perform_create.
CreatePayment(o, p, k) ==
  /\ NewPayment(o, p, k)
  /\ UNCHANGED <<order, ledger, intent, declined, answered, overwritten, worker>>

\* POST payments/intent, the transaction under the order's lock: reuse the
\* order's pending payment, or create one; refuse any other active attempt.
BeginIntent(w, o, p, k, at) ==
  /\ worker[w].at = "idle"
  /\ order[o].pay # "paid" /\ order[o].status = "open"
  /\ \/ /\ p \in PaymentsOf(o)
        /\ attempt[p].kind = k /\ payment[p].status = "pending"
        /\ \A q \in PaymentsOf(o) \ {p} : payment[q].status \notin Active
        /\ Holds(w, at, p,
                 IF at = "intent" THEN payment[p] ELSE IdOf(payment[p]), NoReply)
        /\ UNCHANGED <<attempt, payment>>
     \/ /\ NewPayment(o, p, k)
        /\ Holds(w, at, p, NoRow, NoReply)
  /\ UNCHANGED <<order, ledger, intent, declined, answered, overwritten>>

\* Stripe creates the intent, or finds it under its idempotency key; an
\* offline gateway answers with a fixed id.
OpenIntent(p) ==
  intent' = IF attempt[p].kind = "card" /\ intent[<<p, 1>>] = "none"
              THEN [intent EXCEPT ![<<p, 1>>] = "open"] ELSE intent

\* Storefront: payment.save() writes every field of the object read before
\* the gateway was called.
SaveIntent(w) ==
  LET p == worker[w].pay IN
  /\ worker[w].at = "intent"
  /\ OpenIntent(p)
  /\ payment' = [payment EXCEPT ![p] = WithTransaction(worker[w].row, 1)]
  /\ Ends(w)
  /\ UNCHANGED <<attempt, order, ledger, declined, answered, overwritten>>

\* Admin: only gateway_transaction_id is written, and only if the object read
\* before the gateway was called held another id.
SaveAdminIntent(w) ==
  LET p == worker[w].pay IN
  /\ worker[w].at = "admin_intent"
  /\ OpenIntent(p)
  /\ payment' = IF worker[w].row.txn = 1 THEN payment
                 ELSE [payment EXCEPT ![p] = WithTransaction(@, 1)]
  /\ Ends(w)
  /\ UNCHANGED <<attempt, order, ledger, declined, answered, overwritten>>

-----------------------------------------------------------------------------
(* process_payment *)

\* First transaction. A stored success goes straight to the bookkeeping; a
\* payment already being processed is refused unless staff confirms it.
BeginProcess(w, p, manual) ==
  LET row == payment[p] IN
  /\ worker[w].at = "idle"
  /\ Exists(p)
  /\ manual => attempt[p].kind = "offline"
  /\ row.status # "completed"
  /\ \/ /\ row.resp = "success"
        /\ Holds(w, "finalize", p, NoRow, NoReply)
        /\ UNCHANGED payment
     \/ /\ row.resp # "success"
        /\ row.status = "processing" => manual
        /\ payment' = [payment EXCEPT ![p] = WithStatus(@, "processing")]
        /\ IF manual
             THEN Holds(w, "persist", p, NoRow,
                        [status |-> "succeeded", txn |-> 0])
             ELSE Holds(w, "call", p, IdOf(row), NoReply)
  /\ UNCHANGED <<attempt, order, ledger, intent, declined, answered,
                 overwritten>>

\* What the gateway does with intent i when it answers s. On "exception" the
\* connection broke or the card was refused, and the service cannot tell which;
\* on "processing" the charge is settled later (CustomerPays).
GatewayDoes(p, i, s) ==
  \E state \in CASE s = "exception" -> {"open", "succeeded"}
                 [] s \in {"failed", "processing"} -> {"open"}
                 [] OTHER           -> {s},
     decline \in IF "failed" \in Outcomes THEN SUBSET {<<p, i>>} ELSE {{}} :
    /\ s = "failed" => decline # {}
    /\ decline # {} => state = "open" /\ s # "processing"
    /\ intent' = [intent EXCEPT ![<<p, i>>] = state]
    /\ declined' = declined \cup decline

\* confirm_payment on intent i: report it if it has succeeded or waits for the
\* customer, confirm it otherwise. Only some answers carry the intent's id.
Confirm(w, p, i) ==
  \E s \in IF intent[<<p, i>>] \in {"succeeded", "requires_action"}
             THEN {intent[<<p, i>>]} ELSE Outcomes :
    /\ GatewayDoes(p, i, s)
    /\ Holds(w, "persist", p, NoRow,
             [status |-> s,
              txn |-> IF s \in {"succeeded", "processing", "failed"}
                       THEN i ELSE 0])

\* _call_payment_gateway, outside any transaction. Without an id on the row,
\* confirm_payment makes a new intent.
CallGateway(w) ==
  LET p == worker[w].pay
      i == worker[w].row.txn IN
  /\ worker[w].at = "call"
  /\ \/ /\ attempt[p].kind = "offline"
        /\ Holds(w, "persist", p, NoRow,
                 [status |-> "pending", txn |-> i])
        /\ UNCHANGED <<intent, declined>>
     \/ /\ attempt[p].kind = "card"
        /\ \E n \in IF i # 0 THEN {i}
                    ELSE {m \in IntentNo \ {1} : intent[<<p, m>>] = "none"} :
              Confirm(w, p, n)
     \/ /\ attempt[p].kind = "card" /\ "exception" \in Outcomes
        /\ Holds(w, "persist", p, NoRow,
                 [status |-> "exception", txn |-> 0])
        /\ UNCHANGED <<intent, declined>>
  /\ UNCHANGED <<attempt, order, payment, ledger, answered, overwritten>>

\* Mutant: an answer that still waits for the customer is stored as a success.
Persisted_ActionIsSuccess(row, reply) ==
  [status |-> IF reply.status = "failed" THEN "failed" ELSE "processing",
   resp |-> IF reply.status \in {"succeeded", "requires_action"}
              THEN "success" ELSE "failure",
   txn |-> reply.txn]

\* The row the second transaction writes; the row is locked, and whatever
\* another request made of it meanwhile is not looked at.
Persisted(row, reply) ==
  CASE reply.status = "succeeded" ->
         [status |-> "processing", resp |-> "success", txn |-> reply.txn]
    [] reply.status = "pending" ->
         [status |-> "pending", resp |-> "failure", txn |-> reply.txn]
    [] reply.status \in {"requires_action", "processing"} ->
         [status |-> "processing", resp |-> "failure", txn |-> reply.txn]
    [] reply.status = "failed" ->
         [status |-> "failed", resp |-> "failure", txn |-> reply.txn]
    [] OTHER ->
         [status |-> "processing", resp |-> "failure", txn |-> row.txn]

PersistReply(w) ==
  LET p == worker[w].pay
      reply == worker[w].reply IN
  /\ worker[w].at = "persist"
  /\ payment' = [payment EXCEPT ![p] = Persisted(@, reply)]
  /\ IF reply.status = "succeeded"
       THEN Holds(w, "finalize", p, NoRow, NoReply)
       ELSE Ends(w)
  /\ UNCHANGED <<attempt, order, ledger, intent, declined, answered,
                 overwritten>>

-----------------------------------------------------------------------------
(* _finalize_confirmed_payment: one transaction *)

\* Mutant: an order that is already paid is not booked again, although this
\* payment took money too.
Complete_OncePerOrder(p) ==
  LET o == attempt[p].order IN
  IF payment[p].status = "completed" \/ payment[p].resp # "success"
    THEN UNCHANGED <<order, payment, ledger, overwritten>>
    ELSE /\ payment' = [payment EXCEPT ![p] = WithStatus(@, "completed")]
         /\ ledger' = IF order[o].pay = "paid" THEN ledger
                       ELSE [ledger EXCEPT ![p] = @ + 1]
         /\ order' = [order EXCEPT ![o] = [status |-> @.status, pay |-> "paid",
                                                invoice |-> "paid"]]
         /\ overwritten' = overwritten \ ({o} \X Document)

\* Complete the payment, write the ledger row, settle the order (mark_as_paid)
\* and the invoice. A payment without a stored success is refused.
Complete(p) ==
  LET o == attempt[p].order
      row == payment[p] IN
  IF row.status = "completed" \/ row.resp # "success"
    THEN UNCHANGED <<order, payment, ledger, overwritten>>
    ELSE /\ ledger[p] < MaxLedger
         /\ payment' = [payment EXCEPT ![p] = WithStatus(@, "completed")]
         /\ ledger' = [ledger EXCEPT ![p] = @ + 1]
         /\ order' = [order EXCEPT ![o] = [status |-> @.status, pay |-> "paid",
                                                invoice |-> "paid"]]
         /\ overwritten' = overwritten \ ({o} \X Document)

FinalizeProcess(w) ==
  /\ worker[w].at = "finalize"
  /\ Complete(worker[w].pay)
  /\ Ends(w)
  /\ UNCHANGED <<attempt, intent, declined, answered>>

\* Mutant: the error of a finalisation that found no stored success is
\* swallowed, and the gateway is told 200.
FinalizeWebhook_AlwaysAnswers(w) ==
  /\ worker[w].at = "webhook_finalize"
  /\ Complete(worker[w].pay)
  /\ answered' = answered \cup {<<worker[w].pay, worker[w].row.txn>>}
  /\ Ends(w)
  /\ UNCHANGED <<attempt, intent, declined>>

\* The webhook's own finalisation; unless it raises, the 200 follows it.
FinalizeWebhook(w) ==
  LET p == worker[w].pay
      row == payment[p] IN
  /\ worker[w].at = "webhook_finalize"
  /\ Complete(p)
  /\ answered' = IF row.status = "completed" \/ row.resp = "success"
                   THEN answered \cup {<<p, worker[w].row.txn>>}
                   ELSE answered
  /\ Ends(w)
  /\ UNCHANGED <<attempt, intent, declined>>

-----------------------------------------------------------------------------
(* handle_webhook *)

\* Mutant: only a pending payment takes a webhook, so a redelivery cannot
\* finish what a dead worker left in processing.
ReceiveWebhook_OnlyPending(w, p, i, kind) ==
  LET live == payment[p].txn = i /\ payment[p].status = "pending" IN
  /\ worker[w].at = "idle"
  /\ kind = "succeeded" /\ intent[<<p, i>>] = "succeeded"
  /\ IF live THEN Holds(w, "webhook_ok", p, IdOf(payment[p]), NoReply)
             ELSE UNCHANGED worker
  /\ answered' = IF live THEN answered ELSE answered \cup {<<p, i>>}
  /\ UNCHANGED <<attempt, order, payment, ledger, intent, declined,
                 overwritten>>

\* The gateway reports intent i of payment p. The payment is looked up by the
\* id the row holds, without a lock; in any other status than pending or
\* processing, or when no row holds the id, the event is dropped with a 200.
ReceiveWebhook(w, p, i, kind) ==
  LET row == payment[p]
      live == Exists(p) /\ row.txn = i /\ row.status \in Active IN
  /\ worker[w].at = "idle"
  /\ IF kind = "succeeded" THEN intent[<<p, i>>] = "succeeded"
                           ELSE <<p, i>> \in declined
  /\ IF live
       THEN /\ Holds(w, IF kind = "succeeded" THEN "webhook_ok"
                                              ELSE "webhook_failed",
                     p, IdOf(row), NoReply)
            /\ UNCHANGED answered
       ELSE /\ answered' = IF kind = "succeeded"
                             THEN answered \cup {<<p, i>>} ELSE answered
            /\ UNCHANGED worker
  /\ UNCHANGED <<attempt, order, payment, ledger, intent, declined,
                 overwritten>>

\* A success, under the payment's lock: anything but a completed payment takes
\* the gateway's answer.
StoreWebhookSuccess(w) ==
  LET p == worker[w].pay IN
  /\ worker[w].at = "webhook_ok"
  /\ IF payment[p].status = "completed"
       THEN /\ answered' = answered \cup {<<p, worker[w].row.txn>>}
            /\ Ends(w)
            /\ UNCHANGED payment
       ELSE /\ payment' = [payment EXCEPT ![p] =
                  [status |-> "processing", resp |-> "success", txn |-> @.txn]]
            /\ Holds(w, "webhook_finalize", p, worker[w].row, NoReply)
            /\ UNCHANGED answered
  /\ UNCHANGED <<attempt, order, ledger, intent, declined, overwritten>>

\* Mutant: a declined attempt cancels the payment, a status Payment lacks.
StoreWebhookFailure_Cancels(w) ==
  /\ worker[w].at = "webhook_failed"
  /\ payment' = [payment EXCEPT ![worker[w].pay] = WithStatus(@, "cancelled")]
  /\ Ends(w)
  /\ UNCHANGED <<attempt, order, ledger, intent, declined, answered,
                 overwritten>>

\* A declined attempt, under the payment's lock.
StoreWebhookFailure(w) ==
  LET p == worker[w].pay IN
  /\ worker[w].at = "webhook_failed"
  /\ payment' = IF payment[p].status \in Active
                  THEN [payment EXCEPT ![p] =
                    [status |-> "failed", resp |-> "failure", txn |-> @.txn]]
                  ELSE payment
  /\ Ends(w)
  /\ UNCHANGED <<attempt, order, ledger, intent, declined, answered,
                 overwritten>>

-----------------------------------------------------------------------------
(* The rest of the world *)

\* The customer pays on the intent in the browser; the gateway charges.
CustomerPays(p, i) ==
  /\ intent[<<p, i>>] \in {"open", "requires_action"}
  /\ intent' = [intent EXCEPT ![<<p, i>>] = "succeeded"]
  /\ UNCHANGED <<attempt, order, payment, ledger, declined, answered,
                 overwritten, worker>>

\* A card is declined in the browser; the intent stays open for another card.
CustomerDeclined(p, i) ==
  /\ "failed" \in Outcomes
  /\ intent[<<p, i>>] \in {"open", "requires_action"}
  /\ <<p, i>> \notin declined
  /\ declined' = declined \cup {<<p, i>>}
  /\ intent' = [intent EXCEPT ![<<p, i>>] = "open"]
  /\ UNCHANGED <<attempt, order, payment, ledger, answered, overwritten,
                 worker>>

\* cancel_order.
CancelOrder(o) ==
  /\ order[o].status = "open"
  /\ order' = [order EXCEPT ![o] = [status |-> "closed", pay |-> @.pay,
                                     invoice |-> @.invoice]]
  /\ UNCHANGED <<attempt, payment, ledger, intent, declined, answered,
                 overwritten, worker>>

MayWrite(o, document) ==
  <<o, document>> \in overwritten \/ Cardinality(overwritten) < MaxWritten

\* Staff writes the order, or somebody saves an order read before (update_items
\* and the like): any status, any payment status. No payment and no ledger row
\* goes with it.
WriteOrder(o, status, pay) ==
  /\ MayWrite(o, "order")
  /\ order' = [order EXCEPT ![o] = [status |-> status, pay |-> pay,
                                     invoice |-> @.invoice]]
  /\ overwritten' = overwritten \cup {<<o, "order">>}
  /\ UNCHANGED <<attempt, payment, ledger, intent, declined, answered, worker>>

\* POST mark-paid, for money that came past any payment.
MarkPaid(o) == WriteOrder(o, order[o].status, "paid")

\* POST refund.
RefundOrder(o) == WriteOrder(o, "closed", "unpaid")

\* PATCH of the order, or a stale save of it.
EditOrder(o) ==
  \E status \in {"open", "closed"}, pay \in {"unpaid", "paid"} :
    WriteOrder(o, status, pay)

\* The invoice is marked as paid or sent, edited, or saved from an older read.
EditInvoice(o) ==
  /\ MayWrite(o, "invoice")
  /\ \E invoice \in {"sent", "paid"} :
       order' = [order EXCEPT ![o] = [status |-> @.status, pay |-> @.pay,
                                          invoice |-> invoice]]
  /\ overwritten' = overwritten \cup {<<o, "invoice">>}
  /\ UNCHANGED <<attempt, payment, ledger, intent, declined, answered, worker>>

\* The completed refunds reach the payment's amount (see Refunds).
RefundInFull(p) ==
  /\ payment[p].status = "completed"
  /\ payment' = [payment EXCEPT ![p] = WithStatus(@, "refunded")]
  /\ UNCHANGED <<attempt, order, ledger, intent, declined, answered,
                 overwritten, worker>>

\* The process handling the request dies between two transactions, or the
\* transaction it is about to run is rolled back.
Crash(w) ==
  /\ worker[w].at # "idle"
  /\ Ends(w)
  /\ UNCHANGED <<attempt, order, payment, ledger, intent, declined, answered,
                 overwritten>>

-----------------------------------------------------------------------------

\* What one worker goes on to do once a request has begun.
Step(w) ==
  \/ SaveIntent(w)
  \/ SaveAdminIntent(w)
  \/ CallGateway(w)
  \/ PersistReply(w)
  \/ FinalizeProcess(w)
  \/ FinalizeWebhook(w)
  \/ StoreWebhookSuccess(w)
  \/ StoreWebhookFailure(w)

\* The client-side flow: an intent, the customer's card, the webhooks.
IntentFlow ==
  \/ \E w \in Worker : Step(w) \/ Crash(w)
  \/ \E w \in Worker, o \in Order, p \in Payment,
        k \in Kinds, at \in {"intent", "admin_intent"} :
          BeginIntent(w, o, p, k, at)
  \/ \E w \in Worker, p \in Payment, i \in IntentNo,
        kind \in {"succeeded", "failed"} : ReceiveWebhook(w, p, i, kind)
  \/ \E p \in Payment, i \in IntentNo :
        CustomerPays(p, i) \/ CustomerDeclined(p, i)
  \/ \E o \in Order : CancelOrder(o) \/ MarkPaid(o) \/ RefundOrder(o)
                     \/ EditOrder(o) \/ EditInvoice(o)
  \/ \E p \in Payment : RefundInFull(p)

Next ==
  \/ IntentFlow
  \/ \E o \in Order, p \in Payment, k \in Kinds : CreatePayment(o, p, k)
  \/ \E w \in Worker, p \in Payment, manual \in BOOLEAN :
        BeginProcess(w, p, manual)

Spec == Init /\ [][Next]_vars

\* Stripe delivers an event until it is answered; a worker that took one does
\* not die every time; and the customer does not ask for a payment intent for
\* ever (each storefront save may undo the webhook it races).
WebhookFairness ==
  /\ \A p \in Payment, i \in IntentNo :
       SF_vars(\E w \in Worker : <<p, i>> \notin answered
                                 /\ ReceiveWebhook(w, p, i, "succeeded"))
  /\ \A w \in Worker :
       /\ WF_vars(Step(w))
       /\ SF_vars(StoreWebhookSuccess(w))
       /\ SF_vars(FinalizeWebhook(w))
  /\ <>[][\A w \in Worker : ~ SaveIntent(w)]_vars

IntentFlowSpec == Init /\ [][IntentFlow]_vars /\ WebhookFairness

-----------------------------------------------------------------------------
(* Properties *)

\* The gateway holds money for p, or staff vouched for it.
HasMoney(p) ==
  \/ attempt[p].kind = "offline"
  \/ \E i \in IntentNo : intent[<<p, i>>] = "succeeded"

Booked(p) == ledger[p] > 0

\* No money is booked that the gateway did not take: a 'payment' ledger row,
\* whichever of process_payment, its retry or a webhook wrote it, belongs to a
\* payment one of whose intents succeeded (or to an offline one).
MoneyBehindLedger == \A p \in Payment : Booked(p) => HasMoney(p)

\* _complete_confirmed_payment keeps the payment, the ledger, the order and the
\* invoice in step, for any number of attempts at one order: a completed (or
\* since refunded) payment is booked; and unless somebody wrote the order (or
\* the invoice) past the payment service since the last booking, it is paid
\* exactly when some attempt at it is booked.
BooksAgree ==
  /\ \A p \in Payment :
       payment[p].status \in {"completed", "refunded"} => Booked(p)
  /\ \A o \in Order :
       LET booked == \E p \in PaymentsOf(o) : Booked(p) IN
       /\ <<o, "order">> \notin overwritten =>
            (order[o].pay = "paid" <=> booked)
       /\ <<o, "invoice">> \notin overwritten =>
            (order[o].invoice = "paid" <=> booked)

\* A card of payment p was declined.
Declined(p) == \E i \in IntentNo : <<p, i>> \in declined

\* A success the gateway reported and had answered with 200 is booked, unless a
\* card was declined on the payment before. The gateway does not report it
\* again, so nothing else will book it. (storefront.py, callback: a refused
\* callback "would take a shopper's payment and leave the order unpaid".)
AnsweredIsBooked ==
  \A p \in Payment, i \in IntentNo :
    <<p, i>> \in answered => Booked(p) \/ Declined(p)

\* A customer who paid on the intent the payment holds, and had no card declined
\* on it, gets the payment booked, whatever requests, stale saves and crashes
\* come in between.
ChargedIsBooked ==
  \A p \in Payment :
    (intent[<<p, 1>>] = "succeeded") ~> (Booked(p) \/ Declined(p))

\* One payment is one row in the ledger, however often it is processed.  Does
\* not hold: a completed payment is opened again by a stale save, by a gateway's
\* answer that is stored after its webhook, and by a refund.
LedgerOnce == \A p \in Payment : ledger[p] <= 1

=============================================================================
