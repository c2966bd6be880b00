------------------------ MODULE PaymentServiceProofs ------------------------
(***************************************************************************)
(* For any sets of orders, payments and requests: PaymentService keeps its *)
(* types, no money is booked that the gateway did not take, and payment,   *)
(* ledger, order and invoice agree; a success that was answered in the     *)
(* client-side flow is booked; and only three steps let a payment be       *)
(* booked twice.                                                           *)
(***************************************************************************)
EXTENDS PaymentService, TLAPS

USE PaymentServiceAssumption

\* The worker part of TypeOK.
WorkersOK ==
  /\ worker \in [Worker -> WorkerState]
  /\ \A w \in Worker : worker[w].at # "idle" => worker[w].pay \in Payment

\* A worker that takes hold of well-typed values, or lets go of them, keeps
\* the workers well typed.
LEMMA HoldsType ==
  ASSUME NEW w \in Worker, NEW at, NEW p \in Payment, NEW row \in Row,
         NEW reply \in Reply, WorkersOK,
         at \in {"intent", "admin_intent", "call", "persist", "finalize",
                 "webhook_ok", "webhook_failed", "webhook_finalize"},
         Holds(w, at, p, row, reply)
  PROVE  WorkersOK'
BY DEF Holds, WorkerState, WorkersOK

LEMMA NoRowType == NoRow \in Row /\ NoReply \in Reply
BY DEF NoRow, NoReply, Row, Reply, PaymentStatus, Response, TransactionId

LEMMA EndsType ==
  ASSUME NEW w \in Worker, WorkersOK, Ends(w)
  PROVE  WorkersOK'
BY NoRowType DEF Ends, WorkerState, Idle, WorkersOK

LEMMA IdOfType == ASSUME NEW row \in Row PROVE IdOf(row) \in Row
BY DEF IdOf, NoRow, Row, PaymentStatus, Response, TransactionId

LEMMA PersistedType ==
  ASSUME NEW row \in Row, NEW reply \in Reply PROVE Persisted(row, reply) \in Row
BY DEF Persisted, Row, Reply, PaymentStatus, Response, TransactionId

LEMMA WithStatusType ==
  ASSUME NEW row \in Row, NEW s \in PaymentStatus
  PROVE  WithStatus(row, s) \in Row
BY DEF WithStatus, Row

LEMMA WithTransactionType ==
  ASSUME NEW row \in Row PROVE WithTransaction(row, 1) \in Row
BY DEF WithTransaction, Row, TransactionId

LEMMA CompleteType ==
  ASSUME TypeOK, NEW p \in Payment, Complete(p)
  PROVE  /\ order' \in [Order -> OrderRow]
         /\ payment' \in [Payment -> Row]
         /\ ledger' \in [Payment -> Nat]
         /\ overwritten' \subseteq Order \X Document
<1>1. WithStatus(payment[p], "completed") \in Row
  BY WithStatusType DEF TypeOK, PaymentStatus
<1>2. ledger[p] + 1 \in Nat
  BY DEF TypeOK
<1>3. CASE UNCHANGED <<order, payment, ledger, overwritten>>
  BY <1>3 DEF TypeOK
<1>4. CASE ~ UNCHANGED <<order, payment, ledger, overwritten>>
  <2>1. payment' = [payment EXCEPT ![p] = WithStatus(payment[p], "completed")]
    BY <1>4 DEF Complete
  <2>2. ledger' = [ledger EXCEPT ![p] = ledger[p] + 1]
    BY <1>4 DEF Complete
  <2>3. order' = [order EXCEPT ![attempt[p].order] =
                    [status |-> order[attempt[p].order].status,
                     pay |-> "paid", invoice |-> "paid"]]
    BY <1>4 DEF Complete
  <2>4. overwritten' \subseteq overwritten
    BY <1>4 DEF Complete
  <2> QED
    BY <1>1, <1>2, <2>1, <2>2, <2>3, <2>4 DEF TypeOK, OrderRow
<1> QED
  BY <1>3, <1>4

-----------------------------------------------------------------------------
(* Type correctness *)

\* The admin view writes the transaction id of the row, or nothing.
LEMMA AdminRow ==
  ASSUME TypeOK, NEW w \in Worker, SaveAdminIntent(w)
  PROVE  LET p == worker[w].pay IN
         \E row \in {payment[p], WithTransaction(payment[p], 1)} :
           /\ payment' = [payment EXCEPT ![p] = row]
           /\ row.status = payment[p].status /\ row.resp = payment[p].resp
<1> DEFINE p == worker[w].pay
           row == IF worker[w].row.txn = 1 THEN payment[p]
                  ELSE WithTransaction(payment[p], 1)
<1>1. row.status = payment[p].status /\ row.resp = payment[p].resp
  BY DEF WithTransaction
<1>2. payment' = [payment EXCEPT ![p] = row]
  BY DEF SaveAdminIntent, TypeOK
<1>3. row \in {payment[p], WithTransaction(payment[p], 1)}
  OBVIOUS
<1> QED
  BY <1>1, <1>2, <1>3

\* Whoever writes the order past the service writes its status and payment
\* status, and nothing else.
LEMMA OthersWrite ==
  ASSUME NEW o \in Order,
         MarkPaid(o) \/ RefundOrder(o) \/ EditOrder(o) \/ EditInvoice(o)
  PROVE  /\ UNCHANGED <<attempt, payment, ledger, intent, declined, answered,
                        worker>>
         /\ \/ EditInvoice(o)
            \/ \E status, pay :
                 /\ WriteOrder(o, status, pay)
                 /\ TypeOK => /\ status \in {"open", "closed"}
                              /\ pay \in {"unpaid", "paid"}
<1>1. CASE EditInvoice(o)
  BY <1>1 DEF EditInvoice
<1>2. CASE MarkPaid(o)
  BY <1>2 DEF MarkPaid, WriteOrder, TypeOK, OrderRow
<1>3. CASE RefundOrder(o)
  BY <1>3 DEF RefundOrder, WriteOrder
<1>4. CASE EditOrder(o)
  BY <1>4 DEF EditOrder, WriteOrder
<1> QED
  BY <1>1, <1>2, <1>3, <1>4

LEMMA TypeInit == Init => TypeOK
<1> SUFFICES ASSUME Init PROVE TypeOK
  OBVIOUS
<1>1. Idle \in WorkerState
  BY NoRowType DEF Idle, WorkerState
<1>2. order \in [Order -> OrderRow] /\ overwritten \subseteq Order \X Document
  BY DEF Init, OrderRow
<1> QED
  BY <1>1, <1>2, NoRowType DEF Init, TypeOK, Idle

LEMMA TypeStep == TypeOK /\ [Next]_vars => TypeOK'
<1> SUFFICES ASSUME TypeOK, [Next]_vars PROVE TypeOK'
  OBVIOUS
<1>0. WorkersOK /\ payment \in [Payment -> Row]
  BY DEF TypeOK, WorkersOK
<1>1. ASSUME NEW o \in Order, NEW p \in Payment, NEW k \in Kinds,
             NewPayment(o, p, k)
      PROVE /\ attempt' \in [Payment -> [order: Order \cup {NoOrder},
                                         kind: {"card", "offline"}]]
            /\ payment' \in [Payment -> Row]
  BY <1>1, NoRowType DEF NewPayment, TypeOK
<1>2. ASSUME NEW o \in Order, NEW p \in Payment, NEW k \in Kinds,
             CreatePayment(o, p, k)
      PROVE  TypeOK'
  BY <1>1, <1>2 DEF CreatePayment, TypeOK
<1>3. ASSUME NEW w \in Worker, NEW o \in Order, NEW p \in Payment,
             NEW k \in Kinds, NEW at \in {"intent", "admin_intent"},
             BeginIntent(w, o, p, k, at)
      PROVE TypeOK'
  <2>0. payment[p] \in Row /\ IdOf(payment[p]) \in Row
    BY <1>0, IdOfType
  <2>1. WorkersOK'
    BY <1>0, <1>3, <2>0, NoRowType, HoldsType DEF BeginIntent
  <2>2. CASE UNCHANGED <<attempt, payment>>
    BY <1>3, <2>1, <2>2 DEF BeginIntent, TypeOK, WorkersOK
  <2>3. CASE NewPayment(o, p, k)
    BY <1>1, <1>3, <2>1, <2>3 DEF BeginIntent, TypeOK, WorkersOK
  <2> QED
    BY <1>3, <2>2, <2>3 DEF BeginIntent
<1>4. ASSUME NEW w \in Worker, SaveIntent(w) \/ SaveAdminIntent(w)
      PROVE TypeOK'
  <2> DEFINE p == worker[w].pay
  <2>0. p \in Payment /\ worker[w].row \in Row
    BY <1>0, <1>4 DEF SaveIntent, SaveAdminIntent, WorkersOK, WorkerState
  <2>1. WorkersOK'
    BY <1>0, <1>4, EndsType DEF SaveIntent, SaveAdminIntent
  <2>2. payment' \in [Payment -> Row]
    <3>1. /\ WithTransaction(worker[w].row, 1) \in Row
          /\ WithTransaction(payment[p], 1) \in Row
      BY <1>0, <2>0, WithTransactionType
    <3>2. \/ payment' = [payment EXCEPT ![p] = WithTransaction(worker[w].row, 1)]
          \/ payment' = [payment EXCEPT ![p] = WithTransaction(payment[p], 1)]
          \/ UNCHANGED payment
      BY <1>4 DEF SaveIntent, SaveAdminIntent
    <3> QED
      BY <1>0, <3>1, <3>2
  <2>3. intent' \in [Payment \X IntentNo ->
                   {"none", "open", "requires_action", "succeeded"}]
    <3>1. intent' \in {intent, [intent EXCEPT ![<<p, 1>>] = "open"]}
      BY <1>4 DEF SaveIntent, SaveAdminIntent, OpenIntent
    <3> QED
      BY <3>1 DEF TypeOK
  <2> QED
    BY <1>4, <2>1, <2>2, <2>3 DEF SaveIntent, SaveAdminIntent, TypeOK, WorkersOK
<1>5. ASSUME NEW w \in Worker, NEW p \in Payment, NEW manual \in BOOLEAN,
             BeginProcess(w, p, manual)
      PROVE TypeOK'
  <2>0. /\ payment[p] \in Row
        /\ IdOf(payment[p]) \in Row
        /\ WithStatus(payment[p], "processing") \in Row
    BY <1>0, IdOfType, WithStatusType DEF PaymentStatus
  <2>1. [status |-> "succeeded", txn |-> 0] \in Reply
    BY <1>5 DEF Reply, TransactionId
  <2>2. WorkersOK'
    BY <1>0, <1>5, <2>0, <2>1, NoRowType, HoldsType DEF BeginProcess
  <2>3. payment' \in [Payment -> Row]
    BY <1>0, <1>5, <2>0 DEF BeginProcess
  <2> QED
    BY <1>5, <2>2, <2>3 DEF BeginProcess, TypeOK, WorkersOK
<1>6. ASSUME NEW w \in Worker, CallGateway(w)
      PROVE TypeOK'
  <2> DEFINE p == worker[w].pay
  <2> DEFINE Answer(s, t) ==
               Holds(w, "persist", p, NoRow, [status |-> s, txn |-> t])
  <2>0. /\ p \in Payment
        /\ worker[w].row.txn \in TransactionId
        /\ 0 \in TransactionId
        /\ IntentNo \subseteq TransactionId
    BY <1>0, <1>6
       DEF CallGateway, WorkersOK, WorkerState, Row, TransactionId, IntentNo
  <2>1. ASSUME NEW s \in {"pending", "exception", "succeeded", "failed",
                          "processing", "requires_action"}, NEW t \in TransactionId,
               Answer(s, t)
        PROVE WorkersOK'
    <3>1. [status |-> s, txn |-> t] \in Reply
      BY DEF Reply
    <3> QED
      BY <1>0, <2>0, <2>1, <3>1, NoRowType, HoldsType
  <2>2. CASE /\ UNCHANGED <<intent, declined>>
             /\ \/ Answer("pending", worker[w].row.txn)
                \/ Answer("exception", 0)
    <3>1. WorkersOK'
      BY <2>0, <2>1, <2>2
    <3> QED
      BY <1>6, <2>2, <3>1 DEF CallGateway, TypeOK, WorkersOK
  <2>3. ASSUME NEW n \in IntentNo, Confirm(w, p, n)
        PROVE TypeOK'
    <3>1. PICK s \in {"succeeded", "requires_action"} \cup Outcomes :
             /\ GatewayDoes(p, n, s)
             /\ Answer(s, IF s \in {"succeeded", "processing", "failed"}
                               THEN n ELSE 0)
      BY <2>3 DEF Confirm
    <3>2. WorkersOK'
      BY <2>0, <2>1, <3>1
    <3>3. PICK state \in CASE s = "exception" -> {"open", "succeeded"}
                           [] s \in {"failed", "processing"} -> {"open"}
                           [] OTHER           -> {s} :
             intent' = [intent EXCEPT ![<<p, n>>] = state]
      BY <3>1 DEF GatewayDoes
    <3>4. state \in {"none", "open", "requires_action", "succeeded"}
      BY <3>3
    <3>5. intent' \in [Payment \X IntentNo ->
                         {"none", "open", "requires_action", "succeeded"}]
      BY <3>3, <3>4 DEF TypeOK
    <3>6. declined' \subseteq Payment \X IntentNo
      <4>1. \/ declined' = declined
            \/ \E d \in SUBSET {<<p, n>>} : declined' = declined \cup d
        BY <3>1 DEF GatewayDoes
      <4> QED
        BY <2>0, <4>1 DEF TypeOK
    <3> QED
      BY <1>6, <3>2, <3>5, <3>6 DEF CallGateway, TypeOK, WorkersOK
  <2>4. worker[w].row.txn # 0 => worker[w].row.txn \in IntentNo
    BY <2>0 DEF TransactionId, IntentNo
  <2> QED
    BY <1>6, <2>2, <2>3, <2>4 DEF CallGateway
<1>7. ASSUME NEW w \in Worker, PersistReply(w)
      PROVE TypeOK'
  <2>0. worker[w].pay \in Payment /\ worker[w].reply \in Reply
    BY <1>0, <1>7 DEF PersistReply, WorkersOK, WorkerState
  <2>1. payment' \in [Payment -> Row]
    BY <1>0, <1>7, <2>0, PersistedType DEF PersistReply
  <2>2. WorkersOK'
    BY <1>0, <1>7, <2>0, NoRowType, HoldsType, EndsType DEF PersistReply
  <2> QED
    BY <1>7, <2>1, <2>2 DEF PersistReply, TypeOK, WorkersOK
<1>8. ASSUME NEW w \in Worker, FinalizeProcess(w) \/ FinalizeWebhook(w)
      PROVE TypeOK'
  <2>0. worker[w].pay \in Payment /\ worker[w].row.txn \in TransactionId
    BY <1>0, <1>8
       DEF FinalizeProcess, FinalizeWebhook, WorkersOK, WorkerState, Row
  <2>1. WorkersOK'
    BY <1>0, <1>8, EndsType DEF FinalizeProcess, FinalizeWebhook
  <2>2. answered' \subseteq Payment \X TransactionId
    BY <1>8, <2>0 DEF FinalizeProcess, FinalizeWebhook, TypeOK
  <2>3. Complete(worker[w].pay)
    BY <1>8 DEF FinalizeProcess, FinalizeWebhook
  <2> QED
    BY <1>8, <2>0, <2>1, <2>2, <2>3, CompleteType
       DEF FinalizeProcess, FinalizeWebhook, TypeOK, WorkersOK
<1>9. ASSUME NEW w \in Worker, NEW p \in Payment, NEW i \in IntentNo,
             NEW kind \in {"succeeded", "failed"}, ReceiveWebhook(w, p, i, kind)
      PROVE TypeOK'
  <2>0. IdOf(payment[p]) \in Row
    BY <1>0, IdOfType
  <2>1. WorkersOK'
    <3>1. CASE UNCHANGED worker
      BY <1>0, <3>1 DEF WorkersOK
    <3>2. CASE ~ UNCHANGED worker
      BY <1>0, <1>9, <2>0, <3>2, NoRowType, HoldsType DEF ReceiveWebhook
    <3> QED
      BY <3>1, <3>2
  <2>2. answered' \subseteq Payment \X TransactionId
    BY <1>9 DEF ReceiveWebhook, TypeOK, IntentNo, TransactionId
  <2> QED
    BY <1>9, <2>1, <2>2 DEF ReceiveWebhook, TypeOK, WorkersOK
<1>10. ASSUME NEW w \in Worker, StoreWebhookSuccess(w)
       PROVE TypeOK'
  <2> DEFINE p == worker[w].pay
  <2>0. p \in Payment /\ worker[w].row \in Row
    BY <1>0, <1>10 DEF StoreWebhookSuccess, WorkersOK, WorkerState
  <2>1. WorkersOK'
    BY <1>0, <1>10, <2>0, NoRowType, HoldsType, EndsType DEF StoreWebhookSuccess
  <2>2. answered' \subseteq Payment \X TransactionId
    BY <1>10, <2>0 DEF StoreWebhookSuccess, TypeOK, Row
  <2>3. [status |-> "processing", resp |-> "success", txn |-> payment[p].txn]
          \in Row
    BY <1>0, <2>0 DEF Row, PaymentStatus, Response
  <2>4. payment' \in [Payment -> Row]
    BY <1>0, <1>10, <2>0, <2>3 DEF StoreWebhookSuccess
  <2> QED
    BY <1>10, <2>1, <2>2, <2>4 DEF StoreWebhookSuccess, TypeOK, WorkersOK
<1>11. ASSUME NEW w \in Worker, StoreWebhookFailure(w)
       PROVE TypeOK'
  <2> DEFINE p == worker[w].pay
  <2>0. p \in Payment
    BY <1>0, <1>11 DEF StoreWebhookFailure, WorkersOK
  <2>1. WorkersOK'
    BY <1>0, <1>11, EndsType DEF StoreWebhookFailure
  <2>2. [status |-> "failed", resp |-> "failure", txn |-> payment[p].txn] \in Row
    BY <1>0, <2>0 DEF Row, PaymentStatus, Response
  <2>3. payment' \in [Payment -> Row]
    BY <1>0, <1>11, <2>0, <2>2 DEF StoreWebhookFailure
  <2> QED
    BY <1>11, <2>1, <2>3 DEF StoreWebhookFailure, TypeOK, WorkersOK
<1>12. ASSUME NEW p \in Payment, NEW i \in IntentNo,
              CustomerPays(p, i) \/ CustomerDeclined(p, i)
       PROVE TypeOK'
  <2>1. intent' \in [Payment \X IntentNo ->
                        {"none", "open", "requires_action", "succeeded"}]
    BY <1>12 DEF CustomerPays, CustomerDeclined, TypeOK
  <2>2. declined' \subseteq Payment \X IntentNo
    BY <1>12 DEF CustomerPays, CustomerDeclined, TypeOK
  <2> QED
    BY <1>12, <2>1, <2>2 DEF CustomerPays, CustomerDeclined, TypeOK
<1>13. ASSUME NEW o \in Order,
              \/ CancelOrder(o) \/ MarkPaid(o) \/ RefundOrder(o)
              \/ EditOrder(o) \/ EditInvoice(o)
       PROVE TypeOK'
  <2>1. CASE CancelOrder(o)
    BY <2>1 DEF CancelOrder, TypeOK, OrderRow
  <2>2. CASE EditInvoice(o)
    BY <2>2 DEF EditInvoice, TypeOK, OrderRow, Document
  <2>3. CASE ~ CancelOrder(o) /\ ~ EditInvoice(o)
    <3>1. PICK status \in {"open", "closed"}, pay \in {"unpaid", "paid"} :
             WriteOrder(o, status, pay)
      BY <1>13, <2>3, OthersWrite
    <3> QED
      BY <3>1 DEF WriteOrder, TypeOK, OrderRow, Document
  <2> QED
    BY <2>1, <2>2, <2>3
<1>14. ASSUME NEW p \in Payment, RefundInFull(p)
       PROVE TypeOK'
  <2>1. WithStatus(payment[p], "refunded") \in Row
    BY <1>0, WithStatusType DEF PaymentStatus
  <2> QED
    BY <1>14, <2>1 DEF RefundInFull, TypeOK
<1>15. ASSUME NEW w \in Worker, Crash(w)
       PROVE TypeOK'
  <2>1. WorkersOK'
    BY <1>0, <1>15, EndsType DEF Crash
  <2> QED
    BY <1>15, <2>1 DEF Crash, TypeOK, WorkersOK
<1>16. CASE UNCHANGED vars
  BY <1>16 DEF vars, TypeOK
<1> QED
  BY <1>2, <1>3, <1>4, <1>5, <1>6, <1>7, <1>8, <1>9, <1>10, <1>11, <1>12,
     <1>13, <1>14, <1>15, <1>16 DEF Next, IntentFlow, Step

\* The types of TypeOK hold in every reachable state, for any orders, payments,
\* requests and bounds: no handler writes a status Payment does not have.
THEOREM Typing == Spec => []TypeOK
BY TypeInit, TypeStep, PTL DEF Spec


-----------------------------------------------------------------------------
(* No money from nowhere *)

\* A worker that is about to record a success, or holds a row that records one.
Claims(w) ==
  \/ worker[w].row.resp = "success"
  \/ worker[w].at = "persist" /\ worker[w].reply.status = "succeeded"
  \/ worker[w].at = "webhook_ok"

ClaimsOK ==
  \A w \in Worker :
    Claims(w) => worker[w].pay \in Payment /\ HasMoney(worker[w].pay)

RowsOK ==
  \A p \in Payment : Booked(p) \/ payment[p].resp = "success" => HasMoney(p)

CreationOK == \A p \in Payment : Exists(p) \/ attempt[p].kind = "card"

\* What makes MoneyBehindLedger inductive: wherever a success is stored, held
\* by a worker or on its way from the gateway, the money is there already.
MoneyInv == ClaimsOK /\ RowsOK /\ CreationOK

MoneyStays == \A q \in Payment : HasMoney(q) => HasMoney(q)'

LEMMA HoldsClaims ==
  ASSUME TypeOK, ClaimsOK, MoneyStays, NEW w \in Worker, NEW at,
         NEW p \in Payment, NEW row, NEW reply,
         Holds(w, at, p, row, reply),
         \/ row.resp = "success"
         \/ at = "persist" /\ reply.status = "succeeded"
         \/ at = "webhook_ok"
         => HasMoney(p)'
  PROVE  ClaimsOK'
<1> SUFFICES ASSUME NEW v \in Worker, Claims(v)'
             PROVE  (worker[v].pay \in Payment /\ HasMoney(worker[v].pay))'
  BY DEF ClaimsOK
<1>1. CASE v = w
  <2>1. worker'[w] = [at |-> at, pay |-> p, row |-> row, reply |-> reply]
    BY DEF Holds, TypeOK
  <2> QED
    BY <1>1, <2>1 DEF Claims, HasMoney
<1>2. CASE v # w
  <2>1. worker'[v] = worker[v]
    BY <1>2 DEF Holds, TypeOK
  <2>2. Claims(v)
    BY <2>1 DEF Claims
  <2>3. worker[v].pay \in Payment /\ HasMoney(worker[v].pay)
    BY <2>2 DEF ClaimsOK
  <2>4. HasMoney(worker[v].pay)'
    BY <2>1, <2>3 DEF MoneyStays, HasMoney
  <2> QED
    BY <2>1, <2>3, <2>4
<1> QED
  BY <1>1, <1>2

LEMMA EndsClaims ==
  ASSUME TypeOK, ClaimsOK, MoneyStays, NEW w \in Worker,
         Ends(w) \/ UNCHANGED worker
  PROVE  ClaimsOK'
<1> SUFFICES ASSUME NEW v \in Worker, Claims(v)'
             PROVE  (worker[v].pay \in Payment /\ HasMoney(worker[v].pay))'
  BY DEF ClaimsOK
<1>1. worker'[v] = worker[v]
  <2>1. ~ (Ends(w) /\ v = w)
    BY DEF Ends, TypeOK, Claims, Idle, NoRow
  <2> QED
    BY <2>1 DEF Ends, TypeOK
<1>2. worker[v].pay \in Payment /\ HasMoney(worker[v].pay)
  BY <1>1 DEF Claims, ClaimsOK
<1>3. HasMoney(worker[v].pay)'
  BY <1>1, <1>2 DEF MoneyStays, HasMoney
<1> QED
  BY <1>1, <1>2, <1>3

\* The row of p is rewritten; unless p's money is there, no success appears.
LEMMA RowClaims ==
  ASSUME TypeOK, RowsOK, MoneyStays, NEW p \in Payment, NEW row,
         payment' = [payment EXCEPT ![p] = row], ledger' = ledger,
         row.resp = "success" => HasMoney(p)'
  PROVE  RowsOK'
BY DEF TypeOK, RowsOK, MoneyStays, Booked

LEMMA CompleteClaims ==
  ASSUME TypeOK, RowsOK, MoneyStays, NEW p \in Payment, Complete(p)
  PROVE  RowsOK'
<1>1. CASE UNCHANGED <<payment, ledger>>
  BY <1>1 DEF RowsOK, MoneyStays, Booked
<1>2. CASE ~ UNCHANGED <<payment, ledger>>
  <2>1. /\ payment[p].resp = "success"
        /\ payment' = [payment EXCEPT ![p] = WithStatus(payment[p], "completed")]
        /\ ledger' = [ledger EXCEPT ![p] = ledger[p] + 1]
    BY <1>2 DEF Complete
  <2> QED
    BY <2>1 DEF TypeOK, RowsOK, MoneyStays, Booked
<1> QED
  BY <1>1, <1>2

\* An intent that succeeded stays succeeded, and a payment its gateway.
LEMMA KeepsMoney ==
  ASSUME \A q \in Payment : attempt[q].kind = "offline"
                              => attempt'[q].kind = "offline",
         \A q \in Payment, i \in IntentNo :
            intent[<<q, i>>] = "succeeded" => intent'[<<q, i>>] = "succeeded"
  PROVE  MoneyStays
BY DEF MoneyStays, HasMoney

LEMMA SetIntentKeeps ==
  ASSUME TypeOK, NEW p \in Payment, NEW n \in IntentNo, NEW state,
         UNCHANGED attempt, intent' = [intent EXCEPT ![<<p, n>>] = state],
         intent[<<p, n>>] = "succeeded" => state = "succeeded"
  PROVE  MoneyStays
BY KeepsMoney DEF TypeOK

LEMMA NewPaymentKeeps ==
  ASSUME TypeOK, MoneyInv, NEW o \in Order, NEW p \in Payment, NEW k \in Kinds,
         NewPayment(o, p, k), UNCHANGED <<intent, ledger>>
  PROVE  MoneyStays /\ RowsOK' /\ CreationOK'
<1>1. /\ attempt' = [attempt EXCEPT ![p] = [order |-> o, kind |-> k]]
      /\ payment' = [payment EXCEPT ![p] = NoRow]
      /\ attempt[p].kind = "card"
  BY DEF NewPayment, MoneyInv, CreationOK
<1>2. MoneyStays
  BY <1>1, KeepsMoney DEF TypeOK
<1>3. RowsOK'
  BY <1>1, <1>2, RowClaims DEF MoneyInv, NoRow
<1>4. CreationOK'
  BY <1>1 DEF TypeOK, MoneyInv, CreationOK, Exists
<1> QED
  BY <1>2, <1>3, <1>4

LEMMA MoneyStep == TypeOK /\ MoneyInv /\ [Next]_vars => MoneyInv'
<1> SUFFICES ASSUME TypeOK, MoneyInv, [Next]_vars PROVE MoneyInv'
  OBVIOUS
<1>0. ClaimsOK /\ RowsOK /\ CreationOK
  BY DEF MoneyInv
<1> USE <1>0
<1>1. ASSUME UNCHANGED attempt PROVE CreationOK'
  BY <1>1 DEF CreationOK, Exists
<1>2. ASSUME UNCHANGED <<attempt, intent>> PROVE MoneyStays
  BY <1>2, KeepsMoney
<1>3. ASSUME UNCHANGED <<payment, ledger>>, MoneyStays PROVE RowsOK'
  BY <1>3 DEF RowsOK, MoneyStays, Booked
<1>4. ASSUME NEW o \in Order, NEW p \in Payment, NEW k \in Kinds,
             CreatePayment(o, p, k)
      PROVE MoneyInv'
  <2>1. MoneyStays /\ RowsOK' /\ CreationOK'
    BY <1>4, NewPaymentKeeps DEF CreatePayment
  <2>2. ClaimsOK'
    <3> SUFFICES ASSUME NEW w \in Worker PROVE ClaimsOK'
      BY DEF ClaimsOK
    <3> QED
      BY <1>4, <2>1, EndsClaims DEF CreatePayment
  <2> QED
    BY <2>1, <2>2 DEF MoneyInv
<1>5. ASSUME NEW w \in Worker, NEW o \in Order, NEW p \in Payment,
             NEW k \in Kinds, NEW at \in {"intent", "admin_intent"},
             BeginIntent(w, o, p, k, at)
      PROVE MoneyInv'
  <2>1. ASSUME NEW row \in {payment[p], IdOf(payment[p])},
               Holds(w, at, p, row, NoReply), UNCHANGED <<attempt, payment>>
        PROVE  MoneyInv'
    <3>1. MoneyStays /\ RowsOK' /\ CreationOK'
      BY <1>1, <1>2, <1>3, <1>5, <2>1 DEF BeginIntent
    <3>2. row.resp = "success" => HasMoney(p)'
      BY <3>1 DEF RowsOK, MoneyStays, IdOf
    <3>3. ClaimsOK'
      BY <2>1, <3>1, <3>2, HoldsClaims
    <3> QED
      BY <3>1, <3>3 DEF MoneyInv
  <2>2. CASE NewPayment(o, p, k) /\ Holds(w, at, p, NoRow, NoReply)
    <3>1. MoneyStays /\ RowsOK' /\ CreationOK'
      BY <1>5, <2>2, NewPaymentKeeps DEF BeginIntent
    <3>2. ClaimsOK'
      BY <2>2, <3>1, HoldsClaims DEF NoRow
    <3> QED
      BY <3>1, <3>2 DEF MoneyInv
  <2> QED
    BY <1>5, <2>1, <2>2 DEF BeginIntent
<1>6. ASSUME NEW w \in Worker, SaveIntent(w) \/ SaveAdminIntent(w)
      PROVE MoneyInv'
  <2>0. PICK p \in Payment : p = worker[w].pay
    BY <1>6 DEF SaveIntent, SaveAdminIntent, TypeOK
  <2>1. MoneyStays
    <3>1. CASE intent' = intent
      BY <1>2, <1>6, <3>1 DEF SaveIntent, SaveAdminIntent
    <3>2. CASE intent[<<p, 1>>] = "none"
               /\ intent' = [intent EXCEPT ![<<p, 1>>] = "open"]
      <4>1. 1 \in IntentNo
        BY DEF IntentNo
      <4> QED
        BY <1>6, <2>0, <3>2, <4>1, SetIntentKeeps DEF SaveIntent, SaveAdminIntent
    <3> QED
      BY <1>6, <2>0, <3>1, <3>2 DEF SaveIntent, SaveAdminIntent, OpenIntent
  <2>2. RowsOK'
    <3>1. CASE SaveIntent(w)
      <4>1. /\ payment' = [payment EXCEPT ![p] = WithTransaction(worker[w].row, 1)]
            /\ ledger' = ledger
        BY <2>0, <3>1 DEF SaveIntent
      <4>2. WithTransaction(worker[w].row, 1).resp = "success" => HasMoney(p)'
        BY <2>0, <2>1 DEF WithTransaction, ClaimsOK, Claims, MoneyStays
      <4> QED
        BY <2>0, <2>1, <4>1, <4>2, RowClaims
    <3>2. CASE SaveAdminIntent(w)
      <4>1. PICK row : /\ payment' = [payment EXCEPT ![p] = row]
                       /\ row.resp = payment[p].resp
        BY <2>0, <3>2, AdminRow
      <4>2. row.resp = "success" => HasMoney(p)'
        BY <2>0, <2>1, <4>1 DEF RowsOK, MoneyStays
      <4> QED
        BY <2>0, <2>1, <3>2, <4>1, <4>2, RowClaims DEF SaveAdminIntent
    <3> QED
      BY <1>6, <3>1, <3>2
  <2>3. ClaimsOK'
    BY <1>6, <2>1, EndsClaims DEF SaveIntent, SaveAdminIntent
  <2> QED
    BY <1>1, <1>6, <2>2, <2>3 DEF SaveIntent, SaveAdminIntent, MoneyInv
<1>7. ASSUME NEW w \in Worker, NEW p \in Payment, NEW manual \in BOOLEAN,
             BeginProcess(w, p, manual)
      PROVE MoneyInv'
  <2>1. MoneyStays /\ CreationOK'
    BY <1>1, <1>2, <1>7 DEF BeginProcess
  <2>2. RowsOK'
    <3>1. CASE UNCHANGED payment
      BY <1>3, <1>7, <2>1, <3>1 DEF BeginProcess
    <3>2. CASE /\ payment[p].resp # "success"
               /\ payment' = [payment EXCEPT ![p] =
                                WithStatus(payment[p], "processing")]
      <4>1. WithStatus(payment[p], "processing").resp # "success"
        BY <3>2 DEF WithStatus
      <4> QED
        BY <1>7, <2>1, <3>2, <4>1, RowClaims DEF BeginProcess
    <3> QED
      BY <1>7, <3>1, <3>2 DEF BeginProcess
  <2>3. CASE Holds(w, "finalize", p, NoRow, NoReply)
    <3>1. ClaimsOK'
      BY <2>1, <2>3, HoldsClaims DEF NoRow
    <3> QED
      BY <2>1, <2>2, <3>1 DEF MoneyInv
  <2>4. CASE manual /\ Holds(w, "persist", p, NoRow,
                             [status |-> "succeeded", txn |-> 0])
    <3>1. HasMoney(p)
      BY <1>7, <2>4 DEF BeginProcess, HasMoney
    <3>2. ClaimsOK'
      BY <2>1, <2>4, <3>1, HoldsClaims DEF MoneyStays
    <3> QED
      BY <2>1, <2>2, <3>2 DEF MoneyInv
  <2>5. CASE Holds(w, "call", p, IdOf(payment[p]), NoReply)
    <3>1. IdOf(payment[p]).resp = "none"
      BY DEF IdOf
    <3>2. ClaimsOK'
      BY <2>1, <2>5, <3>1, HoldsClaims
    <3> QED
      BY <2>1, <2>2, <3>2 DEF MoneyInv
  <2> QED
    BY <1>7, <2>3, <2>4, <2>5 DEF BeginProcess
<1>8. ASSUME NEW w \in Worker, CallGateway(w)
      PROVE MoneyInv'
  <2>0. PICK p \in Payment : p = worker[w].pay
    BY <1>8 DEF CallGateway, TypeOK
  <2>1. CASE /\ UNCHANGED <<intent, declined>>
             /\ \E s \in {"pending", "exception"}, t \in Nat :
                  Holds(w, "persist", p, NoRow, [status |-> s, txn |-> t])
    <3>1. MoneyStays /\ RowsOK' /\ CreationOK'
      BY <1>1, <1>2, <1>3, <1>8, <2>1 DEF CallGateway
    <3>2. ClaimsOK'
      BY <2>1, <3>1, HoldsClaims DEF NoRow
    <3> QED
      BY <3>1, <3>2 DEF MoneyInv
  <2>2. ASSUME NEW n \in IntentNo, Confirm(w, p, n)
        PROVE MoneyInv'
    <3>1. PICK s \in IF intent[<<p, n>>] \in {"succeeded", "requires_action"}
                       THEN {intent[<<p, n>>]} ELSE Outcomes :
             /\ GatewayDoes(p, n, s)
             /\ Holds(w, "persist", p, NoRow,
                   [status |-> s,
                    txn |-> IF s \in {"succeeded", "processing", "failed"}
                               THEN n ELSE 0])
      BY <2>2 DEF Confirm
    <3>2. PICK state \in CASE s = "exception" -> {"open", "succeeded"}
                           [] s \in {"failed", "processing"} -> {"open"}
                           [] OTHER           -> {s} :
             intent' = [intent EXCEPT ![<<p, n>>] = state]
      BY <3>1 DEF GatewayDoes
    <3>3. (intent[<<p, n>>] = "succeeded" \/ s = "succeeded")
              => state = "succeeded"
      BY <3>1, <3>2
    <3>4. MoneyStays
      BY <1>8, <3>2, <3>3, SetIntentKeeps DEF CallGateway
    <3>5. s = "succeeded" => HasMoney(p)'
      BY <3>2, <3>3 DEF HasMoney, TypeOK
    <3>6. ClaimsOK'
      <4>1. CASE s = "succeeded"
        BY <3>1, <3>4, <3>5, <4>1, HoldsClaims
      <4>2. CASE s # "succeeded"
        BY <3>1, <3>4, <4>2, HoldsClaims DEF NoRow
      <4> QED
        BY <4>1, <4>2
    <3> QED
      BY <1>1, <1>3, <1>8, <3>4, <3>6 DEF CallGateway, MoneyInv
  <2>3. worker[w].row.txn \in Nat /\ (worker[w].row.txn # 0
                                       => worker[w].row.txn \in IntentNo)
    BY DEF TypeOK, WorkerState, Row, TransactionId, IntentNo
  <2> QED
    BY <1>8, <2>0, <2>1, <2>2, <2>3 DEF CallGateway
<1>9. ASSUME NEW w \in Worker, PersistReply(w)
      PROVE MoneyInv'
  <2>0. PICK p \in Payment : p = worker[w].pay
    BY <1>9 DEF PersistReply, TypeOK
  <2>1. MoneyStays /\ CreationOK'
    BY <1>1, <1>2, <1>9 DEF PersistReply
  <2>2. worker[w].reply.status = "succeeded" => HasMoney(p)'
    BY <1>9, <2>0, <2>1 DEF PersistReply, ClaimsOK, Claims, MoneyStays
  <2>3. Persisted(payment[p], worker[w].reply).resp = "success"
          => worker[w].reply.status = "succeeded"
    BY DEF Persisted
  <2>4. RowsOK'
    BY <1>9, <2>0, <2>1, <2>2, <2>3, RowClaims DEF PersistReply
  <2>5. ClaimsOK'
    BY <1>9, <2>0, <2>1, HoldsClaims, EndsClaims DEF PersistReply, NoRow
  <2> QED
    BY <2>1, <2>4, <2>5 DEF MoneyInv
<1>10. ASSUME NEW w \in Worker, FinalizeProcess(w) \/ FinalizeWebhook(w)
       PROVE MoneyInv'
  <2>0. PICK p \in Payment : p = worker[w].pay
    BY <1>10 DEF FinalizeProcess, FinalizeWebhook, TypeOK
  <2>1. MoneyStays /\ CreationOK'
    BY <1>1, <1>2, <1>10 DEF FinalizeProcess, FinalizeWebhook
  <2>2. Complete(p) /\ Ends(w)
    BY <1>10, <2>0 DEF FinalizeProcess, FinalizeWebhook
  <2> QED
    BY <2>1, <2>2, CompleteClaims, EndsClaims DEF MoneyInv
<1>11. ASSUME NEW w \in Worker, NEW p \in Payment, NEW i \in IntentNo,
              NEW kind \in {"succeeded", "failed"}, ReceiveWebhook(w, p, i, kind)
       PROVE MoneyInv'
  <2>1. MoneyStays /\ RowsOK' /\ CreationOK'
    BY <1>1, <1>2, <1>3, <1>11 DEF ReceiveWebhook
  <2>2. CASE UNCHANGED worker
    BY <2>1, <2>2, EndsClaims DEF MoneyInv
  <2>3. CASE kind = "failed"
             /\ Holds(w, "webhook_failed", p, IdOf(payment[p]), NoReply)
    <3>1. ClaimsOK'
      BY <2>1, <2>3, HoldsClaims DEF IdOf
    <3> QED
      BY <2>1, <3>1 DEF MoneyInv
  <2>4. CASE kind = "succeeded"
             /\ Holds(w, "webhook_ok", p, IdOf(payment[p]), NoReply)
    <3>1. HasMoney(p)
      BY <1>11, <2>4 DEF ReceiveWebhook, HasMoney
    <3>2. ClaimsOK'
      BY <2>1, <2>4, <3>1, HoldsClaims DEF MoneyStays
    <3> QED
      BY <2>1, <3>2 DEF MoneyInv
  <2> QED
    BY <1>11, <2>2, <2>3, <2>4 DEF ReceiveWebhook
<1>12. ASSUME NEW w \in Worker, StoreWebhookSuccess(w)
       PROVE MoneyInv'
  <2>0. PICK p \in Payment : p = worker[w].pay
    BY <1>12 DEF StoreWebhookSuccess, TypeOK
  <2>1. MoneyStays /\ CreationOK'
    BY <1>1, <1>2, <1>12 DEF StoreWebhookSuccess
  <2>2. HasMoney(p)'
    BY <1>12, <2>0, <2>1 DEF StoreWebhookSuccess, ClaimsOK, Claims, MoneyStays
  <2>3. CASE UNCHANGED payment
    <3>1. RowsOK'
      BY <1>3, <1>12, <2>1, <2>3 DEF StoreWebhookSuccess
    <3>2. ClaimsOK'
      BY <1>12, <2>0, <2>1, <2>2, HoldsClaims, EndsClaims DEF StoreWebhookSuccess
    <3> QED
      BY <2>1, <3>1, <3>2 DEF MoneyInv
  <2>4. CASE ~ UNCHANGED payment
    <3>1. RowsOK'
      BY <1>12, <2>0, <2>1, <2>2, <2>4, RowClaims DEF StoreWebhookSuccess
    <3>2. ClaimsOK'
      BY <1>12, <2>0, <2>1, <2>2, HoldsClaims, EndsClaims DEF StoreWebhookSuccess
    <3> QED
      BY <2>1, <3>1, <3>2 DEF MoneyInv
  <2> QED
    BY <2>3, <2>4
<1>13. ASSUME NEW w \in Worker, StoreWebhookFailure(w)
       PROVE MoneyInv'
  <2>0. PICK p \in Payment : p = worker[w].pay
    BY <1>13 DEF StoreWebhookFailure, TypeOK
  <2>1. MoneyStays /\ CreationOK'
    BY <1>1, <1>2, <1>13 DEF StoreWebhookFailure
  <2>2. ClaimsOK'
    BY <1>13, <2>1, EndsClaims DEF StoreWebhookFailure
  <2>3. CASE UNCHANGED payment
    BY <1>3, <1>13, <2>1, <2>2, <2>3 DEF StoreWebhookFailure, MoneyInv
  <2>4. CASE ~ UNCHANGED payment
    BY <1>13, <2>0, <2>1, <2>2, <2>4, RowClaims DEF StoreWebhookFailure, MoneyInv
  <2> QED
    BY <2>3, <2>4
<1>14. ASSUME NEW p \in Payment, NEW i \in IntentNo,
              CustomerPays(p, i) \/ CustomerDeclined(p, i)
       PROVE MoneyInv'
  <2>1. MoneyStays
    BY <1>14, SetIntentKeeps DEF CustomerPays, CustomerDeclined
  <2>2. RowsOK' /\ CreationOK'
    BY <1>1, <1>3, <1>14, <2>1 DEF CustomerPays, CustomerDeclined
  <2>3. ClaimsOK'
    <3> SUFFICES ASSUME NEW w \in Worker PROVE ClaimsOK'
      BY DEF ClaimsOK
    <3> QED
      BY <1>14, <2>1, EndsClaims DEF CustomerPays, CustomerDeclined
  <2> QED
    BY <2>2, <2>3 DEF MoneyInv
<1>15. ASSUME UNCHANGED <<attempt, intent, payment, ledger, worker>>
       PROVE MoneyInv'
  <2>1. MoneyStays /\ RowsOK' /\ CreationOK'
    BY <1>1, <1>2, <1>3, <1>15
  <2>2. ClaimsOK'
    BY <1>15 DEF ClaimsOK, Claims, HasMoney
  <2> QED
    BY <2>1, <2>2 DEF MoneyInv
<1>16. ASSUME NEW o \in Order,
              \/ CancelOrder(o) \/ MarkPaid(o) \/ RefundOrder(o)
              \/ EditOrder(o) \/ EditInvoice(o)
       PROVE MoneyInv'
  BY <1>15, <1>16, OthersWrite DEF CancelOrder
<1>17. ASSUME NEW p \in Payment, RefundInFull(p)
       PROVE MoneyInv'
  <2>1. MoneyStays /\ CreationOK'
    BY <1>1, <1>2, <1>17 DEF RefundInFull
  <2>2. WithStatus(payment[p], "refunded").resp = "success" => HasMoney(p)'
    BY <2>1 DEF WithStatus, RowsOK, MoneyStays
  <2>3. RowsOK'
    BY <1>17, <2>1, <2>2, RowClaims DEF RefundInFull
  <2>4. ClaimsOK'
    <3> SUFFICES ASSUME NEW w \in Worker PROVE ClaimsOK'
      BY DEF ClaimsOK
    <3> QED
      BY <1>17, <2>1, EndsClaims DEF RefundInFull
  <2> QED
    BY <2>1, <2>3, <2>4 DEF MoneyInv
<1>18. ASSUME NEW w \in Worker, Crash(w)
       PROVE MoneyInv'
  BY <1>1, <1>2, <1>3, <1>18, EndsClaims DEF Crash, MoneyInv
<1>19. CASE UNCHANGED vars
  BY <1>15, <1>19 DEF vars
<1> QED
  BY <1>4, <1>5, <1>6, <1>7, <1>8, <1>9, <1>10, <1>11, <1>12, <1>13, <1>14,
     <1>16, <1>17, <1>18, <1>19 DEF Next, IntentFlow, Step

\* For any orders, payments, requests and bounds, and whatever crashes, stale
\* writes and redeliveries occur: a 'payment' row in the ledger has money
\* behind it (process_payment, handle_webhook, _complete_confirmed_payment).
THEOREM NoMoneyFromNowhere == Spec => []MoneyBehindLedger
<1>1. Init => MoneyInv
  BY DEF Init, MoneyInv, ClaimsOK, Claims, Idle, NoRow, RowsOK, Booked,
         CreationOK
<1>2. MoneyInv => MoneyBehindLedger
  BY DEF MoneyInv, RowsOK, MoneyBehindLedger
<1> QED
  BY <1>1, <1>2, Typing, MoneyStep, PTL DEF Spec

-----------------------------------------------------------------------------
(* The books agree *)

\* A payment that is completed, or has since been refunded, is in the ledger.
StatusOK ==
  \A p \in Payment : payment[p].status \in {"completed", "refunded"} => Booked(p)

\* What a worker may write back is the row of a payment that is open.
HeldOK ==
  \A w \in Worker :
    /\ worker[w].row.status = "pending"
    /\ worker[w].at # "idle" => worker[w].pay \in Payment /\ Exists(worker[w].pay)

\* An order, and its invoice, is paid exactly when it is booked, until others
\* write it.
Agrees(o, document, paid) ==
  <<o, document>> \notin overwritten =>
    (paid <=> \E p \in PaymentsOf(o) : Booked(p))

OrdersOK ==
  /\ \A p \in Payment : Booked(p) => Exists(p)
  /\ \A o \in Order : /\ Agrees(o, "order", order[o].pay = "paid")
                      /\ Agrees(o, "invoice", order[o].invoice = "paid")

\* BooksAgree, and that no worker holds a settled row to write back later.
BooksInv == StatusOK /\ HeldOK /\ OrdersOK

ExistsStays == \A q \in Payment : Exists(q) => Exists(q)'

LEMMA HoldsHeld ==
  ASSUME TypeOK, HeldOK, ExistsStays, NEW w \in Worker, NEW at,
         NEW p \in Payment, NEW row, NEW reply,
         Holds(w, at, p, row, reply), row.status = "pending", Exists(p)'
  PROVE  HeldOK'
<1>1. worker'[w] = [at |-> at, pay |-> p, row |-> row, reply |-> reply]
  BY DEF Holds, TypeOK
<1>2. \A v \in Worker \ {w} : worker'[v] = worker[v]
  BY DEF Holds, TypeOK
<1>3. ASSUME NEW v \in Worker \ {w}
      PROVE  /\ worker'[v].row.status = "pending"
             /\ worker'[v].at # "idle" =>
                  /\ worker'[v].pay \in Payment
                  /\ attempt'[worker'[v].pay].order # NoOrder
  <2>1. worker'[v] = worker[v] /\ v \in Worker
    BY <1>2, <1>3
  <2>2. worker[v].row.status = "pending"
        /\ (worker[v].at # "idle" => worker[v].pay \in Payment
                                     /\ Exists(worker[v].pay))
    BY <2>1 DEF HeldOK
  <2>3. worker[v].at # "idle" => attempt'[worker[v].pay].order # NoOrder
    BY <2>2 DEF ExistsStays, Exists
  <2> QED
    BY <2>1, <2>2, <2>3
<1>4. /\ worker'[w].row.status = "pending"
      /\ worker'[w].pay \in Payment /\ attempt'[worker'[w].pay].order # NoOrder
  BY <1>1 DEF Exists
<1> QED
  BY <1>3, <1>4 DEF HeldOK, Exists

LEMMA EndsHeld ==
  ASSUME TypeOK, HeldOK, ExistsStays, NEW w \in Worker,
         Ends(w) \/ UNCHANGED worker
  PROVE  HeldOK'
<1>1. \A v \in Worker : worker'[v] = worker[v] \/ worker'[v] = Idle
  BY DEF Ends, TypeOK
<1> QED
  BY <1>1 DEF HeldOK, ExistsStays, Exists, Idle, NoRow

\* A row is rewritten, and not settled unless it was booked before.
LEMMA RowBooks ==
  ASSUME TypeOK, StatusOK, OrdersOK, NEW p \in Payment, NEW row,
         payment' = [payment EXCEPT ![p] = row],
         row.status \in {"completed", "refunded"} => Booked(p),
         UNCHANGED <<attempt, ledger, overwritten>>,
         \A o \in Order : order'[o].pay = order[o].pay
                          /\ order'[o].invoice = order[o].invoice
  PROVE  StatusOK' /\ OrdersOK'
<1>1. StatusOK'
  BY DEF TypeOK, StatusOK, Booked
<1>2. OrdersOK'
  BY DEF OrdersOK, Agrees, Booked, Exists, PaymentsOf
<1> QED
  BY <1>1, <1>2

\* Payment, ledger, order and invoice are settled together.
LEMMA CompleteBooks ==
  ASSUME TypeOK, StatusOK, OrdersOK, NEW p \in Payment, Exists(p),
         Complete(p), UNCHANGED attempt
  PROVE  StatusOK' /\ OrdersOK'
<1>1. CASE UNCHANGED <<order, payment, ledger, overwritten>>
  BY <1>1 DEF StatusOK, OrdersOK, Agrees, Booked, Exists, PaymentsOf
<1>2. CASE ~ UNCHANGED <<order, payment, ledger, overwritten>>
  <2> DEFINE o == attempt[p].order
  <2>1. o \in Order
    BY DEF Exists, TypeOK
  <2>2. /\ payment' = [payment EXCEPT ![p] = WithStatus(payment[p], "completed")]
        /\ ledger' = [ledger EXCEPT ![p] = ledger[p] + 1]
        /\ order' = [order EXCEPT ![o] = [status |-> order[o].status,
                                          pay |-> "paid", invoice |-> "paid"]]
        /\ overwritten' = overwritten \ ({o} \X Document)
    BY <1>2 DEF Complete
  <2>3. Booked(p)' /\ \A q \in Payment \ {p} : Booked(q)' <=> Booked(q)
    BY <2>2 DEF Booked, TypeOK
  <2>4. StatusOK'
    <3>1. \A q \in Payment \ {p} : payment'[q] = payment[q]
      BY <2>2 DEF TypeOK
    <3> QED
      BY <2>3, <3>1 DEF StatusOK
  <2>5. \A q \in Payment : Booked(q)' => Exists(q)'
    BY <2>3 DEF OrdersOK, Exists
  <2>6. ASSUME NEW u \in Order
        PROVE  /\ Agrees(u, "order", order[u].pay = "paid")'
               /\ Agrees(u, "invoice", order[u].invoice = "paid")'
    <3>1. CASE u = o
      <4>1. order'[u].pay = "paid" /\ order'[u].invoice = "paid"
        BY <2>1, <2>2, <3>1 DEF TypeOK
      <4>2. p \in PaymentsOf(u)'
        BY <3>1 DEF PaymentsOf
      <4> QED
        BY <2>3, <4>1, <4>2 DEF Agrees
    <3>2. CASE u # o
      <4>1. order'[u] = order[u]
        BY <2>2, <3>2 DEF TypeOK
      <4>2. PaymentsOf(u)' = PaymentsOf(u) /\ p \notin PaymentsOf(u)
        BY <3>2 DEF PaymentsOf
      <4>3. \A q \in PaymentsOf(u) : Booked(q)' <=> Booked(q)
        BY <2>3, <4>2 DEF PaymentsOf
      <4>4. \A d : <<u, d>> \in overwritten => <<u, d>> \in overwritten'
        BY <2>2, <3>2
      <4> QED
        BY <4>1, <4>2, <4>3, <4>4 DEF OrdersOK, Agrees
    <3> QED
      BY <3>1, <3>2
  <2> QED
    BY <2>4, <2>5, <2>6 DEF OrdersOK
<1> QED
  BY <1>1, <1>2

\* A new attempt has nothing booked.
LEMMA NewBooks ==
  ASSUME TypeOK, StatusOK, OrdersOK, NEW o \in Order, NEW p \in Payment,
         NEW k \in Kinds, NewPayment(o, p, k),
         UNCHANGED <<order, ledger, overwritten>>
  PROVE  StatusOK' /\ OrdersOK' /\ ExistsStays /\ Exists(p)'
<1>1. /\ ~ Exists(p) /\ o # NoOrder
      /\ attempt' = [attempt EXCEPT ![p] = [order |-> o, kind |-> k]]
      /\ payment' = [payment EXCEPT ![p] = NoRow]
  BY DEF NewPayment
<1>2. ~ Booked(p) /\ \A q \in Payment : Booked(q)' <=> Booked(q)
  BY <1>1 DEF OrdersOK, Booked
<1>3. /\ attempt'[p].order = o
      /\ \A q \in Payment \ {p} : attempt'[q] = attempt[q]
  BY <1>1 DEF TypeOK
<1>4. ExistsStays /\ Exists(p)'
  BY <1>1, <1>3 DEF ExistsStays, Exists
<1>5. StatusOK'
  BY <1>1, <1>2 DEF StatusOK, TypeOK, NoRow
<1>6. \A u \in Order : (\E q \in PaymentsOf(u)' : Booked(q)')
                         <=> (\E q \in PaymentsOf(u) : Booked(q))
  BY <1>2, <1>3 DEF PaymentsOf
<1> QED
  BY <1>2, <1>4, <1>5, <1>6 DEF OrdersOK, Agrees, ExistsStays

LEMMA BooksStep == TypeOK /\ BooksInv /\ [Next]_vars => BooksInv'
<1> SUFFICES ASSUME TypeOK, BooksInv, [Next]_vars PROVE BooksInv'
  OBVIOUS
<1>0. StatusOK /\ HeldOK /\ OrdersOK
  BY DEF BooksInv
<1>1. ASSUME UNCHANGED attempt PROVE ExistsStays
  BY <1>1 DEF ExistsStays, Exists
<1>2. ASSUME UNCHANGED <<attempt, payment, ledger, order, overwritten>>
      PROVE  StatusOK' /\ OrdersOK'
  BY <1>0, <1>2 DEF StatusOK, OrdersOK, Agrees, Booked, Exists, PaymentsOf
<1>3. NoRow.status = "pending" /\ \A row : IdOf(row).status = "pending"
  BY DEF NoRow, IdOf
<1>4. ASSUME NEW o \in Order, NEW p \in Payment, NEW k \in Kinds,
             CreatePayment(o, p, k)
      PROVE  BooksInv'
  <2>1. StatusOK' /\ OrdersOK' /\ ExistsStays
    BY <1>0, <1>4, NewBooks DEF CreatePayment
  <2>2. HeldOK'
    BY <1>0, <1>4, <2>1 DEF HeldOK, CreatePayment, ExistsStays, Exists
  <2> QED
    BY <2>1, <2>2 DEF BooksInv
<1>5. ASSUME NEW w \in Worker, NEW o \in Order, NEW p \in Payment,
             NEW k \in Kinds, NEW at \in {"intent", "admin_intent"},
             BeginIntent(w, o, p, k, at)
      PROVE  BooksInv'
  <2>1. CASE NewPayment(o, p, k) /\ Holds(w, at, p, NoRow, NoReply)
    <3>1. StatusOK' /\ OrdersOK' /\ ExistsStays /\ Exists(p)'
      BY <1>0, <1>5, <2>1, NewBooks DEF BeginIntent
    <3>2. HeldOK'
      BY <1>0, <1>3, <2>1, <3>1, HoldsHeld
    <3> QED
      BY <3>1, <3>2 DEF BooksInv
  <2>2. CASE ~ (NewPayment(o, p, k) /\ Holds(w, at, p, NoRow, NoReply))
    <3>1. PICK row \in {payment[p], IdOf(payment[p])} :
          /\ UNCHANGED <<attempt, payment, ledger, order, overwritten>>
          /\ p \in PaymentsOf(o) /\ payment[p].status = "pending"
          /\ Holds(w, at, p, row, NoReply)
      BY <1>5, <2>2 DEF BeginIntent
    <3>2. Exists(p)'
      BY <3>1 DEF Exists, PaymentsOf
    <3>3. HeldOK'
      BY <1>0, <1>1, <1>3, <3>1, <3>2, HoldsHeld
    <3> QED
      BY <1>2, <3>1, <3>3 DEF BooksInv
  <2> QED
    BY <2>1, <2>2
<1>6. ASSUME NEW w \in Worker, SaveIntent(w) \/ SaveAdminIntent(w)
      PROVE  BooksInv'
  <2> DEFINE p == worker[w].pay
  <2>0. p \in Payment /\ Exists(p) /\ worker[w].row.status = "pending"
    BY <1>0, <1>6 DEF HeldOK, SaveIntent, SaveAdminIntent
  <2>1. UNCHANGED <<attempt, order, ledger, overwritten>> /\ Ends(w)
    BY <1>6 DEF SaveIntent, SaveAdminIntent
  <2>2. PICK row : /\ payment' = [payment EXCEPT ![p] = row]
                   /\ row.status \in {"pending", payment[p].status}
    <3>1. CASE SaveIntent(w)
      <4>1. payment' = [payment EXCEPT
                          ![p] = WithTransaction(worker[w].row, 1)]
        BY <3>1 DEF SaveIntent
      <4>2. WithTransaction(worker[w].row, 1).status = "pending"
        BY <2>0 DEF WithTransaction
      <4> QED
        BY <4>1, <4>2
    <3>2. CASE SaveAdminIntent(w)
      BY <3>2, AdminRow
    <3> QED
      BY <1>6, <3>1, <3>2
  <2>3. row.status \in {"completed", "refunded"} => Booked(p)
    BY <1>0, <2>0, <2>2 DEF StatusOK
  <2>4. StatusOK' /\ OrdersOK'
    BY <1>0, <2>0, <2>1, <2>2, <2>3, RowBooks
  <2>5. HeldOK'
    BY <1>0, <1>1, <2>1, EndsHeld
  <2> QED
    BY <2>4, <2>5 DEF BooksInv
<1>7. ASSUME NEW w \in Worker, NEW p \in Payment, NEW manual \in BOOLEAN,
             BeginProcess(w, p, manual)
      PROVE  BooksInv'
  <2>1. UNCHANGED <<attempt, order, ledger, overwritten>> /\ Exists(p)
    BY <1>7 DEF BeginProcess
  <2>2. StatusOK' /\ OrdersOK'
    <3>1. CASE UNCHANGED payment
      BY <1>2, <2>1, <3>1
    <3>2. CASE ~ UNCHANGED payment
      <4>1. payment' = [payment EXCEPT ![p] =
                          WithStatus(payment[p], "processing")]
        BY <1>7, <3>2 DEF BeginProcess
      <4>2. WithStatus(payment[p], "processing").status = "processing"
        BY DEF WithStatus
      <4> QED
        BY <1>0, <2>1, <4>1, <4>2, RowBooks
    <3> QED
      BY <3>1, <3>2
  <2>3. PICK at, row, reply : /\ Holds(w, at, p, row, reply)
                              /\ row.status = "pending"
    BY <1>3, <1>7 DEF BeginProcess
  <2>4. HeldOK'
    BY <1>0, <1>1, <2>1, <2>3, HoldsHeld DEF ExistsStays
  <2> QED
    BY <2>2, <2>4 DEF BooksInv
<1>8. ASSUME NEW w \in Worker, CallGateway(w)
      PROVE  BooksInv'
  <2> DEFINE p == worker[w].pay
  <2>0. p \in Payment /\ Exists(p)
    BY <1>0, <1>8 DEF HeldOK, CallGateway
  <2>1. UNCHANGED <<attempt, order, payment, ledger, overwritten>>
    BY <1>8 DEF CallGateway
  <2>2. PICK reply : Holds(w, "persist", p, NoRow, reply)
    BY <1>8 DEF CallGateway, Confirm
  <2>3. HeldOK'
    BY <1>0, <1>1, <1>3, <2>0, <2>1, <2>2, HoldsHeld DEF ExistsStays
  <2> QED
    BY <1>2, <2>1, <2>3 DEF BooksInv
<1>9. ASSUME NEW w \in Worker, PersistReply(w)
      PROVE  BooksInv'
  <2> DEFINE p == worker[w].pay
             row == Persisted(payment[p], worker[w].reply)
  <2>0. p \in Payment /\ Exists(p)
    BY <1>0, <1>9 DEF HeldOK, PersistReply
  <2>1. /\ UNCHANGED <<attempt, order, ledger, overwritten>>
        /\ payment' = [payment EXCEPT ![p] = row]
    BY <1>9 DEF PersistReply
  <2>2. row.status \in {"processing", "pending", "failed"}
    BY DEF Persisted
  <2> HIDE DEF row
  <2>3. StatusOK' /\ OrdersOK'
    BY <1>0, <2>0, <2>1, <2>2, RowBooks
  <2>4. HeldOK'
    <3>1. Ends(w) \/ Holds(w, "finalize", p, NoRow, NoReply)
      BY <1>9 DEF PersistReply
    <3> QED
      BY <1>0, <1>1, <1>3, <2>0, <2>1, <3>1, HoldsHeld, EndsHeld
         DEF ExistsStays
  <2> QED
    BY <2>3, <2>4 DEF BooksInv
<1>10. ASSUME NEW w \in Worker, FinalizeProcess(w) \/ FinalizeWebhook(w)
       PROVE  BooksInv'
  <2>0. worker[w].pay \in Payment /\ Exists(worker[w].pay)
    BY <1>0, <1>10 DEF HeldOK, FinalizeProcess, FinalizeWebhook
  <2>1. Complete(worker[w].pay) /\ Ends(w) /\ UNCHANGED attempt
    BY <1>10 DEF FinalizeProcess, FinalizeWebhook
  <2>2. StatusOK' /\ OrdersOK' /\ HeldOK'
    BY <1>0, <1>1, <2>0, <2>1, CompleteBooks, EndsHeld
  <2> QED
    BY <2>2 DEF BooksInv
<1>11. ASSUME NEW w \in Worker, NEW p \in Payment, NEW i \in IntentNo,
              NEW kind \in {"succeeded", "failed"},
              ReceiveWebhook(w, p, i, kind)
       PROVE  BooksInv'
  <2>1. UNCHANGED <<attempt, order, payment, ledger, overwritten>>
    BY <1>11 DEF ReceiveWebhook
  <2>2. HeldOK'
    <3>1. CASE UNCHANGED worker
      BY <1>0, <1>1, <2>1, <3>1, EndsHeld
    <3>2. CASE ~ UNCHANGED worker
      <4>1. Exists(p) /\ \E at : Holds(w, at, p, IdOf(payment[p]), NoReply)
        BY <1>11, <3>2 DEF ReceiveWebhook
      <4> QED
        BY <1>0, <1>1, <1>3, <2>1, <4>1, HoldsHeld DEF ExistsStays
    <3> QED
      BY <3>1, <3>2
  <2> QED
    BY <1>2, <2>1, <2>2 DEF BooksInv
<1>12. ASSUME NEW w \in Worker,
              StoreWebhookSuccess(w) \/ StoreWebhookFailure(w)
       PROVE  BooksInv'
  <2> DEFINE p == worker[w].pay
  <2>0. p \in Payment /\ Exists(p) /\ worker[w].row.status = "pending"
    BY <1>0, <1>12 DEF HeldOK, StoreWebhookSuccess, StoreWebhookFailure
  <2>1. UNCHANGED <<attempt, order, ledger, overwritten>>
    BY <1>12 DEF StoreWebhookSuccess, StoreWebhookFailure
  <2>2. StatusOK' /\ OrdersOK'
    <3>1. CASE UNCHANGED payment
      BY <1>2, <2>1, <3>1
    <3>2. CASE ~ UNCHANGED payment
      <4>1. PICK row : /\ payment' = [payment EXCEPT ![p] = row]
                       /\ row.status \in {"processing", "failed"}
        BY <1>12, <3>2 DEF StoreWebhookSuccess, StoreWebhookFailure
      <4> QED
        BY <1>0, <2>0, <2>1, <4>1, RowBooks
    <3> QED
      BY <3>1, <3>2
  <2>3. HeldOK'
    <3>1. Ends(w) \/ Holds(w, "webhook_finalize", p, worker[w].row, NoReply)
      BY <1>12 DEF StoreWebhookSuccess, StoreWebhookFailure
    <3> QED
      BY <1>0, <1>1, <2>0, <2>1, <3>1, HoldsHeld, EndsHeld DEF ExistsStays
  <2> QED
    BY <2>2, <2>3 DEF BooksInv
<1>13. ASSUME NEW p \in Payment, NEW i \in IntentNo,
              CustomerPays(p, i) \/ CustomerDeclined(p, i)
       PROVE  BooksInv'
  <2>1. UNCHANGED <<attempt, order, payment, ledger, worker, overwritten>>
    BY <1>13 DEF CustomerPays, CustomerDeclined
  <2> QED
    BY <1>0, <1>2, <2>1 DEF BooksInv, HeldOK, Exists
<1>14. ASSUME NEW o \in Order,
              \/ CancelOrder(o) \/ MarkPaid(o) \/ RefundOrder(o)
              \/ EditOrder(o) \/ EditInvoice(o)
       PROVE  BooksInv'
  <2>1. UNCHANGED <<attempt, payment, ledger, worker>>
    BY <1>14, OthersWrite DEF CancelOrder
  <2>2. /\ \A x \in overwritten : x \in overwritten'
        /\ \A u \in Order :
             /\ \/ order'[u].pay = order[u].pay
                \/ <<u, "order">> \in overwritten'
             /\ \/ order'[u].invoice = order[u].invoice
                \/ <<u, "invoice">> \in overwritten'
    <3>1. CASE CancelOrder(o)
      BY <3>1 DEF CancelOrder, TypeOK, OrderRow
    <3>2. CASE EditInvoice(o)
      BY <3>2 DEF EditInvoice, TypeOK, OrderRow
    <3>3. CASE ~ CancelOrder(o) /\ ~ EditInvoice(o)
      BY <1>14, <3>3, OthersWrite DEF WriteOrder, TypeOK, OrderRow
    <3> QED
      BY <3>1, <3>2, <3>3
  <2>3. OrdersOK'
    BY <1>0, <2>1, <2>2 DEF OrdersOK, Agrees, Booked, Exists, PaymentsOf
  <2> QED
    BY <1>0, <2>1, <2>3 DEF BooksInv, StatusOK, HeldOK, Booked, Exists
<1>15. ASSUME NEW p \in Payment, RefundInFull(p)
       PROVE  BooksInv'
  <2>1. /\ UNCHANGED <<attempt, order, ledger, worker, overwritten>>
        /\ payment[p].status = "completed"
        /\ payment' = [payment EXCEPT ![p] = WithStatus(payment[p], "refunded")]
    BY <1>15 DEF RefundInFull
  <2>2. Booked(p)
    BY <1>0, <2>1 DEF StatusOK
  <2>3. StatusOK' /\ OrdersOK'
    BY <1>0, <2>1, <2>2, RowBooks
  <2> QED
    BY <1>0, <2>1, <2>3 DEF BooksInv, HeldOK, Exists
<1>16. ASSUME NEW w \in Worker, Crash(w)
       PROVE  BooksInv'
  <2>1. UNCHANGED <<attempt, order, payment, ledger, overwritten>> /\ Ends(w)
    BY <1>16 DEF Crash
  <2> QED
    BY <1>0, <1>1, <1>2, <2>1, EndsHeld DEF BooksInv
<1>17. CASE UNCHANGED vars
  <2>1. UNCHANGED <<attempt, order, payment, ledger, worker, overwritten>>
    BY <1>17 DEF vars
  <2> QED
    BY <1>0, <1>2, <2>1 DEF BooksInv, HeldOK, Exists
<1> QED
  BY <1>4, <1>5, <1>6, <1>7, <1>8, <1>9, <1>10, <1>11, <1>12, <1>13, <1>14,
     <1>15, <1>16, <1>17 DEF Next, IntentFlow, Step

LEMMA BooksInit == Init => BooksInv
<1> SUFFICES ASSUME Init PROVE BooksInv
  OBVIOUS
<1>1. \A p \in Payment : payment[p].status = "pending" /\ ~ Booked(p)
  BY DEF Init, NoRow, Booked
<1>2. HeldOK
  BY DEF Init, HeldOK, Idle, NoRow
<1>3. \A o \in Order :
        /\ order[o].invoice = "paid" => <<o, "invoice">> \in overwritten
        /\ order[o].pay = "paid" => <<o, "order">> \in overwritten
  BY DEF Init, Document
<1>4. OrdersOK
  BY <1>1, <1>3 DEF OrdersOK, Agrees, PaymentsOf
<1> QED
  BY <1>1, <1>2, <1>4 DEF BooksInv, StatusOK

\* _complete_confirmed_payment: payment, ledger, order and invoice are settled
\* together, and no stale save of the payment, webhook or refund tells them
\* apart, for any number of attempts at any number of orders: only who writes
\* the order or the invoice itself does, until the next booking.
THEOREM BooksKept == Spec => []BooksAgree
<1>2. BooksInv => BooksAgree
  BY DEF BooksInv, StatusOK, OrdersOK, Agrees, BooksAgree
<1> QED
  BY <1>2, BooksInit, Typing, BooksStep, PTL DEF Spec

-----------------------------------------------------------------------------
(* What was answered is booked, in the client-side flow *)

\* A worker of the flow: nobody confirms on the server, the admin view leaves a
\* row alone only if it holds the intent's id by now, and a failure is reported
\* only of a declined card.
WorkerSound(w) ==
  /\ worker[w].at \in {"idle", "intent", "admin_intent", "webhook_ok",
                       "webhook_failed", "webhook_finalize"}
  /\ worker[w].at # "idle" /\ worker[w].row.txn = 1 =>
       payment[worker[w].pay].txn = 1
  /\ worker[w].at = "webhook_failed" => Declined(worker[w].pay)

\* A payment of the flow: the keyed intent is the only one, and its id is on the
\* row from the moment it exists, whatever stale rows are saved later; and the
\* payment failed only if a card was declined.
PaymentSound(p) ==
  /\ \A i \in IntentNo :
       intent[<<p, i>>] # "none" => i = 1 /\ Exists(p) /\ payment[p].txn = 1
  /\ payment[p].status = "failed" => Declined(p)
  /\ \A t \in TransactionId :
       <<p, t>> \in answered => Booked(p) \/ Declined(p)

\* What makes AnsweredIsBooked inductive: an event is dropped only because the
\* payment is settled or a card was declined, never because its id is unknown.
AnswerInv ==
  /\ \A w \in Worker : WorkerSound(w)
  /\ \A p \in Payment : PaymentSound(p)

LEMMA AnswerFrame ==
  ASSUME TypeOK, HeldOK, AnswerInv,
         \A q \in Payment :
           /\ Booked(q) => Booked(q)'
           /\ Declined(q) => Declined(q)'
           /\ Exists(q) => /\ Exists(q)'
                           /\ payment[q].txn = 1 => payment'[q].txn = 1
           /\ payment'[q].status = "failed" =>
                payment[q].status = "failed" \/ Declined(q)'
           /\ \A i \in IntentNo : intent'[<<q, i>>] # "none" =>
                \/ intent[<<q, i>>] # "none"
                \/ i = 1 /\ Exists(q)' /\ payment'[q].txn = 1
           /\ \A t \in TransactionId : <<q, t>> \in answered' =>
                <<q, t>> \in answered \/ Booked(q)' \/ Declined(q)',
         \A v \in Worker :
           worker'[v] = worker[v] \/ worker'[v] = Idle \/ WorkerSound(v)'
  PROVE  AnswerInv'
<1>1. ASSUME NEW v \in Worker PROVE WorkerSound(v)'
  <2>1. CASE worker'[v] = worker[v]
    <3>1. WorkerSound(v) /\ (worker[v].at # "idle" =>
            worker[v].pay \in Payment /\ Exists(worker[v].pay))
      BY DEF AnswerInv, HeldOK
    <3> QED
      BY <2>1, <3>1 DEF WorkerSound
  <2>2. CASE worker'[v] = Idle
    BY <2>2 DEF WorkerSound, Idle
  <2> QED
    BY <2>1, <2>2
<1>2. ASSUME NEW q \in Payment PROVE PaymentSound(q)'
  BY DEF AnswerInv, PaymentSound
<1> QED
  BY <1>1, <1>2 DEF AnswerInv

LEMMA AnswerStep ==
  ASSUME TypeOK, BooksInv, AnswerInv, [IntentFlow]_vars
  PROVE  AnswerInv'
<1>0. HeldOK /\ StatusOK
  BY DEF BooksInv
<1>1. ASSUME NEW w \in Worker, Ends(w)
      PROVE  \A v \in Worker : worker'[v] = worker[v] \/ worker'[v] = Idle
  BY <1>1 DEF Ends, TypeOK
<1>2. ASSUME NEW w \in Worker, NEW at, NEW p, NEW row, NEW reply,
             Holds(w, at, p, row, reply)
      PROVE  /\ \A v \in Worker \ {w} : worker'[v] = worker[v]
             /\ worker'[w] = [at |-> at, pay |-> p, row |-> row, reply |-> reply]
  BY <1>2 DEF Holds, TypeOK
<1>3. ASSUME UNCHANGED declined
      PROVE  \A q \in Payment : Declined(q)' <=> Declined(q)
  BY <1>3 DEF Declined
<1>4. ASSUME NEW w \in Worker, SaveIntent(w) \/ SaveAdminIntent(w)
      PROVE  AnswerInv'
  <2> DEFINE p == worker[w].pay
  <2>1. /\ p \in Payment /\ Exists(p) /\ worker[w].row.status = "pending"
        /\ worker[w].row.txn = 1 => payment[p].txn = 1
    BY <1>0, <1>4
       DEF HeldOK, SaveIntent, SaveAdminIntent, AnswerInv, WorkerSound
  <2>2. /\ UNCHANGED <<attempt, ledger, declined, answered>>
        /\ Ends(w) /\ OpenIntent(p)
    BY <1>4 DEF SaveIntent, SaveAdminIntent
  <2>3. PICK row : /\ payment' = [payment EXCEPT ![p] = row]
                   /\ row.txn = 1
                   /\ row.status \in {"pending", payment[p].status}
    <3>1. CASE SaveIntent(w)
      <4>1. /\ WithTransaction(worker[w].row, 1).txn = 1
            /\ WithTransaction(worker[w].row, 1).status = "pending"
        BY <2>1 DEF WithTransaction
      <4> QED
        BY <3>1, <4>1 DEF SaveIntent
    <3>2. CASE SaveAdminIntent(w)
      <4>1. CASE worker[w].row.txn = 1
        <5>1. payment' = [payment EXCEPT ![p] = payment[p]]
          BY <3>2, <4>1 DEF SaveAdminIntent, TypeOK
        <5> QED
          BY <2>1, <4>1, <5>1
      <4>2. CASE worker[w].row.txn # 1
        <5>1. payment' = [payment EXCEPT ![p] = WithTransaction(payment[p], 1)]
          BY <3>2, <4>2 DEF SaveAdminIntent
        <5>2. /\ WithTransaction(payment[p], 1).txn = 1
              /\ WithTransaction(payment[p], 1).status = payment[p].status
          BY DEF WithTransaction
        <5> QED
          BY <5>1, <5>2
      <4> QED
        BY <4>1, <4>2
    <3> QED
      BY <1>4, <3>1, <3>2
  <2>4. \A q \in Payment, i \in IntentNo :
          intent'[<<q, i>>] # "none" =>
            intent[<<q, i>>] # "none" \/ (q = p /\ i = 1)
    BY <2>2 DEF OpenIntent, TypeOK
  <2>5. /\ payment'[p].txn = 1
        /\ payment'[p].status \in {"pending", payment[p].status}
        /\ \A q \in Payment \ {p} : payment'[q] = payment[q]
    BY <2>1, <2>3 DEF TypeOK
  <2>6. \A q \in Payment : Exists(q)' <=> Exists(q)
    BY <2>2 DEF Exists
  <2>7. \A q \in Payment : Booked(q)' <=> Booked(q)
    BY <2>2 DEF Booked
  <2>8. \A q \in Payment :
          /\ payment[q].txn = 1 => payment'[q].txn = 1
          /\ payment'[q].status = "failed" => payment[q].status = "failed"
    BY <2>5
  <2> QED
    BY <1>0, <1>1, <1>3, <2>1, <2>2, <2>4, <2>5, <2>6, <2>7, <2>8, AnswerFrame
<1>5. ASSUME NEW w \in Worker, NEW o \in Order, NEW p \in Payment,
             NEW k \in Kinds, NEW at \in {"intent", "admin_intent"},
             BeginIntent(w, o, p, k, at)
      PROVE  AnswerInv'
  <2>1. UNCHANGED <<ledger, intent, declined, answered>>
    BY <1>5 DEF BeginIntent
  <2>2. \A q \in Payment : Booked(q)' <=> Booked(q)
    BY <2>1 DEF Booked
  <2>3. CASE /\ UNCHANGED <<attempt, payment>>
             /\ \E row \in {payment[p], IdOf(payment[p])} :
                  Holds(w, at, p, row, NoReply)
    <3>1. PICK row \in {payment[p], IdOf(payment[p])} :
            Holds(w, at, p, row, NoReply)
      BY <2>3
    <3>2. worker'[w] = [at |-> at, pay |-> p, row |-> row, reply |-> NoReply]
          /\ \A v \in Worker \ {w} : worker'[v] = worker[v]
      BY <1>2, <3>1
    <3>3. row.txn = payment'[p].txn
      BY <2>3, <3>1 DEF IdOf
    <3>4. WorkerSound(w)'
      BY <3>2, <3>3 DEF WorkerSound
    <3>5. \A q \in Payment : Exists(q)' <=> Exists(q)
      BY <2>3 DEF Exists
    <3> QED
      BY <1>0, <1>3, <2>1, <2>2, <2>3, <3>2, <3>4, <3>5, AnswerFrame
  <2>4. CASE NewPayment(o, p, k) /\ Holds(w, at, p, NoRow, NoReply)
    <3>1. /\ ~ Exists(p)
          /\ payment'[p] = NoRow
          /\ \A q \in Payment \ {p} : payment'[q] = payment[q]
                                      /\ attempt'[q] = attempt[q]
      BY <2>4 DEF NewPayment, TypeOK
    <3>2. worker'[w] = [at |-> at, pay |-> p, row |-> NoRow, reply |-> NoReply]
          /\ \A v \in Worker \ {w} : worker'[v] = worker[v]
      BY <1>2, <2>4
    <3>3. WorkerSound(w)'
      BY <3>2 DEF WorkerSound, NoRow
    <3>4. \A i \in IntentNo : intent[<<p, i>>] = "none"
      BY <3>1 DEF AnswerInv, PaymentSound
    <3>5. payment'[p].status # "failed"
      BY <3>1 DEF NoRow
    <3>6. \A q \in Payment \ {p} : Exists(q)' <=> Exists(q)
      BY <3>1 DEF Exists
    <3> QED
      BY <1>0, <1>3, <2>1, <2>2, <3>1, <3>2, <3>3, <3>4, <3>5, <3>6, AnswerFrame
  <2> QED
    BY <1>5, <2>3, <2>4 DEF BeginIntent
<1>6. ASSUME NEW w \in Worker, NEW p \in Payment, NEW i \in IntentNo,
             NEW kind \in {"succeeded", "failed"}, ReceiveWebhook(w, p, i, kind)
      PROVE  AnswerInv'
  <2>1. UNCHANGED <<attempt, payment, ledger, intent, declined>>
    BY <1>6 DEF ReceiveWebhook
  <2>2. \A q \in Payment : (Booked(q)' <=> Booked(q)) /\ (Exists(q)' <=> Exists(q))
    BY <2>1 DEF Booked, Exists
  <2>3. \A q \in Payment, t \in TransactionId :
          <<q, t>> \in answered' => <<q, t>> \in answered \/ Booked(q) \/ Declined(q)
    <3>1. CASE UNCHANGED answered
      BY <3>1
    <3>2. CASE ~ UNCHANGED answered
      <4>1. /\ kind = "succeeded" /\ intent[<<p, i>>] = "succeeded"
            /\ ~ (Exists(p) /\ payment[p].txn = i /\ payment[p].status \in Active)
            /\ answered' = answered \cup {<<p, i>>}
        BY <1>6, <3>2 DEF ReceiveWebhook
      <4>2. i = 1 /\ Exists(p) /\ payment[p].txn = 1
        BY <4>1 DEF AnswerInv, PaymentSound
      <4>3. payment[p].status \in {"completed", "refunded", "failed"}
        BY <4>1, <4>2 DEF Active, TypeOK, Row, PaymentStatus
      <4>4. Booked(p) \/ Declined(p)
        BY <1>0, <4>3 DEF StatusOK, AnswerInv, PaymentSound
      <4> QED
        BY <4>1, <4>4
    <3> QED
      BY <3>1, <3>2
  <2>4. \A v \in Worker : worker'[v] = worker[v] \/ WorkerSound(v)'
    <3>1. CASE UNCHANGED worker
      BY <3>1
    <3>2. CASE ~ UNCHANGED worker
      <4>1. PICK at \in {"webhook_ok", "webhook_failed"} :
              /\ Holds(w, at, p, IdOf(payment[p]), NoReply)
              /\ at = "webhook_failed" => <<p, i>> \in declined
        BY <1>6, <3>2 DEF ReceiveWebhook
      <4>2. worker'[w] = [at |-> at, pay |-> p, row |-> IdOf(payment[p]),
                          reply |-> NoReply]
            /\ \A v \in Worker \ {w} : worker'[v] = worker[v]
        BY <1>2, <4>1
      <4>3. WorkerSound(w)'
        BY <2>1, <4>1, <4>2 DEF WorkerSound, IdOf, Declined
      <4> QED
        BY <4>2, <4>3
    <3> QED
      BY <3>1, <3>2
  <2> QED
    BY <1>0, <1>3, <2>1, <2>2, <2>3, <2>4, AnswerFrame
<1>7. ASSUME NEW w \in Worker, StoreWebhookSuccess(w) \/ StoreWebhookFailure(w)
      PROVE  AnswerInv'
  <2> DEFINE p == worker[w].pay
  <2>1. /\ p \in Payment /\ worker[w].row \in Row /\ WorkerSound(w)
        /\ UNCHANGED <<attempt, ledger, intent, declined>>
    BY <1>0, <1>7 DEF HeldOK, StoreWebhookSuccess, StoreWebhookFailure, TypeOK,
                      WorkerState, AnswerInv
  <2>2. \A q \in Payment : (Booked(q)' <=> Booked(q)) /\ (Exists(q)' <=> Exists(q))
    BY <2>1 DEF Booked, Exists
  <2>3. PICK row : /\ payment' = [payment EXCEPT ![p] = row]
                   /\ row.txn = payment[p].txn
                   /\ row.status = "failed" =>
                        payment[p].status = "failed" \/ Declined(p)
    <3>1. CASE UNCHANGED payment
      <4>1. payment' = [payment EXCEPT ![p] = payment[p]]
        BY <3>1 DEF TypeOK
      <4> QED
        BY <4>1
    <3>2. CASE ~ UNCHANGED payment
      <4>1. CASE StoreWebhookSuccess(w)
        <5> DEFINE r == [status |-> "processing", resp |-> "success",
                         txn |-> payment[p].txn]
        <5>1. payment' = [payment EXCEPT ![p] = r]
          BY <3>2, <4>1 DEF StoreWebhookSuccess
        <5>2. r.txn = payment[p].txn /\ r.status # "failed"
          OBVIOUS
        <5> HIDE DEF r
        <5> QED
          BY <5>1, <5>2
      <4>2. CASE StoreWebhookFailure(w)
        <5>1. payment' = [payment EXCEPT ![p] = [status |-> "failed",
                            resp |-> "failure", txn |-> payment[p].txn]]
          BY <3>2, <4>2 DEF StoreWebhookFailure
        <5>2. Declined(p)
          BY <2>1, <4>2 DEF StoreWebhookFailure, WorkerSound
        <5> QED
          BY <5>1, <5>2
      <4> QED
        BY <1>7, <4>1, <4>2
    <3> QED
      BY <3>1, <3>2
  <2>4. \A q \in Payment :
          /\ payment'[q].txn = payment[q].txn
          /\ payment'[q].status = "failed" =>
               payment[q].status = "failed" \/ Declined(q)
    BY <2>1, <2>3 DEF TypeOK
  <2>5. \A q \in Payment, t \in TransactionId :
          <<q, t>> \in answered' => <<q, t>> \in answered \/ Booked(q)
    BY <1>0, <1>7, <2>1 DEF StoreWebhookSuccess, StoreWebhookFailure, StatusOK
  <2>6. \A v \in Worker :
          worker'[v] = worker[v] \/ worker'[v] = Idle \/ WorkerSound(v)'
    <3>1. CASE Ends(w)
      BY <1>1, <3>1
    <3>2. CASE ~ Ends(w)
      <4>1. /\ worker[w].at = "webhook_ok"
            /\ Holds(w, "webhook_finalize", p, worker[w].row, NoReply)
        BY <1>7, <3>2 DEF StoreWebhookSuccess, StoreWebhookFailure
      <4>2. worker'[w] = [at |-> "webhook_finalize", pay |-> p,
                          row |-> worker[w].row, reply |-> NoReply]
            /\ \A v \in Worker \ {w} : worker'[v] = worker[v]
        BY <1>2, <4>1
      <4>3. WorkerSound(w)'
        BY <2>1, <2>4, <4>1, <4>2 DEF WorkerSound
      <4> QED
        BY <4>2, <4>3
    <3> QED
      BY <3>1, <3>2
  <2> QED
    BY <1>0, <1>3, <2>1, <2>2, <2>4, <2>5, <2>6, AnswerFrame
<1>8. ASSUME NEW w \in Worker, FinalizeWebhook(w)
      PROVE  AnswerInv'
  <2> DEFINE p == worker[w].pay
             done == payment[p].status = "completed"
                     \/ payment[p].resp = "success"
  <2>0. p \in Payment /\ worker[w].row \in Row
    BY <1>0, <1>8 DEF HeldOK, FinalizeWebhook, TypeOK, WorkerState
  <2>1. /\ UNCHANGED <<attempt, intent, declined>>
        /\ Ends(w) /\ Complete(p)
        /\ answered' = IF done THEN answered \cup {<<p, worker[w].row.txn>>}
                               ELSE answered
    BY <1>8 DEF FinalizeWebhook
  <2>2. \A q \in Payment : /\ payment'[q].txn = payment[q].txn
                           /\ payment'[q].status = "failed" =>
                                payment[q].status = "failed"
                           /\ Booked(q) => Booked(q)'
    BY <2>0, <2>1 DEF Complete, WithStatus, Booked, TypeOK
  <2>3. done => ledger'[p] > 0
    <3>1. CASE payment[p].status = "completed"
      BY <1>0, <2>0, <2>2, <3>1 DEF StatusOK, Booked
    <3>2. CASE payment[p].status # "completed" /\ payment[p].resp = "success"
      <4>1. ledger' = [ledger EXCEPT ![p] = ledger[p] + 1]
        BY <2>1, <3>2 DEF Complete
      <4> QED
        BY <2>0, <4>1 DEF TypeOK
    <3> QED
      BY <3>1, <3>2
  <2>4. \A q \in Payment, t \in TransactionId :
          <<q, t>> \in answered' => <<q, t>> \in answered \/ Booked(q)'
    BY <2>1, <2>3 DEF Booked
  <2>5. \A q \in Payment : Exists(q)' <=> Exists(q)
    BY <2>1 DEF Exists
  <2> QED
    BY <1>0, <1>1, <1>3, <2>1, <2>2, <2>4, <2>5, AnswerFrame
<1>9. ASSUME NEW p \in Payment, NEW i \in IntentNo,
             CustomerPays(p, i) \/ CustomerDeclined(p, i)
      PROVE  AnswerInv'
  <2>1. /\ UNCHANGED <<attempt, payment, ledger, answered, worker>>
        /\ intent[<<p, i>>] # "none"
        /\ declined \subseteq declined'
    BY <1>9 DEF CustomerPays, CustomerDeclined
  <2>2. \A q \in Payment, j \in IntentNo :
          intent'[<<q, j>>] # "none" => intent[<<q, j>>] # "none"
    BY <1>9, <2>1 DEF CustomerPays, CustomerDeclined, TypeOK
  <2>3. \A q \in Payment : /\ Booked(q)' <=> Booked(q)
                           /\ Exists(q)' <=> Exists(q)
                           /\ Declined(q) => Declined(q)'
    BY <2>1 DEF Booked, Exists, Declined
  <2> QED
    BY <1>0, <2>1, <2>2, <2>3, AnswerFrame
<1>10. ASSUME NEW p \in Payment, RefundInFull(p)
       PROVE  AnswerInv'
  <2>1. UNCHANGED <<attempt, ledger, intent, declined, answered, worker>>
    BY <1>10 DEF RefundInFull
  <2>2. \A q \in Payment : /\ payment'[q].txn = payment[q].txn
                           /\ payment'[q].status = "failed" =>
                                payment[q].status = "failed"
    BY <1>10 DEF RefundInFull, WithStatus, TypeOK
  <2>3. \A q \in Payment : (Booked(q)' <=> Booked(q)) /\ (Exists(q)' <=> Exists(q))
    BY <2>1 DEF Booked, Exists
  <2> QED
    BY <1>0, <1>3, <2>1, <2>2, <2>3, AnswerFrame
<1>11. ASSUME UNCHANGED <<attempt, payment, ledger, intent, declined, answered>>,
              UNCHANGED worker \/ \E w \in Worker : Ends(w)
       PROVE  AnswerInv'
  <2>1. \A v \in Worker : worker'[v] = worker[v] \/ worker'[v] = Idle
    BY <1>1, <1>11
  <2>2. \A q \in Payment : (Booked(q)' <=> Booked(q)) /\ (Exists(q)' <=> Exists(q))
    BY <1>11 DEF Booked, Exists
  <2> QED
    BY <1>0, <1>3, <1>11, <2>1, <2>2, AnswerFrame
<1>12. ASSUME NEW o \in Order,
              \/ CancelOrder(o) \/ MarkPaid(o) \/ RefundOrder(o)
              \/ EditOrder(o) \/ EditInvoice(o)
       PROVE  AnswerInv'
  BY <1>11, <1>12, OthersWrite DEF CancelOrder
<1>13. ASSUME NEW w \in Worker,
              CallGateway(w) \/ PersistReply(w) \/ FinalizeProcess(w)
       PROVE  FALSE
  BY <1>13 DEF AnswerInv, WorkerSound, CallGateway, PersistReply,
               FinalizeProcess
<1>14. ASSUME NEW w \in Worker, Crash(w) PROVE AnswerInv'
  BY <1>11, <1>14 DEF Crash
<1>15. CASE UNCHANGED vars
  BY <1>11, <1>15 DEF vars
<1> QED
  BY <1>4, <1>5, <1>6, <1>7, <1>8, <1>9, <1>10, <1>12, <1>13, <1>14, <1>15
     DEF IntentFlow, Step

\* handle_webhook, in the client-side flow: a success that was answered with 200
\* is booked unless a card was declined on the payment, for any number of
\* payments, requests, redeliveries, stale saves and crashes. The gateway drops
\* what was answered, so a success answered and not booked would be lost.
THEOREM AnsweredAreBooked == IntentFlowSpec => []AnsweredIsBooked
<1>1. Init => BooksInv /\ AnswerInv
  <2> SUFFICES ASSUME Init PROVE BooksInv /\ AnswerInv
    OBVIOUS
  <2>1. BooksInv
    BY BooksInit
  <2>2. AnswerInv
    BY DEF Init, AnswerInv, WorkerSound, PaymentSound, Idle, NoRow
  <2> QED
    BY <2>1, <2>2
<1>2. [IntentFlow]_vars => [Next]_vars
  BY DEF Next
<1>3. TypeOK /\ BooksInv /\ AnswerInv /\ [IntentFlow]_vars
        => TypeOK' /\ BooksInv' /\ AnswerInv'
  BY <1>2, TypeStep, BooksStep, AnswerStep
<1>4. AnswerInv => AnsweredIsBooked
  BY DEF AnswerInv, PaymentSound, AnsweredIsBooked, IntentNo, TransactionId
<1> QED
  BY <1>1, <1>3, <1>4, TypeInit, PTL DEF IntentFlowSpec

-----------------------------------------------------------------------------
(* Who books a payment twice *)

\* The steps that make a completed payment one to be completed again: the
\* shop's save of a payment it read before, an answer of the gateway stored
\* over what a webhook did meanwhile, and a refund.
Reopens ==
  \/ \E w \in Worker : /\ payment[worker[w].pay].status = "completed"
                       /\ SaveIntent(w) \/ PersistReply(w)
  \/ \E p \in Payment : RefundInFull(p)

SingleOK ==
  \A p \in Payment : ledger[p] = IF payment[p].status = "completed" THEN 1 ELSE 0

\* A row is rewritten, completed as before.
LEMMA RowSingle ==
  ASSUME TypeOK, SingleOK, NEW p \in Payment, NEW row,
         payment' = [payment EXCEPT ![p] = row], UNCHANGED ledger,
         row.status = "completed" <=> payment[p].status = "completed"
  PROVE  SingleOK'
BY DEF TypeOK, SingleOK

LEMMA CompleteSingle ==
  ASSUME TypeOK, SingleOK, NEW p \in Payment, Complete(p)
  PROVE  SingleOK'
<1>1. CASE UNCHANGED <<order, payment, ledger, overwritten>>
  BY <1>1 DEF SingleOK
<1>2. CASE ~ UNCHANGED <<order, payment, ledger, overwritten>>
  <2>1. /\ payment[p].status # "completed"
        /\ payment' = [payment EXCEPT ![p] = WithStatus(payment[p], "completed")]
        /\ ledger' = [ledger EXCEPT ![p] = ledger[p] + 1]
    BY <1>2 DEF Complete
  <2>2. WithStatus(payment[p], "completed").status = "completed"
    BY DEF WithStatus
  <2>3. ledger'[p] = 1 /\ payment'[p].status = "completed"
    BY <2>1, <2>2 DEF TypeOK, SingleOK
  <2>4. \A q \in Payment \ {p} : ledger'[q] = ledger[q] /\ payment'[q] = payment[q]
    BY <2>1 DEF TypeOK
  <2> QED
    BY <2>3, <2>4 DEF SingleOK
<1> QED
  BY <1>1, <1>2

LEMMA NewSingle ==
  ASSUME TypeOK, OrdersOK, SingleOK, NEW o, NEW p \in Payment, NEW k,
         NewPayment(o, p, k), UNCHANGED ledger
  PROVE  SingleOK'
<1>1. payment[p].status # "completed"
  BY DEF NewPayment, OrdersOK, Booked, SingleOK
<1> QED
  BY <1>1, RowSingle DEF NewPayment, NoRow

LEMMA SingleStep ==
  TypeOK /\ BooksInv /\ SingleOK /\ [Next /\ ~ Reopens]_vars => SingleOK'
<1> SUFFICES ASSUME TypeOK, BooksInv, SingleOK, [Next /\ ~ Reopens]_vars
             PROVE  SingleOK'
  OBVIOUS
<1>0. \A w \in Worker : worker[w].at # "idle" => worker[w].pay \in Payment
  BY DEF TypeOK
<1>1. CASE UNCHANGED <<payment, ledger>>
  BY <1>1 DEF SingleOK
<1>2. ASSUME NEW o \in Order, NEW p \in Payment, NEW k \in Kinds,
             CreatePayment(o, p, k)
      PROVE  SingleOK'
  BY <1>2, NewSingle DEF CreatePayment, BooksInv
<1>3. ASSUME NEW w \in Worker, NEW o \in Order, NEW p \in Payment,
             NEW k \in Kinds, NEW at, BeginIntent(w, o, p, k, at)
      PROVE  SingleOK'
  <2>1. UNCHANGED ledger /\ (NewPayment(o, p, k) \/ UNCHANGED payment)
    BY <1>3 DEF BeginIntent
  <2> QED
    BY <1>1, <2>1, NewSingle DEF BooksInv
<1>4. ASSUME NEW w \in Worker, SaveIntent(w), ~ Reopens PROVE SingleOK'
  <2>1. worker[w].pay \in Payment /\ worker[w].row.status = "pending"
    BY <1>0, <1>4 DEF SaveIntent, BooksInv, HeldOK
  <2>2. payment[worker[w].pay].status # "completed"
    BY <1>4 DEF Reopens
  <2>3. WithTransaction(worker[w].row, 1).status = "pending"
    BY <2>1 DEF WithTransaction
  <2> QED
    BY <1>4, <2>1, <2>2, <2>3, RowSingle DEF SaveIntent
<1>5. ASSUME NEW w \in Worker, SaveAdminIntent(w) PROVE SingleOK'
  <2> DEFINE p == worker[w].pay
  <2>1. p \in Payment /\ UNCHANGED ledger
    BY <1>0, <1>5 DEF SaveAdminIntent
  <2>2. PICK row : /\ payment' = [payment EXCEPT ![p] = row]
                   /\ row.status = payment[p].status
    BY <1>5, AdminRow
  <2> QED
    BY <2>1, <2>2, RowSingle
<1>6. ASSUME NEW w \in Worker, NEW p \in Payment, NEW manual \in BOOLEAN,
             BeginProcess(w, p, manual)
      PROVE  SingleOK'
  <2>1. UNCHANGED ledger /\ payment[p].status # "completed"
        /\ \/ UNCHANGED payment
           \/ payment' = [payment EXCEPT
                            ![p] = WithStatus(payment[p], "processing")]
    BY <1>6 DEF BeginProcess
  <2>2. WithStatus(payment[p], "processing").status = "processing"
    BY DEF WithStatus
  <2> QED
    BY <1>1, <2>1, <2>2, RowSingle
<1>7. ASSUME NEW w \in Worker, PersistReply(w), ~ Reopens PROVE SingleOK'
  <2> DEFINE p == worker[w].pay
  <2>1. /\ p \in Payment /\ UNCHANGED ledger
        /\ payment' = [payment EXCEPT
                         ![p] = Persisted(payment[p], worker[w].reply)]
    BY <1>0, <1>7 DEF PersistReply
  <2>2. payment[p].status # "completed"
    BY <1>7 DEF Reopens
  <2>3. Persisted(payment[p], worker[w].reply).status # "completed"
    BY DEF Persisted
  <2> QED
    BY <2>1, <2>2, <2>3, RowSingle
<1>8. ASSUME NEW w \in Worker, FinalizeProcess(w) \/ FinalizeWebhook(w)
      PROVE  SingleOK'
  <2>1. worker[w].pay \in Payment /\ Complete(worker[w].pay)
    BY <1>0, <1>8 DEF FinalizeProcess, FinalizeWebhook
  <2> QED
    BY <2>1, CompleteSingle
<1>9. ASSUME NEW w \in Worker, StoreWebhookSuccess(w) PROVE SingleOK'
  <2> DEFINE p == worker[w].pay
             row == [status |-> "processing", resp |-> "success",
                     txn |-> payment[p].txn]
  <2>1. /\ p \in Payment /\ UNCHANGED ledger
        /\ \/ UNCHANGED payment
           \/ /\ payment[p].status # "completed"
              /\ payment' = [payment EXCEPT ![p] = row]
    BY <1>0, <1>9 DEF StoreWebhookSuccess
  <2>2. row.status = "processing"
    OBVIOUS
  <2> HIDE DEF row
  <2> QED
    BY <1>1, <2>1, <2>2, RowSingle
<1>10. ASSUME NEW w \in Worker, StoreWebhookFailure(w) PROVE SingleOK'
  <2> DEFINE p == worker[w].pay
             row == [status |-> "failed", resp |-> "failure",
                     txn |-> payment[p].txn]
  <2>1. /\ p \in Payment /\ UNCHANGED ledger
        /\ \/ UNCHANGED payment
           \/ /\ payment[p].status \in Active
              /\ payment' = [payment EXCEPT ![p] = row]
    BY <1>0, <1>10 DEF StoreWebhookFailure
  <2>2. row.status = "failed"
    OBVIOUS
  <2> HIDE DEF row
  <2> QED
    BY <1>1, <2>1, <2>2, RowSingle DEF Active
<1>11. CASE \/ \E w \in Worker : CallGateway(w) \/ Crash(w)
            \/ \E w \in Worker, p \in Payment, i \in IntentNo,
                  kind \in {"succeeded", "failed"} : ReceiveWebhook(w, p, i, kind)
            \/ \E p \in Payment, i \in IntentNo :
                 CustomerPays(p, i) \/ CustomerDeclined(p, i)
            \/ \E o \in Order : \/ CancelOrder(o) \/ MarkPaid(o) \/ RefundOrder(o)
                               \/ EditOrder(o) \/ EditInvoice(o)
            \/ UNCHANGED vars
  BY <1>1, <1>11, OthersWrite DEF CallGateway, Crash, ReceiveWebhook, CustomerPays,
                     CustomerDeclined, CancelOrder, vars
<1>12. ASSUME ~ Reopens, NEW p \in Payment, RefundInFull(p) PROVE FALSE
  BY <1>12 DEF Reopens
<1> QED
  BY <1>2, <1>3, <1>4, <1>5, <1>6, <1>7, <1>8, <1>9, <1>10, <1>11, <1>12
     DEF Next, IntentFlow, Step

\* A payment is booked twice only through one of three steps that take it out
\* of 'completed' (Reopens).  Nothing else does it: no number of webhooks, of
\* retries of process_payment, of admin intents or of crashes.
THEOREM OnlyReopenedTwice == Spec /\ [][~ Reopens]_vars => []LedgerOnce
<1>1. Init => SingleOK
  BY DEF Init, SingleOK, NoRow
<1>2. SingleOK => LedgerOnce
  BY DEF SingleOK, LedgerOnce
<1>3. [Next]_vars /\ [~ Reopens]_vars => [Next /\ ~ Reopens]_vars
  OBVIOUS
<1> QED
  BY <1>1, <1>2, <1>3, SingleStep, BooksInit, BooksStep, TypeInit, TypeStep, PTL
     DEF Spec
=============================================================================
