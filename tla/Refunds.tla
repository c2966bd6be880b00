------------------------------ MODULE Refunds ------------------------------
(***************************************************************************)
(* Giving the money of one completed payment back: create_refund and what  *)
(* it calls in finance/services/payment_service.py, under concurrent       *)
(* requests, retries, crashes and a gateway whose answers may be lost.     *)
(*                                                                         *)
(* A request names an idempotency key; (payment, key) is unique, so a key  *)
(* stands for a Refund row.  Each database transaction is one action.  The *)
(* gateway is given a key of its own per row (bfg-refund-<pk>), so a call  *)
(* repeated for one row gets the answer the first one got.  An answer is   *)
(* an error (refused), or a refund with an id and a status of its own:     *)
(* succeeded, pending, or failed, which stands for every other status.     *)
(***************************************************************************)
EXTENDS Naturals, FiniteSetsExt, Functions

CONSTANTS
  Key,          \* idempotency keys the clients use for this payment
  Worker,       \* concurrently handled requests
  NoKey,
  Total,        \* the payment's amount
  Amount,       \* amounts that may be asked for
  Answers,      \* what the gateway may decide of a refund it first hears of
  MaxLedger     \* bound: 'refund' ledger rows written for one refund

ASSUME RefundsAssumption ==
  /\ NoKey \notin Key /\ IsFiniteSet(Key)
  /\ Total \in Nat \ {0}
  /\ Amount \subseteq Nat \ {0}
  /\ Answers \subseteq {"succeeded", "pending", "failed", "refused"}
  /\ MaxLedger \in Nat \ {0}

VARIABLES
  payment,      \* status of the payment
  amount,       \* amount of each Refund row, 0 while it does not exist
  refund,       \* status and gateway_refund_id (set or blank) of each row
  ledger,       \* number of 'refund' Transaction rows of each row
  gateway,      \* what the gateway decided of each row's refund
  worker,       \* what each request handler holds between transactions
  raced         \* history: keys that two requests were handling at once

vars == <<payment, amount, refund, ledger, gateway, worker, raced>>

Idle == [at |-> "idle", key |-> NoKey, reply |-> "none"]

Row == [status: {"none", "processing", "pending", "completed", "failed"},
        id: BOOLEAN]

WorkerState ==
  [at: {"idle", "call", "persist", "finalize"}, key: Key \cup {NoKey},
   reply: {"none", "succeeded", "pending", "failed", "refused", "exception"}]

TypeOK ==
  /\ payment \in {"completed", "refunded"}
  /\ amount \in [Key -> Nat]
  /\ refund \in [Key -> Row]
  /\ ledger \in [Key -> Nat]
  /\ gateway \in [Key -> {"none", "succeeded", "pending", "failed", "refused"}]
  /\ worker \in [Worker -> WorkerState]
  /\ \A w \in Worker : worker[w].at # "idle" => worker[w].key \in Key
  /\ raced \subseteq Key

Init ==
  /\ payment = "completed"
  /\ amount = [k \in Key |-> 0]
  /\ refund = [k \in Key |-> [status |-> "none", id |-> FALSE]]
  /\ ledger = [k \in Key |-> 0]
  /\ gateway = [k \in Key |-> "none"]
  /\ worker = [w \in Worker |-> Idle]
  /\ raced = {}

-----------------------------------------------------------------------------

InStatus(statuses) == {k \in Key : refund[k].status \in statuses}

TotalOf(keys) == SumFunctionOnSet(amount, keys)

\* What is promised to the customer: failed refunds free their amount.
Reserved == TotalOf(InStatus({"pending", "processing", "completed"}))

Holds(w, at, k, reply) ==
  worker' = [worker EXCEPT ![w] = [at |-> at, key |-> k, reply |-> reply]]

\* The request is under way, with this key.
Handles(w, k) == worker[w].at # "idle" /\ worker[w].key = k

Ends(w) == worker' = [worker EXCEPT ![w] = Idle]

SetRow(k, status, id) ==
  refund' = [refund EXCEPT ![k] = [status |-> status, id |-> id]]

-----------------------------------------------------------------------------
(* create_refund *)

\* A key that is not known yet: reserve the amount, unless it exceeds what is
\* left.
NewRefund(w, k, a) ==
  /\ refund[k].status = "none"
  /\ Reserved + a <= Total
  /\ amount' = [amount EXCEPT ![k] = a]
  /\ SetRow(k, "processing", FALSE)
  /\ Holds(w, "call", k, "none")

\* Mutant: an open attempt is taken for a confirmed one.
Retry_OpenIsConfirmed(w, k) ==
  /\ refund[k].status = "processing"
  /\ Holds(w, "finalize", k, "succeeded")
  /\ UNCHANGED <<amount, refund>>

\* Mutant: a retried key always asks the gateway and books its answer.
Retry_AlwaysAsks(w, k) ==
  /\ refund[k].status # "none"
  /\ Holds(w, "call", k, "none")
  /\ UNCHANGED <<amount, refund>>

\* A known key whose outcome is open: if the gateway's refund id was stored,
\* only the bookkeeping is left. In any other status the row is returned as is.
Retry(w, k) ==
  /\ refund[k].status = "processing"
  /\ IF refund[k].id THEN Holds(w, "finalize", k, "succeeded")
                     ELSE Holds(w, "call", k, "none")
  /\ UNCHANGED <<amount, refund>>

\* The first transaction, under the payment's lock.
PrepareRefund(w, k) ==
  /\ worker[w].at = "idle"
  /\ payment = "completed"
  /\ Retry(w, k) \/ \E a \in Amount : NewRefund(w, k, a)
  /\ raced' = IF \E v \in Worker : Handles(v, k) THEN raced \cup {k} ELSE raced
  /\ UNCHANGED <<payment, ledger, gateway>>

\* The gateway decides the first time it hears of a refund, and remembers.
GatewayDecides(k) ==
  \E answer \in IF gateway[k] = "none" THEN Answers ELSE {gateway[k]} :
    gateway' = [gateway EXCEPT ![k] = answer]

\* _call_refund_gateway, outside any transaction.
CallRefundGateway(w) ==
  LET k == worker[w].key IN
  /\ worker[w].at = "call"
  /\ GatewayDecides(k)
  /\ Holds(w, "persist", k, gateway'[k])
  /\ UNCHANGED <<payment, amount, refund, ledger, raced>>

\* The call raises: the connection broke, before or after the gateway heard.
AnswerLost(w) ==
  LET k == worker[w].key IN
  /\ worker[w].at = "call"
  /\ GatewayDecides(k) \/ UNCHANGED gateway
  /\ Holds(w, "persist", k, "exception")
  /\ UNCHANGED <<payment, amount, refund, ledger, raced>>

\* Mutant: the gateway's word is stored as the status.
Persisted_GatewayWord(row, reply) ==
  [status |-> reply, id |-> reply \notin {"refused", "exception"}]

\* Mutant: a transport error fails the refund, which frees its amount.
Persisted_ExceptionFails(row, reply) ==
  CASE reply = "succeeded" -> [status |-> "processing", id |-> TRUE]
    [] reply = "pending"   -> [status |-> "pending", id |-> TRUE]
    [] reply = "failed"    -> [status |-> "failed", id |-> TRUE]
    [] OTHER               -> [status |-> "failed", id |-> FALSE]

\* The row after the gateway's answer, or an exception instead of one, whatever
\* its status has become meanwhile: the id of a refund that failed is stored too.
Persisted(row, reply) ==
  CASE reply = "succeeded" -> [status |-> "processing", id |-> TRUE]
    [] reply = "pending"   -> [status |-> "pending", id |-> TRUE]
    [] reply = "failed"    -> [status |-> "failed", id |-> TRUE]
    [] reply = "refused"   -> [status |-> "failed", id |-> FALSE]
    [] OTHER               -> [status |-> "processing", id |-> row.id]

\* The second transaction.
PersistRefund(w) ==
  LET k == worker[w].key
      reply == worker[w].reply IN
  /\ worker[w].at = "persist"
  /\ refund' = [refund EXCEPT ![k] = Persisted(@, reply)]
  /\ IF reply = "succeeded" THEN Holds(w, "finalize", k, reply) ELSE Ends(w)
  /\ UNCHANGED <<payment, amount, ledger, gateway, raced>>

\* Mutant: refunds that are still open count as given back.
FinalizeRefund_CountsReserved(w) ==
  LET k == worker[w].key IN
  /\ worker[w].at = "finalize"
  /\ IF refund[k].status = "completed"
       THEN UNCHANGED <<payment, refund, ledger>>
       ELSE /\ ledger[k] < MaxLedger
            /\ SetRow(k, "completed", TRUE)
            /\ ledger' = [ledger EXCEPT ![k] = @ + 1]
            /\ payment' = IF Reserved >= Total THEN "refunded" ELSE payment
  /\ Ends(w)
  /\ UNCHANGED <<amount, gateway, raced>>

\* _finalize_confirmed_refund, under the payment's and the refund's locks.
FinalizeRefund(w) ==
  LET k == worker[w].key IN
  /\ worker[w].at = "finalize"
  /\ IF refund[k].status = "completed"
       THEN UNCHANGED <<payment, refund, ledger>>
       ELSE /\ ledger[k] < MaxLedger
            /\ SetRow(k, "completed", TRUE)
            /\ ledger' = [ledger EXCEPT ![k] = @ + 1]
            /\ payment' = IF TotalOf(InStatus({"completed"}) \cup {k}) >= Total
                            THEN "refunded" ELSE payment
  /\ Ends(w)
  /\ UNCHANGED <<amount, gateway, raced>>

\* The process handling the request dies between two transactions.
Crash(w) ==
  /\ worker[w].at # "idle"
  /\ Ends(w)
  /\ UNCHANGED <<payment, amount, refund, ledger, gateway, raced>>

-----------------------------------------------------------------------------

Step(w) ==
  \/ CallRefundGateway(w)
  \/ AnswerLost(w)
  \/ PersistRefund(w)
  \/ FinalizeRefund(w)

Next ==
  \E w \in Worker :
    Step(w) \/ Crash(w) \/ \E k \in Key : PrepareRefund(w, k)

Spec == Init /\ [][Next]_vars

\* A client repeats a request whose outcome it does not know, under the same
\* key; requests run to their end unless they die, and of those with one key
\* neither death nor a broken connection strikes every one.
RetryFairness ==
  /\ \A w \in Worker : WF_vars(Step(w))
  /\ \A k \in Key :
       /\ SF_vars(\E w \in Worker : Retry(w, k) /\ PrepareRefund(w, k))
       /\ SF_vars(\E w \in Worker : Handles(w, k) /\ CallRefundGateway(w))
       /\ SF_vars(\E w \in Worker : /\ Handles(w, k) /\ PersistRefund(w)
                                   /\ worker[w].reply # "exception")
       /\ SF_vars(\E w \in Worker : Handles(w, k) /\ FinalizeRefund(w))

FairSpec == Spec /\ RetryFairness

-----------------------------------------------------------------------------
(* Properties *)

Given == {k \in Key : gateway[k] \in {"succeeded", "pending"}}

\* The gateway never gives back more than was paid, however requests, retries,
\* lost answers and crashes interleave: an amount stays reserved as long as the
\* gateway may have given it (create_refund's exception handler).
NeverOverRefunded == TotalOf(Given) <= Total

Booked == {k \in Key : ledger[k] > 0}

Back == INSTANCE MoneyBack
          WITH back <- [k \in Key |-> IF k \in Given THEN amount[k] ELSE 0],
               booked <- Booked, settled <- payment = "refunded",
               twice <- raced

\* The refunds of a payment are as a customer may expect, although the gateway
\* decides between two transactions, answers are lost and amounts freed: each
\* goes back once, for the amount its row was accepted with, all within the
\* payment; only what goes back is booked; and once the payment is 'refunded'
\* all of it has gone back, so that no request still under way makes the gateway
\* give more.  What two requests with one key may break is the booking.
GivesBack == Back!Spec

\* Nothing is booked that the gateway did not confirm, a pending and a failed
\* refund neither, unless two requests handled it at once: then a lost answer
\* reopens the row that holds the id of a refund that failed or is pending, and
\* the next retry takes the id for a success.  (payment_service.py,
\* create_refund: any status but succeeded, completed and refunded is stored as
\* pending or failed, "Payment gateway did not confirm the refund.")
BookedIsGiven ==
  \A k \in Key \ raced :
    ledger[k] > 0 \/ refund[k].status = "completed" => gateway[k] = "succeeded"

\* The payment turns 'refunded' when the whole of it is completed and not before
\* the whole of it is booked, whichever requests book, reopen and book again.
RefundedIsWhole ==
  /\ payment = "refunded" => TotalOf(Booked) >= Total
  /\ TotalOf(InStatus({"completed"})) >= Total => payment = "refunded"

\* A refund is one row in the ledger, whatever died, lost its answer and was
\* repeated, unless two requests handled it at once: both may be given the
\* gateway's success, and the one that stores it last reopens what the other
\* completed.
LedgerOnce == \A k \in Key \ raced : ledger[k] <= 1

\* Money the gateway gave back is booked in the end if the client asks again,
\* unless the payment counts as refunded by the doing of racing requests, for no
\* request gets past that.
GivenIsBooked ==
  \A k \in Key :
    (gateway[k] = "succeeded")
      ~> \/ ledger[k] > 0
         \/ payment = "refunded" /\ raced \cap Booked # {}

=============================================================================
