--------------------------- MODULE RefundsProofs ---------------------------
(***************************************************************************)
(* Proofs about Refunds, for any keys, requests, amounts and answers of    *)
(* the gateway.                                                            *)
(*                                                                         *)
(* What the gateway gave is bounded by what was promised: the refunds that *)
(* were accepted and that the gateway has not refused (PromiseInv).  A     *)
(* refund that no two requests handled at once is booked once, after the   *)
(* gateway confirmed it (SoloInv).  The payment is refunded with the whole *)
(* of it (WholeInv).  Refunds implements MoneyBack, every step a step of   *)
(* it or none.                                                             *)
(***************************************************************************)
EXTENDS Refunds, Sums, TLAPS

USE RefundsAssumption

Reply == {"none", "succeeded", "pending", "failed", "refused", "exception"}

\* The worker part of TypeOK.
WorkersOK ==
  /\ worker \in [Worker -> WorkerState]
  /\ \A w \in Worker : worker[w].at # "idle" => worker[w].key \in Key

\* A worker that takes hold of well-typed values, or lets go of them, keeps
\* the workers well typed.
LEMMA HoldsType ==
  ASSUME NEW w \in Worker, NEW at \in {"call", "persist", "finalize"},
         NEW k \in Key,
         NEW reply \in Reply,
         WorkersOK, Holds(w, at, k, reply)
  PROVE  WorkersOK'
BY DEF Holds, WorkerState, WorkersOK, Reply

LEMMA EndsType ==
  ASSUME NEW w \in Worker, WorkersOK, Ends(w)
  PROVE  WorkersOK'
BY DEF Ends, WorkerState, Idle, WorkersOK

LEMMA PersistedType ==
  ASSUME NEW row \in Row,
         NEW reply \in Reply
  PROVE  Persisted(row, reply) \in Row
BY DEF Persisted, Row, Reply

\* The gateway answers, and keeps to what it answered before.
LEMMA DecidesType ==
  ASSUME TypeOK, NEW k \in Key, GatewayDecides(k)
  PROVE  /\ gateway' \in [Key -> {"none", "succeeded", "pending", "failed", "refused"}]
         /\ gateway'[k] \in {"succeeded", "pending", "failed", "refused"}
<1>1. PICK answer \in IF gateway[k] = "none" THEN Answers ELSE {gateway[k]} :
        gateway' = [gateway EXCEPT ![k] = answer]
  BY DEF GatewayDecides
<1>2. answer \in {"succeeded", "pending", "failed", "refused"}
  BY <1>1 DEF TypeOK
<1> QED
  BY <1>1, <1>2 DEF TypeOK

-----------------------------------------------------------------------------
(* Type correctness *)

LEMMA TypeInit == Init => TypeOK
BY DEF Init, TypeOK, Idle, WorkerState, Row

LEMMA PrepareType ==
  ASSUME TypeOK, NEW w \in Worker, NEW k \in Key, PrepareRefund(w, k)
  PROVE  TypeOK'
<1>0. WorkersOK
  BY DEF TypeOK, WorkersOK
<1>1. CASE Retry(w, k)
  <2>1. WorkersOK'
    BY <1>0, <1>1, HoldsType DEF Retry, Reply
  <2> QED
    BY <1>1, <2>1 DEF PrepareRefund, Retry, TypeOK, WorkersOK
<1>2. ASSUME NEW a \in Amount, NewRefund(w, k, a) PROVE TypeOK'
  <2>1. WorkersOK'
    BY <1>0, <1>2, HoldsType DEF NewRefund, Reply
  <2>2. amount' \in [Key -> Nat]
    BY <1>2 DEF NewRefund, TypeOK
  <2>3. refund' \in [Key -> Row]
    BY <1>2 DEF NewRefund, SetRow, TypeOK, Row
  <2> QED
    BY <2>1, <2>2, <2>3 DEF PrepareRefund, TypeOK, WorkersOK
<1> QED
  BY <1>1, <1>2 DEF PrepareRefund

LEMMA TypeStep == TypeOK /\ [Next]_vars => TypeOK'
<1> SUFFICES ASSUME TypeOK, [Next]_vars PROVE TypeOK'
  OBVIOUS
<1>0. WorkersOK
  BY DEF TypeOK, WorkersOK
<1>1. ASSUME NEW w \in Worker, CallRefundGateway(w) PROVE TypeOK'
  <2>1. worker[w].key \in Key
    BY <1>0, <1>1 DEF CallRefundGateway, WorkersOK
  <2>2. /\ gateway' \in [Key -> {"none", "succeeded", "pending", "failed", "refused"}]
        /\ gateway'[worker[w].key] \in {"succeeded", "pending", "failed", "refused"}
    BY <1>1, <2>1, DecidesType DEF CallRefundGateway
  <2>3. WorkersOK'
    BY <1>0, <1>1, <2>1, <2>2, HoldsType DEF CallRefundGateway, Reply
  <2> QED
    BY <1>1, <2>2, <2>3 DEF CallRefundGateway, TypeOK, WorkersOK
<1>2. ASSUME NEW w \in Worker, AnswerLost(w) PROVE TypeOK'
  <2>1. worker[w].key \in Key
    BY <1>0, <1>2 DEF AnswerLost, WorkersOK
  <2>2. gateway' \in [Key -> {"none", "succeeded", "pending", "failed", "refused"}]
    BY <1>2, <2>1, DecidesType DEF AnswerLost, TypeOK
  <2>3. WorkersOK'
    BY <1>0, <1>2, <2>1, HoldsType DEF AnswerLost, Reply
  <2> QED
    BY <1>2, <2>2, <2>3 DEF AnswerLost, TypeOK, WorkersOK
<1>3. ASSUME NEW w \in Worker, PersistRefund(w) PROVE TypeOK'
  <2> DEFINE k == worker[w].key
             reply == worker[w].reply
  <2>1. k \in Key
    BY <1>0, <1>3 DEF PersistRefund, WorkersOK
  <2>2. reply \in Reply
    BY <1>0 DEF WorkersOK, WorkerState, Reply
  <2>3. WorkersOK'
    BY <1>0, <1>3, <2>1, <2>2, HoldsType, EndsType DEF PersistRefund, Reply
  <2>4. refund' \in [Key -> Row]
    BY <1>3, <2>1, <2>2, PersistedType DEF PersistRefund, TypeOK
  <2> QED
    BY <1>3, <2>3, <2>4 DEF PersistRefund, TypeOK, WorkersOK
<1>4. ASSUME NEW w \in Worker, FinalizeRefund(w) PROVE TypeOK'
  <2>1. worker[w].key \in Key
    BY <1>0, <1>4 DEF FinalizeRefund, WorkersOK
  <2>2. WorkersOK'
    BY <1>0, <1>4, EndsType DEF FinalizeRefund
  <2>3. refund' \in [Key -> Row] /\ ledger' \in [Key -> Nat]
    <3> DEFINE k == worker[w].key
               row == [status |-> "completed", id |-> TRUE]
    <3>1. row \in Row
      BY DEF Row
    <3>2. \/ UNCHANGED <<refund, ledger>>
          \/ /\ refund' = [refund EXCEPT ![k] = row]
             /\ ledger' = [ledger EXCEPT ![k] = ledger[k] + 1]
      BY <1>4 DEF FinalizeRefund, SetRow
    <3>3. ledger[k] + 1 \in Nat
      BY <2>1 DEF TypeOK
    <3> HIDE DEF row
    <3> QED
      BY <2>1, <3>1, <3>2, <3>3 DEF TypeOK
  <2>4. payment' \in {"completed", "refunded"}
    BY <1>4 DEF FinalizeRefund, TypeOK
  <2> QED
    BY <1>4, <2>2, <2>3, <2>4 DEF FinalizeRefund, TypeOK, WorkersOK
<1>5. ASSUME NEW w \in Worker, Crash(w) PROVE TypeOK'
  <2>1. WorkersOK'
    BY <1>0, <1>5, EndsType DEF Crash
  <2> QED
    BY <1>5, <2>1 DEF Crash, TypeOK, WorkersOK
<1>6. CASE UNCHANGED vars
  BY <1>6 DEF vars, TypeOK
<1> QED
  BY <1>1, <1>2, <1>3, <1>4, <1>5, <1>6, PrepareType DEF Next, Step

\* The fields of every row and of every request in flight stay in their types,
\* whatever create_refund makes of answers, retries and crashes.
THEOREM Typing == Spec => []TypeOK
<1> QED
  BY TypeInit, TypeStep, PTL DEF Spec

-----------------------------------------------------------------------------
(* The gateway never gives back too much *)

\* Refunds that were accepted and that the gateway has not refused.
Refusals == {"failed", "refused"}

Promised == {k \in Key : refund[k].status # "none" /\ gateway[k] \notin Refusals}

\* The gateway knows of no refund before its row exists, a row's amount is freed
\* only after the gateway's refusal, and what a request heard the gateway said.
FailedOK ==
  /\ \A k \in Key : /\ refund[k].status = "none" => gateway[k] = "none"
                    /\ refund[k].status = "failed" => gateway[k] \in Refusals
  /\ \A w \in Worker : worker[w].at # "idle" =>
       /\ refund[worker[w].key].status # "none"
       /\ worker[w].at = "persist" /\ worker[w].reply # "exception" =>
            /\ worker[w].reply # "none"
            /\ gateway[worker[w].key] = worker[w].reply

\* What makes NeverOverRefunded inductive. The sum over the rows that reserve
\* their amount would not do: a failed row whose retry loses its answer is
\* processed again and reserves what another refund may have taken since.
PromiseInv == FailedOK /\ TotalOf(Promised) <= Total

LEMMA KeysSummable ==
  ASSUME TypeOK, NEW S \in SUBSET Key
  PROVE  Summable(amount, S)
BY FS_Subset DEF TypeOK, Summable

\* No amount changes and no refund is newly promised.
LEMMA PromisedShrinks ==
  ASSUME TypeOK, UNCHANGED amount, TotalOf(Promised) <= Total,
         \A k \in Key : k \in Promised' => k \in Promised
  PROVE  (TotalOf(Promised) <= Total)'
<1> DEFINE after == {k \in Key : refund'[k].status # "none"
                                 /\ gateway'[k] \notin Refusals}
<1>1. after \in SUBSET Promised /\ Promised \in SUBSET Key
  BY DEF Promised
<1>2. Summable(amount, Promised) /\ Summable(amount, after)
  BY <1>1, KeysSummable
<1>3. SumFunctionOnSet(amount, after) <= SumFunctionOnSet(amount, Promised)
  BY <1>1, <1>2, SumOfPart
<1>4. /\ SumFunctionOnSet(amount, after) \in Nat
      /\ SumFunctionOnSet(amount, Promised) \in Nat
  BY <1>2, SumType
<1>5. SumFunctionOnSet(amount, after) <= Total
  BY <1>3, <1>4 DEF TotalOf
<1>6. Promised' = after
  BY DEF Promised
<1> QED
  BY <1>5, <1>6 DEF TotalOf

\* A new promise is made within what is left.
LEMMA PromiseMade ==
  ASSUME TypeOK, TypeOK', FailedOK, NEW w \in Worker, NEW k \in Key,
         NEW a \in Amount, NewRefund(w, k, a), UNCHANGED gateway
  PROVE  (TotalOf(Promised) <= Total)'
<1> DEFINE after == Promised \cup {k}
           open == InStatus({"pending", "processing", "completed"})
<1>1. k \notin Promised /\ Promised' = after
  BY DEF NewRefund, SetRow, FailedOK, Promised, Refusals, TypeOK
<1>2. /\ Promised \in SUBSET open
      /\ open \in SUBSET Key /\ after \in SUBSET Key
  BY DEF Promised, Refusals, InStatus, FailedOK, TypeOK, Row
<1>3. /\ Summable(amount, Promised) /\ Summable(amount, open)
      /\ Summable(amount', after)
  BY <1>2, KeysSummable, FS_Subset DEF TypeOK, Summable
<1>4. Share(amount', after, k) = a /\ Share(amount, Promised, k) = 0
  BY <1>1 DEF Share, NewRefund, TypeOK
<1>5. SumFunctionOnSet(amount, Promised) + Share(amount', after, k)
        = SumFunctionOnSet(amount', after) + Share(amount, Promised, k)
  <2>1. Promised \ {k} = after \ {k}
    BY <1>1
  <2>2. \A j \in Promised \ {k} : amount[j] = amount'[j]
    BY DEF NewRefund, Promised, TypeOK
  <2> QED
    BY <1>3, <2>1, <2>2, SumMoves
<1>6. SumFunctionOnSet(amount, Promised) <= SumFunctionOnSet(amount, open)
  BY <1>2, <1>3, SumOfPart
<1>7. SumFunctionOnSet(amount, open) + a <= Total
  BY DEF NewRefund, Reserved, TotalOf
<1>8. /\ SumFunctionOnSet(amount, Promised) \in Nat
      /\ SumFunctionOnSet(amount, open) \in Nat
      /\ SumFunctionOnSet(amount', after) \in Nat /\ a \in Nat
  BY <1>3, SumType
<1>9. SumFunctionOnSet(amount', after) <= Total
  BY <1>4, <1>5, <1>6, <1>7, <1>8
<1> QED
  BY <1>1, <1>9 DEF TotalOf

LEMMA PromiseStep == TypeOK /\ PromiseInv /\ [Next]_vars => PromiseInv'
<1> SUFFICES ASSUME TypeOK, PromiseInv, [Next]_vars PROVE PromiseInv'
  OBVIOUS
<1>0. /\ TypeOK /\ TypeOK' /\ FailedOK
      /\ TotalOf(Promised) <= Total
  BY TypeStep DEF PromiseInv
<1>1. ASSUME NEW w \in Worker, NEW k \in Key, PrepareRefund(w, k)
      PROVE  PromiseInv'
  <2>1. CASE Retry(w, k)
    <3>1. FailedOK'
      BY <1>0, <1>1, <2>1 DEF PrepareRefund, Retry, Holds, FailedOK, TypeOK
    <3>2. (TotalOf(Promised) <= Total)'
      BY <1>0, <1>1, <2>1, PromisedShrinks DEF PrepareRefund, Retry, Promised
    <3> QED
      BY <3>1, <3>2 DEF PromiseInv
  <2>2. ASSUME NEW a \in Amount, NewRefund(w, k, a)
        PROVE  PromiseInv'
    <3>1. FailedOK'
      BY <1>0, <1>1, <2>2
         DEF PrepareRefund, NewRefund, SetRow, Holds, FailedOK, TypeOK
    <3>2. (TotalOf(Promised) <= Total)'
      BY <1>0, <1>1, <2>2, PromiseMade DEF PrepareRefund
    <3> QED
      BY <3>1, <3>2 DEF PromiseInv
  <2> QED
    BY <1>1, <2>1, <2>2 DEF PrepareRefund
<1>2. ASSUME NEW w \in Worker, CallRefundGateway(w) \/ AnswerLost(w)
      PROVE  PromiseInv'
  <2> DEFINE k == worker[w].key
  <2>0. k \in Key /\ refund[k].status # "none" /\ UNCHANGED <<amount, refund>>
    BY <1>0, <1>2 DEF CallRefundGateway, AnswerLost, TypeOK, FailedOK
  <2>1. /\ \A j \in Key : gateway[j] # "none" => gateway'[j] = gateway[j]
        /\ \A j \in Key \ {k} : gateway'[j] = gateway[j]
    BY <1>0, <1>2, <2>0 DEF CallRefundGateway, AnswerLost, GatewayDecides, TypeOK
  <2>2. PICK reply : /\ Holds(w, "persist", k, reply)
                     /\ reply # "exception" =>
                          reply # "none" /\ gateway'[k] = reply
    BY <1>0, <1>2, <2>0, DecidesType DEF CallRefundGateway, AnswerLost
  <2>3. FailedOK'
    BY <1>0, <2>0, <2>1, <2>2 DEF FailedOK, Refusals, Holds, TypeOK
  <2>4. (TotalOf(Promised) <= Total)'
    <3>1. \A j \in Key : j \in Promised' => j \in Promised
      BY <2>0, <2>1 DEF Promised, Refusals
    <3> QED
      BY <1>0, <2>0, <3>1, PromisedShrinks
  <2> QED
    BY <2>3, <2>4 DEF PromiseInv
<1>3. ASSUME NEW w \in Worker, PersistRefund(w) \/ FinalizeRefund(w)
      PROVE  PromiseInv'
  <2> DEFINE k == worker[w].key
  <2>0. /\ k \in Key /\ refund[k].status # "none"
        /\ UNCHANGED <<amount, gateway>>
    BY <1>0, <1>3 DEF PersistRefund, FinalizeRefund, TypeOK, FailedOK
  <2>1. /\ \A j \in Key \ {k} : refund'[j] = refund[j]
        /\ refund'[k].status # "none"
        /\ refund'[k].status = "failed" => gateway[k] \in Refusals
    <3>1. CASE PersistRefund(w)
      <4> DEFINE row == Persisted(refund[k], worker[w].reply)
      <4>1. /\ row.status # "none"
            /\ row.status = "failed" => worker[w].reply \in Refusals
        BY <1>0 DEF Persisted, Refusals, TypeOK, WorkerState
      <4>2. refund' = [refund EXCEPT ![k] = row]
        BY <3>1 DEF PersistRefund
      <4>3. worker[w].reply \in Refusals => gateway[k] \in Refusals
        BY <1>0, <3>1 DEF PersistRefund, FailedOK, Refusals
      <4> HIDE DEF row
      <4> QED
        BY <1>0, <2>0, <4>1, <4>2, <4>3 DEF TypeOK
    <3>2. CASE FinalizeRefund(w)
      BY <1>0, <2>0, <3>2 DEF FinalizeRefund, SetRow, FailedOK, TypeOK
    <3> QED
      BY <1>3, <3>1, <3>2
  <2>2. \A v \in Worker : \/ worker'[v] = worker[v]
                          \/ worker'[v].at = "idle"
                          \/ worker'[v].key = k /\ worker'[v].at = "finalize"
    <3>1. Ends(w) \/ Holds(w, "finalize", k, "succeeded")
      BY <1>3 DEF PersistRefund, FinalizeRefund
    <3> QED
      BY <1>0, <3>1 DEF Holds, Ends, Idle, TypeOK
  <2>3. FailedOK'
    BY <1>0, <2>0, <2>1, <2>2 DEF FailedOK, TypeOK
  <2>4. (TotalOf(Promised) <= Total)'
    <3>1. \A j \in Key : j \in Promised' => j \in Promised
      BY <2>0, <2>1 DEF Promised
    <3> QED
      BY <1>0, <2>0, <3>1, PromisedShrinks
  <2> QED
    BY <2>3, <2>4 DEF PromiseInv
<1>4. ASSUME NEW w \in Worker, Crash(w)
      PROVE  PromiseInv'
  <2>1. FailedOK'
    BY <1>0, <1>4 DEF Crash, Ends, Idle, FailedOK, TypeOK
  <2>2. (TotalOf(Promised) <= Total)'
    BY <1>0, <1>4, PromisedShrinks DEF Crash, Promised
  <2> QED
    BY <2>1, <2>2 DEF PromiseInv
<1>5. CASE UNCHANGED vars
  <2>1. FailedOK'
    BY <1>0, <1>5 DEF vars, FailedOK
  <2>2. (TotalOf(Promised) <= Total)'
    BY <1>0, <1>5, PromisedShrinks DEF vars, Promised
  <2> QED
    BY <2>1, <2>2 DEF PromiseInv
<1> QED
  BY <1>1, <1>2, <1>3, <1>4, <1>5 DEF Next, Step

LEMMA PromiseInit == Init => PromiseInv
<1> SUFFICES ASSUME Init PROVE PromiseInv
  OBVIOUS
<1>1. FailedOK
  BY DEF Init, FailedOK, Idle
<1>2. Promised = {}
  BY DEF Init, Promised
<1>3. TotalOf(Promised) <= Total
  BY <1>2, SumOfNone DEF TotalOf
<1> QED
  BY <1>1, <1>3 DEF PromiseInv

\* All that the gateway gave is within the payment.
LEMMA GivenWithin ==
  ASSUME TypeOK, PromiseInv
  PROVE  TotalOf(Given) <= Total
<1>1. Given \in SUBSET Promised /\ Promised \in SUBSET Key
  BY DEF Given, Promised, Refusals, FailedOK, PromiseInv
<1>2. Summable(amount, Promised) /\ Summable(amount, Given)
  BY <1>1, KeysSummable
<1>3. SumFunctionOnSet(amount, Given) <= SumFunctionOnSet(amount, Promised)
  BY <1>1, <1>2, SumOfPart
<1>4. /\ SumFunctionOnSet(amount, Given) \in Nat
      /\ SumFunctionOnSet(amount, Promised) \in Nat
  BY <1>2, SumType
<1> QED
  BY <1>3, <1>4 DEF PromiseInv, TotalOf

\* create_refund never lets the gateway give back more than was paid, for any
\* amounts and keys, however many requests race, retry, die and lose answers.
THEOREM NeverTooMuchBack == Spec => []NeverOverRefunded
<1>1. TypeOK /\ PromiseInv => NeverOverRefunded
  BY GivenWithin DEF NeverOverRefunded
<1> QED
  BY <1>1, TypeInit, TypeStep, PromiseInit, PromiseStep, PTL DEF Spec

-----------------------------------------------------------------------------
(* What one request at a time made of a refund *)

\* A request under way is the only one with its key, its row is open, and it
\* books, like a stored id of an open row, what the gateway confirmed; nothing
\* reopens a completed row, so it is booked once.
Solo(k) ==
  /\ \A v, w \in Worker : Handles(v, k) /\ Handles(w, k) => v = w
  /\ \A w \in Worker : Handles(w, k) =>
       /\ refund[k].status = "processing"
       /\ worker[w].at = "finalize" => gateway[k] = "succeeded"
  /\ refund[k].status = "processing" /\ refund[k].id => gateway[k] = "succeeded"
  /\ refund[k].status = "completed" => gateway[k] = "succeeded"
  /\ ledger[k] = IF refund[k].status = "completed" THEN 1 ELSE 0

\* What makes BookedIsGiven and LedgerOnce inductive.
SoloInv == \A k \in Key \ raced : Solo(k)

\* A step that touches neither the row nor who handles it.
LEMMA SoloFrame ==
  ASSUME NEW k \in Key, Solo(k), refund'[k] = refund[k],
         gateway'[k] = gateway[k], ledger'[k] = ledger[k],
         \A v \in Worker : worker'[v] = worker[v] \/ ~ Handles(v, k)'
  PROVE  Solo(k)'
BY DEF Solo, Handles

LEMMA SoloStep ==
  ASSUME TypeOK, TypeOK', FailedOK, [Next]_vars,
         NEW k \in Key, k \notin raced', Solo(k)
  PROVE  Solo(k)'
<1>1. ASSUME NEW w \in Worker, NEW j \in Key, PrepareRefund(w, j)
      PROVE  Solo(k)'
  <2>1. CASE j # k
    <3>1. refund'[k] = refund[k] /\ gateway'[k] = gateway[k] /\ ledger'[k] = ledger[k]
      BY <1>1, <2>1
         DEF PrepareRefund, Retry, NewRefund, SetRow, TypeOK
    <3>2. \E at, reply : Holds(w, at, j, reply)
      BY <1>1 DEF PrepareRefund, Retry, NewRefund
    <3>3. \A v \in Worker : worker'[v] = worker[v] \/ worker'[v].key = j
      BY <3>2 DEF Holds, TypeOK
    <3> QED
      BY <2>1, <3>1, <3>3, SoloFrame DEF Handles
  <2>2. CASE j = k
    <3>1. \A v \in Worker : ~ Handles(v, k)
      BY <1>1, <2>2 DEF PrepareRefund
    <3>2. \A v \in Worker : v # w => worker'[v] = worker[v]
      BY <1>1, <2>2 DEF PrepareRefund, Retry, NewRefund, Holds, TypeOK
    <3>3. CASE Retry(w, k)
      <4>1. /\ refund[k].status = "processing" /\ UNCHANGED refund
            /\ UNCHANGED <<ledger, gateway>>
            /\ worker'[w].at = "finalize" => refund[k].id
        BY <1>1, <2>2, <3>3 DEF PrepareRefund, Retry, Holds, TypeOK
      <4> QED
        BY <3>1, <3>2, <4>1 DEF Solo, Handles
    <3>4. ASSUME NEW a \in Amount, NewRefund(w, k, a) PROVE Solo(k)'
      <4>1. /\ refund[k].status = "none"
            /\ refund'[k].status = "processing" /\ refund'[k].id = FALSE
            /\ UNCHANGED <<ledger, gateway>>
            /\ worker'[w].at = "call"
        BY <1>1, <2>2, <3>4 DEF PrepareRefund, NewRefund, SetRow, Holds, TypeOK
      <4> QED
        BY <3>1, <3>2, <4>1 DEF Solo, Handles
    <3> QED
      BY <1>1, <2>2, <3>3, <3>4 DEF PrepareRefund
  <2> QED
    BY <2>1, <2>2
<1>2. ASSUME NEW w \in Worker, CallRefundGateway(w) \/ AnswerLost(w)
      PROVE  Solo(k)'
  <2> DEFINE j == worker[w].key
  <2>1. /\ j \in Key /\ worker[w].at = "call" /\ UNCHANGED <<refund, ledger>>
        /\ \A i \in Key \ {j} : gateway'[i] = gateway[i]
        /\ gateway[j] # "none" => gateway'[j] = gateway[j]
    BY <1>2 DEF CallRefundGateway, AnswerLost, GatewayDecides, TypeOK
  <2>2. /\ worker'[w].key = j /\ worker'[w].at = "persist"
        /\ \A v \in Worker \ {w} : worker'[v] = worker[v]
    BY <1>2 DEF CallRefundGateway, AnswerLost, Holds, TypeOK
  <2>3. CASE j # k
    BY <2>1, <2>2, <2>3, SoloFrame DEF Handles
  <2>4. CASE j = k
    BY <2>1, <2>2, <2>4 DEF Solo, Handles
  <2> QED
    BY <2>3, <2>4
<1>3. ASSUME NEW w \in Worker, PersistRefund(w)
      PROVE  Solo(k)'
  <2> DEFINE j == worker[w].key
             reply == worker[w].reply
             row == Persisted(refund[j], reply)
  <2>1. /\ j \in Key /\ worker[w].at = "persist" /\ UNCHANGED <<gateway, ledger>>
        /\ refund' = [refund EXCEPT ![j] = row]
    BY <1>3 DEF PersistRefund, TypeOK
  <2>2. /\ \A v \in Worker \ {w} : worker'[v] = worker[v]
        /\ \/ worker'[w].at = "idle"
           \/ worker'[w].key = j /\ worker'[w].at = "finalize" /\ reply = "succeeded"
    BY <1>3 DEF PersistRefund, Holds, Ends, Idle, TypeOK
  <2>3. CASE j # k
    <3> HIDE DEF row
    <3>1. refund'[k] = refund[k]
      BY <2>1, <2>3 DEF TypeOK
    <3> QED
      BY <2>1, <2>2, <2>3, <3>1, SoloFrame DEF Handles
  <2>4. CASE j = k
    <3>1. reply = "succeeded" => gateway[k] = "succeeded"
      BY <2>1, <2>4 DEF FailedOK
    <3>2. refund[k].status = "processing" /\ \A v \in Worker \ {w} : ~ Handles(v, k)
      BY <2>1, <2>4 DEF Solo, Handles
    <3>3. /\ row.status # "completed"
          /\ reply = "succeeded" => row.status = "processing"
          /\ row.status = "processing" /\ row.id =>
               reply = "succeeded" \/ refund[k].id
      BY <2>4 DEF Persisted
    <3> HIDE DEF row
    <3>4. refund'[k] = row
      BY <2>1, <2>4 DEF TypeOK
    <3> QED
      BY <2>1, <2>2, <2>4, <3>1, <3>2, <3>3, <3>4 DEF Solo, Handles
  <2> QED
    BY <2>3, <2>4
<1>4. ASSUME NEW w \in Worker, FinalizeRefund(w)
      PROVE  Solo(k)'
  <2> DEFINE j == worker[w].key
  <2>1. /\ j \in Key /\ worker[w].at = "finalize" /\ UNCHANGED gateway
        /\ worker'[w].at = "idle"
        /\ \A v \in Worker \ {w} : worker'[v] = worker[v]
    BY <1>4 DEF FinalizeRefund, Ends, Idle, TypeOK
  <2>2. CASE j # k
    <3>1. refund'[k] = refund[k] /\ ledger'[k] = ledger[k]
      BY <1>4, <2>1, <2>2 DEF FinalizeRefund, SetRow, TypeOK
    <3> QED
      BY <2>1, <2>2, <3>1, SoloFrame DEF Handles
  <2>3. CASE j = k
    <3>1. /\ refund[k].status = "processing" /\ ledger[k] = 0
          /\ gateway[k] = "succeeded" /\ \A v \in Worker \ {w} : ~ Handles(v, k)
      BY <2>1, <2>3 DEF Solo, Handles
    <3>2. refund'[k].status = "completed" /\ ledger'[k] = 1
      BY <1>4, <2>1, <2>3, <3>1 DEF FinalizeRefund, SetRow, TypeOK
    <3> QED
      BY <2>1, <3>1, <3>2 DEF Solo, Handles
  <2> QED
    BY <2>2, <2>3
<1>5. ASSUME NEW w \in Worker, Crash(w)
      PROVE  Solo(k)'
  <2>1. \A v \in Worker : worker'[v] = worker[v] \/ worker'[v].at = "idle"
    BY <1>5 DEF Crash, Ends, Idle, TypeOK
  <2> QED
    BY <1>5, <2>1, SoloFrame DEF Crash, Handles
<1>6. CASE UNCHANGED vars
  BY <1>6, SoloFrame DEF vars
<1> QED
  BY <1>1, <1>2, <1>3, <1>4, <1>5, <1>6 DEF Next, Step

LEMMA RacedStays == ASSUME [Next]_vars PROVE \A k : k \in raced => k \in raced'
<1>1. ASSUME NEW w \in Worker, NEW k \in Key, PrepareRefund(w, k)
      PROVE  \A j : j \in raced => j \in raced'
  BY <1>1 DEF PrepareRefund
<1> QED
  BY <1>1 DEF Next, Step, CallRefundGateway, AnswerLost, PersistRefund,
              FinalizeRefund, Crash, vars

LEMMA SoloInvInit == Init => SoloInv
BY DEF Init, SoloInv, Solo, Handles, Idle

LEMMA SoloInvStep == TypeOK /\ PromiseInv /\ SoloInv /\ [Next]_vars => SoloInv'
<1> SUFFICES ASSUME TypeOK, PromiseInv, SoloInv, [Next]_vars,
                    NEW k \in Key, k \notin raced'
             PROVE  Solo(k)'
  BY DEF SoloInv
<1>1. TypeOK' /\ FailedOK
  BY TypeStep DEF PromiseInv
<1>2. Solo(k)
  BY RacedStays DEF SoloInv
<1> QED
  BY <1>1, <1>2, SoloStep

\* No 'refund' ledger row and no completed refund that the gateway did not
\* confirm, pending and failed ones included, for any number of requests, keys,
\* retries, deaths and lost answers, but for the refunds two requests handled at
\* once.
THEOREM NoRefundFromNowhere == Spec => []BookedIsGiven
<1>1. SoloInv => BookedIsGiven
  BY DEF SoloInv, Solo, BookedIsGiven
<1> QED
  BY <1>1, TypeInit, TypeStep, PromiseInit, PromiseStep, SoloInvInit,
     SoloInvStep, PTL DEF Spec

\* _finalize_confirmed_refund writes one ledger row for a refund, whatever died
\* and was retried, unless two requests handled it at once; any number may handle
\* other refunds meanwhile, and it at other times.
THEOREM RefundBookedOnce == Spec => []LedgerOnce
<1>1. SoloInv => LedgerOnce
  BY DEF SoloInv, Solo, LedgerOnce
<1> QED
  BY <1>1, TypeInit, TypeStep, PromiseInit, PromiseStep, SoloInvInit,
     SoloInvStep, PTL DEF Spec

-----------------------------------------------------------------------------
(* Refunded when all is booked *)

Completed == InStatus({"completed"})

\* RefundedIsWhole is inductive with this: completed rows are in the ledger, and
\* a row of the ledger has its amount for good.
WholeInv ==
  /\ RefundedIsWhole
  /\ Completed \subseteq Booked
  /\ \A k \in Booked : refund[k].status # "none"

\* A step that completes no refund, and may reopen one.
LEMMA WholeKept ==
  ASSUME TypeOK, TypeOK', WholeInv, UNCHANGED <<payment, ledger>>,
         Completed' \subseteq Completed,
         \A k \in Booked : /\ amount'[k] = amount[k]
                           /\ refund'[k].status # "none"
  PROVE  WholeInv'
<1>1. Booked' = Booked /\ Booked \in SUBSET Key
  BY DEF Booked
<1> DEFINE after == Completed'
<1>2. after \in SUBSET Completed /\ Completed \in SUBSET Booked
  BY DEF WholeInv
<1>3. /\ Summable(amount, Booked) /\ Summable(amount, Completed)
      /\ Summable(amount, after)
  BY <1>1, <1>2, KeysSummable
<1> HIDE DEF after
<1>4. SumFunctionOnSet(amount, Booked) = SumFunctionOnSet(amount', Booked)
  BY <1>3, SumSame
<1>5. SumFunctionOnSet(amount, after) = SumFunctionOnSet(amount', after)
  BY <1>2, <1>3, SumSame
<1>6. SumFunctionOnSet(amount, after) <= SumFunctionOnSet(amount, Completed)
  BY <1>2, <1>3, SumOfPart
<1>7. /\ SumFunctionOnSet(amount, after) \in Nat
      /\ SumFunctionOnSet(amount, Completed) \in Nat
  BY <1>3, SumType
<1>8. RefundedIsWhole'
  <2>1. TotalOf(Booked)' = TotalOf(Booked)
    BY <1>1, <1>4 DEF TotalOf
  <2>2. /\ TotalOf(InStatus({"completed"}))' = SumFunctionOnSet(amount', after)
        /\ TotalOf(InStatus({"completed"})) = SumFunctionOnSet(amount, Completed)
    BY DEF TotalOf, Completed, after
  <2>3. SumFunctionOnSet(amount', after) >= Total =>
          SumFunctionOnSet(amount, Completed) >= Total
    BY <1>5, <1>6, <1>7
  <2> QED
    BY <2>1, <2>2, <2>3 DEF WholeInv, RefundedIsWhole
<1> QED
  BY <1>1, <1>2, <1>8 DEF WholeInv, after

\* A refund is booked; with it the payment may be whole.
LEMMA WholeBooked ==
  ASSUME TypeOK, TypeOK', WholeInv, NEW w \in Worker, FinalizeRefund(w),
         refund[worker[w].key].status # "completed"
  PROVE  /\ WholeInv'
         /\ Booked' = Booked \cup {worker[w].key}
<1> DEFINE k == worker[w].key
           counted == Completed \cup {k}
           after == Booked \cup {k}
<1>1. k \in Key
  BY DEF FinalizeRefund, TypeOK
<1>2. /\ refund' = [refund EXCEPT ![k] = [status |-> "completed", id |-> TRUE]]
      /\ UNCHANGED amount
      /\ ledger' = [ledger EXCEPT ![k] = ledger[k] + 1]
      /\ payment' = IF TotalOf(counted) >= Total THEN "refunded" ELSE payment
  BY DEF FinalizeRefund, SetRow, Completed
<1>3. Completed' = counted
  BY <1>1, <1>2 DEF Completed, InStatus, TypeOK
<1>4. Booked' = after
  BY <1>1, <1>2 DEF Booked, TypeOK
<1>5. /\ Completed \in SUBSET counted /\ counted \in SUBSET after
      /\ Booked \in SUBSET after /\ after \in SUBSET Key
  BY <1>1 DEF WholeInv, Booked
<1>6. /\ Summable(amount, Booked) /\ Summable(amount, counted)
      /\ Summable(amount, after)
  BY <1>5, KeysSummable
<1>7. /\ TotalOf(Booked) <= TotalOf(after) /\ TotalOf(counted) <= TotalOf(after)
      /\ TotalOf(Booked) \in Nat /\ TotalOf(counted) \in Nat
      /\ TotalOf(after) \in Nat
  BY <1>5, <1>6, SumOfPart, SumType DEF TotalOf
<1>8. TotalOf(Booked)' = TotalOf(after) /\ TotalOf(Completed)' = TotalOf(counted)
  BY <1>2, <1>3, <1>4 DEF TotalOf
<1>9. RefundedIsWhole'
  BY <1>2, <1>7, <1>8 DEF WholeInv, RefundedIsWhole, Completed
<1>10. \A j \in after : refund'[j].status # "none"
  BY <1>1, <1>2, <1>5 DEF WholeInv, TypeOK
<1> QED
  BY <1>3, <1>4, <1>5, <1>9, <1>10 DEF WholeInv

LEMMA WholeStep == TypeOK /\ FailedOK /\ WholeInv /\ [Next]_vars => WholeInv'
<1> SUFFICES ASSUME TypeOK, FailedOK, WholeInv, [Next]_vars PROVE WholeInv'
  OBVIOUS
<1>0. TypeOK'
  BY TypeStep
<1>1. ASSUME NEW w \in Worker, NEW k \in Key, PrepareRefund(w, k)
      PROVE  WholeInv'
  <2>1. CASE Retry(w, k)
    <3>1. UNCHANGED <<payment, amount, refund, ledger>>
      BY <1>1, <2>1 DEF PrepareRefund, Retry
    <3> QED
      BY <1>0, <3>1, WholeKept DEF Completed, InStatus, WholeInv
  <2>2. ASSUME NEW a \in Amount, NewRefund(w, k, a) PROVE WholeInv'
    <3>1. /\ refund[k].status = "none" /\ refund'[k].status = "processing"
          /\ \A j \in Key \ {k} : refund'[j] = refund[j] /\ amount'[j] = amount[j]
          /\ UNCHANGED <<payment, ledger>>
      BY <1>1, <2>2 DEF PrepareRefund, NewRefund, SetRow, TypeOK
    <3>2. k \notin Booked /\ Booked \subseteq Key
      BY <3>1 DEF WholeInv, Booked
    <3>3. Completed' \subseteq Completed
      BY <3>1 DEF Completed, InStatus
    <3> QED
      BY <1>0, <3>1, <3>2, <3>3, WholeKept DEF WholeInv
  <2> QED
    BY <1>1, <2>1, <2>2 DEF PrepareRefund
<1>2. ASSUME NEW w \in Worker, PersistRefund(w) PROVE WholeInv'
  <2> DEFINE k == worker[w].key
             row == Persisted(refund[k], worker[w].reply)
  <2>1. /\ k \in Key /\ UNCHANGED <<payment, amount, ledger>>
        /\ refund' = [refund EXCEPT ![k] = row]
    BY <1>2 DEF PersistRefund, TypeOK
  <2>2. row.status \notin {"none", "completed"}
    BY DEF Persisted
  <2> HIDE DEF row
  <2>3. \A j \in Key : \/ refund'[j] = refund[j]
                       \/ refund'[j].status \notin {"none", "completed"}
    BY <2>1, <2>2 DEF TypeOK
  <2>4. Completed' \subseteq Completed
    BY <2>3 DEF Completed, InStatus
  <2> QED
    BY <1>0, <2>1, <2>3, <2>4, WholeKept DEF WholeInv, Booked
<1>3. ASSUME NEW w \in Worker, FinalizeRefund(w) PROVE WholeInv'
  <2>1. CASE refund[worker[w].key].status = "completed"
    <3>1. UNCHANGED <<payment, amount, refund, ledger>>
      BY <1>3, <2>1 DEF FinalizeRefund
    <3> QED
      BY <1>0, <3>1, WholeKept DEF Completed, InStatus, WholeInv
  <2>2. CASE refund[worker[w].key].status # "completed"
    BY <1>0, <1>3, <2>2, WholeBooked
  <2> QED
    BY <2>1, <2>2
<1>4. CASE UNCHANGED <<payment, amount, refund, ledger>>
  BY <1>0, <1>4, WholeKept DEF Completed, InStatus, WholeInv
<1> QED
  BY <1>1, <1>2, <1>3, <1>4
     DEF Next, Step, CallRefundGateway, AnswerLost, Crash, vars

LEMMA WholeInit == Init => WholeInv
<1> SUFFICES ASSUME Init PROVE WholeInv
  OBVIOUS
<1>1. Completed = {} /\ Booked = {}
  BY DEF Init, Completed, InStatus, Booked
<1>2. TotalOf(Completed) = 0
  BY <1>1, SumOfNone DEF TotalOf
<1> QED
  BY <1>1, <1>2 DEF Init, WholeInv, RefundedIsWhole, Completed

\* The payment turns 'refunded' with the refund that completes its amount and
\* not before its whole amount is booked, in whatever order the refunds of it
\* are booked, reopened by a late answer and booked again.
THEOREM WholeWhenRefunded == Spec => []RefundedIsWhole
<1>1. WholeInv => RefundedIsWhole
  BY DEF WholeInv
<1>2. TypeOK /\ PromiseInv /\ WholeInv /\ [Next]_vars => WholeInv'
  BY WholeStep DEF PromiseInv
<1> QED
  BY <1>1, <1>2, TypeInit, TypeStep, PromiseInit, PromiseStep, WholeInit, PTL
     DEF Spec

-----------------------------------------------------------------------------
(* Refunds implement MoneyBack *)

\* The amount of each row that the gateway gave.
GivenAmount == [k \in Key |-> IF k \in Given THEN amount[k] ELSE 0]

\* A row's amount is one that was asked for.
AmountsOK == \A k \in Key : refund[k].status # "none" => amount[k] \in Amount

BackInv == TypeOK /\ PromiseInv /\ SoloInv /\ WholeInv /\ AmountsOK

\* The abstract module's sums are the sums of Functions.
LEMMA SameSum ==
  ASSUME NEW f, NEW S
  PROVE  Back!SumFunctionOnSet(f, S) = SumFunctionOnSet(f, S)
BY DEF Back!SumFunctionOnSet, Back!FoldFunctionOnSet, Back!MapThenFoldSet,
       SumFunctionOnSet, FoldFunctionOnSet, MapThenFoldSet

\* What the gateway gave was asked for, and is more than nothing.
LEMMA GivenPromised ==
  ASSUME TypeOK, FailedOK, AmountsOK
  PROVE  /\ Given \in SUBSET Promised
         /\ \A k \in Given : amount[k] \in Amount /\ amount[k] \in Nat \ {0}
BY DEF Given, Promised, Refusals, FailedOK, AmountsOK

\* The sums of the abstract state.
LEMMA GivenSums ==
  ASSUME TypeOK, NEW S \in SUBSET Given
  PROVE  /\ SumFunctionOnSet(GivenAmount, Key) = TotalOf(Given)
         /\ SumFunctionOnSet(GivenAmount, S) = TotalOf(S)
<1>1. Given \in SUBSET Key /\ S \in SUBSET Key /\ IsFiniteSet(Key)
  BY DEF Given
<1>2. Summable(amount, Given) /\ Summable(amount, S)
  BY <1>1, KeysSummable
<1>3. SumFunctionOnSet(GivenAmount, Key) = SumFunctionOnSet(amount, Given)
  BY <1>1, <1>2, SumOfSome DEF GivenAmount
<1>4. \A k \in S : amount[k] = GivenAmount[k]
  BY <1>1 DEF GivenAmount
<1>5. SumFunctionOnSet(amount, S) = SumFunctionOnSet(GivenAmount, S)
  BY <1>2, <1>4, SumSame
<1> QED
  BY <1>3, <1>5 DEF TotalOf

\* What is booked of refunds handled one at a time was given.
LEMMA BookedGiven ==
  ASSUME BackInv, Booked \cap raced = {}
  PROVE  /\ Booked \in SUBSET Given
         /\ TotalOf(Booked) <= TotalOf(Given) /\ TotalOf(Given) <= Total
         /\ TotalOf(Booked) \in Nat /\ TotalOf(Given) \in Nat
<1>1. Booked \in SUBSET Given /\ Given \in SUBSET Key
  BY DEF BackInv, SoloInv, Solo, Booked, Given, TypeOK
<1>2. Summable(amount, Given) /\ Summable(amount, Booked)
  BY <1>1, KeysSummable DEF BackInv
<1> QED
  BY <1>1, <1>2, SumOfPart, SumType, GivenWithin DEF TotalOf, BackInv

\* A step that gives nothing, and books nothing, is none of MoneyBack's.
LEMMA GivesNothing ==
  ASSUME UNCHANGED <<payment, ledger, raced>>, Given' = Given,
         \A k \in Given : amount'[k] = amount[k]
  PROVE  UNCHANGED Back!vars
<1>1. Booked' = Booked
  BY DEF Booked
<1>2. [k \in Key |-> IF k \in Given THEN amount[k] ELSE 0]'
        = [k \in Key |-> IF k \in Given THEN amount[k] ELSE 0]
  OBVIOUS
<1> QED
  BY <1>1, <1>2 DEF Back!vars

\* The gateway gives k, which it had not, and the payment has room for it.
LEMMA GivesOne ==
  ASSUME BackInv, NEW k \in Key, NeverOverRefunded',
         refund[k].status # "none",
         UNCHANGED <<payment, amount, refund, ledger, raced>>,
         k \notin Given, Given' = Given \cup {k}
  PROVE  Back!Next
<1>0. TypeOK /\ FailedOK /\ Booked' = Booked
  BY DEF BackInv, PromiseInv, Booked
<1>2. amount[k] \in Amount /\ amount[k] \in Nat \ {0}
  BY DEF BackInv, AmountsOK
<1> DEFINE after == Given \cup {k}
<1>3. TotalOf(after) = TotalOf(Given) + amount[k]
  <2>1. after \in SUBSET Key /\ k \in after /\ after \ {k} = Given
    BY DEF Given
  <2>2. Summable(amount, after) /\ Summable(amount, Given)
    BY <1>0, <2>1, KeysSummable DEF Given
  <2> HIDE DEF after
  <2>3. SumFunctionOnSet(amount, after)
          = amount[k] + SumFunctionOnSet(amount, after \ {k})
    BY <2>1, <2>2, SumWithout
  <2>4. SumFunctionOnSet(amount, Given) \in Nat
    BY <2>2, SumType
  <2>5. SumFunctionOnSet(amount, after)
          = amount[k] + SumFunctionOnSet(amount, Given)
    BY <2>1, <2>3, Zenon
  <2> QED
    BY <1>2, <2>4, <2>5 DEF TotalOf
<1>4. TotalOf(after) <= Total /\ TotalOf(Given) \in Nat
  <2>1. TotalOf(Given)' <= Total
    BY DEF NeverOverRefunded
  <2>2. Summable(amount, Given)
    BY <1>0, KeysSummable DEF Given
  <2>3. TotalOf(Given) \in Nat
    BY <2>2, SumType DEF TotalOf
  <2> QED
    BY <2>1, <2>3 DEF TotalOf
<1>5. payment = "refunded" => Booked \cap raced # {}
  <2> SUFFICES ASSUME payment = "refunded", Booked \cap raced = {} PROVE FALSE
    OBVIOUS
  <2>1. TotalOf(Booked) >= Total
    BY DEF BackInv, WholeInv, RefundedIsWhole
  <2>2. TotalOf(Booked) <= TotalOf(Given) /\ TotalOf(Booked) \in Nat
    BY BookedGiven
  <2> QED
    BY <1>2, <1>3, <1>4, <2>1, <2>2
<1>6. SumFunctionOnSet(GivenAmount, Key) + amount[k] <= Total
  <2>1. SumFunctionOnSet(GivenAmount, Key) = TotalOf(Given)
    BY <1>0, GivenSums
  <2> QED
    BY <1>3, <1>4, <2>1
<1>7. GivenAmount[k] = 0 /\ GivenAmount' = [GivenAmount EXCEPT ![k] = amount[k]]
  BY DEF GivenAmount
<1>8. PICK a \in Amount : a = amount[k]
  BY <1>2
<1>9. Back!GiveBack(k, a)
  BY <1>0, <1>5, <1>6, <1>7, <1>8, SameSum DEF Back!GiveBack, GivenAmount
<1> QED
  BY <1>9 DEF Back!Next

\* A refund is booked that was given or that two requests handled; the payment
\* turns refunded only with the whole of it in the books
\* (_finalize_confirmed_refund).
LEMMA BooksOne ==
  ASSUME BackInv, TypeOK', BackInv',
         NEW w \in Worker, FinalizeRefund(w),
         refund[worker[w].key].status # "completed"
  PROVE  Back!Next
<1> DEFINE k == worker[w].key
           after == Booked \cup {k}
<1>0. /\ TypeOK /\ FailedOK /\ k \in Key
      /\ UNCHANGED <<amount, gateway, raced>>
      /\ payment' = payment \/ payment' = "refunded"
  BY DEF FinalizeRefund, BackInv, PromiseInv, TypeOK
<1>1. k \in Given \/ k \in raced
  BY <1>0 DEF FinalizeRefund, BackInv, SoloInv, Solo, Handles, Given
<1>2. Booked' = after
  BY WholeBooked DEF BackInv
<1>3. Given' = Given /\ UNCHANGED GivenAmount
  BY <1>0 DEF Given, GivenAmount
<1>4. payment' = "refunded" =>
        \/ SumFunctionOnSet(GivenAmount, after) >= Total
        \/ after \cap raced # {}
  <2> SUFFICES ASSUME payment' = "refunded", after \cap raced = {}
               PROVE  SumFunctionOnSet(GivenAmount, after) >= Total
    OBVIOUS
  <2>1. after \in SUBSET Given
    BY <1>1 DEF BackInv, SoloInv, Solo, Booked, Given, TypeOK
  <2>2. SumFunctionOnSet(GivenAmount, after) = TotalOf(after)
    BY <1>0, <2>1, GivenSums
  <2>3. TotalOf(Booked)' >= Total
    BY DEF BackInv, WholeInv, RefundedIsWhole
  <2>4. TotalOf(Booked)' = TotalOf(after)
    BY <1>0, <1>2 DEF TotalOf
  <2> QED
    BY <2>2, <2>3, <2>4
<1>5. GivenAmount[k] > 0 \/ k \in raced
  <2>1. k \in Given => amount[k] \in Nat \ {0}
    BY <1>0, GivenPromised DEF BackInv
  <2> QED
    BY <1>0, <1>1, <2>1 DEF GivenAmount
<1>6. Back!Book(k)
  <2>1. \/ (payment = "refunded")' = (payment = "refunded")
        \/ /\ (payment = "refunded")' = TRUE
           /\ \/ Back!SumFunctionOnSet(GivenAmount, Booked') >= Total
              \/ Booked' \cap raced # {}
    <3>1. CASE payment' = payment
      BY <3>1
    <3>2. CASE payment' = "refunded"
      BY <1>2, <1>4, <3>2, SameSum
    <3> QED
      BY <1>0, <3>1, <3>2
  <2> QED
    BY <1>0, <1>2, <1>3, <1>5, <2>1 DEF Back!Book, GivenAmount
<1> QED
  BY <1>0, <1>6 DEF Back!Next

LEMMA AmountsStep ==
  TypeOK /\ FailedOK /\ AmountsOK /\ [Next]_vars => AmountsOK'
<1> SUFFICES ASSUME TypeOK, FailedOK, AmountsOK, [Next]_vars
             PROVE  AmountsOK'
  OBVIOUS
<1>1. ASSUME NEW w \in Worker, NEW k \in Key, PrepareRefund(w, k)
      PROVE  AmountsOK'
  BY <1>1 DEF PrepareRefund, Retry, NewRefund, SetRow, AmountsOK, TypeOK
<1>2. ASSUME NEW w \in Worker, PersistRefund(w) \/ FinalizeRefund(w)
      PROVE  AmountsOK'
  <2> DEFINE k == worker[w].key
  <2>1. k \in Key /\ refund[k].status # "none" /\ UNCHANGED amount
    BY <1>2 DEF PersistRefund, FinalizeRefund, TypeOK, FailedOK
  <2>2. \A j \in Key \ {k} : refund'[j] = refund[j]
    BY <1>2, <2>1 DEF PersistRefund, FinalizeRefund, SetRow, TypeOK
  <2> QED
    BY <2>1, <2>2 DEF AmountsOK
<1>3. CASE UNCHANGED <<amount, refund>>
  BY <1>3 DEF AmountsOK
<1> QED
  BY <1>1, <1>2, <1>3 DEF Next, Step, CallRefundGateway, AnswerLost, Crash, vars

LEMMA BackInvInit == Init => BackInv
BY TypeInit, PromiseInit, SoloInvInit, WholeInit
   DEF BackInv, AmountsOK, Init

LEMMA BackInvStep == BackInv /\ [Next]_vars => BackInv'
BY TypeStep, PromiseStep, SoloInvStep, WholeStep, AmountsStep
   DEF BackInv, PromiseInv

LEMMA BackStep ==
  ASSUME BackInv, BackInv', NeverOverRefunded', [Next]_vars
  PROVE  [Back!Next]_(Back!vars)
<1>0. TypeOK /\ FailedOK
  BY DEF BackInv, PromiseInv
<1>1. ASSUME NEW w \in Worker, NEW k \in Key, PrepareRefund(w, k)
      PROVE  [Back!Next]_(Back!vars)
  <2>1. Given' = Given /\ UNCHANGED <<payment, ledger>> /\ Booked' = Booked
    BY <1>1 DEF PrepareRefund, Given, Booked
  <2>2. \A j \in Given : amount'[j] = amount[j]
    BY <1>0, <1>1
       DEF PrepareRefund, Retry, NewRefund, Given, FailedOK, TypeOK
  <2>3. CASE raced' = raced
    BY <2>1, <2>2, <2>3, GivesNothing
  <2>4. CASE raced' = raced \cup {k}
    <3>1. UNCHANGED GivenAmount
      BY <2>1, <2>2 DEF GivenAmount
    <3>2. Back!AskTwice(k)
      BY <2>1, <2>4, <3>1 DEF Back!AskTwice, GivenAmount
    <3> QED
      BY <3>2 DEF Back!Next
  <2> QED
    BY <1>1, <2>3, <2>4 DEF PrepareRefund
<1>2. ASSUME NEW w \in Worker, CallRefundGateway(w) \/ AnswerLost(w)
      PROVE  [Back!Next]_(Back!vars)
  <2> DEFINE k == worker[w].key
  <2>1. /\ k \in Key /\ refund[k].status # "none"
        /\ UNCHANGED <<payment, amount, refund, ledger, raced>>
    BY <1>0, <1>2 DEF CallRefundGateway, AnswerLost, TypeOK, FailedOK
  <2>2. \/ Given' = Given
        \/ k \notin Given /\ Given' = Given \cup {k}
    BY <1>0, <1>2, <2>1
       DEF CallRefundGateway, AnswerLost, GatewayDecides, Given, TypeOK
  <2>3. CASE Given' = Given
    BY <2>1, <2>3, GivesNothing
  <2>4. CASE k \notin Given /\ Given' = Given \cup {k}
    BY <2>1, <2>4, GivesOne
  <2> QED
    BY <2>2, <2>3, <2>4
<1>3. ASSUME NEW w \in Worker, FinalizeRefund(w)
      PROVE  [Back!Next]_(Back!vars)
  <2>1. CASE refund[worker[w].key].status = "completed"
    BY <1>3, <2>1, GivesNothing DEF FinalizeRefund, Given
  <2>2. CASE refund[worker[w].key].status # "completed"
    BY <1>3, <2>2, BooksOne DEF BackInv
  <2> QED
    BY <2>1, <2>2
<1>4. CASE UNCHANGED <<payment, amount, ledger, gateway, raced>>
  BY <1>4, GivesNothing DEF Given
<1> QED
  BY <1>1, <1>2, <1>3, <1>4 DEF Next, Step, PersistRefund, Crash, vars

LEMMA BackInit == Init => Back!Init
<1> SUFFICES ASSUME Init PROVE Back!Init
  OBVIOUS
<1>1. Given = {} /\ Booked = {}
  BY DEF Init, Given, Booked
<1> QED
  BY <1>1 DEF Init, Back!Init

\* Each refund goes back once and whole, within the payment; what is booked goes
\* back, and nothing more once the payment is 'refunded', for any keys, amounts,
\* requests, retries and lost answers: two requests with one key at once can
\* spoil the booking and the end of the refunding, and nothing else can.
THEOREM RefundsGiveBack == Spec => GivesBack
<1>1. BackInv /\ BackInv' /\ NeverOverRefunded' /\ [Next]_vars
      => [Back!Next]_(Back!vars)
  BY BackStep
<1> QED
  BY <1>1, BackInvInit, BackInvStep, BackInit, NeverTooMuchBack, PTL
     DEF Spec, GivesBack, Back!Spec

\* When the payment is 'refunded' the gateway has given back all that was paid,
\* not less and not more, unless a refund is in the books that two requests
\* handled at once.
THEOREM RefundedIsGiven ==
  Spec => [](payment = "refunded" /\ Booked \cap raced = {}
               => TotalOf(Given) = Total)
<1>1. ASSUME BackInv, payment = "refunded", Booked \cap raced = {}
      PROVE  TotalOf(Given) = Total
  <2>1. TotalOf(Booked) >= Total
    BY <1>1 DEF BackInv, WholeInv, RefundedIsWhole
  <2> QED
    BY <1>1, <2>1, BookedGiven
<1>2. BackInv => (payment = "refunded" /\ Booked \cap raced = {}
                    => TotalOf(Given) = Total)
  BY <1>1
<1> QED
  BY <1>2, BackInvInit, BackInvStep, PTL DEF Spec
=============================================================================
