-------------------------- MODULE MCPaymentService --------------------------
(* Instances of PaymentService for TLC. *)
EXTENDS PaymentService, TLC

WorkerSymmetry == Permutations(Worker) \cup Permutations(Payment)

\* The answers to webhooks steer no step, and no property of the run speaks of
\* them: states that differ in nothing else are one.
WithoutAnswers ==
  <<order, attempt, payment, ledger, intent, declined, overwritten, worker>>
=============================================================================
