--------------------------- MODULE PaymentStates ---------------------------
(***************************************************************************)
(* The payment state machine: the statuses a payment intent and a          *)
(* transaction can have, the permission matrices between them, and the     *)
(* outcome each bank event asks for (app/services/state_machine.py).       *)
(***************************************************************************)

PaymentStatus == {"CREATED", "PROCESSING", "SUCCESS", "FAILED"}

TransactionState == {"INITIATED", "PENDING", "SUCCESS", "FAILED"}

Finalised == {"SUCCESS", "FAILED"}

Event == {"payment.success", "payment.failed"}

\* The outcome a callback asks for, both of the transaction and of its intent.
TargetOf(event) == IF event = "payment.success" THEN "SUCCESS" ELSE "FAILED"

PaymentIntentTransitions ==
  { <<"CREATED", "PROCESSING">>,
    <<"PROCESSING", "SUCCESS">>,
    <<"PROCESSING", "FAILED">> }

TransactionTransitions ==
  { <<"INITIATED", "PENDING">>,
    <<"PENDING", "SUCCESS">>,
    <<"PENDING", "FAILED">> }

\* Mutated form: a retry on another address is let through while one is open.
LenientIntentTransition(current, target) ==
  \/ <<current, target>> \in PaymentIntentTransitions
  \/ current = "PROCESSING" /\ target = "PROCESSING"

\* assert_intent_transition does not raise.
IntentTransition(current, target) ==
  <<current, target>> \in PaymentIntentTransitions

\* Mutated form: the guard lets a declined payment be settled by a late success.
LenientTransactionTransition(current, target) ==
  \/ <<current, target>> \in TransactionTransitions
  \/ current = "FAILED" /\ target = "SUCCESS"

\* assert_transaction_transition does not raise.
TransactionTransition(current, target) ==
  <<current, target>> \in TransactionTransitions
=============================================================================
