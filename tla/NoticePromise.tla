--------------------------- MODULE NoticePromise ---------------------------
(***************************************************************************)
(* What the delivery of merchant webhooks promises, with no broker, no     *)
(* workers and no crashes: a notice that was accepted is attempted until   *)
(* the merchant has taken it or the attempts are used up; no notice is     *)
(* forgotten and none is given up before it was attempted MaxRetries       *)
(* times.  How often it may be attempted is not promised here.             *)
(* WebhookDelivery implements it.                                          *)
(***************************************************************************)
EXTENDS Naturals

CONSTANTS Notices, MaxRetries

VARIABLES phase, attempts

promiseVars == <<phase, attempts>>

Init ==
  /\ phase = [n \in Notices |-> "none"]
  /\ attempts = [n \in Notices |-> 0]

Accept(n) ==
  /\ phase[n] = "none"
  /\ phase' = [phase EXCEPT ![n] = "pending"]
  /\ UNCHANGED attempts

Attempt(n) ==
  /\ phase[n] # "none"
  /\ attempts' = [attempts EXCEPT ![n] = @ + 1]
  /\ UNCHANGED phase

\* A later attempt may still reach a merchant whose notice was given up.
Tell(n) ==
  /\ phase[n] \in {"pending", "aborted", "exhausted"}
  /\ attempts[n] > 0
  /\ phase' = [phase EXCEPT ![n] = "told"]
  /\ UNCHANGED attempts

Exhaust(n) ==
  /\ phase[n] \in {"pending", "aborted"}
  /\ attempts[n] >= MaxRetries
  /\ phase' = [phase EXCEPT ![n] = "exhausted"]
  /\ UNCHANGED attempts

\* An attempt failed in a way that is not retried.
Abort(n) ==
  /\ phase[n] = "pending"
  /\ attempts[n] > 0
  /\ phase' = [phase EXCEPT ![n] = "aborted"]
  /\ UNCHANGED attempts

Next == \E n \in Notices : Accept(n) \/ Attempt(n) \/ Tell(n) \/ Exhaust(n) \/ Abort(n)

Spec == Init /\ [][Next]_promiseVars
=============================================================================
