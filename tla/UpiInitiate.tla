---------------------------- MODULE UpiInitiate ----------------------------
(***************************************************************************)
(* POST /v1/payments/upi/initiate: one action per await of initiate_upi    *)
(* (app/services/payment.py).                                              *)
(*                                                                         *)
(* Authentication loads the Merchant in the request's own session, and     *)
(* Merchant.payment_intents is lazy="selectin", so the merchant's intents  *)
(* enter the session's identity map there.  The SELECT ... FOR UPDATE that *)
(* follows locks the row but does not overwrite the object that is already *)
(* mapped (no populate_existing): the service then decides on the status   *)
(* of authentication time, kept here as statusSeen.                        *)
(***************************************************************************)
EXTENDS PaymentDb

VARIABLES
  ipc,         \* the await an initiator stands at
  ireq,        \* the request it serves
  statusSeen   \* the intent's status in its session's identity map

initiateVars == <<ipc, ireq, statusSeen>>

UpiInitiateRequest == [merchant : Merchants, order : Orders, vpa : Vpas]

InitiatePc == {"idle", "lock_intent", "find_duplicate", "commit"}

InitiateTypeOK ==
  /\ ipc \in [Initiators -> InitiatePc]
  /\ ireq \in [Initiators -> UpiInitiateRequest \cup {NoRequest}]
  /\ statusSeen \in [Initiators -> PaymentStatus]
  /\ \A i \in Initiators : ipc[i] # "idle" => ireq[i] \in UpiInitiateRequest

InitiateInit ==
  /\ ipc = [i \in Initiators |-> "idle"]
  /\ ireq = [i \in Initiators |-> NoRequest]
  /\ statusSeen = [i \in Initiators |-> "CREATED"]

Goto(i, label) == ipc' = [ipc EXCEPT ![i] = label]

\* The request is over: its session is closed and whatever it locked is free.
InitiateDone(i) ==
  /\ Goto(i, "idle")
  /\ ireq' = [ireq EXCEPT ![i] = NoRequest]
  /\ statusSeen' = [statusSeen EXCEPT ![i] = "CREATED"]
  /\ EndTransaction(i)

-----------------------------------------------------------------------------
\* get_current_merchant: the merchant and, with it, its intents as they are now.
Authenticate(i) ==
  /\ ipc[i] = "idle"
  /\ \E r \in UpiInitiateRequest :
       /\ ireq' = [ireq EXCEPT ![i] = r]
       /\ statusSeen' = [statusSeen EXCEPT ![i] = status[r.order]]
  /\ Goto(i, "lock_intent")
  /\ UNCHANGED dbVars

OwnOrder(i) == MerchantOf[ireq[i].order] = ireq[i].merchant

\* The statement matches no row: OrderNotFound, 404.
OrderNotFound(i) ==
  /\ ipc[i] = "lock_intent"
  /\ ~OwnOrder(i)
  /\ InitiateDone(i)
  /\ UNCHANGED <<status, txns, ledgerVars>>

\* AlreadyFinalised, 409: raised once the lock is granted, which it gives back.
AlreadyFinalised(i) ==
  /\ ipc[i] = "lock_intent"
  /\ OwnOrder(i)
  /\ Free(OrderLock(ireq[i].order))
  /\ statusSeen[i] \in Finalised
  /\ InitiateDone(i)
  /\ UNCHANGED <<status, txns, ledgerVars>>

LockIntentRow(i) ==
  /\ ipc[i] = "lock_intent"
  /\ OwnOrder(i)
  /\ statusSeen[i] \notin Finalised
  /\ SelectForUpdate(i, OrderLock(ireq[i].order))
  /\ Goto(i, "find_duplicate")
  /\ UNCHANGED <<status, txns, ledgerVars, ireq, statusSeen>>

\* Mutated form: a declined or settled attempt is no duplicate of a new one.
LiveAttempt(r) ==
  \E t \in Txns : /\ Exists(t)
                  /\ txns[t].order = r.order /\ txns[t].vpa = r.vpa
                  /\ txns[t].state = "PENDING"

\* The duplicate query sees a committed transaction of this intent and address.
HasDuplicate(r) ==
  \E t \in Txns : /\ Exists(t)
                  /\ txns[t].order = r.order /\ txns[t].vpa = r.vpa

\* payment_initiate_replay: the earlier transaction is returned, nothing written.
ReplayInitiate(i) ==
  /\ ipc[i] = "find_duplicate"
  /\ HasDuplicate(ireq[i])
  /\ InitiateDone(i)
  /\ UNCHANGED <<status, txns, ledgerVars>>

\* InvalidStateTransition, which the endpoint does not catch: 500.
RefuseInitiate(i) ==
  /\ ipc[i] = "find_duplicate"
  /\ ~HasDuplicate(ireq[i])
  /\ ~IntentTransition(statusSeen[i], "PROCESSING")
  /\ InitiateDone(i)
  /\ UNCHANGED <<status, txns, ledgerVars>>

AcceptInitiate(i) ==
  /\ ipc[i] = "find_duplicate"
  /\ ~HasDuplicate(ireq[i])
  /\ IntentTransition(statusSeen[i], "PROCESSING")
  /\ Goto(i, "commit")
  /\ UNCHANGED <<dbVars, ireq, statusSeen>>

\* COMMIT of both rows at once; Txns bounds how many transactions there can be.
CommitInitiate(i) ==
  /\ ipc[i] = "commit"
  /\ \E t \in Txns :
       /\ ~Exists(t)
       /\ txns' = [txns EXCEPT ![t] = [order |-> ireq[i].order, vpa |-> ireq[i].vpa,
                                       state |-> "PENDING"]]
  /\ status' = [status EXCEPT ![ireq[i].order] = "PROCESSING"]
  /\ InitiateDone(i)
  /\ UNCHANGED ledgerVars

\* A crash, a lost connection or a database error: the transaction rolls back.
FailInitiate(i) ==
  /\ i \in MayFail
  /\ ipc[i] # "idle"
  /\ InitiateDone(i)
  /\ UNCHANGED <<status, txns, ledgerVars>>

-----------------------------------------------------------------------------
\* What the server does with a request it has accepted.
InitiateProgress(i) ==
  \/ OrderNotFound(i)
  \/ AlreadyFinalised(i)
  \/ LockIntentRow(i)
  \/ ReplayInitiate(i)
  \/ RefuseInitiate(i)
  \/ AcceptInitiate(i)
  \/ CommitInitiate(i)

InitiateStep(i) == Authenticate(i) \/ InitiateProgress(i) \/ FailInitiate(i)
=============================================================================
