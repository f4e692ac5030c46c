---------------------------- MODULE Notification ----------------------------
(***************************************************************************)
(* The payment core and the delivery of its notices: the task that the     *)
(* callback endpoint hands to Celery is the message the workers deliver.   *)
(***************************************************************************)
EXTENDS PaymentFlow

CONSTANTS Deliverers, MaxRetries, MaxDeaths, NoMessage

VARIABLES broker, dpc, held, attempts, received, told, exhausted, aborted, deaths

workerVars == <<broker, dpc, held, attempts, received, told, exhausted, aborted, deaths>>

Delivery == INSTANCE WebhookDelivery WITH Notices <- Txns \X Event, handed <- queue

ASSUME DeliveryAssumption ==
  /\ MaxRetries \in Nat
  /\ MaxDeaths \in Nat
  /\ NoMessage \notin Delivery!Message

NotificationInit == Init /\ Delivery!Init

\* The task that a step of the core hands to Celery, if any, is published.
Handover ==
  IF queue' = queue THEN UNCHANGED workerVars
                    ELSE \E n \in Txns \X Event : Delivery!Hand(n)

NotificationNext ==
  \/ Next /\ Handover
  \/ \E w \in Deliverers : Delivery!Step(w) /\ UNCHANGED vars

NotificationSpec == NotificationInit /\ [][NotificationNext]_<<vars, workerVars>>

\* As in PaymentFlow, and Celery workers go on as long as they live.
NotificationFairness ==
  /\ \A i \in Initiators :
       SF_<<vars, workerVars>>(InitiateProgress(i) /\ UNCHANGED callbackVars /\ Handover)
  /\ \A c \in Callbacks :
       SF_<<vars, workerVars>>(CallbackProgress(c) /\ UNCHANGED initiateVars /\ Handover)
  /\ \A w \in Deliverers : WF_<<vars, workerVars>>(Delivery!Work(w) /\ UNCHANGED vars)

NotificationFairSpec == NotificationSpec /\ NotificationFairness

-----------------------------------------------------------------------------
NoticeIsNeverLost == Delivery!NothingIsLost

AttemptsStayBounded == Delivery!AttemptsAreBounded

KeepsThePromise == Delivery!DeliversAsPromised

\* "Celery retries with exponential backoff (max 5 attempts)": with max_retries = 5, each
\* task that was handed over posts at most five times.
AtMostMaxAttempts == \A n \in Txns \X Event : attempts[n] <= MaxRetries * queue[n]

\* End to end: what reached the merchant's endpoint, in whatever attempt, is the outcome
\* that is committed, and no later callback makes it untrue or sends the opposite.
MerchantHearsTheOutcome ==
  \A t \in Txns, e \in Event :
    <<t, e>> \in received => Exists(t) /\ txns[t].state = TargetOf(e)

\* Every task that was handed to Celery comes to an end, although workers die and
\* attempts fail.
HandedIsConcluded ==
  \A n \in Txns \X Event : queue[n] > 0 ~> Delivery!Concluded(n)
=============================================================================
