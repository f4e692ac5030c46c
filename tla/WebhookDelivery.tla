-------------------------- MODULE WebhookDelivery --------------------------
(***************************************************************************)
(* deliver_merchant_webhook (app/workers/tasks.py) under the Celery        *)
(* settings of app/workers/celery_app.py: messages in Redis, workers that  *)
(* acknowledge a message only when its task is over (acks_late), retries   *)
(* that publish a new message before the old one is acknowledged, and      *)
(* workers that die with a message unacknowledged, which puts it back      *)
(* (reject_on_worker_lost).                                                *)
(*                                                                         *)
(* A countdown is any delay.  Bound by assumption: a message is never held *)
(* longer than the broker's visibility timeout of one hour (the longest    *)
(* countdown is 16 minutes), so only a death gives it back.                *)
(***************************************************************************)
EXTENDS Naturals, FiniteSets

CONSTANTS
  Notices,      \* what there may be to deliver
  Deliverers,   \* the Celery worker processes
  MaxRetries,   \* celery_webhook_max_retries
  MaxDeaths,    \* bound: how many times a worker may die
  NoMessage     \* a worker that holds no message

Message == [notice : Notices, retries : 0 .. MaxRetries]

VARIABLES
  handed,      \* how many tasks of each notice were handed to Celery
  broker,      \* how many copies of each message are in the queue
  dpc,         \* where a worker stands
  held,        \* the message it has taken and not acknowledged
  attempts,    \* the attempts made for each notice (history)
  received,    \* the notices the merchant's endpoint got, answered or not (history)
  told,        \* the notices whose task saw a 2xx answer
  exhausted,   \* the notices with a task that used up its retries
  aborted,     \* the notices with a task that failed and was not retried
  deaths       \* how often a worker died

deliveryVars == <<handed, broker, dpc, held, attempts, received, told, exhausted, aborted, deaths>>
endVars == <<told, exhausted, aborted>>

DeliveryPc == {"idle", "post", "answered", "failed", "raised", "ack"}

TypeOK ==
  /\ handed \in [Notices -> Nat]
  /\ broker \in [Message -> Nat]
  /\ dpc \in [Deliverers -> DeliveryPc]
  /\ held \in [Deliverers -> Message \cup {NoMessage}]
  /\ \A w \in Deliverers : dpc[w] # "idle" => held[w] \in Message
  /\ attempts \in [Notices -> Nat]
  /\ received \in SUBSET Notices
  /\ told \in SUBSET Notices /\ exhausted \in SUBSET Notices /\ aborted \in SUBSET Notices
  /\ deaths \in 0 .. MaxDeaths

Init ==
  /\ handed = [n \in Notices |-> 0]
  /\ broker = [m \in Message |-> 0]
  /\ dpc = [w \in Deliverers |-> "idle"]
  /\ held = [w \in Deliverers |-> NoMessage]
  /\ attempts = [n \in Notices |-> 0]
  /\ received = {} /\ told = {} /\ exhausted = {} /\ aborted = {}
  /\ deaths = 0

Msg(n, r) == [notice |-> n, retries |-> r]

Publish(m) == broker' = [broker EXCEPT ![m] = @ + 1]

Goto(w, label) == dpc' = [dpc EXCEPT ![w] = label]

\* The message is acknowledged, and gone.
Release(w) ==
  /\ Goto(w, "idle")
  /\ held' = [held EXCEPT ![w] = NoMessage]

-----------------------------------------------------------------------------
\* deliver_merchant_webhook.delay.
Hand(n) ==
  /\ handed' = [handed EXCEPT ![n] = @ + 1]
  /\ Publish(Msg(n, 0))
  /\ UNCHANGED <<dpc, held, attempts, received, endVars, deaths>>

\* A worker starts on a message, which stays unacknowledged.
Take(w) ==
  /\ dpc[w] = "idle"
  /\ \E m \in Message :
       /\ broker[m] > 0
       /\ broker' = [broker EXCEPT ![m] = @ - 1]
       /\ held' = [held EXCEPT ![w] = m]
  /\ Goto(w, "post")
  /\ UNCHANGED <<handed, attempts, received, endVars, deaths>>

\* httpx.post and raise_for_status: a 2xx answer; an httpx.HTTPError, whether or not
\* the merchant got the request; or an exception that the task does not catch (the
\* soft time limit, an invalid URL).
Post(w) ==
  /\ dpc[w] = "post"
  /\ LET n == held[w].notice
     IN /\ attempts' = [attempts EXCEPT ![n] = @ + 1]
        /\ \/ Goto(w, "answered") /\ received' = received \cup {n}
           \/ /\ \E label \in {"failed", "raised"} : Goto(w, label)
              /\ received' \in {received, received \cup {n}}
  /\ UNCHANGED <<handed, broker, held, endVars, deaths>>

Succeed(w) ==
  /\ dpc[w] = "answered"
  /\ told' = told \cup {held[w].notice}
  /\ Release(w)
  /\ UNCHANGED <<handed, broker, attempts, received, exhausted, aborted, deaths>>

\* Task.retry gives up when the retry would be number max_retries + 1.
MayRetry(w) == held[w].retries + 1 <= MaxRetries

\* Mutated form: the retry is published without counting it.
RetryUncounted(w) ==
  /\ dpc[w] = "failed"
  /\ MayRetry(w)
  /\ Publish(held[w])
  /\ Goto(w, "ack")
  /\ UNCHANGED <<handed, held, attempts, received, endVars, deaths>>

\* self.retry publishes the next message while the current one is still held.
Retry(w) ==
  /\ dpc[w] = "failed"
  /\ MayRetry(w)
  /\ Publish(Msg(held[w].notice, held[w].retries + 1))
  /\ Goto(w, "ack")
  /\ UNCHANGED <<handed, held, attempts, received, endVars, deaths>>

\* The message of the attempt that was retried is acknowledged.
Ack(w) ==
  /\ dpc[w] = "ack"
  /\ Release(w)
  /\ UNCHANGED <<handed, broker, attempts, received, endVars, deaths>>

\* Mutated form: a task that is out of retries ends without a trace.
ExhaustSilently(w) ==
  /\ dpc[w] = "failed"
  /\ ~MayRetry(w)
  /\ Release(w)
  /\ UNCHANGED <<handed, broker, attempts, received, endVars, deaths>>

\* Mutated form: the task fails although it has retries left.
ExhaustAtOnce(w) ==
  /\ dpc[w] = "failed"
  /\ exhausted' = exhausted \cup {held[w].notice}
  /\ Release(w)
  /\ UNCHANGED <<handed, broker, attempts, received, told, aborted, deaths>>

\* Out of retries: the task fails with the last error.
Exhaust(w) ==
  /\ dpc[w] = "failed"
  /\ ~MayRetry(w)
  /\ exhausted' = exhausted \cup {held[w].notice}
  /\ Release(w)
  /\ UNCHANGED <<handed, broker, attempts, received, told, aborted, deaths>>

\* The task fails for good after an exception it does not catch, and so it does when
\* the broker does not take the retry (Celery then rejects the message).
Abort(w) ==
  /\ dpc[w] = "raised" \/ (dpc[w] = "failed" /\ MayRetry(w))
  /\ aborted' = aborted \cup {held[w].notice}
  /\ Release(w)
  /\ UNCHANGED <<handed, broker, attempts, received, told, exhausted, deaths>>

\* Mutated form: messages are acknowledged when they are taken.
DieAcknowledged(w) ==
  /\ dpc[w] # "idle"
  /\ deaths < MaxDeaths
  /\ deaths' = deaths + 1
  /\ Release(w)
  /\ UNCHANGED <<handed, broker, attempts, received, endVars>>

\* The worker dies: the message it has not acknowledged goes back to the queue.
Die(w) ==
  /\ dpc[w] # "idle"
  /\ deaths < MaxDeaths
  /\ deaths' = deaths + 1
  /\ Publish(held[w])
  /\ Release(w)
  /\ UNCHANGED <<handed, attempts, received, endVars>>

-----------------------------------------------------------------------------
\* What a worker that lives does.
Work(w) ==
  \/ Take(w)
  \/ Post(w)
  \/ Succeed(w)
  \/ Retry(w)
  \/ Ack(w)
  \/ Exhaust(w)
  \/ Abort(w)

Step(w) == Work(w) \/ Die(w)

Next == (\E n \in Notices : Hand(n)) \/ (\E w \in Deliverers : Step(w))

Spec == Init /\ [][Next]_deliveryVars

-----------------------------------------------------------------------------
Concluded(n) == n \in told \cup exhausted \cup aborted

\* A message of the notice waits, or a worker is at work on one that it has not yet
\* passed on as a retry.
Live(n) ==
  \/ \E m \in Message : m.notice = n /\ broker[m] > 0
  \/ \E w \in Deliverers : dpc[w] \notin {"idle", "ack"} /\ held[w].notice = n

\* acks_late and reject_on_worker_lost: whichever worker dies, at whatever point of an
\* attempt or between a retry and its acknowledgement, no notice drops out before the
\* merchant took it or its task failed.
NothingIsLost == \A n \in Notices : handed[n] > 0 => Live(n) \/ Concluded(n)

\* Retries end: a task makes max_retries + 1 attempts at most, and the chains of retries
\* that a death between a retry and its acknowledgement doubles are as short.
AttemptsAreBounded ==
  \A n \in Notices : attempts[n] <= (MaxRetries + 1) * (handed[n] + deaths)

\* What has become of a notice, the best outcome first.
PhaseOf(n) ==
  IF n \in told THEN "told"
  ELSE IF n \in exhausted THEN "exhausted"
  ELSE IF n \in aborted THEN "aborted"
  ELSE IF handed[n] > 0 THEN "pending" ELSE "none"

\* The delivery implements the promise about notices: nothing is given up as exhausted
\* before max_retries attempts were made, or concluded without any.
Promise == INSTANCE NoticePromise WITH phase <- [n \in Notices |-> PhaseOf(n)]

DeliversAsPromised == Promise!Spec
=============================================================================
