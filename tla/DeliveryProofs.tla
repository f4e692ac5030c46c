--------------------------- MODULE DeliveryProofs ---------------------------
(***************************************************************************)
(* The delivery of notices, for every number of workers, retries and       *)
(* deaths: no notice is lost, none is given up early, and what reaches a   *)
(* merchant is the committed outcome.  The payment core is not disturbed   *)
(* by the workers, so its theorems hold of the whole.                      *)
(***************************************************************************)
EXTENDS Notification, NoticeProofs, FiniteSums

Notices == Txns \X Event

\* Whatever the queue or a worker holds was handed over, and its retry number counts
\* attempts that were really made.
MessagesAreCounted ==
  /\ \A m \in Delivery!Message :
       broker[m] > 0 => queue[m.notice] > 0 /\ attempts[m.notice] >= m.retries
  /\ \A w \in Deliverers :
       /\ dpc[w] # "idle" => queue[held[w].notice] > 0
       /\ dpc[w] = "post" => attempts[held[w].notice] >= held[w].retries
       /\ dpc[w] \notin {"idle", "post"} => attempts[held[w].notice] > held[w].retries

\* A task ends only after an attempt, and as exhausted after all of them.
EndsAreEarned ==
  /\ \A n \in Notices : Delivery!Concluded(n) => queue[n] > 0 /\ attempts[n] > 0
  /\ \A n \in exhausted : attempts[n] > MaxRetries
  /\ \A n \in received : queue[n] > 0

\* The inductive invariant.
DeliveryInv ==
  /\ Delivery!TypeOK
  /\ MessagesAreCounted
  /\ EndsAreEarned
  /\ NoticeIsNeverLost

-----------------------------------------------------------------------------
LEMMA DeliveryInitially == NotificationInit => DeliveryInv
<1> SUFFICES ASSUME NotificationInit PROVE DeliveryInv  OBVIOUS
<1> USE DEF NotificationInit, Init, CallbackInit, Delivery!Init, Notices
<1>1. Delivery!TypeOK
  BY DeliveryAssumption DEF Delivery!TypeOK, Delivery!DeliveryPc
<1>2. MessagesAreCounted
  BY DEF MessagesAreCounted
<1>3. EndsAreEarned
  BY DEF EndsAreEarned, Delivery!Concluded
<1>4. NoticeIsNeverLost
  BY DEF NoticeIsNeverLost, Delivery!NothingIsLost
<1> QED BY <1>1, <1>2, <1>3, <1>4 DEF DeliveryInv

-----------------------------------------------------------------------------
LEMMA MessageType ==
  \A n \in Notices : \A r \in 0 .. MaxRetries :
    /\ Delivery!Msg(n, r) \in Delivery!Message
    /\ Delivery!Msg(n, r).notice = n
    /\ Delivery!Msg(n, r).retries = r
BY DEF Delivery!Msg, Delivery!Message, Notices

LEMMA MessageParts ==
  \A m \in Delivery!Message :
    m.notice \in Notices /\ m.retries \in 0 .. MaxRetries
BY DEF Delivery!Message, Notices

LEMMA HandKeepsInv ==
  ASSUME DeliveryInv, NEW n \in Notices, Delivery!Hand(n)
  PROVE  DeliveryInv'
<1> DEFINE new == Delivery!Msg(n, 0)
<1>1. new \in Delivery!Message /\ new.notice = n /\ new.retries = 0
  BY MessageType, DeliveryAssumption
<1>2. queue' = [queue EXCEPT ![n] = @ + 1] /\ broker' = [broker EXCEPT ![new] = @ + 1]
      /\ UNCHANGED <<dpc, held, attempts, received, told, exhausted, aborted, deaths>>
  BY DEF Delivery!Hand, Delivery!Publish, Delivery!endVars
<1> HIDE DEF new
<1> USE MessageParts DEF DeliveryInv
<1>3. Delivery!TypeOK'
  BY <1>1, <1>2 DEF Delivery!TypeOK, Notices
<1>4. \A k \in Notices : queue[k] \in Nat /\ queue'[k] \in Nat /\ queue'[k] >= queue[k]
  BY <1>2 DEF Delivery!TypeOK, Notices
<1>5. queue'[n] > 0
  BY <1>2 DEF Delivery!TypeOK, Notices
<1>6. MessagesAreCounted'
  <2>1. ASSUME NEW m \in Delivery!Message, broker'[m] > 0
        PROVE  queue'[m.notice] > 0 /\ attempts'[m.notice] >= m.retries
    <3>1. CASE m = new
      BY <3>1, <1>1, <1>2, <1>5 DEF Delivery!TypeOK, Notices
    <3>2. CASE m # new
      BY <2>1, <3>2, <1>2, <1>4 DEF MessagesAreCounted, Delivery!TypeOK
    <3> QED BY <3>1, <3>2
  <2>2. \A w \in Deliverers : dpc[w] # "idle" => held[w].notice \in Notices
    BY DEF Delivery!TypeOK
  <2> QED BY <1>2, <1>4, <2>1, <2>2 DEF MessagesAreCounted
<1>7. EndsAreEarned'
  BY <1>2, <1>4 DEF EndsAreEarned, Delivery!Concluded, Delivery!TypeOK, Notices
<1>8. NoticeIsNeverLost'
  <2>1. broker'[new] > 0
    BY <1>1, <1>2 DEF Delivery!TypeOK
  <2>2. \A m \in Delivery!Message : broker[m] > 0 => broker'[m] > 0
    BY <1>2 DEF Delivery!TypeOK
  <2>3. \A k \in Notices : k # n => queue'[k] = queue[k]
    BY <1>2 DEF Delivery!TypeOK, Notices
  <2> QED
    BY <1>1, <1>2, <2>1, <2>2, <2>3
    DEF NoticeIsNeverLost, Delivery!NothingIsLost, Delivery!Live, Delivery!Concluded, Notices
<1> QED BY <1>3, <1>6, <1>7, <1>8

\* The message that a worker at work holds.
LEMMA HeldMessage ==
  ASSUME DeliveryInv, NEW w \in Deliverers, dpc[w] # "idle"
  PROVE  /\ held[w] \in Delivery!Message
         /\ held[w].notice \in Notices
         /\ held[w].retries \in 0 .. MaxRetries
         /\ queue[held[w].notice] > 0
         /\ attempts[held[w].notice] \in Nat
BY MessageParts DEF DeliveryInv, Delivery!TypeOK, MessagesAreCounted, Notices

LEMMA TakeKeepsInv ==
  ASSUME DeliveryInv, NEW w \in Deliverers, Delivery!Take(w)
  PROVE  DeliveryInv'
<1>1. PICK m \in Delivery!Message :
        /\ broker[m] > 0
        /\ broker' = [broker EXCEPT ![m] = @ - 1]
        /\ held' = [held EXCEPT ![w] = m]
  BY DEF Delivery!Take
<1>2. dpc[w] = "idle" /\ dpc' = [dpc EXCEPT ![w] = "post"]
      /\ UNCHANGED <<queue, attempts, received, told, exhausted, aborted, deaths>>
  BY DEF Delivery!Take, Delivery!Goto, Delivery!endVars
<1> USE MessageParts DEF DeliveryInv
<1>3. Delivery!TypeOK'
  BY <1>1, <1>2 DEF Delivery!TypeOK, Delivery!DeliveryPc
<1>4. /\ held'[w] = m /\ dpc'[w] = "post"
      /\ \A v \in Deliverers : v # w => held'[v] = held[v] /\ dpc'[v] = dpc[v]
  BY <1>1, <1>2 DEF Delivery!TypeOK
<1>5. \A k \in Delivery!Message : (broker'[k] > 0 => broker[k] > 0)
                               /\ (k # m => broker'[k] = broker[k])
  BY <1>1 DEF Delivery!TypeOK
<1>6. MessagesAreCounted'
  BY <1>1, <1>2, <1>4, <1>5 DEF MessagesAreCounted
<1>7. EndsAreEarned'
  BY <1>2 DEF EndsAreEarned, Delivery!Concluded
<1>8. NoticeIsNeverLost'
  BY <1>1, <1>2, <1>4, <1>5
  DEF NoticeIsNeverLost, Delivery!NothingIsLost, Delivery!Live, Delivery!Concluded
<1> QED BY <1>3, <1>6, <1>7, <1>8

LEMMA PostKeepsInv ==
  ASSUME DeliveryInv, NEW w \in Deliverers, Delivery!Post(w)
  PROVE  DeliveryInv'
<1> DEFINE n == held[w].notice
<1>1. PICK label \in {"answered", "failed", "raised"} :
        /\ dpc[w] = "post" /\ dpc' = [dpc EXCEPT ![w] = label]
        /\ attempts' = [attempts EXCEPT ![n] = @ + 1]
        /\ received' \in {received, received \cup {n}}
        /\ UNCHANGED <<queue, broker, held, told, exhausted, aborted, deaths>>
  BY DEF Delivery!Post, Delivery!Goto, Delivery!endVars
<1>2. n \in Notices /\ held[w] \in Delivery!Message /\ held[w].retries \in 0 .. MaxRetries
      /\ queue[n] > 0
  BY <1>1, HeldMessage
<1> HIDE DEF n
<1> USE MessageParts DEF DeliveryInv
<1>3. Delivery!TypeOK'
  BY <1>1, <1>2 DEF Delivery!TypeOK, Delivery!DeliveryPc, Notices
<1>4. \A k \in Notices : attempts[k] \in Nat /\ attempts'[k] \in Nat
                           /\ attempts'[k] >= attempts[k]
  BY <1>1 DEF Delivery!TypeOK, Notices
<1>5. attempts'[n] = attempts[n] + 1
  BY <1>1, <1>2 DEF Delivery!TypeOK, Notices
<1>6. dpc'[w] = label /\ \A v \in Deliverers : v # w => dpc'[v] = dpc[v]
  BY <1>1 DEF Delivery!TypeOK
<1>7. \A v \in Deliverers : dpc[v] # "idle" => held[v] \in Delivery!Message
  BY DEF Delivery!TypeOK
<1>8. MessagesAreCounted'
  <2>1. \A m \in Delivery!Message :
          broker'[m] > 0 => queue'[m.notice] > 0 /\ attempts'[m.notice] >= m.retries
    BY <1>1, <1>4 DEF MessagesAreCounted
  <2>2. attempts[n] >= held[w].retries
    BY <1>1 DEF MessagesAreCounted, n
  <2>3. attempts'[held'[w].notice] > held'[w].retries /\ queue'[held'[w].notice] > 0
    BY <1>1, <1>2, <1>4, <1>5, <2>2 DEF n
  <2>4. ASSUME NEW v \in Deliverers, v # w, dpc[v] # "idle"
        PROVE  /\ queue'[held'[v].notice] > 0
               /\ dpc'[v] = "post" => attempts'[held'[v].notice] >= held'[v].retries
               /\ dpc'[v] # "post" => attempts'[held'[v].notice] > held'[v].retries
    BY <1>1, <1>4, <1>6, <1>7, <2>4 DEF MessagesAreCounted
  <2> QED BY <1>1, <1>6, <2>1, <2>3, <2>4 DEF MessagesAreCounted
<1>9. EndsAreEarned'
  <2>1. \A k \in Notices : Delivery!Concluded(k)' => queue'[k] > 0 /\ attempts'[k] > 0
    BY <1>1, <1>4 DEF EndsAreEarned, Delivery!Concluded
  <2>2. \A k \in exhausted' : attempts'[k] > MaxRetries
    BY <1>1, <1>4, DeliveryAssumption DEF EndsAreEarned, Delivery!TypeOK, Notices
  <2>3. \A k \in received' : queue'[k] > 0
    BY <1>1, <1>2 DEF EndsAreEarned
  <2> QED BY <2>1, <2>2, <2>3 DEF EndsAreEarned
<1>10. NoticeIsNeverLost'
  BY <1>1, <1>6
  DEF NoticeIsNeverLost, Delivery!NothingIsLost, Delivery!Live, Delivery!Concluded
<1> QED BY <1>3, <1>8, <1>9, <1>10

\* A message is acknowledged: its attempt was retried, or its task is over.
LEMMA ReleaseKeepsInv ==
  ASSUME DeliveryInv, NEW w \in Deliverers, dpc[w] \notin {"idle", "post"},
         Delivery!Release(w), UNCHANGED <<queue, broker, attempts, received, deaths>>,
         NEW n, n = held[w].notice,
         told' \in {told, told \cup {n}},
         aborted' \in {aborted, aborted \cup {n}},
         exhausted' = exhausted \/ (exhausted' = exhausted \cup {n} /\ attempts[n] > MaxRetries),
         dpc[w] = "ack" \/ n \in told' \cup exhausted' \cup aborted'
  PROVE  DeliveryInv'
<1>1. n \in Notices /\ queue[n] > 0 /\ attempts[n] > 0
  BY HeldMessage DEF DeliveryInv, MessagesAreCounted
<1> USE DEF DeliveryInv, Delivery!Release, Delivery!Goto
<1>2. Delivery!TypeOK'
  BY <1>1 DEF Delivery!TypeOK, Delivery!DeliveryPc, Notices
<1>3. dpc'[w] = "idle" /\ \A v \in Deliverers : v # w => dpc'[v] = dpc[v] /\ held'[v] = held[v]
  BY DEF Delivery!TypeOK
<1>4. MessagesAreCounted'
  BY <1>3 DEF MessagesAreCounted
<1>5. EndsAreEarned'
  BY <1>1 DEF EndsAreEarned, Delivery!Concluded
<1>6. NoticeIsNeverLost'
  BY <1>3
  DEF NoticeIsNeverLost, Delivery!NothingIsLost, Delivery!Live, Delivery!Concluded
<1> QED BY <1>2, <1>4, <1>5, <1>6

\* A message is published by the worker that holds one: the next retry, or the same
\* message given back.
LEMMA PublishKeepsInv ==
  ASSUME DeliveryInv, NEW w \in Deliverers, dpc[w] # "idle", NEW m \in Delivery!Message,
         m.notice = held[w].notice, attempts[m.notice] >= m.retries,
         Delivery!Publish(m), UNCHANGED <<queue, attempts, received, told, exhausted, aborted>>,
         NEW label \in {"idle", "ack"}, dpc' = [dpc EXCEPT ![w] = label],
         \/ held' = held /\ dpc[w] # "post"
         \/ held' = [held EXCEPT ![w] = NoMessage] /\ label = "idle",
         deaths' \in 0 .. MaxDeaths
  PROVE  DeliveryInv'
<1>1. m.notice \in Notices /\ queue[m.notice] > 0
  BY HeldMessage
<1>2. /\ broker'[m] > 0
      /\ \A k \in Delivery!Message : k # m => broker'[k] = broker[k]
      /\ \A k \in Delivery!Message : broker[k] > 0 => broker'[k] > 0
  BY DEF DeliveryInv, Delivery!TypeOK, Delivery!Publish
<1>3. dpc'[w] = label /\ \A v \in Deliverers : v # w => dpc'[v] = dpc[v] /\ held'[v] = held[v]
  BY DEF DeliveryInv, Delivery!TypeOK
<1> USE DEF DeliveryInv
<1>4. Delivery!TypeOK'
  BY DEF Delivery!TypeOK, Delivery!DeliveryPc, Delivery!Publish
<1>5. MessagesAreCounted'
  BY <1>1, <1>2, <1>3 DEF MessagesAreCounted
<1>6. EndsAreEarned'
  BY DEF EndsAreEarned, Delivery!Concluded
<1>7. NoticeIsNeverLost'
  BY <1>1, <1>2, <1>3
  DEF NoticeIsNeverLost, Delivery!NothingIsLost, Delivery!Live, Delivery!Concluded, Notices
<1> QED BY <1>4, <1>5, <1>6, <1>7

LEMMA StepKeepsInv ==
  ASSUME DeliveryInv, NEW w \in Deliverers, Delivery!Step(w)
  PROVE  DeliveryInv'
<1> DEFINE n == held[w].notice
           r == held[w].retries
<1> USE DEF Delivery!endVars, Delivery!Release, Delivery!Goto, Delivery!MayRetry
<1>1. CASE Delivery!Take(w)  BY <1>1, TakeKeepsInv
<1>2. CASE Delivery!Post(w)  BY <1>2, PostKeepsInv
<1>3. CASE Delivery!Succeed(w)
  BY <1>3, ReleaseKeepsInv DEF Delivery!Succeed
<1>4. CASE Delivery!Retry(w)
  <2>1. dpc[w] = "failed" /\ r + 1 \in 0 .. MaxRetries /\ n \in Notices
    BY <1>4, HeldMessage, DeliveryAssumption DEF Delivery!Retry
  <2>2. attempts[n] >= r + 1
    BY <2>1, HeldMessage DEF DeliveryInv, MessagesAreCounted
  <2>3. Delivery!Msg(n, r + 1) \in Delivery!Message /\ Delivery!Msg(n, r + 1).notice = n
        /\ Delivery!Msg(n, r + 1).retries = r + 1
    BY <2>1, MessageType
  <2>4. deaths' \in 0 .. MaxDeaths
    BY <1>4 DEF Delivery!Retry, DeliveryInv, Delivery!TypeOK
  <2> QED BY <1>4, <2>1, <2>2, <2>3, <2>4, PublishKeepsInv DEF Delivery!Retry
<1>5. CASE Delivery!Ack(w)
  BY <1>5, ReleaseKeepsInv DEF Delivery!Ack
<1>6. CASE Delivery!Exhaust(w)
  <2>1. dpc[w] = "failed" /\ r + 1 > MaxRetries
    BY <1>6, HeldMessage, DeliveryAssumption DEF Delivery!Exhaust
  <2>2. attempts[n] > MaxRetries
    BY <2>1, HeldMessage, DeliveryAssumption DEF DeliveryInv, MessagesAreCounted
  <2> QED BY <1>6, <2>1, <2>2, ReleaseKeepsInv DEF Delivery!Exhaust
<1>7. CASE Delivery!Abort(w)
  BY <1>7, ReleaseKeepsInv DEF Delivery!Abort
<1>8. CASE Delivery!Die(w)
  <2>1. dpc[w] # "idle" /\ deaths' \in 0 .. MaxDeaths
    BY <1>8, DeliveryAssumption DEF Delivery!Die, DeliveryInv, Delivery!TypeOK
  <2>2. attempts[n] >= r
    BY <2>1, HeldMessage DEF DeliveryInv, MessagesAreCounted
  <2> QED BY <1>8, <2>1, <2>2, HeldMessage, PublishKeepsInv DEF Delivery!Die
<1> QED
  BY <1>1, <1>2, <1>3, <1>4, <1>5, <1>6, <1>7, <1>8 DEF Delivery!Step, Delivery!Work

-----------------------------------------------------------------------------
\* The core moves and hands over at most one task, or a worker moves.
LEMMA StepsOfTheWhole ==
  ASSUME [NotificationNext]_<<vars, workerVars>>
  PROVE  /\ [Next]_vars
         /\ \/ UNCHANGED <<queue, workerVars>>
            \/ \E n \in Notices : Delivery!Hand(n)
            \/ \E w \in Deliverers : Delivery!Step(w)
BY DEF NotificationNext, Handover, vars, callbackVars, noticeVars, Notices

\* The workers do not disturb the payment core: what it never does, it never does
\* with the delivery attached either.
LEMMA CoreIsUndisturbed == NotificationSpec => Spec
<1>1. NotificationInit => Init
  BY DEF NotificationInit
<1>2. [NotificationNext]_<<vars, workerVars>> => [Next]_vars
  BY StepsOfTheWhole
<1> QED BY <1>1, <1>2, PTL DEF NotificationSpec, Spec

\* The inductive invariant of the delivery holds of the whole.
THEOREM DeliveryInvariant == NotificationSpec => []DeliveryInv
<1>1. DeliveryInv /\ [NotificationNext]_<<vars, workerVars>> => DeliveryInv'
  <2> SUFFICES ASSUME DeliveryInv, [NotificationNext]_<<vars, workerVars>>
               PROVE  DeliveryInv'
    OBVIOUS
  <2>1. CASE UNCHANGED <<queue, workerVars>>
    BY <2>1 DEF workerVars, DeliveryInv, Delivery!TypeOK, MessagesAreCounted, EndsAreEarned,
                NoticeIsNeverLost, Delivery!NothingIsLost, Delivery!Live, Delivery!Concluded
  <2>2. CASE \E n \in Notices : Delivery!Hand(n)  BY <2>2, HandKeepsInv
  <2>3. CASE \E w \in Deliverers : Delivery!Step(w)  BY <2>3, StepKeepsInv
  <2> QED BY <2>1, <2>2, <2>3, StepsOfTheWhole
<1> QED BY <1>1, DeliveryInitially, PTL DEF NotificationSpec

\* No notice drops out of the delivery, whichever workers die at whatever point.
THEOREM NothingIsEverLost == NotificationSpec => []NoticeIsNeverLost
<1>1. DeliveryInv => NoticeIsNeverLost  BY DEF DeliveryInv
<1> QED BY <1>1, DeliveryInvariant, PTL

\* Whatever a merchant hears is the committed outcome, and stays it.
THEOREM EndpointHearsTheTruth == NotificationSpec => []MerchantHearsTheOutcome
<1>1. DeliveryInv /\ NoticesAreTrue /\ TypeOK => MerchantHearsTheOutcome
  <2> SUFFICES ASSUME DeliveryInv, NoticesAreTrue, TypeOK,
                      NEW t \in Txns, NEW e \in Event, <<t, e>> \in received
               PROVE  Exists(t) /\ txns[t].state = TargetOf(e)
    BY DEF MerchantHearsTheOutcome
  <2>1. queue[<<t, e>>] > 0
    BY DEF DeliveryInv, EndsAreEarned
  <2>2. queue[<<t, e>>] \in Nat /\ outbox[<<t, e>>] \in Nat
    BY DEF TypeOK, CallbackTypeOK
  <2> QED BY <2>1, <2>2 DEF NoticesAreTrue
<1> QED BY <1>1, DeliveryInvariant, CoreIsUndisturbed, MerchantHearsTheTruth, TypeCorrect, PTL

-----------------------------------------------------------------------------
(***************************************************************************)
(* Retries end: every attempt that was made, and every one that a queued   *)
(* message or a worker still allows, is paid for by a handed task or by a  *)
(* death.                                                                  *)
(***************************************************************************)

Retries == 0 .. MaxRetries

\* The attempts a message allows, its own included.
Allows(m) == MaxRetries + 1 - m.retries

\* The attempts that queued messages of a notice allow, by their number of retries.
Queued(n) == [r \in Retries |-> broker[Delivery!Msg(n, r)] * (MaxRetries + 1 - r)]

\* The attempts that the message of a worker still allows: its own unless it was made,
\* and the later ones unless they were passed on as a retry.
StillAllows(w) ==
  IF dpc[w] = "post" THEN Allows(held[w])
  ELSE IF dpc[w] \in {"idle", "ack"} THEN 0
  ELSE MaxRetries - held[w].retries

Busy == {w \in Deliverers : dpc[w] # "idle"}

AtWork(n) ==
  [w \in Deliverers |-> IF w \in Busy /\ held[w].notice = n THEN StillAllows(w) ELSE 0]

InQueue(n) == SumFunctionOnSet(Queued(n), Retries)
InWork(n) == SumFunctionOnSet(AtWork(n), Busy)

\* The inductive invariant.
AttemptsInv ==
  /\ IsFiniteSet(Busy)
  /\ \A n \in Notices :
       attempts[n] + InQueue(n) + InWork(n) <= (MaxRetries + 1) * (queue[n] + deaths)

LEMMA Products ==
  \A a, b \in Nat : a * b \in Nat /\ a * (b + 1) = a * b + a /\ (a + 1) * b = a * b + b
OBVIOUS

LEMMA RetriesAreFinite == IsFiniteSet(Retries) /\ \A r \in Retries : MaxRetries + 1 - r \in Nat
BY DeliveryAssumption, FS_Interval DEF Retries

LEMMA QueuedType ==
  ASSUME Delivery!TypeOK, NEW n \in Notices
  PROVE  (\A r \in Retries : Queued(n)[r] \in Nat) /\ InQueue(n) \in Nat
<1>1. \A r \in Retries : Queued(n)[r] \in Nat
  <2> SUFFICES ASSUME NEW r \in Retries PROVE Queued(n)[r] \in Nat  OBVIOUS
  <2>1. broker[Delivery!Msg(n, r)] \in Nat  BY MessageType DEF Delivery!TypeOK, Retries
  <2> QED BY <2>1, Products, RetriesAreFinite DEF Queued
<1> QED BY <1>1, RetriesAreFinite, SumType DEF InQueue

\* A message more or less in the queue, and what its notice is allowed.
LEMMA QueueChanges ==
  ASSUME Delivery!TypeOK, Delivery!TypeOK', NEW m \in Delivery!Message,
         \A k \in Delivery!Message \ {m} : broker'[k] = broker[k]
  PROVE  \A n \in Notices :
           /\ InQueue(n) \in Nat /\ InQueue(n)' \in Nat
           /\ n # m.notice => InQueue(n)' = InQueue(n)
           /\ n = m.notice /\ broker'[m] = broker[m] + 1 => InQueue(n)' = InQueue(n) + Allows(m)
           /\ n = m.notice /\ broker[m] = broker'[m] + 1 => InQueue(n) = InQueue(n)' + Allows(m)
<1> SUFFICES ASSUME NEW n \in Notices
             PROVE  /\ InQueue(n) \in Nat /\ InQueue(n)' \in Nat
                    /\ n # m.notice => InQueue(n)' = InQueue(n)
                    /\ n = m.notice /\ broker'[m] = broker[m] + 1
                         => InQueue(n)' = InQueue(n) + Allows(m)
                    /\ n = m.notice /\ broker[m] = broker'[m] + 1
                         => InQueue(n) = InQueue(n)' + Allows(m)
  OBVIOUS
<1> DEFINE q == m.retries
<1>1. q \in Retries /\ m.notice \in Notices /\ m = Delivery!Msg(m.notice, q)
  BY DEF Delivery!Message, Delivery!Msg, Retries, Notices
<1>2. \A r \in Retries : /\ Queued(n)[r] = broker[Delivery!Msg(n, r)] * (MaxRetries + 1 - r)
                         /\ Queued(n)'[r] = broker'[Delivery!Msg(n, r)] * (MaxRetries + 1 - r)
  BY DEF Queued
<1>3. \A r \in Retries : /\ Delivery!Msg(n, r) \in Delivery!Message
                         /\ Delivery!Msg(n, r).notice = n /\ Delivery!Msg(n, r).retries = r
  BY MessageType DEF Retries
<1>4. \A r \in Retries : Queued(n)[r] \in Nat /\ Queued(n)'[r] \in Nat
  <2>1. \A r \in Retries : /\ broker[Delivery!Msg(n, r)] \in Nat
                           /\ broker'[Delivery!Msg(n, r)] \in Nat
    BY <1>3 DEF Delivery!TypeOK
  <2> QED BY <1>2, <2>1, Products, RetriesAreFinite
<1>5. InQueue(n) \in Nat /\ InQueue(n)' \in Nat
  <2>1. SumFunctionOnSet(Queued(n), Retries) \in Nat /\ SumFunctionOnSet(Queued(n)', Retries) \in Nat
    BY <1>4, RetriesAreFinite, SumType
  <2> QED BY <2>1 DEF InQueue, Retries
<1>6. CASE n # m.notice
  <2>1. \A r \in Retries : Queued(n)'[r] = Queued(n)[r]
    BY <1>2, <1>3, <1>6
  <2>2. SumFunctionOnSet(Queued(n)', Retries) = SumFunctionOnSet(Queued(n), Retries)
    BY <2>1, RetriesAreFinite, SumOfSame
  <2> QED BY <1>5, <1>6, <2>2 DEF InQueue, Retries
<1>7. CASE n = m.notice
  <2>1. \A r \in Retries \ {q} : Queued(n)'[r] = Queued(n)[r]
    BY <1>1, <1>2, <1>3
  <2>2. SumFunctionOnSet(Queued(n)', Retries) + Queued(n)[q] =
          SumFunctionOnSet(Queued(n), Retries) + Queued(n)'[q]
    BY <1>1, <1>4, <2>1, RetriesAreFinite, SumChangesAt
  <2>3. InQueue(n)' + Queued(n)[q] = InQueue(n) + Queued(n)'[q]
    BY <2>2 DEF InQueue, Retries
  <2>4. broker[m] \in Nat /\ broker'[m] \in Nat /\ Allows(m) \in Nat
    BY <1>1, RetriesAreFinite DEF Delivery!TypeOK, Allows
  <2>5. Queued(n)[q] = broker[m] * Allows(m) /\ Queued(n)'[q] = broker'[m] * Allows(m)
    BY <1>1, <1>2, <1>7 DEF Allows
  <2>6. broker'[m] = broker[m] + 1 => Queued(n)'[q] = Queued(n)[q] + Allows(m)
    BY <2>4, <2>5, Products
  <2>7. broker[m] = broker'[m] + 1 => Queued(n)[q] = Queued(n)'[q] + Allows(m)
    BY <2>4, <2>5, Products
  <2>8. Queued(n)[q] \in Nat /\ Queued(n)'[q] \in Nat  BY <1>1, <1>4
  <2> QED BY <1>5, <1>7, <2>3, <2>4, <2>6, <2>7, <2>8
<1> QED BY <1>6, <1>7

LEMMA AtWorkType ==
  ASSUME Delivery!TypeOK, NEW n \in Notices, NEW w \in Deliverers
  PROVE  AtWork(n)[w] \in Nat
<1>1. dpc[w] # "idle" => held[w].retries \in 0 .. MaxRetries
  BY MessageParts DEF Delivery!TypeOK
<1> QED BY <1>1, DeliveryAssumption DEF AtWork, Busy, StillAllows, Allows

\* One worker moves.
LEMMA WorkChanges ==
  ASSUME Delivery!TypeOK, Delivery!TypeOK', IsFiniteSet(Busy), NEW w \in Deliverers,
         \A v \in Deliverers \ {w} : dpc'[v] = dpc[v] /\ held'[v] = held[v]
  PROVE  /\ IsFiniteSet(Busy')
         /\ \A n \in Notices :
              /\ InWork(n) \in Nat /\ InWork(n)' \in Nat
              /\ InWork(n)' + AtWork(n)[w] = InWork(n) + AtWork(n)'[w]
<1>1. Busy' \subseteq Busy \cup {w} /\ Busy \subseteq Busy' \cup {w} /\ Busy \subseteq Deliverers
  BY DEF Busy
<1>2. IsFiniteSet(Busy')  BY <1>1, FS_AddElement, FS_Subset
<1>3. ASSUME NEW n \in Notices
      PROVE  /\ InWork(n) \in Nat /\ InWork(n)' \in Nat
             /\ InWork(n)' + AtWork(n)[w] = InWork(n) + AtWork(n)'[w]
  <2> DEFINE f == AtWork(n)
             g == AtWork(n)'
             S == Busy
             T == Busy'
  <2>1. f[w] \in Nat /\ g[w] \in Nat
    <3>1. AtWork(n)[w] \in Nat  BY AtWorkType
    <3>2. AtWork(n)[w]' \in Nat
      <4>1. dpc'[w] # "idle" => held'[w].retries \in 0 .. MaxRetries
        BY MessageParts DEF Delivery!TypeOK
      <4> QED BY <4>1, DeliveryAssumption DEF AtWork, Busy, StillAllows, Allows
    <3> QED BY <3>1, <3>2
  <2>2. (w \notin S => f[w] = 0) /\ (w \notin T => g[w] = 0)
    BY DEF AtWork
  <2>3. \A v \in S \ {w} : f[v] \in Nat /\ g[v] = f[v]
    BY <1>1, AtWorkType DEF AtWork, Busy, StillAllows
  <2>4. /\ SumFunctionOnSet(f, S) \in Nat /\ SumFunctionOnSet(g, T) \in Nat
        /\ SumFunctionOnSet(g, T) + f[w] = SumFunctionOnSet(f, S) + g[w]
    <3>1. T \subseteq S \cup {w} /\ S \subseteq T \cup {w}  BY <1>1
    <3> HIDE DEF f, g, S, T
    <3> QED BY <2>1, <2>2, <2>3, <3>1, SumChangesAt DEF S
  <2> QED BY <2>4 DEF InWork
<1> QED BY <1>2, <1>3

\* What worker w may still attempt for notice n is its message's, if that is of n.
LEMMA WorkOf ==
  ASSUME NEW n, NEW w \in Deliverers
  PROVE  AtWork(n)[w] = IF dpc[w] # "idle" /\ held[w].notice = n THEN StillAllows(w) ELSE 0
BY DEF AtWork, Busy

\* The attempts made or still allowed of a notice.
Spent(n) == attempts[n] + InQueue(n) + InWork(n)

LEMMA SpentType == Delivery!TypeOK /\ IsFiniteSet(Busy) => \A n \in Notices : Spent(n) \in Nat
<1> SUFFICES ASSUME Delivery!TypeOK, IsFiniteSet(Busy), NEW n \in Notices
             PROVE  Spent(n) \in Nat
  OBVIOUS
<1>1. InWork(n) \in Nat  BY AtWorkType, SumType DEF InWork, Busy
<1> QED BY <1>1, QueuedType DEF Spent, Delivery!TypeOK, Notices

\* Handing a task over allows max_retries + 1 attempts.
LEMMA HandAllows ==
  ASSUME DeliveryInv, DeliveryInv', IsFiniteSet(Busy), NEW n \in Notices, Delivery!Hand(n)
  PROVE  /\ IsFiniteSet(Busy')
         /\ \A k \in Notices : Spent(k)' = Spent(k) + (IF k = n THEN MaxRetries + 1 ELSE 0)
<1> DEFINE m == Delivery!Msg(n, 0)
<1>1. m \in Delivery!Message /\ m.notice = n /\ Allows(m) = MaxRetries + 1
  BY MessageType, DeliveryAssumption DEF Allows
<1>2. broker' = [broker EXCEPT ![m] = @ + 1] /\ UNCHANGED <<dpc, held, attempts>>
  BY DEF Delivery!Hand, Delivery!Publish
<1>3. Delivery!TypeOK /\ Delivery!TypeOK'  BY DEF DeliveryInv
<1> HIDE DEF m
<1>4. /\ \A k \in Delivery!Message \ {m} : broker'[k] = broker[k]
      /\ broker'[m] = broker[m] + 1
  BY <1>1, <1>2, <1>3 DEF Delivery!TypeOK
<1>5. \A k \in Notices : /\ InQueue(k) \in Nat /\ attempts[k] \in Nat
                         /\ InQueue(k)' = InQueue(k) + (IF k = n THEN MaxRetries + 1 ELSE 0)
  BY <1>1, <1>3, <1>4, QueueChanges DEF Delivery!TypeOK, Notices
<1>6. Busy' = Busy /\ \A k \in Notices : InWork(k)' = InWork(k)
  BY <1>2 DEF InWork, AtWork, Busy, StillAllows, Allows
<1>7. \A k \in Notices : InWork(k) \in Nat
  BY <1>3, AtWorkType, SumType DEF InWork, Busy
<1> QED BY <1>2, <1>5, <1>6, <1>7, DeliveryAssumption DEF Spent

\* A worker's own step, short of its death, allows nothing new: an attempt is made, a
\* message moves, or what it allowed is passed on to its retry or given up.
LEMMA WorkAllowsNothing ==
  ASSUME DeliveryInv, DeliveryInv', IsFiniteSet(Busy), NEW w \in Deliverers, Delivery!Work(w)
  PROVE  /\ IsFiniteSet(Busy') /\ UNCHANGED <<queue, deaths>>
         /\ \A n \in Notices : Spent(n)' <= Spent(n)
<1>1. Delivery!TypeOK /\ Delivery!TypeOK'  BY DEF DeliveryInv
<1>2. \A v \in Deliverers \ {w} : dpc'[v] = dpc[v] /\ held'[v] = held[v]
  BY <1>1 DEF Delivery!Work, Delivery!Take, Delivery!Post, Delivery!Succeed, Delivery!Retry,
              Delivery!Ack, Delivery!Exhaust, Delivery!Abort, Delivery!Release, Delivery!Goto,
              Delivery!TypeOK
<1>3. UNCHANGED <<queue, deaths>>
  BY DEF Delivery!Work, Delivery!Take, Delivery!Post, Delivery!Succeed, Delivery!Retry,
         Delivery!Ack, Delivery!Exhaust, Delivery!Abort
<1>4. /\ IsFiniteSet(Busy')
      /\ \A n \in Notices :
           /\ InWork(n) \in Nat /\ InWork(n)' \in Nat
           /\ InWork(n)' + AtWork(n)[w] = InWork(n) + AtWork(n)'[w]
  BY <1>1, <1>2, WorkChanges
<1>5. \A n \in Notices :
        /\ attempts[n] \in Nat /\ InQueue(n) \in Nat /\ AtWork(n)[w] \in Nat
        /\ AtWork(n)'[w] = IF dpc'[w] # "idle" /\ held'[w].notice = n THEN StillAllows(w)'
                                                                     ELSE 0
  BY <1>1, QueuedType, AtWorkType DEF AtWork, Busy, Delivery!TypeOK, Notices
<1>6. ASSUME UNCHANGED <<broker, attempts>>, dpc'[w] = "idle"
      PROVE  \A n \in Notices : Spent(n)' <= Spent(n)
  <2>1. \A n \in Notices : InQueue(n)' = InQueue(n) /\ attempts'[n] = attempts[n]
    BY <1>6 DEF InQueue, Queued
  <2>2. \A n \in Notices : AtWork(n)'[w] = 0  BY <1>5, <1>6
  <2> QED BY <1>4, <1>5, <2>1, <2>2 DEF Spent
<1>7. CASE Delivery!Succeed(w) \/ Delivery!Ack(w) \/ Delivery!Exhaust(w) \/ Delivery!Abort(w)
  <2>1. UNCHANGED <<broker, attempts>> /\ dpc'[w] = "idle"
    BY <1>1, <1>7 DEF Delivery!Succeed, Delivery!Ack, Delivery!Exhaust, Delivery!Abort,
                      Delivery!Release, Delivery!Goto, Delivery!TypeOK
  <2> QED BY <1>3, <1>4, <1>6, <2>1
<1>8. CASE Delivery!Take(w)
  <2>1. PICK m \in Delivery!Message :
          broker[m] > 0 /\ broker' = [broker EXCEPT ![m] = @ - 1] /\ held' = [held EXCEPT ![w] = m]
    BY <1>8 DEF Delivery!Take
  <2>2. dpc[w] = "idle" /\ dpc'[w] = "post" /\ held'[w] = m /\ attempts' = attempts
    BY <1>1, <1>8, <2>1 DEF Delivery!Take, Delivery!Goto, Delivery!TypeOK
  <2>3. (\A k \in Delivery!Message \ {m} : broker'[k] = broker[k]) /\ broker[m] = broker'[m] + 1
    BY <1>1, <2>1 DEF Delivery!TypeOK
  <2>4. ASSUME NEW n \in Notices  PROVE Spent(n)' <= Spent(n)
    <3>1. AtWork(n)[w] = 0 /\ AtWork(n)'[w] = IF m.notice = n THEN Allows(m) ELSE 0
      BY <1>5, <2>2, WorkOf DEF StillAllows
    <3>2. InQueue(n)' \in Nat /\ InQueue(n) = InQueue(n)' + IF m.notice = n THEN Allows(m) ELSE 0
      BY <1>1, <2>3, QueueChanges
    <3>3. Allows(m) \in Nat  BY MessageParts, RetriesAreFinite DEF Allows, Retries
    <3> QED BY <1>4, <1>5, <2>2, <3>1, <3>2, <3>3 DEF Spent
  <2> QED BY <1>3, <1>4, <2>4
<1>9. CASE Delivery!Post(w)
  <2> DEFINE n == held[w].notice
  <2>1. /\ dpc[w] = "post" /\ dpc'[w] \in {"answered", "failed", "raised"}
        /\ held' = held /\ broker' = broker /\ attempts' = [attempts EXCEPT ![n] = @ + 1]
    BY <1>1, <1>9 DEF Delivery!Post, Delivery!Goto, Delivery!TypeOK
  <2>2. n \in Notices /\ held[w].retries \in 0 .. MaxRetries
    BY <1>1, <2>1, MessageParts DEF Delivery!TypeOK
  <2>3. ASSUME NEW k \in Notices  PROVE Spent(k)' <= Spent(k)
    <3>1. InQueue(k)' = InQueue(k)  BY <2>1 DEF InQueue, Queued
    <3>2. attempts'[k] = attempts[k] + IF k = n THEN 1 ELSE 0
      BY <1>1, <2>1 DEF Delivery!TypeOK, Notices
    <3>3. /\ AtWork(k)[w] = IF k = n THEN MaxRetries + 1 - held[w].retries ELSE 0
          /\ AtWork(k)'[w] = IF k = n THEN MaxRetries - held[w].retries ELSE 0
      BY <1>5, <2>1, WorkOf DEF StillAllows, Allows
    <3> QED BY <1>4, <1>5, <2>2, <3>1, <3>2, <3>3, DeliveryAssumption DEF Spent
  <2> QED BY <1>3, <1>4, <2>3
<1>10. CASE Delivery!Retry(w)
  <2> DEFINE n == held[w].notice
             r == held[w].retries
             m == Delivery!Msg(n, r + 1)
  <2>1. /\ dpc[w] = "failed" /\ dpc'[w] = "ack" /\ held' = held /\ attempts' = attempts
        /\ r + 1 <= MaxRetries /\ broker' = [broker EXCEPT ![m] = @ + 1]
    BY <1>1, <1>10
    DEF Delivery!Retry, Delivery!Goto, Delivery!MayRetry, Delivery!Publish, Delivery!TypeOK
  <2>2. n \in Notices /\ r \in 0 .. MaxRetries
    BY <1>1, <2>1, MessageParts DEF Delivery!TypeOK
  <2>3. m \in Delivery!Message /\ m.notice = n /\ Allows(m) = MaxRetries - r
    <3>1. r + 1 \in 0 .. MaxRetries  BY <2>1, <2>2, DeliveryAssumption
    <3>2. m \in Delivery!Message /\ m.notice = n /\ m.retries = r + 1  BY <2>2, <3>1, MessageType
    <3> HIDE DEF m
    <3> QED BY <2>2, <3>2, DeliveryAssumption DEF Allows
  <2> HIDE DEF m
  <2>4. (\A k \in Delivery!Message \ {m} : broker'[k] = broker[k]) /\ broker'[m] = broker[m] + 1
    BY <1>1, <2>1, <2>3 DEF Delivery!TypeOK
  <2>5. ASSUME NEW k \in Notices  PROVE Spent(k)' <= Spent(k)
    <3>1. InQueue(k)' = InQueue(k) + IF k = n THEN MaxRetries - r ELSE 0
      BY <1>1, <1>5, <2>3, <2>4, QueueChanges
    <3>2. AtWork(k)[w] = (IF k = n THEN MaxRetries - r ELSE 0) /\ AtWork(k)'[w] = 0
      BY <1>5, <2>1, WorkOf DEF StillAllows
    <3> QED BY <1>4, <1>5, <2>1, <2>2, <3>1, <3>2, DeliveryAssumption DEF Spent
  <2> QED BY <1>3, <1>4, <2>5
<1> QED BY <1>7, <1>8, <1>9, <1>10 DEF Delivery!Work

\* A death gives the message back, whose attempts then count anew.
LEMMA DeathAllows ==
  ASSUME DeliveryInv, DeliveryInv', IsFiniteSet(Busy), NEW w \in Deliverers, Delivery!Die(w)
  PROVE  /\ IsFiniteSet(Busy') /\ UNCHANGED queue /\ deaths' = deaths + 1
         /\ \A n \in Notices : Spent(n)' <= Spent(n) + (MaxRetries + 1)
<1> DEFINE m == held[w]
<1>1. Delivery!TypeOK /\ Delivery!TypeOK'  BY DEF DeliveryInv
<1>2. /\ dpc[w] # "idle" /\ dpc'[w] = "idle" /\ UNCHANGED <<queue, attempts>>
      /\ deaths' = deaths + 1 /\ broker' = [broker EXCEPT ![m] = @ + 1]
      /\ \A v \in Deliverers \ {w} : dpc'[v] = dpc[v] /\ held'[v] = held[v]
  BY <1>1 DEF Delivery!Die, Delivery!Release, Delivery!Goto, Delivery!Publish, Delivery!TypeOK
<1>3. m \in Delivery!Message /\ m.retries \in 0 .. MaxRetries
  BY <1>1, <1>2, MessageParts DEF Delivery!TypeOK
<1> HIDE DEF m
<1>4. (\A k \in Delivery!Message \ {m} : broker'[k] = broker[k]) /\ broker'[m] = broker[m] + 1
  BY <1>1, <1>2, <1>3 DEF Delivery!TypeOK
<1>5. Allows(m) \in Nat /\ Allows(m) <= MaxRetries + 1
  BY <1>3, DeliveryAssumption DEF Allows
<1>6. /\ IsFiniteSet(Busy')
      /\ \A n \in Notices :
           /\ InWork(n) \in Nat /\ InWork(n)' \in Nat
           /\ InWork(n)' + AtWork(n)[w] = InWork(n) + AtWork(n)'[w]
  BY <1>1, <1>2, WorkChanges
<1>7. ASSUME NEW n \in Notices  PROVE Spent(n)' <= Spent(n) + (MaxRetries + 1)
  <2>1. AtWork(n)[w] \in Nat /\ attempts[n] \in Nat
    BY <1>1, AtWorkType DEF Delivery!TypeOK, Notices
  <2>2. AtWork(n)'[w] = 0  BY <1>2 DEF AtWork, Busy
  <2>3. InQueue(n) \in Nat /\ InQueue(n)' \in Nat /\ InQueue(n)' <= InQueue(n) + Allows(m)
    BY <1>1, <1>3, <1>4, <1>5, QueueChanges
  <2> QED BY <1>2, <1>5, <1>6, <2>1, <2>2, <2>3, DeliveryAssumption DEF Spent
<1> QED BY <1>2, <1>6, <1>7

LEMMA AttemptsInvStep ==
  ASSUME DeliveryInv, DeliveryInv', AttemptsInv, [NotificationNext]_<<vars, workerVars>>
  PROVE  AttemptsInv'
<1> DEFINE Paid(n) == (MaxRetries + 1) * (queue[n] + deaths)
<1>1. /\ IsFiniteSet(Busy) /\ MaxRetries + 1 \in Nat
      /\ \A n \in Notices : queue[n] + deaths \in Nat /\ Paid(n) \in Nat
  <2>1. \A n \in Notices : queue[n] + deaths \in Nat
    BY DeliveryAssumption DEF DeliveryInv, Delivery!TypeOK, Notices
  <2> QED BY <2>1, Products, DeliveryAssumption DEF AttemptsInv
<1>2. \A n \in Notices : Spent(n) <= Paid(n)
  BY DEF AttemptsInv, Spent
<1>3. /\ \A n \in Notices : Spent(n) \in Nat
      /\ IsFiniteSet(Busy') => \A n \in Notices : Spent(n)' \in Nat
  <2>1. \A n \in Notices : Spent(n) \in Nat  BY <1>1, SpentType DEF DeliveryInv
  <2>2. Delivery!TypeOK' /\ IsFiniteSet(Busy)' => (\A n \in Notices : Spent(n) \in Nat)'
    BY SpentType, PTL
  <2> QED BY <2>1, <2>2 DEF DeliveryInv
<1>4. SUFFICES IsFiniteSet(Busy') /\ \A n \in Notices : Spent(n)' <= Paid(n)'
  BY DEF AttemptsInv, Spent
<1>5. \A n \in Notices :
        (MaxRetries + 1) * ((queue[n] + deaths) + 1) = Paid(n) + (MaxRetries + 1)
  BY <1>1, Products
<1>6. CASE UNCHANGED <<queue, workerVars>>
  <2>1. Busy' = Busy /\ \A n \in Notices : Spent(n)' = Spent(n) /\ Paid(n)' = Paid(n)
    BY <1>6 DEF workerVars, Spent, InQueue, InWork, Queued, AtWork, Busy, StillAllows
  <2> QED BY <1>1, <1>2, <2>1
<1>7. ASSUME NEW n \in Notices, Delivery!Hand(n)
      PROVE  IsFiniteSet(Busy') /\ \A k \in Notices : Spent(k)' <= Paid(k)'
  <2>1. /\ IsFiniteSet(Busy')
        /\ \A k \in Notices : Spent(k)' = Spent(k) + (IF k = n THEN MaxRetries + 1 ELSE 0)
    BY <1>1, <1>7, HandAllows
  <2>2. deaths' = deaths /\ \A k \in Notices : queue'[k] = queue[k] + (IF k = n THEN 1 ELSE 0)
    BY <1>7 DEF Delivery!Hand, DeliveryInv, Delivery!TypeOK, Notices
  <2>3. Paid(n)' = Paid(n) + (MaxRetries + 1)
    <3>1. queue'[n] + deaths' = (queue[n] + deaths) + 1
      BY <2>2, DeliveryAssumption DEF DeliveryInv, Delivery!TypeOK, Notices
    <3> QED BY <1>5, <3>1
  <2>4. \A k \in Notices \ {n} : Paid(k)' = Paid(k)
    BY <2>2 DEF DeliveryInv, Delivery!TypeOK, Notices
  <2>5. Spent(n)' <= Paid(n)'
    <3> HIDE DEF Paid
    <3> QED BY <1>1, <1>2, <1>3, <2>1, <2>3
  <2>6. \A k \in Notices \ {n} : Spent(k)' <= Paid(k)'
    <3> HIDE DEF Paid
    <3> QED BY <1>1, <1>2, <1>3, <2>1, <2>4
  <2> QED BY <2>1, <2>5, <2>6
<1>8. ASSUME NEW w \in Deliverers, Delivery!Work(w)
      PROVE  IsFiniteSet(Busy') /\ \A k \in Notices : Spent(k)' <= Paid(k)'
  <2>1. /\ IsFiniteSet(Busy') /\ UNCHANGED <<queue, deaths>>
        /\ \A k \in Notices : Spent(k)' <= Spent(k)
    BY <1>1, <1>8, WorkAllowsNothing
  <2>2. ASSUME NEW k \in Notices  PROVE Spent(k)' <= Paid(k)'
    <3>1. Paid(k)' = Paid(k)  BY <2>1
    <3> HIDE DEF Paid
    <3> QED BY <1>1, <1>2, <1>3, <2>1, <3>1
  <2> QED BY <2>1, <2>2
<1>9. ASSUME NEW w \in Deliverers, Delivery!Die(w)
      PROVE  IsFiniteSet(Busy') /\ \A k \in Notices : Spent(k)' <= Paid(k)'
  <2>1. /\ IsFiniteSet(Busy') /\ queue' = queue /\ deaths' = deaths + 1
        /\ \A k \in Notices : Spent(k)' <= Spent(k) + (MaxRetries + 1)
    BY <1>1, <1>9, DeathAllows
  <2>2. ASSUME NEW k \in Notices  PROVE Spent(k)' <= Paid(k)'
    <3>1. Paid(k)' = Paid(k) + (MaxRetries + 1)
      <4>1. queue'[k] + deaths' = (queue[k] + deaths) + 1
        BY <2>1, DeliveryAssumption DEF DeliveryInv, Delivery!TypeOK, Notices
      <4> QED BY <1>5, <4>1
    <3> HIDE DEF Paid
    <3> QED BY <1>1, <1>2, <1>3, <2>1, <3>1
  <2> QED BY <2>1, <2>2
<1> QED BY <1>6, <1>7, <1>8, <1>9, StepsOfTheWhole DEF Delivery!Step

\* Attempts are bounded: a task makes max_retries + 1 of them at most, and a death pays for
\* one more chain of retries at most, also one between a retry and its acknowledgement.
THEOREM AttemptsEnd == NotificationSpec => []AttemptsStayBounded
<1>1. NotificationInit => AttemptsInv
  <2> SUFFICES ASSUME NotificationInit PROVE AttemptsInv  OBVIOUS
  <2>1. Busy = {}  BY DEF NotificationInit, Delivery!Init, Busy
  <2>2. ASSUME NEW n \in Notices
        PROVE  attempts[n] + InQueue(n) + InWork(n) <= (MaxRetries + 1) * (queue[n] + deaths)
    <3>1. attempts[n] = 0 /\ queue[n] = 0 /\ deaths = 0
      BY DEF NotificationInit, Delivery!Init, Notices
    <3>2. ASSUME NEW r \in Retries  PROVE Queued(n)[r] = 0
      <4>1. Delivery!Msg(n, r) \in Delivery!Message  BY MessageType DEF Retries, Notices
      <4>2. broker[Delivery!Msg(n, r)] = 0  BY <4>1 DEF NotificationInit, Delivery!Init
      <4>3. MaxRetries + 1 - r \in Nat  BY DeliveryAssumption DEF Retries
      <4> QED BY <4>2, <4>3 DEF Queued
    <3>3. InQueue(n) = 0  BY <3>2, RetriesAreFinite, SumOfZeros DEF InQueue
    <3>4. InWork(n) = 0  BY <2>1, SumOfNothing DEF InWork
    <3> QED BY <3>1, <3>3, <3>4, DeliveryAssumption
  <2> QED BY <2>1, <2>2, FS_EmptySet DEF AttemptsInv
<1>2. DeliveryInv /\ DeliveryInv' /\ AttemptsInv /\ [NotificationNext]_<<vars, workerVars>>
        => AttemptsInv'
  BY AttemptsInvStep
<1>3. DeliveryInv /\ AttemptsInv => AttemptsStayBounded
  <2> SUFFICES ASSUME DeliveryInv, AttemptsInv, NEW n \in Notices
               PROVE  attempts[n] <= (MaxRetries + 1) * (queue[n] + deaths)
    BY DEF AttemptsStayBounded, Delivery!AttemptsAreBounded, Notices
  <2>1. attempts[n] \in Nat /\ InQueue(n) \in Nat
    BY QueuedType DEF DeliveryInv, Delivery!TypeOK, Notices
  <2>2. InWork(n) \in Nat
    BY AtWorkType, SumType DEF AttemptsInv, DeliveryInv, InWork, Busy
  <2>3. (MaxRetries + 1) * (queue[n] + deaths) \in Nat
    <3>1. queue[n] \in Nat /\ deaths \in Nat /\ MaxRetries + 1 \in Nat
      BY DeliveryAssumption DEF DeliveryInv, Delivery!TypeOK, Notices
    <3>2. queue[n] + deaths \in Nat  BY <3>1
    <3> QED BY <3>1, <3>2, Products
  <2> QED BY <2>1, <2>2, <2>3 DEF AttemptsInv
<1> QED BY <1>1, <1>2, <1>3, DeliveryInvariant, PTL DEF NotificationSpec

-----------------------------------------------------------------------------
\* A finalised transaction that no callback is at work on has a notice of its outcome
\* which waits, is being delivered, or has come to an end after attempts that were made.
OutcomeIsCarried ==
  \A t \in Txns :
    Owed(t) /\ (\A c \in Callbacks : cpc[c] # "idle" => creq[c].txn # t)
      => \E e \in Event : /\ txns[t].state = TargetOf(e)
                          /\ \/ Delivery!Live(<<t, e>>)
                             \/ Delivery!Concluded(<<t, e>>) /\ attempts[<<t, e>>] > 0

\* End to end, while no callback dies: from the commit on every outcome is carried towards
\* its merchant, by the callback, by Celery's queue or by a worker, whatever workers die.
THEOREM OutcomesAreCarried ==
  ASSUME NoCallbackDies  PROVE NotificationSpec => []OutcomeIsCarried
<1>1. NoticeInv /\ OwedIsHandled /\ DeliveryInv => OutcomeIsCarried
  <2> SUFFICES ASSUME NoticeInv, OwedIsHandled, DeliveryInv, NEW t \in Txns, Owed(t),
                      \A c \in Callbacks : cpc[c] # "idle" => creq[c].txn # t
               PROVE  \E e \in Event :
                        /\ txns[t].state = TargetOf(e)
                        /\ \/ Delivery!Live(<<t, e>>)
                           \/ Delivery!Concluded(<<t, e>>) /\ attempts[<<t, e>>] > 0
    BY DEF OutcomeIsCarried
  <2>1. PICK e \in Event : queue[<<t, e>>] > 0  BY DEF OwedIsHandled, NotifyPc
  <2>2. txns[t].state = TargetOf(e)
    <3>1. queue[<<t, e>>] \in Nat /\ outbox[<<t, e>>] \in Nat
      BY DEF NoticeInv, SettlementInv, TypeOK, CallbackTypeOK
    <3> QED BY <2>1, <3>1 DEF NoticeInv, NoticesAreTrue
  <2>3. <<t, e>> \in Notices  BY DEF Notices
  <2>4. Delivery!Live(<<t, e>>) \/ Delivery!Concluded(<<t, e>>)
    BY <2>1, <2>3 DEF DeliveryInv, NoticeIsNeverLost, Delivery!NothingIsLost, Notices
  <2>5. Delivery!Concluded(<<t, e>>) => attempts[<<t, e>>] > 0
    BY <2>3 DEF DeliveryInv, EndsAreEarned
  <2> QED BY <2>2, <2>4, <2>5
<1> QED BY <1>1, CoreIsUndisturbed, NoticeInvHolds, OwedIsHandledHolds, DeliveryInvariant, PTL

-----------------------------------------------------------------------------
\* The refinement mapping.
phase == [n \in Notices |-> Delivery!PhaseOf(n)]

LEMMA PhaseRange ==
  \A n : Delivery!PhaseOf(n) \in {"none", "pending", "told", "exhausted", "aborted"}
BY DEF Delivery!PhaseOf

\* A step that makes no attempt and changes what has become of one notice at most.
LEMMA PhaseStep ==
  ASSUME NEW n \in Notices, UNCHANGED attempts,
         \A k \in Notices \ {n} : Delivery!PhaseOf(k)' = Delivery!PhaseOf(k),
         \/ Delivery!PhaseOf(n)' = Delivery!PhaseOf(n)
         \/ Delivery!PhaseOf(n) = "none" /\ Delivery!PhaseOf(n)' = "pending"
         \/ /\ Delivery!PhaseOf(n) \in {"pending", "aborted", "exhausted"}
            /\ Delivery!PhaseOf(n)' = "told"
            /\ attempts[n] > 0
         \/ /\ Delivery!PhaseOf(n) \in {"pending", "aborted"}
            /\ Delivery!PhaseOf(n)' = "exhausted"
            /\ attempts[n] >= MaxRetries
         \/ /\ Delivery!PhaseOf(n) = "pending"
            /\ Delivery!PhaseOf(n)' = "aborted"
            /\ attempts[n] > 0
  PROVE  [Delivery!Promise!Next]_(Delivery!Promise!promiseVars)
<1>1. phase[n] = Delivery!PhaseOf(n)  BY DEF phase
<1>2. phase' = [phase EXCEPT ![n] = Delivery!PhaseOf(n)']  BY DEF phase
<1> QED
  BY <1>1, <1>2
  DEF Delivery!Promise!Next, Delivery!Promise!promiseVars, Delivery!Promise!Accept,
      Delivery!Promise!Tell, Delivery!Promise!Exhaust, Delivery!Promise!Abort, phase, Notices

LEMMA HandRefines ==
  ASSUME DeliveryInv, NEW n \in Notices, Delivery!Hand(n)
  PROVE  [Delivery!Promise!Next]_(Delivery!Promise!promiseVars)
<1>1. queue' = [queue EXCEPT ![n] = @ + 1] /\ UNCHANGED <<attempts, told, exhausted, aborted>>
  BY DEF Delivery!Hand, Delivery!endVars
<1>2. queue[n] \in Nat /\ queue'[n] = queue[n] + 1 /\ \A k \in Notices \ {n} : queue'[k] = queue[k]
  BY <1>1 DEF DeliveryInv, Delivery!TypeOK, Notices
<1>3. \A k \in Notices \ {n} : Delivery!PhaseOf(k)' = Delivery!PhaseOf(k)
  BY <1>1, <1>2 DEF Delivery!PhaseOf
<1>4. \/ Delivery!PhaseOf(n)' = Delivery!PhaseOf(n)
      \/ Delivery!PhaseOf(n) = "none" /\ Delivery!PhaseOf(n)' = "pending"
  BY <1>1, <1>2 DEF Delivery!PhaseOf
<1> QED BY <1>1, <1>3, <1>4, PhaseStep

\* A task ends: its notice, which was attempted, ends with it unless it had already.
LEMMA EndRefines ==
  ASSUME DeliveryInv, NEW n \in Notices, queue[n] > 0, attempts[n] > 0,
         UNCHANGED <<queue, attempts>>,
         told' \in {told, told \cup {n}},
         aborted' \in {aborted, aborted \cup {n}},
         exhausted' = exhausted \/ (exhausted' = exhausted \cup {n} /\ attempts[n] >= MaxRetries),
         told' = told \/ exhausted' = exhausted, told' = told \/ aborted' = aborted,
         exhausted' = exhausted \/ aborted' = aborted
  PROVE  [Delivery!Promise!Next]_(Delivery!Promise!promiseVars)
<1>1. \A k \in Notices \ {n} : Delivery!PhaseOf(k)' = Delivery!PhaseOf(k)
  BY DEF Delivery!PhaseOf
<1>2. \/ Delivery!PhaseOf(n)' = Delivery!PhaseOf(n)
      \/ /\ Delivery!PhaseOf(n) \in {"pending", "aborted", "exhausted"}
         /\ Delivery!PhaseOf(n)' = "told"
      \/ /\ Delivery!PhaseOf(n) \in {"pending", "aborted"}
         /\ Delivery!PhaseOf(n)' = "exhausted" /\ attempts[n] >= MaxRetries
      \/ Delivery!PhaseOf(n) = "pending" /\ Delivery!PhaseOf(n)' = "aborted"
  BY DEF Delivery!PhaseOf
<1> QED BY <1>1, <1>2, PhaseStep

LEMMA PostRefines ==
  ASSUME DeliveryInv, NEW w \in Deliverers, Delivery!Post(w)
  PROVE  [Delivery!Promise!Next]_(Delivery!Promise!promiseVars)
<1> DEFINE n == held[w].notice
<1>1. attempts' = [attempts EXCEPT ![n] = @ + 1] /\ UNCHANGED <<queue, told, exhausted, aborted>>
      /\ dpc[w] = "post"
  BY DEF Delivery!Post, Delivery!endVars
<1>2. n \in Notices /\ queue[n] > 0
  BY <1>1, HeldMessage
<1> HIDE DEF n
<1>3. phase' = phase
  BY <1>1 DEF phase, Delivery!PhaseOf
<1>4. phase[n] # "none"
  BY <1>2 DEF phase, Delivery!PhaseOf
<1> QED
  BY <1>1, <1>2, <1>3, <1>4
  DEF Delivery!Promise!Next, Delivery!Promise!Attempt, phase, Notices

LEMMA StepRefines ==
  ASSUME DeliveryInv, NEW w \in Deliverers, Delivery!Step(w)
  PROVE  [Delivery!Promise!Next]_(Delivery!Promise!promiseVars)
<1> DEFINE n == held[w].notice
<1> USE DEF Delivery!endVars
<1>1. CASE Delivery!Post(w)  BY <1>1, PostRefines
<1>2. CASE UNCHANGED <<queue, attempts, told, exhausted, aborted>>
  BY <1>2 DEF Delivery!Promise!promiseVars, Delivery!PhaseOf
<1>3. ASSUME dpc[w] \notin {"idle", "post"}
      PROVE  n \in Notices /\ queue[n] > 0 /\ attempts[n] > 0
  BY <1>3, HeldMessage DEF DeliveryInv, MessagesAreCounted
<1>4. CASE Delivery!Succeed(w)
  BY <1>3, <1>4, EndRefines DEF Delivery!Succeed
<1>5. CASE Delivery!Exhaust(w)
  <2>1. attempts[n] >= MaxRetries
    BY <1>5, HeldMessage, DeliveryAssumption
    DEF Delivery!Exhaust, Delivery!MayRetry, DeliveryInv, MessagesAreCounted, Delivery!TypeOK
  <2> QED BY <1>3, <1>5, <2>1, EndRefines DEF Delivery!Exhaust
<1>6. CASE Delivery!Abort(w)
  BY <1>3, <1>6, EndRefines DEF Delivery!Abort
<1> QED
  BY <1>1, <1>2, <1>4, <1>5, <1>6
  DEF Delivery!Step, Delivery!Work, Delivery!Take, Delivery!Retry, Delivery!Ack, Delivery!Die

\* The delivery implements the promise: nothing is given up as exhausted before all
\* attempts were made, and no task ends without an attempt.
THEOREM DeliveryRefines == NotificationSpec => KeepsThePromise
<1>1. NotificationInit => Delivery!Promise!Init
  BY DEF NotificationInit, Init, CallbackInit, Delivery!Init, Delivery!Promise!Init,
         Delivery!PhaseOf
<1>2. DeliveryInv /\ [NotificationNext]_<<vars, workerVars>>
        => [Delivery!Promise!Next]_(Delivery!Promise!promiseVars)
  <2> SUFFICES ASSUME DeliveryInv, [NotificationNext]_<<vars, workerVars>>
               PROVE  [Delivery!Promise!Next]_(Delivery!Promise!promiseVars)
    OBVIOUS
  <2>1. CASE UNCHANGED <<queue, workerVars>>
    BY <2>1 DEF workerVars, Delivery!Promise!promiseVars, Delivery!PhaseOf
  <2>2. CASE \E n \in Notices : Delivery!Hand(n)  BY <2>2, HandRefines
  <2>3. CASE \E w \in Deliverers : Delivery!Step(w)  BY <2>3, StepRefines
  <2> QED BY <2>1, <2>2, <2>3, StepsOfTheWhole
<1> QED
  BY <1>1, <1>2, DeliveryInvariant, PTL
  DEF NotificationSpec, KeepsThePromise, Delivery!DeliversAsPromised, Delivery!Promise!Spec
=============================================================================
