--------------------------- MODULE GatewayProofs ---------------------------
(***************************************************************************)
(* Order creation behind its middleware, for any number of attempts,       *)
(* requests and merchants, any quota and any window: the rate limiter and  *)
(* the endpoint are an application as Idempotency expects it, so its       *)
(* theorems hold of the whole; merchants are told of one order per key,    *)
(* the cache tells what was done, and quotas hold.                         *)
(***************************************************************************)
EXTENDS Gateway, IdempotencyProofs

\* A step of the whole, by the layer that makes it.
LEMMA StepsOfTheGateway ==
  ASSUME [GatewayNext]_gatewayVars
  PROVE  \/ UNCHANGED gatewayVars
         \/ \E q \in Requests : Limiting(q) \/ Creating(q) \/ Committing(q) \/ Dying(q)
         \/ \E a \in Attempts : Responding(a) \/ Raising(a) \/ Wrapping(a)
         \/ Expire /\ UNCHANGED <<quotaVars, orderVars>>
         \/ Quota!Tick /\ UNCHANGED <<vars, orderVars>>
BY DEF GatewayNext

LEMMA LayersKeepTheKey ==
  ASSUME [GatewayNext]_gatewayVars
  PROVE  [Next]_vars
<1>1. CASE UNCHANGED gatewayVars  BY <1>1 DEF gatewayVars
<1>2. ASSUME NEW q \in Requests, Limiting(q) \/ Creating(q)  PROVE [Next]_vars
  BY <1>2 DEF Limiting, Creating
<1>3. ASSUME NEW q \in Requests, Committing(q)  PROVE [Next]_vars
  <2>1. CASE q \in Attempts /\ q \notin effects
    <3>1. TakeEffect(q)
      BY <1>3, <2>1 DEF Committing, TakeEffect, Inside
    <3> QED BY <2>1, <3>1 DEF Next, Step
  <2>2. CASE ~(q \in Attempts /\ q \notin effects)
    BY <1>3, <2>2 DEF Committing, vars
  <2> QED BY <2>1, <2>2
<1>4. ASSUME NEW q \in Requests, Dying(q)  PROVE [Next]_vars
  BY <1>4 DEF Dying, Next, Step
<1>5. ASSUME NEW a \in Attempts, Responding(a) \/ Raising(a)  PROVE [Next]_vars
  BY <1>5 DEF Responding, Raising, Next, Step, Progress
<1>6. ASSUME NEW a \in Attempts, Wrapping(a)  PROVE [Next]_vars
  BY <1>6 DEF Wrapping, Next, Step, Progress
<1>7. CASE Expire  BY <1>7 DEF Next
<1> QED
  BY <1>1, <1>2, <1>3, <1>4, <1>5, <1>6, <1>7, StepsOfTheGateway

\* The rate limiter and the endpoint are an application as Idempotency expects it:
\* whatever it promises, the gateway keeps.
THEOREM GatewayIsIdempotent == GatewaySpec => Spec
<1>1. GatewayInit => Init  BY DEF GatewayInit
<1>2. [GatewayNext]_gatewayVars => [Next]_vars  BY LayersKeepTheKey
<1> QED BY <1>1, <1>2, PTL DEF GatewaySpec, Spec

LEMMA KeyInvOfGateway == GatewaySpec => []KeyInv
BY GatewayIsIdempotent, KeyInvHolds, PTL

-----------------------------------------------------------------------------
\* The unique index, and what a request may name: an order of its merchant and key.
OrderInv ==
  /\ Order!TypeOK
  /\ \A o, p \in orders : KeyOf[o] = KeyOf[p] => o = p
  /\ \A q \in Requests :
       /\ reply[q] # NoOrder =>
            /\ reply[q] \in orders
            /\ KeyOf[reply[q]] = KeyOf[q]
            /\ MerchantOf[reply[q]] = MerchantOf[q]
       /\ opc[q] = "refresh" => q \in orders

LEMMA OrderStepKeepsInv ==
  ASSUME OrderInv, NEW q \in Requests,
         \/ Order!Reject(q)
         \/ Order!Replay(q)
         \/ Order!FindNone(q)
         \/ Order!Insert(q)
         \/ Order!Conflict(q)
         \/ Order!Refresh(q)
         \/ Order!Fail(q)
  PROVE  OrderInv'
<1> USE DEF Order!Goto, OrderInv, Order!TypeOK, Order!OrderPc
<1>1. CASE Order!Replay(q)
  <2>1. PICK o \in Order!Existing(q) : Order!Created(q, o)
    BY <1>1 DEF Order!Replay
  <2> QED BY <1>1, <2>1 DEF Order!Replay, Order!Created, Order!Existing
<1>2. CASE Order!FindNone(q)  BY <1>2 DEF Order!FindNone
<1>3. CASE Order!Insert(q)  BY <1>3 DEF Order!Insert, Order!KeyTaken
<1>4. CASE Order!Conflict(q)  BY <1>4 DEF Order!Conflict
<1>5. CASE Order!Refresh(q)  BY <1>5 DEF Order!Refresh, Order!Created
<1>6. CASE Order!Fail(q)  BY <1>6 DEF Order!Fail
<1>7. CASE Order!Reject(q)  BY <1>7 DEF Order!Reject
<1> QED BY <1>1, <1>2, <1>3, <1>4, <1>5, <1>6, <1>7

LEMMA OrderInvHolds == GatewaySpec => []OrderInv
<1>1. GatewayInit => OrderInv
  BY DEF GatewayInit, Order!Init, OrderInv, Order!TypeOK, Order!OrderPc
<1>2. OrderInv /\ [GatewayNext]_gatewayVars => OrderInv'
  <2> SUFFICES ASSUME OrderInv, [GatewayNext]_gatewayVars  PROVE OrderInv'  OBVIOUS
  <2>1. CASE UNCHANGED orderVars
    BY <2>1 DEF orderVars, OrderInv, Order!TypeOK
  <2>2. ASSUME NEW q \in Requests, Creating(q) \/ Committing(q)  PROVE OrderInv'
    BY <2>2, OrderStepKeepsInv DEF Creating, Committing
  <2> QED
    BY <2>1, <2>2, StepsOfTheGateway
    DEF gatewayVars, Limiting, Dying, Responding, Raising, Wrapping
<1> QED BY <1>1, <1>2, PTL DEF GatewaySpec

\* An answer was computed for a request with the same header, or the request itself.
LEMMA ComputedForPeer ==
  ASSUME TypeOK, NEW q \in Requests
  PROVE  /\ ComputedFor(q) \in Requests
         /\ q \in Attempts => ComputedFor(q) \in Attempts
         /\ q \notin Attempts => ComputedFor(q) = q
<1>1. q \in Attempts /\ answer[q].kind = "response" => answer[q].of \in Attempts
  BY DEF TypeOK, Answer
<1> QED BY <1>1 DEF ComputedFor, Requests

\* What a client was told is an order of the merchant and key that it was computed for.
LEMMA ToldIsOwn ==
  ASSUME TypeOK, OrderInv, NEW q \in Requests, Told(q) # NoOrder
  PROVE  /\ Told(q) \in orders
         /\ KeyOf[Told(q)] = KeyOf[ComputedFor(q)]
         /\ MerchantOf[Told(q)] = MerchantOf[ComputedFor(q)]
BY ComputedForPeer DEF Told, OrderInv

\* All clients that are told of a merchant's order under one key are told of the same.
THEOREM OrdersAreUnique == GatewaySpec => []OneOrderIsTold
<1>1. TypeOK /\ OrderInv => OneOrderIsTold
  BY ToldIsOwn, ComputedForPeer DEF OneOrderIsTold, OrderInv
<1> QED BY <1>1, OrderInvHolds, GatewayIsIdempotent, KeyTypeCorrect, PTL

\* A told order is committed, and readable by the merchant it was computed for.
THEOREM ToldOrdersExist == GatewaySpec => []ToldOrderIsReadable
<1>1. TypeOK /\ OrderInv => ToldOrderIsReadable
  BY ToldIsOwn DEF ToldOrderIsReadable, Order!Visible
<1> QED BY <1>1, OrderInvHolds, GatewayIsIdempotent, KeyTypeCorrect, PTL

\* The attempts under the header are one merchant's, as the middleware supposes.
OneMerchantPerHeader == \A a, b \in Attempts : MerchantOf[a] = MerchantOf[b]

\* Where no two merchants use one header, every client can read the order it was told.
\* Gateway does not suppose it, and without it they cannot.
THEOREM OwnOrdersAreReadable ==
  ASSUME OneMerchantPerHeader
  PROVE  GatewaySpec =>
           [](\A q \in Requests : Told(q) # NoOrder => Told(q) \in Order!Visible(MerchantOf[q]))
<1>1. TypeOK /\ OrderInv =>
        \A q \in Requests : Told(q) # NoOrder => Told(q) \in Order!Visible(MerchantOf[q])
  BY ToldIsOwn, ComputedForPeer DEF Order!Visible, OneMerchantPerHeader
<1> QED BY <1>1, OrderInvHolds, GatewayIsIdempotent, KeyTypeCorrect, PTL

-----------------------------------------------------------------------------
\* Only a creation that is through has named an order.
RepliesStand == \A q \in Requests : reply[q] # NoOrder => opc[q] = "created"

LEMMA RepliesStandHolds == GatewaySpec => []RepliesStand
<1>1. GatewayInit => RepliesStand
  BY DEF GatewayInit, Order!Init, RepliesStand
<1>2. OrderInv /\ RepliesStand /\ [GatewayNext]_gatewayVars => RepliesStand'
  <2> SUFFICES ASSUME OrderInv, RepliesStand, [GatewayNext]_gatewayVars  PROVE RepliesStand'
    OBVIOUS
  <2>1. CASE UNCHANGED orderVars  BY <2>1 DEF orderVars, RepliesStand
  <2>2. ASSUME NEW q \in Requests, Creating(q) \/ Committing(q)  PROVE RepliesStand'
    <3>1. /\ opc[q] # "created"
          /\ reply'[q] = reply[q] \/ opc'[q] = "created"
          /\ \A p \in Requests \ {q} : opc'[p] = opc[p] /\ reply'[p] = reply[p]
      BY <2>2
      DEF Creating, Committing, Order!Reject, Order!Replay, Order!FindNone, Order!Insert,
          Order!Conflict, Order!Refresh, Order!Fail, Order!Created, Order!Goto, OrderInv,
          Order!TypeOK
    <3> QED BY <3>1 DEF RepliesStand
  <2> QED
    BY <2>1, <2>2, StepsOfTheGateway
    DEF gatewayVars, Limiting, Dying, Responding, Raising, Wrapping
<1> QED BY <1>1, <1>2, OrderInvHolds, PTL DEF GatewaySpec

\* Where one request is told something at most, and nothing it was told before is
\* revised, the registry tells it or stutters.
LEMMA OneIsTold ==
  ASSUME TypeOK', OrderInv', UNCHANGED orders, NEW q \in Requests,
         Told(q) = NoOrder \/ Told(q)' = Told(q),
         \A p \in Requests \ {q} : Told(p)' = Told(p)
  PROVE  [Registry!Next]_(Registry!registryVars)
<1>1. CASE Told(q)' = Told(q)
  BY <1>1 DEF Registry!registryVars
<1>2. CASE Told(q)' # Told(q)
  <2> DEFINE o == Told(q)'
  <2>1. Told(q) = NoOrder /\ o # NoOrder  BY <1>2
  <2> DEFINE c == ComputedFor(q)'
             Peers == IF q \in Attempts THEN Attempts ELSE {q}
  <2>2. c \in Peers /\ o \in Registry!OrderOf(c)
    <3>1. c \in Requests /\ c \in Peers
      <4>1. CASE q \in Attempts /\ answer'[q].kind = "response"
        BY <4>1, ResponsesNameAttempts DEF TypeOK, ComputedFor, Requests
      <4>2. CASE ~(q \in Attempts /\ answer'[q].kind = "response")
        BY <4>2 DEF ComputedFor
      <4> QED BY <4>1, <4>2
    <3>2. o = reply'[c]
      BY <2>1 DEF Told
    <3> QED BY <2>1, <3>1, <3>2 DEF OrderInv, Registry!OrderOf
  <2>3. [p \in Requests |-> Told(p)]' = [[p \in Requests |-> Told(p)] EXCEPT ![q] = o]
    OBVIOUS
  <2>4. Registry!Tell(q)
    BY <2>1, <2>2, <2>3 DEF Registry!Tell
  <2> QED BY <2>4 DEF Registry!Next
<1> QED BY <1>1, <1>2

\* A step of the gateway is a step or a stutter of the registry.
LEMMA StepKeepsRegistry ==
  ASSUME TypeOK, TypeOK', AnswersStand, OrderInv, OrderInv', RepliesStand,
         [GatewayNext]_gatewayVars
  PROVE  [Registry!Next]_(Registry!registryVars)
<1>1. CASE UNCHANGED <<answer, reply, orders>>
  BY <1>1 DEF Told, ComputedFor, Registry!registryVars
<1>2. ASSUME NEW q \in Requests, Committing(q)
      PROVE  [Registry!Next]_(Registry!registryVars)
  <2>1. Registry!OrderOf(q) = {}
    BY <1>2 DEF Committing, Order!Insert, Order!KeyTaken, Registry!OrderOf
  <2>2. orders' = orders \cup {q} /\ UNCHANGED <<answer, reply>>
    BY <1>2 DEF Committing, Order!Insert
  <2>3. Registry!Register(q)
    BY <2>1, <2>2 DEF Registry!Register, Told, ComputedFor
  <2> QED BY <2>3 DEF Registry!Next
<1>3. ASSUME NEW q \in Requests, Creating(q)
      PROVE  [Registry!Next]_(Registry!registryVars)
  <2>1. /\ Inside(q) /\ opc[q] # "created" /\ UNCHANGED <<answer, pc, orders>>
        /\ \A p \in Requests \ {q} : reply'[p] = reply[p]
    BY <1>3
    DEF Creating, Order!Reject, Order!Replay, Order!FindNone, Order!Conflict, Order!Refresh,
        Order!Fail, Order!Created, OrderInv, Order!TypeOK, vars
  <2>2. \A p \in Attempts : answer[p].kind = "response" =>
          answer[p].of \in Attempts /\ answer[p].of # q
    BY <2>1, ResponsesNameAttempts DEF TypeOK, AnswersStand, Inside
  <2>3. \A p \in Attempts : Told(p)' = Told(p)
    BY <2>1, <2>2 DEF Told, ComputedFor, Requests
  <2>4. \A p \in Requests \ {q} : Told(p)' = Told(p)
    BY <2>1, <2>3 DEF Told, ComputedFor
  <2>5. q \notin Attempts => Told(q) = NoOrder
    BY <2>1 DEF RepliesStand, Told, ComputedFor
  <2> QED BY <2>1, <2>3, <2>4, <2>5, OneIsTold
<1>4. ASSUME NEW a \in Attempts, Responding(a) \/ Raising(a) \/ Wrapping(a)
      PROVE  [Registry!Next]_(Registry!registryVars)
  <2>1. /\ UNCHANGED <<reply, orders>>
        /\ pc[a] # "answered"
        /\ \A b \in Attempts \ {a} : answer'[b] = answer[b]
    BY <1>4
    DEF Responding, Raising, Wrapping, HandlerResponds, HandlerRaises, Reserve, FailToReserve,
        AnswerConflict, AnswerFromCache, MarkInProgress, CacheResponse, Reply, orderVars, TypeOK
  <2>2. Told(a) = NoOrder
    BY <2>1 DEF AnswersStand, Told
  <2>3. \A p \in Requests \ {a} : Told(p)' = Told(p)
    BY <2>1 DEF Told, ComputedFor
  <2> QED BY <2>1, <2>2, <2>3, OneIsTold DEF Requests
<1> QED
  BY <1>1, <1>2, <1>3, <1>4, StepsOfTheGateway
  DEF gatewayVars, vars, orderVars, Limiting, Dying, Crash, Expire

\* The gateway implements the registry of orders: a merchant's key is given to one order,
\* what is told was asked for under the same header, and it stands, whatever is cached,
\* retried, refused or interrupted, and whoever shares the header.
THEOREM GatewayKeepsTheRegistry == GatewaySpec => KeepsTheRegistry
<1>1. GatewayInit => Registry!Init
  <2> SUFFICES ASSUME GatewayInit, NEW q \in Requests  PROVE Told(q) = NoOrder /\ orders = {}
    BY DEF Registry!Init, GatewayInit, Order!Init
  <2> QED BY DEF GatewayInit, Init, Order!Init, Told, ComputedFor, Plain
<1>2. TypeOK /\ TypeOK' /\ AnswersStand /\ OrderInv /\ OrderInv' /\ RepliesStand
        /\ [GatewayNext]_gatewayVars => [Registry!Next]_(Registry!registryVars)
  BY StepKeepsRegistry
<1>3. GatewaySpec => [](TypeOK /\ AnswersStand)
  BY GatewayIsIdempotent, KeyTypeCorrect, AnswersStandHolds, PTL
<1> QED BY <1>1, <1>2, <1>3, OrderInvHolds, RepliesStandHolds, PTL
        DEF GatewaySpec, KeepsTheRegistry, Registry!Spec

-----------------------------------------------------------------------------
\* An attempt that took effect is past its commit, and if it answers, it names its order.
CacheInv ==
  /\ \A q \in Requests : opc[q] # "find" => rpc[q] = "admitted"
  /\ \A a \in Attempts :
       /\ pc[a] = "handler" /\ a \in effects =>
            opc[a] \in {"refresh", "raised"} \/ (opc[a] = "created" /\ reply[a] = a)
       /\ pc[a] = "cache" => effects \subseteq {a}
       /\ pc[a] = "cache" /\ a \in effects => reply[a] = a
  /\ CacheTellsTheEffect

\* Below the idempotency layer only an attempt in its handler moves.
LEMMA InnerStepsKeepCacheInv ==
  ASSUME KeyInv, OrderInv, CacheInv, Quota!TypeOK, NEW q \in Requests,
         Limiting(q) \/ Creating(q) \/ Committing(q)
  PROVE  CacheInv'
<1>0. Attempts \subseteq Requests  BY DEF Requests
<1>1. CASE Limiting(q)
  <2>1. \A p \in Requests : rpc[p] = "admitted" => rpc'[p] = "admitted"
    BY <1>1 DEF Limiting, Quota!ReadTime, Quota!Count, Quota!TypeOK
  <2> QED BY <1>1, <2>1 DEF Limiting, vars, orderVars, CacheInv, CacheTellsTheEffect
<1>2. CASE Creating(q)
  <2>1. /\ opc[q] # "created" /\ \A p \in Requests \ {q} : opc'[p] = opc[p] /\ reply'[p] = reply[p]
        /\ UNCHANGED <<vars, quotaVars>> /\ rpc[q] = "admitted" /\ Inside(q)
    BY <1>2
    DEF Creating, Order!Reject, Order!Replay, Order!FindNone, Order!Conflict, Order!Refresh,
        Order!Fail, Order!Created, Order!Goto, OrderInv, Order!TypeOK
  <2>2. UNCHANGED <<entry, pc, answer, effects, rpc>>  BY <2>1 DEF vars, quotaVars
  <2>3. q \in Attempts => pc[q] = "handler" /\ \A a \in Attempts : entry # Done(a)
    BY <2>1, StatusesDiffer DEF Inside, KeyInv, OneHolder, WorkingPc
  <2>4. ASSUME q \in Attempts, q \in effects
        PROVE  opc'[q] \in {"refresh", "raised"} \/ (opc'[q] = "created" /\ reply'[q] = q)
    <3>1. opc[q] = "refresh" \/ opc[q] = "raised"
      BY <2>1, <2>3, <2>4 DEF CacheInv
    <3>2. Order!Refresh(q) \/ Order!Fail(q)
      BY <1>2, <3>1 DEF Creating, Order!Reject, Order!Replay, Order!FindNone, Order!Conflict,
                       Order!Refresh, Order!Fail
    <3> QED
      BY <3>2 DEF Order!Refresh, Order!Fail, Order!Created, Order!Goto, OrderInv, Order!TypeOK
  <2> QED BY <1>0, <2>1, <2>2, <2>3, <2>4 DEF CacheInv, CacheTellsTheEffect, WorkingPc
<1>3. CASE Committing(q)
  <2>1. /\ opc'[q] = "refresh" /\ rpc[q] = "admitted" /\ Inside(q)
        /\ \A p \in Requests \ {q} : opc'[p] = opc[p]
        /\ UNCHANGED <<entry, pc, rpc, reply>>
        /\ effects' = effects \cup ({q} \cap Attempts)
    BY <1>3 DEF Committing, Order!Insert, Order!Goto, OrderInv, Order!TypeOK, quotaVars
  <2>2. CASE q \in Attempts
    <3>1. pc[q] = "handler" /\ \A a \in Attempts : entry # Done(a) /\ (pc[a] \in WorkingPc => a = q)
      BY <2>1, <2>2, StatusesDiffer DEF Inside, KeyInv, OneHolder, WorkingPc
    <3>2. effects' = effects \cup {q}
      BY <2>1, <2>2
    <3>3. \A a \in Attempts : pc'[a] = "cache" => FALSE
      BY <2>1, <3>1 DEF WorkingPc
    <3> QED BY <1>0, <2>1, <3>1, <3>2, <3>3 DEF CacheInv, CacheTellsTheEffect
  <2>3. CASE q \notin Attempts
    <3>1. effects' = effects
      BY <2>1, <2>3
    <3> QED BY <1>0, <2>1, <2>3, <3>1 DEF CacheInv, CacheTellsTheEffect
  <2> QED BY <2>2, <2>3
<1> QED BY <1>1, <1>2, <1>3

LEMMA OuterStepsKeepCacheInv ==
  ASSUME KeyInv, CacheInv, NEW a \in Attempts, Responding(a) \/ Raising(a) \/ Wrapping(a)
  PROVE  CacheInv'
<1> USE DEF CacheInv, CacheTellsTheEffect, WorkingPc
<1>1. UNCHANGED <<rpc, opc, reply, effects>>
  BY DEF Responding, Raising, Wrapping, quotaVars, orderVars, HandlerResponds, HandlerRaises,
         Reserve, FailToReserve, AnswerConflict, AnswerFromCache, MarkInProgress, CacheResponse
<1>2. pc \in [Attempts -> Pc]  BY DEF KeyInv, TypeOK
<1>3. \A b \in Attempts \ {a} : pc'[b] = pc[b]
  BY <1>2
  DEF Responding, Raising, Wrapping, HandlerResponds, HandlerRaises, Reserve, FailToReserve,
      AnswerConflict, AnswerFromCache, MarkInProgress, CacheResponse, Goto, Reply
<1>4. CASE Responding(a)
  <2>1. pc[a] = "handler" /\ entry' = entry /\ pc'[a] = "cache"
    BY <1>2, <1>4 DEF Responding, HandlerResponds, Goto
  <2>2. effects \subseteq {a}
    BY <2>1 DEF KeyInv, OneEffect
  <2>3. a \in effects => reply[a] = a
    BY <1>4, <2>1, GatewayAssumption DEF Responding, Requests
  <2> QED BY <1>1, <1>3, <2>1, <2>2, <2>3
<1>5. CASE CacheResponse(a)
  <2>1. pc[a] = "cache" /\ pc'[a] = "answered" /\ entry' \in {Absent, Done(a)}
    BY <1>2, <1>5 DEF CacheResponse, Reply, Goto, SetExisting
  <2>2. \A b \in Attempts : entry' = Done(b) => b = a
    BY <2>1, StatusesDiffer DEF Done
  <2> QED BY <1>1, <1>3, <2>1, <2>2
<1>6. CASE Raising(a) \/ (Wrapping(a) /\ ~CacheResponse(a))
  <2>1. pc'[a] \in {"answered", "mark", "get"} \/ (pc'[a] = "handler" /\ pc[a] = "mark")
    BY <1>2, <1>6
    DEF Raising, Wrapping, HandlerRaises, Reserve, FailToReserve, AnswerConflict,
        AnswerFromCache, MarkInProgress, Goto, Reply
  <2>2. entry' = entry \/ entry' \in {Reserved, InProgress, Absent}
    BY <1>6
    DEF Raising, Wrapping, HandlerRaises, Reserve, FailToReserve, AnswerConflict,
        AnswerFromCache, MarkInProgress, SetExisting
  <2>3. pc[a] = "mark" => effects = {}
    BY DEF KeyInv, OneEffect
  <2> QED BY <1>1, <1>3, <2>1, <2>2, <2>3, StatusesDiffer
<1> QED BY <1>4, <1>5, <1>6

-----------------------------------------------------------------------------
\* What the counter of a client's window says is what was admitted, up to the limit,
\* and it lives until nobody can count in that window any more.
CounterInv(i, b) ==
  /\ IsFiniteSet(Quota!Admitted(i, b))
  /\ counter[<<i, b>>].count > 0 => counter[<<i, b>>].expires >= (b + 2) * Window
  /\ counter[<<i, b>>].count <= Limit =>
       Cardinality(Quota!Admitted(i, b)) = counter[<<i, b>>].count
  /\ counter[<<i, b>>].count > Limit => Cardinality(Quota!Admitted(i, b)) = Limit

QuotaInv ==
  /\ Quota!TypeOK
  /\ \A q \in Requests :
       /\ rpc[q] = "count" => bucket[q] * Window <= now /\ now < (bucket[q] + 2) * Window
       /\ rpc[q] = "refused" => counter[Quota!CounterOf(q)].count > Limit
  /\ \A i \in Identities, b \in Quota!Buckets : CounterInv(i, b)

LEMMA WindowOfTime ==
  ASSUME NEW n \in Nat, NEW W \in Nat \ {0}
  PROVE  n \div W \in Nat /\ (n \div W) * W <= n /\ n < (n \div W) * W + W
OBVIOUS

LEMMA WindowsGrow ==
  ASSUME NEW n \in Nat, NEW m \in Nat, n <= m, NEW W \in Nat \ {0}
  PROVE  n \div W <= m \div W
OBVIOUS

LEMMA WindowEnd ==
  ASSUME NEW b \in Nat, NEW W \in Nat
  PROVE  (b + 2) * W = b * W + 2 * W /\ b * W \in Nat
OBVIOUS

LEMMA QuotaInitially == GatewayInit => QuotaInv
<1> SUFFICES ASSUME GatewayInit PROVE QuotaInv  OBVIOUS
<1> USE DEF GatewayInit, Quota!Init
<1>1. 0 \in Quota!Buckets
  BY WindowOfTime, GatewayAssumption DEF Quota!Buckets
<1>2. Quota!TypeOK
  BY <1>1, GatewayAssumption DEF Quota!TypeOK
<1>3. ASSUME NEW i \in Identities, NEW b \in Quota!Buckets  PROVE CounterInv(i, b)
  <2>1. Quota!Admitted(i, b) = {}
    BY DEF Quota!Admitted
  <2>2. counter[<<i, b>>].count = 0
    BY <1>3 DEF Quota!Counters
  <2> QED BY <2>1, <2>2, FS_EmptySet, GatewayAssumption DEF CounterInv
<1> QED BY <1>2, <1>3 DEF QuotaInv

\* Where nobody is admitted and no counter moves, the counters go on telling the truth.
LEMMA CountersStand ==
  ASSUME QuotaInv, UNCHANGED counter, NEW i \in Identities, NEW b \in Quota!Buckets,
         Quota!Admitted(i, b)' = Quota!Admitted(i, b)
  PROVE  CounterInv(i, b)'
BY DEF QuotaInv, CounterInv

LEMMA ReadTimeKeepsQuota ==
  ASSUME QuotaInv, NEW q \in Requests, Quota!ReadTime(q)
  PROVE  QuotaInv'
<1> DEFINE b == now \div Window
<1>1. /\ now \in Nat /\ b \in Quota!Buckets /\ b \in Nat
      /\ b * Window <= now /\ now < (b + 2) * Window
  <2>1. now \in Nat /\ now <= MaxTime /\ MaxTime \in Nat /\ Window \in Nat \ {0}
    BY GatewayAssumption DEF QuotaInv, Quota!TypeOK
  <2>2. b \in Nat /\ b * Window <= now /\ now < b * Window + Window
    BY <2>1, WindowOfTime
  <2>3. b <= MaxTime \div Window /\ MaxTime \div Window \in Nat
    BY <2>1, WindowsGrow, WindowOfTime
  <2>4. (b + 2) * Window = b * Window + 2 * Window /\ b * Window \in Nat
    BY <2>1, <2>2, WindowEnd
  <2> HIDE DEF b
  <2> QED BY <2>1, <2>2, <2>3, <2>4 DEF Quota!Buckets
<1>2. /\ rpc[q] = "time" /\ bucket' = [bucket EXCEPT ![q] = b] /\ rpc' = [rpc EXCEPT ![q] = "count"]
      /\ UNCHANGED <<now, counter>>
  BY DEF Quota!ReadTime
<1> HIDE DEF b
<1>3. Quota!TypeOK'
  BY <1>1, <1>2 DEF QuotaInv, Quota!TypeOK
<1>4. /\ rpc'[q] = "count" /\ bucket'[q] = b
      /\ \A p \in Requests \ {q} : rpc'[p] = rpc[p] /\ bucket'[p] = bucket[p]
  BY <1>2 DEF QuotaInv, Quota!TypeOK
<1>5. \A p \in Requests :
        /\ rpc'[p] = "count" => bucket'[p] * Window <= now' /\ now' < (bucket'[p] + 2) * Window
        /\ rpc'[p] = "refused" => counter'[Quota!CounterOf(p)'].count > Limit
  BY <1>1, <1>2, <1>4 DEF QuotaInv, Quota!CounterOf
<1>6. \A i \in Identities, k \in Quota!Buckets : Quota!Admitted(i, k)' = Quota!Admitted(i, k)
  BY <1>2, <1>4 DEF Quota!Admitted
<1> QED BY <1>2, <1>3, <1>5, <1>6, CountersStand DEF QuotaInv

LEMMA DropKeepsQuota ==
  ASSUME QuotaInv, NEW q \in Requests, Quota!Drop(q)
  PROVE  QuotaInv'
<1>1. Quota!TypeOK'
  BY DEF Quota!Drop, QuotaInv, Quota!TypeOK
<1>2. rpc[q] = "count" /\ rpc'[q] = "dropped" /\ (\A p \in Requests \ {q} : rpc'[p] = rpc[p])
      /\ UNCHANGED <<now, bucket, counter>>
  BY DEF Quota!Drop, QuotaInv, Quota!TypeOK
<1>3. \A i \in Identities, k \in Quota!Buckets : Quota!Admitted(i, k)' = Quota!Admitted(i, k)
  BY <1>2 DEF Quota!Admitted
<1> QED BY <1>1, <1>2, <1>3, CountersStand DEF QuotaInv, Quota!CounterOf

LEMMA TickKeepsQuota ==
  ASSUME QuotaInv, Quota!Tick
  PROVE  QuotaInv'
<1>1. Quota!TypeOK'
  BY GatewayAssumption DEF Quota!Tick, QuotaInv, Quota!TypeOK
<1>2. now' = now + 1 /\ UNCHANGED <<rpc, bucket, counter>> /\ now \in Nat
      /\ \A q \in Requests : rpc[q] = "count" => now' < (bucket[q] + 2) * Window
  BY GatewayAssumption DEF Quota!Tick, QuotaInv, Quota!TypeOK
<1>3. \A q \in Requests : bucket[q] * Window \in Nat
  BY WindowEnd, WindowOfTime, GatewayAssumption DEF QuotaInv, Quota!TypeOK, Quota!Buckets
<1>4. \A i \in Identities, k \in Quota!Buckets : Quota!Admitted(i, k)' = Quota!Admitted(i, k)
  BY <1>2 DEF Quota!Admitted
<1> QED BY <1>1, <1>2, <1>3, <1>4, CountersStand DEF QuotaInv, Quota!CounterOf

LEMMA CountKeepsQuota ==
  ASSUME QuotaInv, NEW q \in Requests, Quota!Count(q)
  PROVE  QuotaInv'
<1> DEFINE i == IdentityOf[q]
           b == bucket[q]
           k == <<i, b>>
           n == counter[k].count + 1
           fate == IF n > Limit THEN "refused" ELSE "admitted"
<1>1. /\ i \in Identities /\ b \in Quota!Buckets /\ b \in Nat /\ k \in Quota!Counters
      /\ k = Quota!CounterOf(q) /\ counter[k].count \in Nat /\ now \in Nat
      /\ Limit \in Nat /\ Window \in Nat
  BY GatewayAssumption, WindowOfTime
  DEF QuotaInv, Quota!TypeOK, Quota!Counters, Quota!Buckets, Quota!CounterOf
<1>2. rpc[q] = "count" /\ b * Window <= now /\ now < (b + 2) * Window
  BY DEF Quota!Count, QuotaInv
<1>3. CounterInv(i, b)
  BY <1>1 DEF QuotaInv
<1>4. Quota!Counted(k) = n
  <2>1. CASE counter[k].count > 0
    <3>1. counter[k].expires >= (b + 2) * Window /\ counter[k].expires \in Nat
      BY <1>1, <1>3, <2>1 DEF CounterInv, QuotaInv, Quota!TypeOK
    <3>2. (b + 2) * Window \in Nat
      BY <1>1, WindowEnd
    <3>3. now < counter[k].expires
      BY <1>1, <1>2, <3>1, <3>2
    <3> QED BY <3>3 DEF Quota!Counted
  <2>2. CASE counter[k].count = 0
    BY <2>2 DEF Quota!Counted
  <2> QED BY <1>1, <2>1, <2>2
<1>5. Quota!NewExpiry \in Nat /\ Quota!NewExpiry >= (b + 2) * Window
  <2>1. (b + 2) * Window = b * Window + 2 * Window /\ b * Window \in Nat
    BY <1>1, WindowEnd
  <2> QED BY <1>1, <1>2, <2>1 DEF Quota!NewExpiry
<1>6. /\ counter' = [counter EXCEPT ![k] = [count |-> n, expires |-> Quota!NewExpiry]]
      /\ rpc' = [rpc EXCEPT ![q] = fate]
      /\ UNCHANGED <<now, bucket>>
  BY <1>1, <1>4 DEF Quota!Count
<1>7. Quota!TypeOK'
  BY <1>1, <1>5, <1>6 DEF QuotaInv, Quota!TypeOK
<1>8. /\ rpc'[q] = fate /\ \A p \in Requests \ {q} : rpc'[p] = rpc[p]
      /\ counter'[k] = [count |-> n, expires |-> Quota!NewExpiry]
      /\ \A m \in Quota!Counters : m # k => counter'[m] = counter[m]
  BY <1>1, <1>6 DEF QuotaInv, Quota!TypeOK
<1>9. counter'[k].count = n /\ counter'[k].expires = Quota!NewExpiry /\ n \in Nat
      /\ n > counter[k].count
  BY <1>1, <1>8
<1>10. \A p \in Requests : Quota!CounterOf(p) \in Quota!Counters
                           /\ Quota!CounterOf(p)' = Quota!CounterOf(p)
  BY <1>6, GatewayAssumption DEF Quota!CounterOf, QuotaInv, Quota!TypeOK, Quota!Counters
<1>11. ASSUME NEW p \in Requests
       PROVE  /\ rpc'[p] = "count" => bucket'[p] * Window <= now' /\ now' < (bucket'[p] + 2) * Window
              /\ rpc'[p] = "refused" => counter'[Quota!CounterOf(p)'].count > Limit
  <2>1. rpc'[p] = "count" => rpc[p] = "count"
    BY <1>8
  <2>2. rpc'[p] = "refused" => counter'[Quota!CounterOf(p)].count > Limit
    <3>1. CASE p = q
      BY <1>1, <1>8, <1>9, <3>1
    <3>2. CASE p # q
      <4>1. rpc'[p] = "refused" => counter[Quota!CounterOf(p)].count > Limit
        BY <1>8, <3>2 DEF QuotaInv
      <4> QED BY <1>1, <1>8, <1>9, <1>10, <4>1
    <3> QED BY <3>1, <3>2
  <2> QED BY <1>6, <1>10, <2>1, <2>2 DEF QuotaInv
<1>12. CounterInv(i, b)'
  <2> DEFINE A == Quota!Admitted(i, b)
  <2>1. /\ IsFiniteSet(A) /\ q \notin A
        /\ counter[k].count <= Limit => Cardinality(A) = counter[k].count
        /\ counter[k].count > Limit => Cardinality(A) = Limit
    BY <1>2, <1>3 DEF CounterInv, Quota!Admitted
  <2>4. counter'[k].expires >= (b + 2) * Window
    BY <1>5, <1>9
  <2>2. CASE n > Limit
    <3>1. Quota!Admitted(i, b)' = A
      BY <1>2, <1>6, <1>8, <2>2 DEF Quota!Admitted
    <3>2. Cardinality(A) = Limit
      <4>1. counter[k].count = Limit \/ counter[k].count > Limit
        BY <1>1, <2>2
      <4> QED BY <1>1, <2>1, <4>1
    <3>3. counter'[k].count > Limit
      BY <1>9, <2>2
    <3> QED BY <1>1, <1>6, <1>9, <2>1, <2>4, <3>1, <3>2, <3>3 DEF CounterInv
  <2>3. CASE ~(n > Limit)
    <3>1. Quota!Admitted(i, b)' = A \cup {q}
      BY <1>2, <1>6, <1>8, <2>3 DEF Quota!Admitted
    <3>2. Cardinality(A) = counter[k].count
      BY <1>1, <2>1, <2>3
    <3>3. IsFiniteSet(A \cup {q}) /\ Cardinality(A \cup {q}) = n
      BY <2>1, <3>2, FS_AddElement
    <3>4. counter'[k].count = n /\ counter'[k].count <= Limit
      BY <1>1, <1>9, <2>3
    <3> QED BY <1>1, <1>6, <1>9, <2>3, <2>4, <3>1, <3>3, <3>4 DEF CounterInv
  <2> QED BY <2>2, <2>3
<1>13. ASSUME NEW j \in Identities, NEW c \in Quota!Buckets  PROVE CounterInv(j, c)'
  <2>1. CASE j = i /\ c = b
    <3>1. CounterInv(j, c)' = CounterInv(i, b)'
      BY <1>6, <2>1 DEF CounterInv, Quota!Admitted
    <3> QED BY <1>12, <3>1
  <2>2. CASE ~(j = i /\ c = b)
    <3>1. <<j, c>> \in Quota!Counters /\ <<j, c>> # k
      BY <2>2 DEF Quota!Counters
    <3>2. Quota!Admitted(j, c)' = Quota!Admitted(j, c)
      BY <1>2, <1>6, <1>8, <2>2 DEF Quota!Admitted
    <3> QED BY <1>8, <3>1, <3>2 DEF QuotaInv, CounterInv
  <2> QED BY <2>1, <2>2
<1> QED BY <1>7, <1>11, <1>13 DEF QuotaInv

LEMMA QuotaInvHolds == GatewaySpec => []QuotaInv
<1>1. QuotaInv /\ [GatewayNext]_gatewayVars => QuotaInv'
  <2> SUFFICES ASSUME QuotaInv, [GatewayNext]_gatewayVars  PROVE QuotaInv'  OBVIOUS
  <2>1. CASE UNCHANGED quotaVars
    BY <2>1
    DEF quotaVars, QuotaInv, Quota!TypeOK, Quota!CounterOf, CounterInv, Quota!Admitted
  <2>2. ASSUME NEW q \in Requests, Limiting(q)  PROVE QuotaInv'
    BY <2>2, ReadTimeKeepsQuota, CountKeepsQuota DEF Limiting
  <2>3. ASSUME NEW q \in Requests, Dying(q)  PROVE QuotaInv'
    BY <2>1, <2>3, DropKeepsQuota DEF Dying
  <2>4. CASE Quota!Tick  BY <2>4, TickKeepsQuota
  <2> QED
    BY <2>1, <2>2, <2>3, <2>4, StepsOfTheGateway
    DEF gatewayVars, Creating, Committing, Responding, Raising, Wrapping
<1> QED BY <1>1, QuotaInitially, PTL DEF GatewaySpec

\* No client gets more than its limit in a window.
THEOREM QuotasHold == GatewaySpec => []QuotaHolds
<1>1. QuotaInv => QuotaHolds
  <2> SUFFICES ASSUME QuotaInv, NEW i \in Identities, NEW b \in Quota!Buckets
               PROVE  Cardinality(Quota!Admitted(i, b)) <= Limit
    BY DEF QuotaHolds
  <2>1. counter[<<i, b>>].count \in Nat /\ Limit \in Nat
    BY GatewayAssumption DEF QuotaInv, Quota!TypeOK, Quota!Counters
  <2> QED BY <2>1 DEF QuotaInv, CounterInv
<1> QED BY <1>1, QuotaInvHolds, PTL

\* Nobody is refused whose own quota was not spent.
THEOREM RefusalsAreEarned == GatewaySpec => []RefusedOnlyWhenSpent
<1>1. QuotaInv => RefusedOnlyWhenSpent
  <2> SUFFICES ASSUME QuotaInv, NEW q \in Requests, rpc[q] = "refused"
               PROVE  Cardinality(Quota!Admitted(IdentityOf[q], bucket[q])) = Limit
    BY DEF RefusedOnlyWhenSpent
  <2>1. IdentityOf[q] \in Identities /\ bucket[q] \in Quota!Buckets
    BY GatewayAssumption DEF QuotaInv, Quota!TypeOK
  <2> QED BY <2>1 DEF QuotaInv, CounterInv, Quota!CounterOf
<1> QED BY <1>1, QuotaInvHolds, PTL

-----------------------------------------------------------------------------
LEMMA CacheInvHolds == GatewaySpec => []CacheInv
<1>1. GatewayInit => CacheInv
  BY GatewayAssumption
  DEF GatewayInit, Init, Quota!Init, Order!Init, CacheInv, CacheTellsTheEffect, Requests
<1>2. KeyInv /\ OrderInv /\ QuotaInv /\ CacheInv /\ [GatewayNext]_gatewayVars => CacheInv'
  <2> SUFFICES ASSUME KeyInv, OrderInv, QuotaInv, CacheInv, [GatewayNext]_gatewayVars
               PROVE  CacheInv'
    OBVIOUS
  <2>1. CASE UNCHANGED <<entry, pc, effects, orderVars>> /\ UNCHANGED rpc
    BY <2>1 DEF orderVars, CacheInv, CacheTellsTheEffect
  <2>2. ASSUME NEW q \in Requests, Limiting(q) \/ Creating(q) \/ Committing(q)
        PROVE  CacheInv'
    BY <2>2, InnerStepsKeepCacheInv DEF QuotaInv
  <2>3. ASSUME NEW a \in Attempts, Responding(a) \/ Raising(a) \/ Wrapping(a)
        PROVE  CacheInv'
    BY <2>3, OuterStepsKeepCacheInv
  <2>4. ASSUME NEW q \in Requests, Dying(q)  PROVE CacheInv'
    <3>1. \A p \in Requests : rpc[p] = "admitted" => rpc'[p] = "admitted"
      BY <2>4 DEF Dying, Quota!Drop, QuotaInv, Quota!TypeOK, quotaVars
    <3>2. UNCHANGED <<entry, effects, opc, reply>>
      BY <2>4 DEF Dying, Crash, vars, orderVars
    <3>3. \A a \in Attempts : pc'[a] = pc[a] \/ pc'[a] = "dead"
      BY <2>4 DEF Dying, Crash, Goto, vars, KeyInv, TypeOK
    <3> QED BY <3>1, <3>2, <3>3 DEF CacheInv, CacheTellsTheEffect
  <2>5. CASE Expire /\ UNCHANGED <<quotaVars, orderVars>>
    BY <2>5 DEF Expire, quotaVars, orderVars, CacheInv, CacheTellsTheEffect
  <2> QED
    BY <2>1, <2>2, <2>3, <2>4, <2>5, StepsOfTheGateway
    DEF gatewayVars, vars, quotaVars, Quota!Tick
<1> QED BY <1>1, <1>2, KeyInvOfGateway, OrderInvHolds, QuotaInvHolds, PTL DEF GatewaySpec

\* A cached response never denies what was done.
THEOREM CacheIsTruthful == GatewaySpec => []CacheTellsTheEffect
BY CacheInvHolds, PTL DEF CacheInv
=============================================================================
