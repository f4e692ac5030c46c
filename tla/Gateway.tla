------------------------------ MODULE Gateway ------------------------------
(***************************************************************************)
(* Order creation behind the middleware of app/main.py: an attempt passes  *)
(* the idempotency layer, then the rate limiter, then reaches the          *)
(* endpoint.  The application that Idempotency leaves open is the other    *)
(* two.  Requests without the Idempotency-Key header meet these only.      *)
(*                                                                         *)
(* The middleware stores no fingerprint of a request and its key names no  *)
(* client: the attempts under one header may differ in merchant and body,  *)
(* and are answered from one cache.  What they are told is therefore said  *)
(* of the request whose handler computed the answer.                       *)
(***************************************************************************)
EXTENDS Idempotency

CONSTANTS
  Unkeyed,      \* creations without the header
  Identities, IdentityOf, Limit, Window, MaxTime,
  Merchants, Keys, MerchantOf, KeyOf, NoOrder

Requests == Attempts \cup Unkeyed

ASSUME GatewayAssumption ==
  /\ Attempts \cap Unkeyed = {}
  /\ Limit \in Nat /\ Window \in Nat \ {0} /\ MaxTime \in Nat
  /\ IdentityOf \in [Requests -> Identities]
  /\ MerchantOf \in [Requests -> Merchants]
  /\ KeyOf \in [Requests -> Keys]
  /\ NoOrder \notin Requests

VARIABLES now, rpc, bucket, counter, orders, opc, reply

Quota == INSTANCE RateLimit

Order == INSTANCE OrderCreation

quotaVars == <<now, rpc, bucket, counter>>
orderVars == <<orders, opc, reply>>
gatewayVars == <<vars, quotaVars, orderVars>>

GatewayTypeOK == TypeOK /\ Quota!TypeOK /\ Order!TypeOK

GatewayInit == Init /\ Quota!Init /\ Order!Init

\* call_next of the idempotency layer is running, or there is no such layer.
Inside(q) == q \in Attempts => pc[q] = "handler"

Limiting(q) ==
  /\ Inside(q)
  /\ Quota!ReadTime(q) \/ Quota!Count(q)
  /\ UNCHANGED <<vars, orderVars>>

\* The endpoint, up to and after its commit.
Creating(q) ==
  /\ Inside(q)
  /\ rpc[q] = "admitted"
  /\ \/ Order!Reject(q)
     \/ Order!Replay(q)
     \/ Order!FindNone(q)
     \/ Order!Conflict(q)
     \/ Order!Refresh(q)
     \/ Order!Fail(q)
  /\ UNCHANGED <<vars, quotaVars>>

\* The commit is what a keyed request takes effect by.
Committing(q) ==
  /\ Inside(q)
  /\ rpc[q] = "admitted"
  /\ Order!Insert(q)
  /\ effects' = effects \cup ({q} \cap Attempts)
  /\ UNCHANGED <<entry, expiry, pc, answer, quotaVars>>

\* The rate limiter answers 429, the authentication 401, the validation 422, or the
\* endpoint 201 or 409: all of them are below 500.
Responding(a) ==
  /\ rpc[a] = "refused" \/ opc[a] \in {"created", "conflict", "rejected"}
  /\ HandlerResponds(a)
  /\ UNCHANGED <<quotaVars, orderVars>>

Raising(a) ==
  /\ opc[a] = "raised"
  /\ HandlerRaises(a)
  /\ UNCHANGED <<quotaVars, orderVars>>

\* Around the wrapped application.
Wrapping(a) ==
  /\ \/ Reserve(a)
     \/ FailToReserve(a)
     \/ AnswerConflict(a)
     \/ AnswerFromCache(a)
     \/ MarkInProgress(a)
     \/ CacheResponse(a)
  /\ UNCHANGED <<quotaVars, orderVars>>

\* The process that serves the request dies.
Dying(q) ==
  /\ IF q \in Attempts THEN Crash(q) ELSE UNCHANGED vars
  /\ IF rpc[q] = "count" THEN Quota!Drop(q) ELSE UNCHANGED quotaVars
  /\ UNCHANGED orderVars

GatewayNext ==
  \/ \E q \in Requests : Limiting(q) \/ Creating(q) \/ Committing(q) \/ Dying(q)
  \/ \E a \in Attempts : Responding(a) \/ Raising(a) \/ Wrapping(a)
  \/ Expire /\ UNCHANGED <<quotaVars, orderVars>>
  \/ Quota!Tick /\ UNCHANGED <<vars, orderVars>>

GatewaySpec == GatewayInit /\ [][GatewayNext]_gatewayVars

-----------------------------------------------------------------------------
\* The request whose handler computed what the client of q was answered: q itself, or
\* the one whose response is in the cache.
ComputedFor(q) == IF q \in Attempts /\ answer[q].kind = "response" THEN answer[q].of ELSE q

\* The order that the client of a request was told, from the cache or by the endpoint.
Told(q) ==
  IF q \in Attempts /\ answer[q].kind # "response" THEN NoOrder ELSE reply[ComputedFor(q)]

\* However a merchant's creations with one key are sent, retried, interrupted and
\* answered, with the header or without it, within its lifetime or after it, whoever
\* else uses the header: all clients that are told of their order are told of the same.
OneOrderIsTold ==
  \A p, q \in Requests :
    LET c == ComputedFor(p)
        d == ComputedFor(q)
    IN /\ MerchantOf[c] = MerchantOf[d] /\ KeyOf[c] = KeyOf[d]
       /\ Told(p) # NoOrder /\ Told(q) # NoOrder
       => Told(p) = Told(q)

\* An order that was told is committed, stays so, and get_order finds it for the merchant
\* whose creation was answered with it.  (A client that met another merchant's answer
\* in the cache is told of an order that get_order denies it.)
ToldOrderIsReadable ==
  \A q \in Requests :
    Told(q) # NoOrder => Told(q) \in Order!Visible(MerchantOf[ComputedFor(q)])

\* The gateway implements the registry of orders: an order once registered stays, its
\* merchant gets no other one for its key, a request without the header is told of its
\* own order only and one with it of an order that a request with this header asked for,
\* and nothing that was told is revised, whatever is replayed from the cache, retried,
\* refused or interrupted.
Registry ==
  INSTANCE OrderRegistry
  WITH told <- [q \in Requests |-> Told(q)],
       PeersOf <- [q \in Requests |-> IF q \in Attempts THEN Attempts ELSE {q}]

KeepsTheRegistry == Registry!Spec

\* A cached response never denies what was done: if an order was made in the lifetime of
\* the key then what is cached is the 201 that names it.
CacheTellsTheEffect ==
  \A a \in Attempts : entry = Done(a) /\ effects # {} => effects = {a} /\ reply[a] = a

\* No client gets more than its limit in a window, also when requests straddle the end
\* of the window and count themselves in it when it is over: the counter outlives them.
QuotaHolds ==
  \A i \in Identities, b \in Quota!Buckets : Cardinality(Quota!Admitted(i, b)) <= Limit

\* Nobody is refused whose quota was not spent in the same window, on requests of its own.
RefusedOnlyWhenSpent ==
  \A q \in Requests :
    rpc[q] = "refused" => Cardinality(Quota!Admitted(IdentityOf[q], bucket[q])) = Limit

\* "Only cache successful responses": what is cached names an order.
OnlySuccessIsCached == \A a \in Attempts : entry = Done(a) => reply[a] # NoOrder
=============================================================================
