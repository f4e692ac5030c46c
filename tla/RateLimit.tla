----------------------------- MODULE RateLimit -----------------------------
(***************************************************************************)
(* RateLimitMiddleware.dispatch (app/middleware/rate_limit.py): a request  *)
(* reads the time from Redis, then counts itself in the window that time   *)
(* lies in.  The two commands are one await each; between them other       *)
(* requests count themselves and windows end.                              *)
(*                                                                         *)
(* Bound by assumption: Redis answers, and a request that has read the     *)
(* time counts itself before the window after its own is over, that is     *)
(* within a minute.                                                        *)
(***************************************************************************)
EXTENDS Naturals

CONSTANTS
  Requests,    \* the requests to /v1/
  Identities,  \* X-Api-Key values, or addresses of clients without one
  IdentityOf,  \* whom a request is counted for
  Limit,       \* requests per window
  Window,      \* length of a window
  MaxTime      \* bound: the last moment modelled

Buckets == 0 .. MaxTime \div Window

Counters == Identities \X Buckets

VARIABLES
  now,      \* the clock of Redis
  rpc,      \* where a request stands
  bucket,   \* the window a request has computed from the time it read
  counter   \* the counter keys: count and time of expiry

quotaVars == <<now, rpc, bucket, counter>>

TypeOK ==
  /\ now \in 0 .. MaxTime
  /\ rpc \in [Requests -> {"time", "count", "admitted", "refused", "dropped"}]
  /\ bucket \in [Requests -> Buckets]
  /\ counter \in [Counters -> [count : Nat, expires : Nat]]

\* An expired key is no key: it counts 0.
Init ==
  /\ now = 0
  /\ rpc = [q \in Requests |-> "time"]
  /\ bucket = [q \in Requests |-> 0]
  /\ counter = [k \in Counters |-> [count |-> 0, expires |-> 0]]

\* TIME.
ReadTime(q) ==
  /\ rpc[q] = "time"
  /\ bucket' = [bucket EXCEPT ![q] = now \div Window]
  /\ rpc' = [rpc EXCEPT ![q] = "count"]
  /\ UNCHANGED <<now, counter>>

\* Mutated form: all clients share the counter of the first one.
SharedCounterOf(q) == <<CHOOSE i \in Identities : TRUE, bucket[q]>>

CounterOf(q) == <<IdentityOf[q], bucket[q]>>

\* What INCR returns.
Counted(k) == IF now < counter[k].expires THEN counter[k].count + 1 ELSE 1

\* Mutated form: a counter lives as long as a window.
ExpireWithWindow == now + Window

\* EXPIRE key window * 2.
NewExpiry == now + 2 * Window

\* INCR and EXPIRE in one transaction of Redis.  A request over the limit is answered
\* with 429, any other one goes on to its handler.
Count(q) ==
  /\ rpc[q] = "count"
  /\ LET k == CounterOf(q)
     IN /\ counter' = [counter EXCEPT ![k] = [count |-> Counted(k), expires |-> NewExpiry]]
        /\ rpc' = [rpc EXCEPT ![q] = IF Counted(k) > Limit THEN "refused" ELSE "admitted"]
  /\ UNCHANGED <<now, bucket>>

\* The process dies between the two commands.
Drop(q) ==
  /\ rpc[q] = "count"
  /\ rpc' = [rpc EXCEPT ![q] = "dropped"]
  /\ UNCHANGED <<now, bucket, counter>>

\* Time passes, no further than the assumption allows.
Tick ==
  /\ now < MaxTime
  /\ now' = now + 1
  /\ \A q \in Requests : rpc[q] = "count" => now' < (bucket[q] + 2) * Window
  /\ UNCHANGED <<rpc, bucket, counter>>

-----------------------------------------------------------------------------
\* The requests of a client that were let through in a window.
Admitted(i, b) == {q \in Requests : rpc[q] = "admitted" /\ IdentityOf[q] = i /\ bucket[q] = b}
=============================================================================
