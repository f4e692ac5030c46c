---------------------------- MODULE Idempotency ----------------------------
(***************************************************************************)
(* IdempotencyMiddleware.dispatch (app/middleware/idempotency.py): the     *)
(* attempts of one client request that carry one Idempotency-Key to one    *)
(* path, and the Redis key they share.  Keys are independent of each       *)
(* other, so one is enough.  One action per Redis command or answer of the *)
(* wrapped application, which may do anything an application can.          *)
(*                                                                         *)
(* Bound by assumption: no attempt is at work for longer than TTL_SECONDS  *)
(* (24 hours), so the key of an attempt at work does not expire.  A key    *)
(* that was written without an expiry never does.                          *)
(***************************************************************************)
EXTENDS Naturals, FiniteSets

CONSTANTS
  Attempts,   \* the deliveries of the request: the first one and its retries
  NoAttempt   \* nobody has computed a response

ASSUME AttemptAssumption == NoAttempt \notin Attempts

VARIABLES
  entry,     \* the value of the Redis key
  expiry,    \* whether the key has a time to live
  pc,        \* the await an attempt stands at
  answer,    \* what an attempt's client was answered
  effects    \* the attempts whose handler took effect in the key's lifetime (history)

vars == <<entry, expiry, pc, answer, effects>>

Absent == [status |-> "absent", of |-> NoAttempt]
Reserved == [status |-> "none", of |-> NoAttempt]   \* {"request_id": ...}: no status field
InProgress == [status |-> "in_progress", of |-> NoAttempt]
Done(a) == [status |-> "done", of |-> a]

Entry == {Absent, Reserved, InProgress} \cup {Done(a) : a \in Attempts}

Pc == {"new", "get", "mark", "handler", "cache", "free", "answered", "dead"}

\* A response names the attempt whose handler computed it.
Answer == [kind : {"none", "conflict", "empty", "error"}, of : {NoAttempt}]
            \cup [kind : {"response"}, of : Attempts]

Plain(kind) == [kind |-> kind, of |-> NoAttempt]
Response(a) == [kind |-> "response", of |-> a]

TypeOK ==
  /\ entry \in Entry
  /\ expiry \in {"none", "set"}
  /\ pc \in [Attempts -> Pc]
  /\ answer \in [Attempts -> Answer]
  /\ effects \in SUBSET Attempts

Init ==
  /\ entry = Absent
  /\ expiry = "none"
  /\ pc = [a \in Attempts |-> "new"]
  /\ answer = [a \in Attempts |-> Plain("none")]
  /\ effects = {}

Goto(a, label) == pc' = [pc EXCEPT ![a] = label]

Reply(a, what) ==
  /\ Goto(a, "answered")
  /\ answer' = [answer EXCEPT ![a] = what]

\* SET key value XX EX: writes only while the key is there.
SetExisting(value) ==
  /\ entry' = IF entry = Absent THEN Absent ELSE value
  /\ expiry' = IF entry = Absent THEN "none" ELSE "set"

\* DELETE key, or its expiry.
Remove ==
  /\ entry' = Absent
  /\ expiry' = "none"

\* The attempts that have reserved the key and are not through with it.
WorkingPc == {"mark", "handler", "cache", "free"}
Working == {a \in Attempts : pc[a] \in WorkingPc}

-----------------------------------------------------------------------------
\* Mutated form: a read and then a write in place of the atomic SET NX.
CheckThenSet(a) ==
  /\ pc[a] = "new"
  /\ entry # InProgress
  /\ entry' = Reserved
  /\ expiry' = "set"
  /\ Goto(a, "mark")
  /\ UNCHANGED <<answer, effects>>

\* SET key {"request_id": ...} NX EX.
Reserve(a) ==
  /\ pc[a] = "new"
  /\ entry = Absent
  /\ entry' = Reserved
  /\ expiry' = "set"
  /\ Goto(a, "mark")
  /\ UNCHANGED <<answer, effects>>

\* The same SET NX, on a key that is taken.
FailToReserve(a) ==
  /\ pc[a] = "new"
  /\ entry # Absent
  /\ Goto(a, "get")
  /\ UNCHANGED <<entry, expiry, answer, effects>>

\* GET: gone or in progress is a conflict, 409.
AnswerConflict(a) ==
  /\ pc[a] = "get"
  /\ entry \in {Absent, InProgress}
  /\ Reply(a, Plain("conflict"))
  /\ UNCHANGED <<entry, expiry, effects>>

\* Mutated form: whatever is there is taken for the response of an attempt.
AnswerWithEntry(a) ==
  /\ pc[a] = "get"
  /\ entry \notin {Absent, InProgress}
  /\ Reply(a, Response(entry.of))
  /\ UNCHANGED <<entry, expiry, effects>>

\* GET: any other value is taken for a cached response.  One without "status_code"
\* and "body" is answered with their defaults, 200 and no content.
AnswerFromCache(a) ==
  /\ pc[a] = "get"
  /\ entry \notin {Absent, InProgress}
  /\ Reply(a, IF entry = Reserved THEN Plain("empty") ELSE Response(entry.of))
  /\ UNCHANGED <<entry, expiry, effects>>

\* Mutated form: a SET without EX, which takes the key's time to live away.
MarkForEver(a) ==
  /\ pc[a] = "mark"
  /\ entry' = IF entry = Absent THEN Absent ELSE InProgress
  /\ expiry' = "none"
  /\ Goto(a, "handler")
  /\ UNCHANGED <<answer, effects>>

\* SET key {"status": "in_progress"} XX EX.
MarkInProgress(a) ==
  /\ pc[a] = "mark"
  /\ SetExisting(InProgress)
  /\ Goto(a, "handler")
  /\ UNCHANGED <<answer, effects>>

-----------------------------------------------------------------------------
\* What the request asks for is committed, once.
TakeEffect(a) ==
  /\ pc[a] = "handler"
  /\ a \notin effects
  /\ effects' = effects \cup {a}
  /\ UNCHANGED <<entry, expiry, pc, answer>>

\* call_next returns a response below 500: of a change made, or a refusal.
HandlerResponds(a) ==
  /\ pc[a] = "handler"
  /\ Goto(a, "cache")
  /\ UNCHANGED <<entry, expiry, answer, effects>>

\* call_next returns a 5xx response, which no handler does after a commit.
HandlerAnswers5xx(a) ==
  /\ pc[a] = "handler"
  /\ a \notin effects
  /\ Goto(a, "free")
  /\ UNCHANGED <<entry, expiry, answer, effects>>

\* Mutated form: an exception frees the key as a 5xx response does.
RaiseFreesKey(a) ==
  /\ pc[a] = "handler"
  /\ Remove
  /\ Reply(a, Plain("error"))
  /\ UNCHANGED effects

\* call_next raises what no handler caught, possibly after a commit.  Nothing below
\* it in dispatch runs, and the server answers 500.
HandlerRaises(a) ==
  /\ pc[a] = "handler"
  /\ Reply(a, Plain("error"))
  /\ UNCHANGED <<entry, expiry, effects>>

\* SET key {"status": "done", "status_code", "body", ...} XX EX.
CacheResponse(a) ==
  /\ pc[a] = "cache"
  /\ SetExisting(Done(a))
  /\ Reply(a, Response(a))
  /\ UNCHANGED effects

\* DELETE key.
FreeKey(a) ==
  /\ pc[a] = "free"
  /\ Remove
  /\ Reply(a, Plain("error"))
  /\ UNCHANGED effects

\* The process dies: the client is not answered and the key stays as it is.
Crash(a) ==
  /\ pc[a] \in WorkingPc \cup {"get"}
  /\ Goto(a, "dead")
  /\ UNCHANGED <<entry, expiry, answer, effects>>

\* The key's TTL runs out, which ends its lifetime.
Expire ==
  /\ expiry = "set"
  /\ Working = {}
  /\ Remove
  /\ effects' = {}
  /\ UNCHANGED <<pc, answer>>

-----------------------------------------------------------------------------
\* What the middleware and the application do with an attempt that has arrived.
Progress(a) ==
  \/ AnswerConflict(a)
  \/ AnswerFromCache(a)
  \/ MarkInProgress(a)
  \/ HandlerResponds(a)
  \/ HandlerAnswers5xx(a)
  \/ HandlerRaises(a)
  \/ CacheResponse(a)
  \/ FreeKey(a)

Step(a) ==
  \/ Reserve(a)
  \/ FailToReserve(a)
  \/ TakeEffect(a)
  \/ Progress(a)
  \/ Crash(a)

Next == Expire \/ \E a \in Attempts : Step(a)

Spec == Init /\ [][Next]_vars

\* Redis expires keys, and requests that have arrived are worked on.
Fairness == WF_vars(Expire) /\ \A a \in Attempts : WF_vars(Progress(a))

FairSpec == Spec /\ Fairness

-----------------------------------------------------------------------------
\* At most one attempt works on a key at any time, whatever retries race with it.
OneWorks == Cardinality(Working) <= 1

\* The request takes effect at most once in the lifetime of its key, also when the
\* attempt that made the change died or failed before it could say so.
AtMostOneEffect == Cardinality(effects) <= 1

\* A cached response stays what it is until the key expires.
ResponseIsStable ==
  [][\A a \in Attempts : entry = Done(a) => entry' \in {Done(a), Absent}]_vars

\* A key that was taken is given up some day, so that the request can run again: wherever
\* its attempt ended, answered, raised, or dead between any two commands, the last SET of
\* the three that wrote it left it a time to live.
KeysAreReleased == entry # Absent ~> entry = Absent

\* Concurrent retries get 409: no attempt is answered with a response that nobody
\* computed.
RetryMeetsResultOrConflict == \A a \in Attempts : answer[a].kind # "empty"

\* Failed requests free the key: once an attempt was answered with an error and
\* none is at work, the key does not say that the request is in progress, unless
\* another attempt died.
FailureFreesKey ==
  (\E a \in Attempts : answer[a].kind = "error") /\ Working = {}
    /\ (\A a \in Attempts : pc[a] # "dead")
      => entry # InProgress
=============================================================================
