------------------------- MODULE IdempotencyProofs -------------------------
(***************************************************************************)
(* Theorems about Idempotency, for any number of attempts.  The argument:  *)
(* SET NX admits one attempt, the key stays while that attempt is at work, *)
(* and the key is gone, or made ready for a next attempt, only when the    *)
(* request has had no effect.                                              *)
(***************************************************************************)
EXTENDS Idempotency, FiniteSetTheorems, TLAPS

\* No two attempts are at work, and the key belongs to the one that is.
OneHolder ==
  /\ \A a, b \in Attempts : pc[a] \in WorkingPc /\ pc[b] \in WorkingPc => a = b
  /\ \A a \in Attempts : pc[a] \in WorkingPc => entry \in {Reserved, InProgress}

\* No two attempts took effect; an effect leaves the key taken, an attempt that is
\* before its handler, or may free the key, finds that there was none, and one in its
\* handler none but its own.
OneEffect ==
  /\ \A a, b \in effects : a = b
  /\ effects # {} => entry # Absent
  /\ \A a \in Attempts : pc[a] \in {"mark", "free"} => effects = {}
  /\ \A a \in Attempts : pc[a] = "handler" => effects \subseteq {a}

\* Whichever of the SETs wrote it last, a key that is taken has a time to live.
TakenKeysExpire == entry # Absent => expiry = "set"

\* The inductive invariant.
KeyInv == TypeOK /\ OneHolder /\ OneEffect /\ TakenKeysExpire

LEMMA StatusesDiffer ==
  /\ Absent # Reserved /\ Absent # InProgress /\ Reserved # InProgress
  /\ \A a : Done(a) \notin {Absent, Reserved, InProgress}
BY DEF Absent, Reserved, InProgress, Done

\* An attempt's answer is one the client can be given.
LEMMA ReplyType ==
  ASSUME TypeOK, NEW a \in Attempts, NEW what \in Answer, Reply(a, what)
  PROVE  /\ pc' \in [Attempts -> Pc] /\ answer' \in [Attempts -> Answer]
         /\ pc'[a] = "answered"
         /\ \A b \in Attempts \ {a} : pc'[b] = pc[b]
BY DEF TypeOK, Reply, Goto, Pc

LEMMA GotoType ==
  ASSUME TypeOK, NEW a \in Attempts, NEW label \in Pc, Goto(a, label)
  PROVE  /\ pc' \in [Attempts -> Pc]
         /\ pc'[a] = label
         /\ \A b \in Attempts \ {a} : pc'[b] = pc[b]
BY DEF TypeOK, Goto

LEMMA KeyInvHolds == Spec => []KeyInv
<1>1. Init => KeyInv
  BY DEF Init, KeyInv, TypeOK, OneHolder, OneEffect, TakenKeysExpire, Entry, Pc, Answer, Plain, WorkingPc
<1>2. KeyInv /\ [Next]_vars => KeyInv'
  <2> SUFFICES ASSUME KeyInv, [Next]_vars PROVE KeyInv'  OBVIOUS
  <2> USE StatusesDiffer
  <2>a. TypeOK /\ OneHolder /\ OneEffect /\ TakenKeysExpire  BY DEF KeyInv
  <2>b. /\ Plain("conflict") \in Answer /\ Plain("empty") \in Answer /\ Plain("error") \in Answer
        /\ \A a \in Attempts : Response(a) \in Answer
    BY DEF Plain, Response, Answer
  <2>c. \A a \in Attempts : entry = Done(a) => entry.of = a  BY DEF Done
  <2>1. CASE UNCHANGED vars
    BY <2>1, <2>a DEF KeyInv, TypeOK, OneHolder, OneEffect, TakenKeysExpire, vars
  <2>2. CASE Expire
    BY <2>2, <2>a DEF KeyInv, TypeOK, OneHolder, OneEffect, TakenKeysExpire, Expire, Remove, Working, Entry
  <2>3. ASSUME NEW a \in Attempts, Step(a)  PROVE KeyInv'
    <3>1. CASE Reserve(a)
      <4>1. /\ pc' \in [Attempts -> Pc] /\ pc'[a] = "mark"
            /\ \A b \in Attempts \ {a} : pc'[b] = pc[b]
        BY <3>1, <2>a, GotoType DEF Reserve, Pc
      <4> QED BY <3>1, <4>1, <2>a
              DEF Reserve, KeyInv, TypeOK, OneHolder, OneEffect, TakenKeysExpire, Entry, WorkingPc
    <3>2. CASE FailToReserve(a)
      <4>1. /\ pc' \in [Attempts -> Pc] /\ pc'[a] = "get"
            /\ \A b \in Attempts \ {a} : pc'[b] = pc[b]
        BY <3>2, <2>a, GotoType DEF FailToReserve, Pc
      <4> QED BY <3>2, <4>1, <2>a
              DEF FailToReserve, KeyInv, TypeOK, OneHolder, OneEffect, TakenKeysExpire, WorkingPc
    <3>3. CASE AnswerConflict(a)
      <4>1. /\ pc' \in [Attempts -> Pc] /\ answer' \in [Attempts -> Answer]
            /\ pc'[a] = "answered" /\ \A b \in Attempts \ {a} : pc'[b] = pc[b]
        BY <3>3, <2>a, <2>b, ReplyType DEF AnswerConflict
      <4> QED BY <3>3, <4>1, <2>a
              DEF AnswerConflict, KeyInv, TypeOK, OneHolder, OneEffect, TakenKeysExpire, WorkingPc
    <3>4. CASE AnswerFromCache(a)
      <4>1. (IF entry = Reserved THEN Plain("empty") ELSE Response(entry.of)) \in Answer
        BY <3>4, <2>a, <2>b, <2>c DEF AnswerFromCache, TypeOK, Entry
      <4>2. /\ pc' \in [Attempts -> Pc] /\ answer' \in [Attempts -> Answer]
            /\ pc'[a] = "answered" /\ \A b \in Attempts \ {a} : pc'[b] = pc[b]
        BY <3>4, <4>1, <2>a, ReplyType DEF AnswerFromCache
      <4> QED BY <3>4, <4>2, <2>a
              DEF AnswerFromCache, KeyInv, TypeOK, OneHolder, OneEffect, TakenKeysExpire, WorkingPc
    <3>5. CASE MarkInProgress(a)
      <4>1. /\ pc' \in [Attempts -> Pc] /\ pc'[a] = "handler"
            /\ \A b \in Attempts \ {a} : pc'[b] = pc[b]
        BY <3>5, <2>a, GotoType DEF MarkInProgress, Pc
      <4>2. entry' = InProgress /\ expiry' = "set"
        BY <3>5, <2>a DEF MarkInProgress, SetExisting, OneHolder, WorkingPc
      <4> QED BY <3>5, <4>1, <4>2, <2>a
              DEF MarkInProgress, KeyInv, TypeOK, OneHolder, OneEffect, TakenKeysExpire, Entry, WorkingPc
    <3>6. CASE HandlerResponds(a)
      <4>1. /\ pc' \in [Attempts -> Pc] /\ pc'[a] = "cache"
            /\ \A b \in Attempts \ {a} : pc'[b] = pc[b]
        BY <3>6, <2>a, GotoType DEF HandlerResponds, Pc
      <4>2. effects' = effects /\ effects \in {{}, {a}}
        BY <3>6, <2>a DEF HandlerResponds, OneEffect
      <4>3. \A b \in Attempts : pc'[b] \in WorkingPc => b = a
        BY <3>6, <4>1, <2>a DEF HandlerResponds, OneHolder, WorkingPc
      <4>4. OneHolder'
        BY <3>6, <4>3, <2>a DEF HandlerResponds, OneHolder, WorkingPc
      <4>5. OneEffect'
        <5>1. entry # Absent
          BY <3>6, <2>a DEF HandlerResponds, OneHolder, WorkingPc
        <5> QED BY <3>6, <4>1, <4>2, <4>3, <5>1 DEF HandlerResponds, OneEffect, WorkingPc
      <4> QED BY <3>6, <4>1, <4>2, <4>4, <4>5, <2>a DEF HandlerResponds, KeyInv, TypeOK, TakenKeysExpire
    <3>7. CASE HandlerAnswers5xx(a)
      <4>1. /\ pc' \in [Attempts -> Pc] /\ pc'[a] = "free"
            /\ \A b \in Attempts \ {a} : pc'[b] = pc[b]
        BY <3>7, <2>a, GotoType DEF HandlerAnswers5xx, Pc
      <4> QED BY <3>7, <4>1, <2>a
              DEF HandlerAnswers5xx, KeyInv, TypeOK, OneHolder, OneEffect, TakenKeysExpire, WorkingPc
    <3>8. CASE HandlerRaises(a)
      <4>1. /\ pc' \in [Attempts -> Pc] /\ answer' \in [Attempts -> Answer]
            /\ pc'[a] = "answered" /\ \A b \in Attempts \ {a} : pc'[b] = pc[b]
        BY <3>8, <2>a, <2>b, ReplyType DEF HandlerRaises
      <4>2. effects' = effects /\ effects \in {{}, {a}} /\ entry # Absent
        BY <3>8, <2>a DEF HandlerRaises, OneEffect, OneHolder, WorkingPc
      <4>3. \A b \in Attempts : pc'[b] \notin WorkingPc
        BY <3>8, <4>1, <2>a DEF HandlerRaises, OneHolder, WorkingPc
      <4> QED BY <3>8, <4>1, <4>2, <4>3, <2>a
              DEF HandlerRaises, KeyInv, TypeOK, OneHolder, OneEffect, TakenKeysExpire, WorkingPc
    <3>9. CASE CacheResponse(a)
      <4>1. /\ pc' \in [Attempts -> Pc] /\ answer' \in [Attempts -> Answer]
            /\ pc'[a] = "answered" /\ \A b \in Attempts \ {a} : pc'[b] = pc[b]
        BY <3>9, <2>a, <2>b, ReplyType DEF CacheResponse
      <4>2. entry' = Done(a) /\ expiry' = "set"
        BY <3>9, <2>a DEF CacheResponse, SetExisting, OneHolder, WorkingPc
      <4>3. \A b \in Attempts : pc'[b] \notin WorkingPc
        BY <3>9, <4>1, <2>a DEF CacheResponse, OneHolder, WorkingPc
      <4> QED BY <3>9, <4>1, <4>2, <4>3, <2>a
              DEF CacheResponse, KeyInv, TypeOK, OneHolder, OneEffect, TakenKeysExpire, Entry, WorkingPc
    <3>10. CASE FreeKey(a)
      <4>1. /\ pc' \in [Attempts -> Pc] /\ answer' \in [Attempts -> Answer]
            /\ pc'[a] = "answered" /\ \A b \in Attempts \ {a} : pc'[b] = pc[b]
        BY <3>10, <2>a, <2>b, ReplyType DEF FreeKey
      <4>2. effects = {}
        BY <3>10, <2>a DEF FreeKey, OneEffect
      <4>3. \A b \in Attempts : pc'[b] \notin WorkingPc
        BY <3>10, <4>1, <2>a DEF FreeKey, OneHolder, WorkingPc
      <4> QED BY <3>10, <4>1, <4>2, <4>3, <2>a
              DEF FreeKey, Remove, KeyInv, TypeOK, OneHolder, OneEffect, TakenKeysExpire, Entry, WorkingPc
    <3>11. CASE Crash(a)
      <4>1. /\ pc' \in [Attempts -> Pc] /\ pc'[a] = "dead"
            /\ \A b \in Attempts \ {a} : pc'[b] = pc[b]
        BY <3>11, <2>a, GotoType DEF Crash, Pc
      <4> QED BY <3>11, <4>1, <2>a
              DEF Crash, KeyInv, TypeOK, OneHolder, OneEffect, TakenKeysExpire, WorkingPc
    <3>12. CASE TakeEffect(a)
      <4>1. effects' = {a} /\ entry # Absent
        BY <3>12, <2>a DEF TakeEffect, OneEffect, OneHolder, WorkingPc
      <4>2. \A b \in Attempts : pc[b] \in WorkingPc => b = a
        BY <3>12, <2>a DEF TakeEffect, OneHolder, WorkingPc
      <4> QED BY <3>12, <4>1, <4>2, <2>a
              DEF TakeEffect, KeyInv, TypeOK, OneHolder, OneEffect, TakenKeysExpire, WorkingPc
    <3> QED BY <2>3, <3>1, <3>2, <3>3, <3>4, <3>5, <3>6, <3>7, <3>8, <3>9, <3>10, <3>11,
               <3>12
            DEF Step, Progress
  <2> QED BY <2>1, <2>2, <2>3 DEF Next
<1> QED BY <1>1, <1>2, PTL DEF Spec

\* The key, the attempts and the answers keep their types: in particular whatever a
\* retry finds under the key is a response that some attempt computed.
THEOREM KeyTypeCorrect == Spec => []TypeOK
BY KeyInvHolds, PTL DEF KeyInv

\* No command leaves the key without an expiry: this is what lets Redis give up the key
\* of an attempt that raised or died, wherever it stood.
THEOREM KeysAreTemporary == Spec => []TakenKeysExpire
BY KeyInvHolds, PTL DEF KeyInv

\* Only an attempt that was answered has an answer, and a response, cached or given, is
\* that of an attempt which was answered itself.
AnswersStand ==
  /\ \A a \in Attempts : pc[a] # "answered" => answer[a].kind = "none"
  /\ \A a \in Attempts : answer[a].kind = "response" => pc[answer[a].of] = "answered"
  /\ \A a \in Attempts : entry = Done(a) => pc[a] = "answered"

LEMMA ResponsesNameAttempts ==
  \A what \in Answer : what.kind = "response" => what.of \in Attempts
BY DEF Answer

\* An answer keeps this if it repeats no response but one that was given.
LEMMA ReplyStands ==
  ASSUME TypeOK, AnswersStand, NEW a \in Attempts, NEW what \in Answer, Reply(a, what),
         pc[a] # "answered",
         what.kind = "response" => what.of = a \/ pc[what.of] = "answered",
         entry' \in {entry, Absent, Done(a)}
  PROVE  AnswersStand'
<1>1. /\ pc'[a] = "answered" /\ answer'[a] = what
      /\ \A b \in Attempts \ {a} : pc'[b] = pc[b] /\ answer'[b] = answer[b]
  BY DEF Reply, Goto, TypeOK
<1>2. ASSUME NEW b \in Attempts, answer'[b].kind = "response"
      PROVE  pc'[answer'[b].of] = "answered"
  <2>1. answer'[b] \in Answer  BY <1>1 DEF TypeOK
  <2>2. answer'[b].of \in Attempts  BY <1>2, <2>1, ResponsesNameAttempts
  <2> QED BY <1>1, <1>2, <2>2 DEF AnswersStand
<1>3. \A b \in Attempts : entry' = Done(b) => pc'[b] = "answered"
  BY <1>1, StatusesDiffer DEF AnswersStand, Done
<1> QED BY <1>1, <1>2, <1>3 DEF AnswersStand

LEMMA AnswersStandHolds == Spec => []AnswersStand
<1>1. Init => AnswersStand
  BY StatusesDiffer DEF Init, AnswersStand, Plain
<1>2. TypeOK /\ AnswersStand /\ [Next]_vars => AnswersStand'
  <2> SUFFICES ASSUME TypeOK, AnswersStand, [Next]_vars  PROVE AnswersStand'  OBVIOUS
  <2>1. CASE UNCHANGED vars  BY <2>1 DEF vars, AnswersStand
  <2>2. CASE Expire  BY <2>2, StatusesDiffer DEF Expire, Remove, AnswersStand
  <2>3. ASSUME NEW a \in Attempts,
               \/ Reserve(a) \/ FailToReserve(a) \/ TakeEffect(a) \/ MarkInProgress(a)
               \/ HandlerResponds(a) \/ HandlerAnswers5xx(a) \/ Crash(a)
        PROVE  AnswersStand'
    <3>1. /\ pc[a] # "answered" /\ pc'[a] # "answered" /\ answer' = answer
          /\ entry' \in {entry, Absent, Reserved, InProgress}
          /\ \A b \in Attempts \ {a} : pc'[b] = pc[b]
      BY <2>3 DEF Reserve, FailToReserve, TakeEffect, MarkInProgress, HandlerResponds,
                  HandlerAnswers5xx, Crash, SetExisting, Goto, TypeOK, WorkingPc
    <3>2. \A b \in Attempts : answer[b].kind = "response" => answer[b].of \in Attempts
      BY ResponsesNameAttempts DEF TypeOK
    <3> QED BY <3>1, <3>2, StatusesDiffer DEF AnswersStand
  <2>4. ASSUME NEW a \in Attempts,
               AnswerConflict(a) \/ HandlerRaises(a) \/ FreeKey(a)
        PROVE  AnswersStand'
    <3>1. PICK kind \in {"conflict", "error"} : Reply(a, Plain(kind))
      BY <2>4 DEF AnswerConflict, HandlerRaises, FreeKey, Remove
    <3>2. Plain(kind) \in Answer /\ Plain(kind).kind # "response"
      BY DEF Plain, Answer
    <3>3. pc[a] # "answered" /\ entry' \in {entry, Absent}
      BY <2>4 DEF AnswerConflict, HandlerRaises, FreeKey, Remove
    <3> QED BY <3>1, <3>2, <3>3, ReplyStands
  <2>5. ASSUME NEW a \in Attempts, CacheResponse(a)  PROVE AnswersStand'
    <3>1. Response(a) \in Answer /\ Response(a).of = a  BY DEF Response, Answer
    <3>2. Reply(a, Response(a)) /\ pc[a] # "answered" /\ entry' \in {entry, Absent, Done(a)}
      BY <2>5 DEF CacheResponse, SetExisting
    <3> QED BY <3>1, <3>2, ReplyStands
  <2>6. ASSUME NEW a \in Attempts, AnswerFromCache(a)  PROVE AnswersStand'
    <3> DEFINE what == IF entry = Reserved THEN Plain("empty") ELSE Response(entry.of)
    <3>1. Reply(a, what) /\ pc[a] # "answered" /\ entry' = entry
      BY <2>6 DEF AnswerFromCache
    <3>2. CASE entry = Reserved
      <4>1. what = Plain("empty") /\ Plain("empty") \in Answer
            /\ Plain("empty").kind # "response"
        BY <3>2 DEF Plain, Answer
      <4> QED BY <3>1, <4>1, ReplyStands
    <3>3. CASE entry # Reserved
      <4>1. PICK b \in Attempts : entry = Done(b)
        BY <2>6, <3>3 DEF AnswerFromCache, TypeOK, Entry
      <4>2. what = Response(b) /\ Response(b) \in Answer /\ Response(b).of = b
        BY <3>3, <4>1 DEF Done, Response, Answer
      <4>3. pc[b] = "answered"  BY <4>1 DEF AnswersStand
      <4> QED BY <3>1, <4>2, <4>3, ReplyStands
    <3> QED BY <3>2, <3>3
  <2> QED BY <2>1, <2>2, <2>3, <2>4, <2>5, <2>6 DEF Next, Step, Progress
<1> QED BY <1>1, <1>2, KeyTypeCorrect, PTL DEF Spec

\* A set all of whose members are equal has at most one.
LEMMA AtMostOneMember ==
  ASSUME NEW S, \A x, y \in S : x = y
  PROVE  Cardinality(S) <= 1
<1>1. CASE S = {}  BY <1>1, FS_EmptySet
<1>2. CASE S # {}
  <2>1. PICK x \in S : TRUE  BY <1>2
  <2>2. S = {x}  BY <2>1
  <2> QED BY <2>2, FS_Singleton
<1> QED BY <1>1, <1>2

\* The reservation excludes: at most one attempt works on a key, whatever retries
\* race with it.
THEOREM ReservationExcludes == Spec => []OneWorks
<1>1. KeyInv => OneWorks
  BY AtMostOneMember DEF KeyInv, OneHolder, OneWorks, Working
<1> QED BY <1>1, KeyInvHolds, PTL

\* A request takes effect at most once in the lifetime of its key.
THEOREM EffectIsUnique == Spec => []AtMostOneEffect
<1>1. KeyInv => AtMostOneEffect
  BY AtMostOneMember DEF KeyInv, OneEffect, AtMostOneEffect
<1> QED BY <1>1, KeyInvHolds, PTL

\* A cached response stays what it is until the key expires.
THEOREM CachedResponseIsStable == Spec => ResponseIsStable
<1> DEFINE Stable == \A a \in Attempts : entry = Done(a) => entry' \in {Done(a), Absent}
<1>1. KeyInv /\ [Next]_vars => [Stable]_vars
  <2> SUFFICES ASSUME KeyInv, [Next]_vars, NEW a \in Attempts, entry = Done(a)
               PROVE  entry' \in {Done(a), Absent}
    OBVIOUS
  <2>1. CASE UNCHANGED vars  BY <2>1 DEF vars
  <2>2. CASE Expire  BY <2>2 DEF Expire, Remove
  <2>3. ASSUME NEW b \in Attempts, Step(b)  PROVE entry' \in {Done(a), Absent}
    <3>1. pc[b] \notin WorkingPc
      BY StatusesDiffer DEF KeyInv, OneHolder
    <3> QED BY <2>3, <3>1, StatusesDiffer
            DEF Step, Progress, Reserve, FailToReserve, AnswerConflict, AnswerFromCache,
                MarkInProgress, HandlerResponds, HandlerAnswers5xx, HandlerRaises,
                CacheResponse, FreeKey, Crash, TakeEffect, WorkingPc
  <2> QED BY <2>1, <2>2, <2>3 DEF Next
<1> QED BY <1>1, KeyInvHolds, PTL DEF Spec, ResponseIsStable
=============================================================================
