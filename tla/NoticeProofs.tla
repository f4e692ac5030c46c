---------------------------- MODULE NoticeProofs ----------------------------
(***************************************************************************)
(* What the PSP and the merchant are told stays true.  A callback commits  *)
(* its outcome only over an open transaction, and nothing rewrites a       *)
(* decided one: so the callback that decided a transaction is the only one *)
(* that ever notifies of it.                                               *)
(***************************************************************************)
EXTENDS UpiInitiateProofs

NotifyPc == {"outbox", "dispatch"}

\* A callback past its commit has decided its transaction, and has left of the
\* notice exactly what it has not done yet.
Notifying(c) ==
  /\ cpc[c] \in NotifyPc => txns[creq[c].txn].state = TargetOf(creq[c].event)
  /\ cpc[c] = "outbox" => outbox[Notice(c)] = 0
  /\ cpc[c] = "dispatch" => outbox[Notice(c)] = 1 /\ queue[Notice(c)] = 0

\* One callback at most notifies of a transaction.
OneNotifier ==
  \A c, d \in Callbacks :
    cpc[c] \in NotifyPc /\ cpc[d] \in NotifyPc /\ creq[c].txn = creq[d].txn => c = d

\* The inductive invariant.
NoticeInv ==
  /\ SettlementInv
  /\ AckedIsDurable
  /\ NoticesAreTrue
  /\ OneNotifier
  /\ \A c \in Callbacks : Notifying(c)

-----------------------------------------------------------------------------
LEMMA TargetIsFinal == \A e : TargetOf(e) \in Finalised
BY DEF TargetOf, Finalised

\* A step under which a decided transaction keeps its outcome.
DecidedStay ==
  \A t \in Txns : Exists(t) /\ txns[t].state \in Finalised =>
    Exists(t)' /\ txns'[t].state = txns[t].state

LEMMA InitiateKeepsDecided ==
  ASSUME TypeOK, NEW i \in Initiators, InitiateStep(i)
  PROVE  DecidedStay
<1>1. CASE CommitInitiate(i)
  BY <1>1 DEF CommitInitiate, DecidedStay, Exists, TypeOK, DbTypeOK
<1>2. CASE ~CommitInitiate(i)
  BY <1>2, OnlyInitiateCommitsOpen DEF DecidedStay, Exists
<1> QED BY <1>1, <1>2

LEMMA CallbackKeepsDecided ==
  ASSUME SettlementInv, NEW c \in Callbacks, CallbackStep(c)
  PROVE  DecidedStay
<1>1. CASE CommitCallback(c)
  <2>1. txns[creq[c].txn].state = "PENDING"
    BY <1>1 DEF CommitCallback, SettlementInv, Current, Decided, HoldsTxnPc
  <2>2. \A t \in Txns : t # creq[c].txn => txns'[t] = txns[t]
    BY <1>1 DEF CommitCallback, SettlementInv, TypeOK, DbTypeOK
  <2> QED BY <2>1, <2>2 DEF DecidedStay, Finalised, Exists
<1>2. CASE ~CommitCallback(c)
  BY <1>2, OnlyCommitsWrite DEF DecidedStay, Exists
<1> QED BY <1>1, <1>2

\* Where no notice is given, what was told stays true.
LEMMA ToldStaysTrue ==
  ASSUME NoticeInv, DecidedStay, UNCHANGED <<outbox, queue, acked>>
  PROVE  AckedIsDurable' /\ NoticesAreTrue'
BY TargetIsFinal DEF NoticeInv, DecidedStay, AckedIsDurable, NoticesAreTrue

\* A callback that a step leaves alone goes on notifying, if nobody else touches the
\* notice it is at work on.
LEMMA NotifierStands ==
  ASSUME NoticeInv, DecidedStay, NEW c \in Callbacks, cpc'[c] = cpc[c], creq'[c] = creq[c],
         cpc[c] \in NotifyPc => /\ outbox'[Notice(c)] = outbox[Notice(c)]
                                /\ queue'[Notice(c)] = queue[Notice(c)]
  PROVE  Notifying(c)'
<1>1. CASE cpc[c] \in NotifyPc
  <2>1. creq[c].txn \in Txns /\ Exists(creq[c].txn)
    BY <1>1, EventType DEF NoticeInv, SettlementInv, NotifyPc, TypeOK, CallbackTypeOK
  <2>2. txns'[creq[c].txn].state = TargetOf(creq[c].event)
    BY <1>1, <2>1, TargetIsFinal DEF NoticeInv, Notifying, DecidedStay
  <2> QED BY <1>1, <2>2 DEF NoticeInv, Notifying, Notice, NotifyPc
<1>2. CASE cpc[c] \notin NotifyPc  BY <1>2 DEF Notifying, NotifyPc
<1> QED BY <1>1, <1>2

LEMMA InitiateKeepsNoticeInv ==
  ASSUME NoticeInv, NEW i \in Initiators, InitiateStep(i), UNCHANGED callbackVars
  PROVE  NoticeInv'
<1> USE DEF callbackVars, noticeVars
<1>1. SettlementInv'  BY InitiateKeepsInv DEF NoticeInv
<1>2. DecidedStay  BY InitiateKeepsDecided DEF NoticeInv, SettlementInv
<1>3. AckedIsDurable' /\ NoticesAreTrue'  BY <1>2, ToldStaysTrue
<1>4. \A c \in Callbacks : Notifying(c)'  BY <1>2, NotifierStands
<1>5. OneNotifier'  BY DEF NoticeInv, OneNotifier
<1> QED BY <1>1, <1>3, <1>4, <1>5 DEF NoticeInv

-----------------------------------------------------------------------------
\* A callback that is not past its commit and does not commit notifies of nothing.
LEMMA OtherStepsKeepNoticeInv ==
  ASSUME NoticeInv, SettlementInv', NEW c \in Callbacks, CallbackStep(c),
         cpc'[c] \notin NotifyPc, UNCHANGED <<outbox, queue>>,
         acked' = acked \/ /\ acked' = acked \cup {Notice(c)}
                           /\ Exists(creq[c].txn)
                           /\ txns[creq[c].txn].state = TargetOf(creq[c].event)
  PROVE  NoticeInv'
<1>1. DecidedStay  BY CallbackKeepsDecided DEF NoticeInv
<1>2. TypeOK  BY DEF NoticeInv, SettlementInv
<1>3. \A d \in Callbacks \ {c} : cpc'[d] = cpc[d] /\ creq'[d] = creq[d]
  BY <1>2, CallbackStepIsOwn
<1>4. AckedIsDurable'
  BY <1>1, TargetIsFinal DEF NoticeInv, AckedIsDurable, DecidedStay, Notice
<1>5. NoticesAreTrue'
  BY <1>1, TargetIsFinal DEF NoticeInv, DecidedStay, NoticesAreTrue
<1>6. \A d \in Callbacks : Notifying(d)'
  <2>1. Notifying(c)'  BY DEF Notifying, NotifyPc
  <2> QED BY <1>1, <1>3, <2>1, NotifierStands
<1>7. OneNotifier'  BY <1>3 DEF NoticeInv, OneNotifier
<1> QED BY <1>4, <1>5, <1>6, <1>7 DEF NoticeInv

\* A commit decides an open transaction: nothing was told of it, and nobody else is
\* about to tell.
LEMMA CommitKeepsNoticeInv ==
  ASSUME NoticeInv, SettlementInv', NEW c \in Callbacks, CommitCallback(c)
  PROVE  NoticeInv'
<1>1. CallbackStep(c)  BY DEF CallbackStep, CallbackProgress
<1>2. DecidedStay  BY <1>1, CallbackKeepsDecided DEF NoticeInv
<1>3. TypeOK  BY DEF NoticeInv, SettlementInv
<1>4. /\ cpc[c] = "commit" /\ cpc'[c] = "outbox" /\ creq' = creq
      /\ UNCHANGED <<outbox, queue, acked>>
  BY <1>3 DEF CommitCallback, Advance, noticeVars, TypeOK, CallbackTypeOK
<1>5. \A d \in Callbacks \ {c} : cpc'[d] = cpc[d] /\ creq'[d] = creq[d]
  BY <1>1, <1>3, CallbackStepIsOwn
<1>6. creq[c].txn \in Txns /\ creq[c].event \in Event
  BY <1>3, <1>4, EventType
<1>7. txns[creq[c].txn].state = "PENDING"
  BY <1>4 DEF NoticeInv, SettlementInv, Current, Decided, HoldsTxnPc
<1>8. txns'[creq[c].txn].state = TargetOf(creq[c].event)
  <2>1. txns[creq[c].txn] \in TxnRow  BY <1>3, <1>4, EventType
  <2> QED BY <1>3, <1>6, <2>1 DEF CommitCallback, TypeOK, DbTypeOK, TxnRow
<1>9. outbox[Notice(c)] = 0
  <2>1. outbox[<<creq[c].txn, creq[c].event>>] \in Nat
    BY <1>3, <1>6 DEF TypeOK, CallbackTypeOK
  <2>2. ~(outbox[<<creq[c].txn, creq[c].event>>] > 0)
    BY <1>6, <1>7 DEF NoticeInv, NoticesAreTrue, TargetOf
  <2> QED BY <2>1, <2>2 DEF Notice
<1>10. AckedIsDurable' /\ NoticesAreTrue'  BY <1>2, <1>4, ToldStaysTrue
<1>11. \A d \in Callbacks : Notifying(d)'
  <2>1. Notifying(c)'  BY <1>4, <1>8, <1>9 DEF Notifying, NotifyPc, Notice
  <2> QED BY <1>2, <1>4, <1>5, <2>1, NotifierStands
<1>12. OneNotifier'
  <2>1. \A d \in Callbacks : cpc[d] \in NotifyPc => creq[d].txn # creq[c].txn
    BY <1>7, TargetIsFinal DEF NoticeInv, Notifying, Finalised
  <2> QED BY <1>4, <1>5, <2>1 DEF NoticeInv, OneNotifier
<1> QED BY <1>10, <1>11, <1>12 DEF NoticeInv

\* Two callbacks past their commits are at work on different notices.
LEMMA NoticesDiffer ==
  ASSUME NoticeInv, NEW c \in Callbacks, NEW d \in Callbacks, d # c,
         cpc[c] \in NotifyPc, cpc[d] \in NotifyPc
  PROVE  Notice(d) # Notice(c)
BY DEF NoticeInv, OneNotifier, Notice

\* The outbox row, and then the task, are the first and the only ones of the notice.
LEMMA WriteOutboxKeepsNoticeInv ==
  ASSUME NoticeInv, SettlementInv', NEW c \in Callbacks, WriteOutbox(c)
  PROVE  NoticeInv'
<1>1. CallbackStep(c)  BY DEF CallbackStep, CallbackProgress
<1>2. DecidedStay  BY <1>1, CallbackKeepsDecided DEF NoticeInv
<1>3. TypeOK  BY DEF NoticeInv, SettlementInv
<1>4. /\ cpc[c] = "outbox" /\ cpc'[c] = "dispatch" /\ creq' = creq
      /\ UNCHANGED <<txns, queue, acked>>
      /\ outbox' = [outbox EXCEPT ![Notice(c)] = @ + 1]
  BY <1>3 DEF WriteOutbox, Advance, dbVars, TypeOK, CallbackTypeOK
<1>5. \A d \in Callbacks \ {c} : cpc'[d] = cpc[d] /\ creq'[d] = creq[d]
  BY <1>1, <1>3, CallbackStepIsOwn
<1>6. Notice(c) \in Txns \X Event /\ creq[c].txn \in Txns /\ creq[c].event \in Event
  BY <1>3, <1>4, EventType
<1>7. /\ outbox[Notice(c)] = 0 /\ outbox'[Notice(c)] = 1 /\ queue[Notice(c)] = 0
      /\ \A n \in Txns \X Event : n # Notice(c) => outbox'[n] = outbox[n]
  <2>1. outbox[Notice(c)] = 0  BY <1>4 DEF NoticeInv, Notifying
  <2>2. queue[Notice(c)] \in Nat /\ queue[Notice(c)] <= outbox[Notice(c)]
    BY <1>3, <1>6 DEF NoticeInv, NoticesAreTrue, Notice, TypeOK, CallbackTypeOK
  <2>3. outbox \in [Txns \X Event -> Nat]  BY <1>3 DEF TypeOK, CallbackTypeOK
  <2> QED BY <1>4, <1>6, <2>1, <2>2, <2>3
<1>8. AckedIsDurable'
  BY <1>4 DEF NoticeInv, AckedIsDurable, Exists
<1>9. NoticesAreTrue'
  <2> SUFFICES ASSUME NEW t \in Txns, NEW e \in Event
               PROVE  /\ outbox'[<<t, e>>] <= 1 /\ queue'[<<t, e>>] <= outbox'[<<t, e>>]
                      /\ outbox'[<<t, e>>] > 0 => Exists(t)' /\ txns'[t].state = TargetOf(e)
    BY DEF NoticesAreTrue
  <2>1. CASE <<t, e>> = Notice(c)
    <3>1. Exists(creq[c].txn) /\ txns[creq[c].txn].state = TargetOf(creq[c].event)
      BY <1>3, <1>4 DEF NoticeInv, Notifying, NotifyPc, TypeOK, CallbackTypeOK
    <3> QED BY <1>4, <1>7, <2>1, <3>1 DEF Notice, Exists
  <2>2. CASE <<t, e>> # Notice(c)
    BY <1>4, <1>7, <2>2 DEF NoticeInv, NoticesAreTrue, Exists
  <2> QED BY <2>1, <2>2
<1>10. \A d \in Callbacks : Notifying(d)'
  <2>1. Notifying(c)'  BY <1>4, <1>7 DEF NoticeInv, Notifying, NotifyPc, Notice
  <2>2. ASSUME NEW d \in Callbacks \ {c}  PROVE Notifying(d)'
    <3>1. cpc[d] \in NotifyPc => Notice(d) \in Txns \X Event /\ Notice(d) # Notice(c)
      BY <1>3, <1>4, EventType, NoticesDiffer DEF NotifyPc
    <3> QED BY <1>2, <1>4, <1>5, <1>7, <3>1, NotifierStands
  <2> QED BY <2>1, <2>2
<1>11. OneNotifier'  BY <1>4, <1>5 DEF NoticeInv, OneNotifier, NotifyPc
<1> QED BY <1>8, <1>9, <1>10, <1>11 DEF NoticeInv

LEMMA DispatchKeepsNoticeInv ==
  ASSUME NoticeInv, SettlementInv', NEW c \in Callbacks, Dispatch(c)
  PROVE  NoticeInv'
<1>1. CallbackStep(c)  BY DEF CallbackStep, CallbackProgress
<1>2. DecidedStay  BY <1>1, CallbackKeepsDecided DEF NoticeInv
<1>3. TypeOK  BY DEF NoticeInv, SettlementInv
<1>4. /\ cpc[c] = "dispatch" /\ cpc'[c] = "idle"
      /\ UNCHANGED <<txns, outbox>>
      /\ queue' = [queue EXCEPT ![Notice(c)] = @ + 1]
      /\ acked' = acked \cup {Notice(c)}
  BY <1>3 DEF Dispatch, CallbackDone, Advance, TypeOK, CallbackTypeOK
<1>5. \A d \in Callbacks \ {c} : cpc'[d] = cpc[d] /\ creq'[d] = creq[d]
  BY <1>1, <1>3, CallbackStepIsOwn
<1>6. Notice(c) \in Txns \X Event /\ creq[c].txn \in Txns /\ creq[c].event \in Event
  BY <1>3, <1>4, EventType
<1>7. /\ outbox[Notice(c)] = 1 /\ queue'[Notice(c)] = 1
      /\ \A n \in Txns \X Event : n # Notice(c) => queue'[n] = queue[n]
  <2>1. outbox[Notice(c)] = 1 /\ queue[Notice(c)] = 0  BY <1>4 DEF NoticeInv, Notifying
  <2>2. queue \in [Txns \X Event -> Nat]  BY <1>3 DEF TypeOK, CallbackTypeOK
  <2> QED BY <1>4, <1>6, <2>1, <2>2
<1>8. Exists(creq[c].txn) /\ txns[creq[c].txn].state = TargetOf(creq[c].event)
  BY <1>3, <1>4 DEF NoticeInv, Notifying, NotifyPc, TypeOK, CallbackTypeOK
<1>9. AckedIsDurable'
  BY <1>4, <1>8 DEF NoticeInv, AckedIsDurable, Exists, Notice
<1>10. NoticesAreTrue'
  <2> SUFFICES ASSUME NEW t \in Txns, NEW e \in Event
               PROVE  /\ outbox'[<<t, e>>] <= 1 /\ queue'[<<t, e>>] <= outbox'[<<t, e>>]
                      /\ outbox'[<<t, e>>] > 0 => Exists(t)' /\ txns'[t].state = TargetOf(e)
    BY DEF NoticesAreTrue
  <2>1. CASE <<t, e>> = Notice(c)
    BY <1>4, <1>7, <1>8, <2>1 DEF Notice, Exists
  <2>2. CASE <<t, e>> # Notice(c)
    BY <1>4, <1>7, <2>2 DEF NoticeInv, NoticesAreTrue, Exists
  <2> QED BY <2>1, <2>2
<1>11. \A d \in Callbacks : Notifying(d)'
  <2>1. Notifying(c)'  BY <1>4 DEF Notifying, NotifyPc
  <2>2. ASSUME NEW d \in Callbacks \ {c}  PROVE Notifying(d)'
    <3>1. cpc[d] \in NotifyPc => Notice(d) \in Txns \X Event /\ Notice(d) # Notice(c)
      BY <1>3, <1>4, EventType, NoticesDiffer DEF NotifyPc
    <3> QED BY <1>2, <1>4, <1>5, <1>7, <3>1, NotifierStands
  <2> QED BY <2>1, <2>2
<1>12. OneNotifier'  BY <1>4, <1>5 DEF NoticeInv, OneNotifier, NotifyPc
<1> QED BY <1>9, <1>10, <1>11, <1>12 DEF NoticeInv

-----------------------------------------------------------------------------
LEMMA CallbackKeepsNoticeInv ==
  ASSUME NoticeInv, NEW c \in Callbacks, CallbackStep(c), UNCHANGED initiateVars
  PROVE  NoticeInv'
<1> USE DEF noticeVars, readVars
<1>1. SettlementInv'  BY CallbackKeepsInv DEF NoticeInv
<1>2. TypeOK  BY DEF NoticeInv, SettlementInv
<1>3. ASSUME CallbackDone(c)  PROVE cpc'[c] \notin NotifyPc
  BY <1>2, <1>3 DEF CallbackDone, Advance, NotifyPc, TypeOK, CallbackTypeOK
<1>4. CASE CommitCallback(c)  BY <1>1, <1>4, CommitKeepsNoticeInv
<1>5. CASE WriteOutbox(c)  BY <1>1, <1>5, WriteOutboxKeepsNoticeInv
<1>6. CASE Dispatch(c)  BY <1>1, <1>6, DispatchKeepsNoticeInv
<1>7. CASE ReplayCallback(c)
  <2>1. Exists(creq[c].txn) /\ txns[creq[c].txn].state = TargetOf(creq[c].event)
    BY <1>2, <1>7 DEF ReplayCallback, IntentGranted, IsReplay, NoticeInv, SettlementInv,
                      Current, HoldsTxnPc, CallbackTypeOK, TypeOK
  <2> QED BY <1>1, <1>3, <1>7, <2>1, OtherStepsKeepNoticeInv DEF ReplayCallback
<1>8. CASE SkipOutbox(c)
  <2>1. Exists(creq[c].txn) /\ txns[creq[c].txn].state = TargetOf(creq[c].event)
    BY <1>2, <1>8 DEF SkipOutbox, NoticeInv, Notifying, NotifyPc, CallbackTypeOK, TypeOK
  <2> QED BY <1>1, <1>3, <1>8, <2>1, OtherStepsKeepNoticeInv DEF SkipOutbox
<1>9. CASE Abandon(c)
  BY <1>1, <1>3, <1>9, OtherStepsKeepNoticeInv DEF Abandon
<1>10. CASE ReceiveCallback(c) \/ LockTransaction(c) \/ LockIntent(c) \/ LockPayerAccount(c)
            \/ LockMerchantAccount(c)
  <2>1. cpc'[c] \notin NotifyPc /\ UNCHANGED <<outbox, queue, acked>>
    BY <1>2, <1>10 DEF ReceiveCallback, LockTransaction, LockIntent, LockPayerAccount,
                       LockMerchantAccount, Advance, NotifyPc, TypeOK, CallbackTypeOK
  <2> QED BY <1>1, <2>1, OtherStepsKeepNoticeInv
<1> QED BY <1>4, <1>5, <1>6, <1>7, <1>8, <1>9, <1>10
        DEF CallbackStep, CallbackProgress, TransactionNotFound, AmountMismatch, RefuseCallback,
            RefuseWideVpa, RefuseOverflow, FailCallback

\* The inductive invariant holds.
LEMMA NoticeInvHolds == Spec => []NoticeInv
<1>1. Init => SettlementInv  BY InitSettled
<1>2. Init => NoticeInv
  BY <1>1 DEF Init, CallbackInit, NoticeInv, AckedIsDurable, NoticesAreTrue, OneNotifier,
              Notifying, NotifyPc
<1>3. NoticeInv /\ SettlementInv' /\ [Next]_vars => NoticeInv'
  <2> SUFFICES ASSUME NoticeInv, SettlementInv', [Next]_vars  PROVE NoticeInv'  OBVIOUS
  <2>1. CASE UNCHANGED vars
    BY <2>1 DEF vars, dbVars, callbackVars, noticeVars, NoticeInv, AckedIsDurable,
                NoticesAreTrue, OneNotifier, Notifying, Notice, Exists
  <2>2. CASE Next
    BY <2>2, InitiateKeepsNoticeInv, CallbackKeepsNoticeInv DEF Next
  <2> QED BY <2>1, <2>2
<1> QED BY <1>2, <1>3, SettlementInvHolds, PTL DEF Spec

\* What is acknowledged to the PSP is committed and final: the PSP may stop retrying.
THEOREM AcksAreDurable == Spec => []AckedIsDurable
<1>1. NoticeInv => AckedIsDurable  BY DEF NoticeInv
<1> QED BY <1>1, NoticeInvHolds, PTL

\* The merchant is told of a transaction at most once and of its outcome, whatever
\* callbacks race, repeat, contradict each other or die.
THEOREM MerchantHearsTheTruth == Spec => []NoticesAreTrue
<1>1. NoticeInv => NoticesAreTrue  BY DEF NoticeInv
<1> QED BY <1>1, NoticeInvHolds, PTL

-----------------------------------------------------------------------------
\* What holds while no callback dies at work.
NoCallbackDies == MayFail \cap Callbacks = {}

Owed(t) == Exists(t) /\ txns[t].state \in Finalised /\ MerchantOf[txns[t].order] \in Hooked

\* A notice that is owed was handed to Celery or is some callback's next business.
OwedIsHandled ==
  \A t \in Txns : Owed(t) =>
    \/ \E e \in Event : queue[<<t, e>>] > 0
    \/ \E c \in Callbacks : cpc[c] \in NotifyPc /\ creq[c].txn = t

\* An initiation makes no notice owed.
LEMMA InitiateKeepsOwed ==
  ASSUME TypeOK, OwedIsHandled, NEW i \in Initiators, InitiateStep(i), UNCHANGED callbackVars
  PROVE  OwedIsHandled'
<1>1. ASSUME NEW t \in Txns, Owed(t)'  PROVE Owed(t)
  <2>1. CASE CommitInitiate(i)
    <3>1. txns'[t].state \in Finalised => txns'[t] = txns[t]
      BY <2>1, CommitInitiateWrites DEF Finalised
    <3> QED BY <1>1, <3>1 DEF Owed, Exists
  <2>2. CASE ~CommitInitiate(i)
    BY <1>1, <2>2, OnlyInitiateCommitsOpen DEF Owed, Exists
  <2> QED BY <2>1, <2>2
<1> QED BY <1>1 DEF OwedIsHandled, callbackVars, noticeVars

\* Past its commit a callback that does not die goes on to the outbox and to Celery.
LEMMA NotifierGoesOn ==
  ASSUME NoticeInv, NoCallbackDies, NEW c \in Callbacks, CallbackStep(c), cpc[c] \in NotifyPc,
         PayeeOf(c) \in Hooked
  PROVE  (cpc'[c] \in NotifyPc /\ creq' = creq) \/ queue'[Notice(c)] > 0
<1>1. TypeOK  BY DEF NoticeInv, SettlementInv
<1>2. WriteOutbox(c) \/ Dispatch(c)
  BY DEF CallbackStep, CallbackProgress, ReceiveCallback, TransactionNotFound, LockTransaction,
         AmountMismatch, ReplayCallback, RefuseCallback, LockIntent, RefuseWideVpa,
         LockPayerAccount, LockMerchantAccount, RefuseOverflow, CommitCallback, SkipOutbox,
         FailCallback, IntentGranted, NotifyPc, NoCallbackDies
<1>3. CASE WriteOutbox(c)
  BY <1>1, <1>3 DEF WriteOutbox, Advance, NotifyPc, TypeOK, CallbackTypeOK
<1>4. CASE Dispatch(c)
  <2>1. Notice(c) \in Txns \X Event  BY <1>1, EventType DEF NotifyPc
  <2>2. queue[Notice(c)] = 0  BY <1>4 DEF NoticeInv, Notifying, Dispatch
  <2> QED BY <1>1, <1>4, <2>1, <2>2 DEF Dispatch, TypeOK, CallbackTypeOK
<1> QED BY <1>2, <1>3, <1>4

LEMMA QueueOnlyGrows ==
  ASSUME TypeOK, NEW c \in Callbacks, CallbackStep(c), NEW n \in Txns \X Event, queue[n] > 0
  PROVE  queue'[n] > 0
<1>1. queue' = queue \/ queue' = [queue EXCEPT ![Notice(c)] = @ + 1]
  BY DEF CallbackStep, CallbackProgress, ReceiveCallback, TransactionNotFound, LockTransaction,
         AmountMismatch, ReplayCallback, RefuseCallback, LockIntent, RefuseWideVpa,
         LockPayerAccount, LockMerchantAccount, RefuseOverflow, CommitCallback, SkipOutbox,
         WriteOutbox, Dispatch, FailCallback, Abandon, noticeVars
<1> QED BY <1>1 DEF TypeOK, CallbackTypeOK

LEMMA CallbackKeepsOwed ==
  ASSUME NoticeInv, NoCallbackDies, OwedIsHandled, NEW c \in Callbacks, CallbackStep(c)
  PROVE  OwedIsHandled'
<1>1. TypeOK  BY DEF NoticeInv, SettlementInv
<1>2. SUFFICES ASSUME NEW t \in Txns, Owed(t)'
               PROVE  \/ \E e \in Event : queue'[<<t, e>>] > 0
                      \/ \E d \in Callbacks : cpc'[d] \in NotifyPc /\ creq'[d].txn = t
  BY DEF OwedIsHandled
<1>3. CASE CommitCallback(c) /\ t = creq[c].txn
  <2>1. cpc'[c] = "outbox" /\ creq' = creq
    BY <1>1, <1>3 DEF CommitCallback, Advance, TypeOK, CallbackTypeOK
  <2> QED BY <1>3, <2>1 DEF NotifyPc
<1>4. CASE ~(CommitCallback(c) /\ t = creq[c].txn)
  <2>1. txns'[t] = txns[t]
    BY <1>1, <1>4, OnlyCommitsWrite DEF CommitCallback, TypeOK, DbTypeOK
  <2>2. Owed(t)  BY <1>2, <2>1 DEF Owed, Exists
  <2>3. CASE \E e \in Event : queue[<<t, e>>] > 0
    BY <1>1, <2>3, QueueOnlyGrows
  <2>4. ASSUME NEW d \in Callbacks, cpc[d] \in NotifyPc, creq[d].txn = t
        PROVE  \/ \E e \in Event : queue'[<<t, e>>] > 0
               \/ cpc'[d] \in NotifyPc /\ creq'[d].txn = t
    <3>1. CASE d = c
      <4>1. PayeeOf(c) \in Hooked /\ creq[c].event \in Event
        BY <1>1, <2>2, <2>4, <3>1, EventType DEF Owed, PayeeOf, OrderOf, NotifyPc
      <4> QED BY <2>4, <3>1, <4>1, NotifierGoesOn DEF Notice
    <3>2. CASE d # c  BY <1>1, <2>4, <3>2, CallbackStepIsOwn
    <3> QED BY <3>1, <3>2
  <2> QED BY <2>2, <2>3, <2>4 DEF OwedIsHandled
<1> QED BY <1>3, <1>4

LEMMA OwedIsHandledHolds ==
  ASSUME NoCallbackDies  PROVE Spec => []OwedIsHandled
<1>1. Init => OwedIsHandled  BY DEF Init, DbInit, OwedIsHandled, Owed, Exists
<1>2. NoticeInv /\ OwedIsHandled /\ [Next]_vars => OwedIsHandled'
  <2> SUFFICES ASSUME NoticeInv, OwedIsHandled, [Next]_vars  PROVE OwedIsHandled'  OBVIOUS
  <2>1. CASE UNCHANGED vars
    BY <2>1 DEF vars, dbVars, callbackVars, noticeVars, OwedIsHandled, Owed, Exists
  <2>2. CASE Next
    BY <2>2, InitiateKeepsOwed, CallbackKeepsOwed DEF Next, NoticeInv, SettlementInv
  <2> QED BY <2>1, <2>2
<1> QED BY <1>1, <1>2, NoticeInvHolds, PTL DEF Spec

\* While no callback dies, Celery has the task of a finalised transaction as soon as no
\* callback is at work on it: a death, between the two commits or between the second one
\* and the hand-over, is the only way to lose it, whatever callbacks race, repeat or
\* contradict each other.
THEOREM EnqueuedUnlessDeath ==
  ASSUME NoCallbackDies  PROVE Spec => []FinalisedIsEnqueued
<1>1. NoticeInv /\ OwedIsHandled => FinalisedIsEnqueued
  <2> SUFFICES ASSUME NoticeInv, OwedIsHandled, NEW t \in Txns, Owed(t),
                      \A c \in Callbacks : cpc[c] # "idle" => creq[c].txn # t
               PROVE  queue[<<t, "payment.success">>] + queue[<<t, "payment.failed">>] > 0
    BY DEF FinalisedIsEnqueued, Owed
  <2>1. PICK e \in Event : queue[<<t, e>>] > 0  BY DEF OwedIsHandled, NotifyPc
  <2>2. \A x \in Event : queue[<<t, x>>] \in Nat
    BY DEF NoticeInv, SettlementInv, TypeOK, CallbackTypeOK
  <2> QED BY <2>1, <2>2 DEF Event
<1> QED BY <1>1, NoticeInvHolds, OwedIsHandledHolds, PTL
=============================================================================
