------------------------- MODULE PaymentFlowProofs -------------------------
(***************************************************************************)
(* Theorems about PaymentFlow, for any number of orders, merchants,        *)
(* addresses, transactions and workers, and with any of them failing.      *)
(***************************************************************************)
EXTENDS PaymentFlow, TLAPS

-----------------------------------------------------------------------------
(***************************************************************************)
(* Typing.                                                                 *)
(***************************************************************************)

\* Ending a transaction leaves a lock table.
LEMMA ReleasedType ==
  ASSUME DbTypeOK, NEW w
  PROVE  Released(w) \in [Rows -> Workers \cup {NoWorker}]
BY DEF DbTypeOK, Released

\* So does taking a row lock.
LEMMA LockedType ==
  ASSUME DbTypeOK, NEW w \in Workers, NEW r, SelectForUpdate(w, r)
  PROVE  lock' \in [Rows -> Workers \cup {NoWorker}]
BY DEF DbTypeOK, SelectForUpdate

\* The end of an initiation is well typed whatever happened to its request.
LEMMA InitiateDoneType ==
  ASSUME TypeOK, NEW i \in Initiators, InitiateDone(i)
  PROVE  /\ InitiateTypeOK'
         /\ lock' \in [Rows -> Workers \cup {NoWorker}]
<1>1. lock' \in [Rows -> Workers \cup {NoWorker}]
  BY ReleasedType DEF TypeOK, InitiateDone, EndTransaction
<1>2. InitiateTypeOK'
  BY DEF TypeOK, InitiateTypeOK, InitiateDone, Goto, InitiatePc, PaymentStatus
<1> QED BY <1>1, <1>2

LEMMA InitiateType ==
  ASSUME TypeOK, NEW i \in Initiators, InitiateStep(i), UNCHANGED callbackVars
  PROVE  TypeOK'
<1> USE DEF callbackVars, readVars, noticeVars
<1>1. ASSUME InitiateDone(i), UNCHANGED <<status, txns, ledgerVars>>
      PROVE  TypeOK'
  BY <1>1, InitiateDoneType DEF TypeOK, DbTypeOK, CallbackTypeOK, Exists, ledgerVars
<1>2. CASE Authenticate(i)
  <2>1. PICK r \in UpiInitiateRequest :
          /\ ireq' = [ireq EXCEPT ![i] = r]
          /\ statusSeen' = [statusSeen EXCEPT ![i] = status[r.order]]
    BY <1>2 DEF Authenticate
  <2>2. status[r.order] \in PaymentStatus
    BY DEF TypeOK, DbTypeOK, UpiInitiateRequest
  <2>3. InitiateTypeOK'
    BY <1>2, <2>1, <2>2 DEF TypeOK, InitiateTypeOK, Authenticate, Goto, InitiatePc
  <2> QED BY <1>2, <2>3 DEF TypeOK, DbTypeOK, CallbackTypeOK, Authenticate, dbVars, Exists
<1>3. CASE OrderNotFound(i)  BY <1>1, <1>3 DEF OrderNotFound
<1>4. CASE AlreadyFinalised(i)  BY <1>1, <1>4 DEF AlreadyFinalised
<1>5. CASE LockIntentRow(i)
  <2>1. lock' \in [Rows -> Workers \cup {NoWorker}]
    BY <1>5, LockedType DEF TypeOK, LockIntentRow, Workers
  <2>2. InitiateTypeOK'
    BY <1>5 DEF TypeOK, InitiateTypeOK, LockIntentRow, Goto, InitiatePc
  <2> QED BY <1>5, <2>1, <2>2 DEF TypeOK, DbTypeOK, CallbackTypeOK, LockIntentRow,
                                   ledgerVars, Exists
<1>6. CASE ReplayInitiate(i)  BY <1>1, <1>6 DEF ReplayInitiate
<1>7. CASE RefuseInitiate(i)  BY <1>1, <1>7 DEF RefuseInitiate
<1>8. CASE AcceptInitiate(i)
  <2>1. InitiateTypeOK'
    BY <1>8 DEF TypeOK, InitiateTypeOK, AcceptInitiate, Goto, InitiatePc
  <2> QED BY <1>8, <2>1 DEF TypeOK, DbTypeOK, CallbackTypeOK, AcceptInitiate, dbVars, Exists
<1>9. CASE CommitInitiate(i)
  <2>1. PICK t \in Txns :
          /\ ~Exists(t)
          /\ txns' = [txns EXCEPT ![t] = [order |-> ireq[i].order, vpa |-> ireq[i].vpa,
                                          state |-> "PENDING"]]
    BY <1>9 DEF CommitInitiate
  <2>2. ireq[i] \in UpiInitiateRequest
    BY <1>9 DEF CommitInitiate, TypeOK, InitiateTypeOK
  <2>3. [order |-> ireq[i].order, vpa |-> ireq[i].vpa, state |-> "PENDING"] \in TxnRow
    BY <2>2 DEF UpiInitiateRequest, TxnRow, TransactionState
  <2>4. DbTypeOK'
    BY <1>9, <2>1, <2>3, InitiateDoneType
    DEF TypeOK, DbTypeOK, CommitInitiate, ledgerVars, PaymentStatus
  <2>5. \A s \in Txns : Exists(s) => Exists(s)'
    BY <2>1, <2>3, SentinelAssumption DEF Exists, TypeOK, DbTypeOK
  <2>6. CallbackTypeOK'
    BY <2>5 DEF TypeOK, CallbackTypeOK, BankEvent, CallbackPc
  <2> QED BY <1>9, <2>4, <2>6, InitiateDoneType DEF TypeOK, CommitInitiate
<1>10. CASE FailInitiate(i)  BY <1>1, <1>10 DEF FailInitiate
<1> QED BY <1>2, <1>3, <1>4, <1>5, <1>6, <1>7, <1>8, <1>9, <1>10
        DEF InitiateStep, InitiateProgress

\* The end of a callback is well typed whatever happened to its event.
LEMMA CallbackDoneType ==
  ASSUME TypeOK, NEW c \in Callbacks, CallbackDone(c)
  PROVE  /\ cpc' \in [Callbacks -> CallbackPc]
         /\ creq' \in [Callbacks -> BankEvent \cup {NoRequest}]
         /\ stateRead' \in [Callbacks -> TransactionState]
         /\ payerRead' \in [Callbacks -> 0 .. MaxBalance]
         /\ merchantRead' \in [Callbacks -> 0 .. MaxBalance]
         /\ cpc'[c] = "idle"
         /\ \A d \in Callbacks \ {c} : cpc'[d] = cpc[d] /\ creq'[d] = creq[d]
         /\ lock' \in [Rows -> Workers \cup {NoWorker}]
<1>1. lock' \in [Rows -> Workers \cup {NoWorker}]
  BY ReleasedType DEF TypeOK, CallbackDone, EndTransaction
<1>2. 0 \in 0 .. MaxBalance  BY DbAssumption
<1> QED BY <1>1, <1>2 DEF TypeOK, CallbackTypeOK, CallbackDone, Advance, CallbackPc,
                          TransactionState

\* Abandoned, replayed and acknowledged callbacks change no table but the notices.
LEMMA CallbackEndType ==
  ASSUME TypeOK, NEW c \in Callbacks, CallbackDone(c),
         UNCHANGED <<status, txns, ledgerVars, outbox>>, UNCHANGED initiateVars,
         queue' \in [Txns \X Event -> Nat], acked' \in SUBSET (Txns \X Event)
  PROVE  TypeOK'
<1>1. DbTypeOK' /\ InitiateTypeOK'
  BY CallbackDoneType DEF TypeOK, DbTypeOK, InitiateTypeOK, ledgerVars, initiateVars
<1>2. \A d \in Callbacks :
        cpc'[d] \notin {"idle", "lock_txn"} => Exists(creq[d].txn)' /\ creq'[d] = creq[d]
  BY CallbackDoneType DEF TypeOK, CallbackTypeOK, Exists
<1>3. \A d \in Callbacks : cpc'[d] # "idle" => creq'[d] \in BankEvent
  BY CallbackDoneType DEF TypeOK, CallbackTypeOK
<1>4. CallbackTypeOK'
  BY <1>3, <1>2, CallbackDoneType DEF TypeOK, CallbackTypeOK, Exists
<1> QED BY <1>1, <1>4 DEF TypeOK

\* What an event at work names: rows that exist, of known type.
LEMMA EventType ==
  ASSUME TypeOK, NEW c \in Callbacks, cpc[c] \notin {"idle", "lock_txn"}
  PROVE  /\ creq[c] \in BankEvent
         /\ creq[c].txn \in Txns
         /\ creq[c].amount \in Amounts
         /\ creq[c].amount \in Nat
         /\ creq[c].event \in Event
         /\ Notice(c) \in Txns \X Event
         /\ txns[creq[c].txn] \in TxnRow
         /\ OrderOf(c) \in Orders
         /\ PayerOf(c) \in Vpas
         /\ PayeeOf(c) \in Merchants
         /\ PayerOf(c) # PayeeOf(c)
         /\ PayerOf(c) \in Accounts
         /\ PayeeOf(c) \in Accounts
<1>1. creq[c] \in BankEvent /\ Exists(creq[c].txn)  BY DEF TypeOK, CallbackTypeOK
<1>2. creq[c].txn \in Txns /\ creq[c].amount \in Amounts /\ creq[c].event \in Event
  BY <1>1 DEF BankEvent
<1>3. txns[creq[c].txn] \in TxnRow  BY <1>1, <1>2 DEF TypeOK, DbTypeOK, Exists
<1>4. OrderOf(c) \in Orders /\ PayerOf(c) \in Vpas
  BY <1>3 DEF TxnRow, OrderOf, PayerOf
<1>5. PayeeOf(c) \in Merchants  BY <1>4, DbAssumption DEF PayeeOf
<1> QED BY <1>1, <1>2, <1>3, <1>4, <1>5, DbAssumption DEF Notice, Accounts

\* Steps that move a callback on and touch neither rows, notices nor its event.
LEMMA CallbackMovesType ==
  ASSUME TypeOK, NEW c \in Callbacks, NEW label \in CallbackPc, Advance(c, label),
         label = "lock_txn" \/ label = "idle" \/ Exists(creq[c].txn),
         cpc[c] # "idle", UNCHANGED <<status, txns, ledgerVars, creq, noticeVars>>,
         UNCHANGED initiateVars,
         lock' \in [Rows -> Workers \cup {NoWorker}],
         stateRead' \in [Callbacks -> TransactionState],
         payerRead' \in [Callbacks -> 0 .. MaxBalance],
         merchantRead' \in [Callbacks -> 0 .. MaxBalance]
  PROVE  TypeOK'
<1>1. DbTypeOK' /\ InitiateTypeOK'
  BY DEF TypeOK, DbTypeOK, InitiateTypeOK, ledgerVars, initiateVars
<1>2. \A d \in Callbacks : cpc'[d] \notin {"idle", "lock_txn"} => txns[creq[d].txn] # NoRow
  BY DEF TypeOK, CallbackTypeOK, Exists, Advance
<1>3. CallbackTypeOK'
  BY <1>2 DEF TypeOK, CallbackTypeOK, Exists, Advance, noticeVars
<1> QED BY <1>1, <1>3 DEF TypeOK

LEMMA CallbackType ==
  ASSUME TypeOK, NEW c \in Callbacks, CallbackStep(c), UNCHANGED initiateVars
  PROVE  TypeOK'
<1>1. ASSUME Abandon(c)  PROVE TypeOK'
  BY <1>1, CallbackEndType DEF Abandon, noticeVars, TypeOK, CallbackTypeOK
<1>2. CASE ReceiveCallback(c)
  <2>1. DbTypeOK' /\ InitiateTypeOK'
    BY <1>2 DEF TypeOK, DbTypeOK, InitiateTypeOK, ReceiveCallback, dbVars, initiateVars
  <2>2. PICK b \in BankEvent : creq' = [creq EXCEPT ![c] = b]
    BY <1>2 DEF ReceiveCallback
  <2>3. CallbackTypeOK'
    BY <1>2, <2>2 DEF TypeOK, CallbackTypeOK, ReceiveCallback, Advance, CallbackPc, Exists,
                      dbVars, readVars, noticeVars
  <2> QED BY <2>1, <2>3 DEF TypeOK
<1>3. CASE TransactionNotFound(c)  BY <1>1, <1>3 DEF TransactionNotFound
<1>4. CASE LockTransaction(c)
  <2>1. creq[c] \in BankEvent  BY <1>4 DEF LockTransaction, TypeOK, CallbackTypeOK
  <2>2. txns[creq[c].txn].state \in TransactionState
    BY <1>4, <2>1 DEF LockTransaction, TypeOK, DbTypeOK, Exists, BankEvent, TxnRow
  <2>3. /\ stateRead' \in [Callbacks -> TransactionState]
        /\ payerRead' \in [Callbacks -> 0 .. MaxBalance]
        /\ merchantRead' \in [Callbacks -> 0 .. MaxBalance]
    BY <1>4, <2>2 DEF LockTransaction, TypeOK, CallbackTypeOK
  <2>4. lock' \in [Rows -> Workers \cup {NoWorker}]
    BY <1>4, LockedType DEF LockTransaction, TypeOK, Workers
  <2> QED BY <1>4, <2>3, <2>4, CallbackMovesType DEF LockTransaction, CallbackPc
<1>5. CASE AmountMismatch(c)  BY <1>1, <1>5 DEF AmountMismatch
<1>6. CASE ReplayCallback(c)
  <2>1. acked' \in SUBSET (Txns \X Event)
    BY <1>6, EventType DEF ReplayCallback, IntentGranted, TypeOK, CallbackTypeOK
  <2> QED BY <1>6, <2>1, CallbackEndType DEF ReplayCallback, TypeOK, CallbackTypeOK
<1>7. CASE RefuseCallback(c)  BY <1>1, <1>7 DEF RefuseCallback
<1>8. CASE LockIntent(c)
  <2>1. lock' \in [Rows -> Workers \cup {NoWorker}]
    BY <1>8, LockedType DEF LockIntent, TypeOK, Workers
  <2>2. Exists(creq[c].txn)  BY <1>8 DEF LockIntent, TypeOK, CallbackTypeOK
  <2> QED BY <1>8, <2>1, <2>2, CallbackMovesType
          DEF LockIntent, CallbackPc, readVars, TypeOK, CallbackTypeOK
<1>9. CASE RefuseWideVpa(c)  BY <1>1, <1>9 DEF RefuseWideVpa
<1>10. CASE LockPayerAccount(c)
  <2>1. lock' \in [Rows -> Workers \cup {NoWorker}]
    BY <1>10, LockedType DEF LockPayerAccount, TypeOK, Workers
  <2>2. Exists(creq[c].txn)  BY <1>10 DEF LockPayerAccount, TypeOK, CallbackTypeOK
  <2>3. balance[PayerOf(c)] \in 0 .. MaxBalance
    BY <1>10, EventType DEF LockPayerAccount, TypeOK, DbTypeOK
  <2> QED BY <1>10, <2>1, <2>2, <2>3, CallbackMovesType
          DEF LockPayerAccount, CallbackPc, TypeOK, CallbackTypeOK
<1>11. CASE LockMerchantAccount(c)
  <2>1. lock' \in [Rows -> Workers \cup {NoWorker}]
    BY <1>11, LockedType DEF LockMerchantAccount, TypeOK, Workers
  <2>2. Exists(creq[c].txn)  BY <1>11 DEF LockMerchantAccount, TypeOK, CallbackTypeOK
  <2>3. balance[PayeeOf(c)] \in 0 .. MaxBalance
    BY <1>11, EventType DEF LockMerchantAccount, TypeOK, DbTypeOK
  <2> QED BY <1>11, <2>1, <2>2, <2>3, CallbackMovesType
          DEF LockMerchantAccount, CallbackPc, TypeOK, CallbackTypeOK
<1>12. CASE RefuseOverflow(c)  BY <1>1, <1>12 DEF RefuseOverflow
<1>13. CASE CommitCallback(c)
  <2> USE <1>13
  <2>1. /\ creq[c] \in BankEvent /\ txns[creq[c].txn] \in TxnRow /\ creq[c].txn \in Txns
        /\ OrderOf(c) \in Orders /\ PayerOf(c) \in Accounts /\ PayeeOf(c) \in Accounts
        /\ creq[c].amount \in Amounts /\ creq[c].amount \in Nat
    BY EventType DEF CommitCallback
  <2>2. TargetOf(creq[c].event) \in {"SUCCESS", "FAILED"}  BY DEF TargetOf
  <2>3. status' \in [Orders -> PaymentStatus]
    BY <2>2 DEF CommitCallback, TypeOK, DbTypeOK, PaymentStatus
  <2>4. [txns[creq[c].txn] EXCEPT !.state = TargetOf(creq[c].event)] \in TxnRow
    BY <2>1, <2>2 DEF TxnRow, TransactionState
  <2>5. txns' = [txns EXCEPT ![creq[c].txn] =
                   [txns[creq[c].txn] EXCEPT !.state = TargetOf(creq[c].event)]]
    BY DEF CommitCallback
  <2>6. txns' \in [Txns -> TxnRow \cup {NoRow}]
    BY <2>4, <2>5 DEF TypeOK, DbTypeOK
  <2>7. balance' \in [Accounts -> 0 .. MaxBalance]
    <3>1. CASE Succeeds(c)
      <4>1. /\ payerRead[c] + creq[c].amount \in 0 .. MaxBalance
            /\ merchantRead[c] + creq[c].amount \in 0 .. MaxBalance
        BY <3>1, <2>1, DbAssumption DEF CommitCallback, FitsColumn, TypeOK, CallbackTypeOK
      <4> QED BY <3>1, <4>1 DEF CommitCallback, PostDoubleEntry, TypeOK, DbTypeOK
    <3>2. CASE ~Succeeds(c)
      BY <3>2 DEF CommitCallback, TypeOK, DbTypeOK, ledgerVars
    <3> QED BY <3>1, <3>2
  <2>8. entries' \in [EntryRow -> Nat]
    <3>1. CASE Succeeds(c)  BY <3>1 DEF CommitCallback, PostDoubleEntry, TypeOK, DbTypeOK
    <3>2. CASE ~Succeeds(c)
      BY <3>2 DEF CommitCallback, TypeOK, DbTypeOK, ledgerVars
    <3> QED BY <3>1, <3>2
  <2>9. lock' \in [Rows -> Workers \cup {NoWorker}]
    BY ReleasedType DEF CommitCallback, EndTransaction, TypeOK
  <2>10. \A t \in Txns : Exists(t) => Exists(t)'
    BY <2>4, <2>5, SentinelAssumption DEF Exists, TypeOK, DbTypeOK
  <2>11. \A d \in Callbacks :
           cpc'[d] \notin {"idle", "lock_txn"} => creq[d] \in BankEvent /\ Exists(creq[d].txn)
    BY DEF CommitCallback, Advance, TypeOK, CallbackTypeOK
  <2>12. \A d \in Callbacks : cpc'[d] \notin {"idle", "lock_txn"} => Exists(creq[d].txn)'
    BY <2>10, <2>11 DEF BankEvent, CommitCallback
  <2>13. CallbackTypeOK'
    BY <2>12 DEF CommitCallback, Advance, CallbackPc, TypeOK, CallbackTypeOK, readVars, noticeVars
  <2> QED BY <2>3, <2>6, <2>7, <2>8, <2>9, <2>13
          DEF TypeOK, DbTypeOK, InitiateTypeOK, initiateVars
<1>14. CASE SkipOutbox(c)
  <2>1. acked' \in SUBSET (Txns \X Event)
    BY <1>14, EventType DEF SkipOutbox, TypeOK, CallbackTypeOK
  <2> QED BY <1>14, <2>1, CallbackEndType DEF SkipOutbox, TypeOK, CallbackTypeOK
<1>15. CASE WriteOutbox(c)
  <2>1. outbox' \in [Txns \X Event -> Nat]
    BY <1>15, EventType DEF WriteOutbox, TypeOK, CallbackTypeOK
  <2>2. CallbackTypeOK'
    BY <1>15, <2>1 DEF WriteOutbox, Advance, CallbackPc, TypeOK, CallbackTypeOK, Exists,
                       dbVars, readVars
  <2> QED BY <1>15, <2>2 DEF WriteOutbox, TypeOK, DbTypeOK, InitiateTypeOK, dbVars, initiateVars
<1>16. CASE Dispatch(c)
  <2>1. queue' \in [Txns \X Event -> Nat] /\ acked' \in SUBSET (Txns \X Event)
    BY <1>16, EventType DEF Dispatch, TypeOK, CallbackTypeOK
  <2> QED BY <1>16, <2>1, CallbackEndType DEF Dispatch
<1>17. CASE FailCallback(c)  BY <1>1, <1>17 DEF FailCallback
<1> QED BY <1>2, <1>3, <1>4, <1>5, <1>6, <1>7, <1>8, <1>9, <1>10, <1>11, <1>12, <1>13,
           <1>14, <1>15, <1>16, <1>17 DEF CallbackStep, CallbackProgress

\* The initial states are well typed.
LEMMA InitTyped ==
  ASSUME Init  PROVE TypeOK
<1>1. DbTypeOK
  BY DbAssumption DEF Init, DbInit, DbTypeOK, PaymentStatus
<1>2. InitiateTypeOK
  BY DEF Init, InitiateInit, InitiateTypeOK, InitiatePc, PaymentStatus
<1>3. CallbackTypeOK
  BY DbAssumption DEF Init, CallbackInit, CallbackTypeOK, CallbackPc, TransactionState
<1> QED BY <1>1, <1>2, <1>3 DEF TypeOK

\* The tables, the sessions and the notices keep their types: balances stay within
\* their column and a callback past its first lock has a transaction that exists.
THEOREM TypeCorrect == Spec => []TypeOK
<1>1. Init => TypeOK  BY InitTyped
<1>2. TypeOK /\ [Next]_vars => TypeOK'
  <2> SUFFICES ASSUME TypeOK, [Next]_vars PROVE TypeOK'  OBVIOUS
  <2>1. CASE UNCHANGED vars
    BY <2>1 DEF vars, dbVars, initiateVars, callbackVars, TypeOK, DbTypeOK, InitiateTypeOK,
                CallbackTypeOK, Exists
  <2>2. CASE Next  BY <2>2, InitiateType, CallbackType DEF Next
  <2> QED BY <2>1, <2>2
<1> QED BY <1>1, <1>2, PTL DEF Spec

-----------------------------------------------------------------------------
(***************************************************************************)
(* What a step leaves alone, and what it may do to the locks.              *)
(***************************************************************************)

\* An initiation step is its worker's: the others stand where they stood.
LEMMA InitiateStepIsOwn ==
  ASSUME TypeOK, NEW i \in Initiators, InitiateStep(i), NEW j \in Initiators, j # i
  PROVE  ipc'[j] = ipc[j] /\ ireq'[j] = ireq[j]
BY DEF TypeOK, InitiateTypeOK, InitiateStep, InitiateProgress, Authenticate, OrderNotFound,
       AlreadyFinalised, LockIntentRow, ReplayInitiate, RefuseInitiate, AcceptInitiate,
       CommitInitiate, FailInitiate, InitiateDone, Goto

LEMMA InitiateLocks ==
  ASSUME NEW i \in Initiators, InitiateStep(i)
  PROVE  EndTransaction(i) \/ (\E r : SelectForUpdate(i, r)) \/ UNCHANGED lock
BY DEF InitiateStep, InitiateProgress, Authenticate, OrderNotFound, AlreadyFinalised,
       LockIntentRow, ReplayInitiate, RefuseInitiate, AcceptInitiate, CommitInitiate,
       FailInitiate, InitiateDone, dbVars

\* A callback step is its worker's: every other callback stands where it stood.
LEMMA CallbackStepIsOwn ==
  ASSUME TypeOK, NEW c \in Callbacks, CallbackStep(c), NEW d \in Callbacks, d # c
  PROVE  /\ cpc'[d] = cpc[d] /\ creq'[d] = creq[d] /\ stateRead'[d] = stateRead[d]
         /\ payerRead'[d] = payerRead[d] /\ merchantRead'[d] = merchantRead[d]
BY DEF TypeOK, CallbackTypeOK, CallbackStep, CallbackProgress, ReceiveCallback,
       TransactionNotFound, LockTransaction, AmountMismatch, ReplayCallback, RefuseCallback,
       LockIntent, RefuseWideVpa, LockPayerAccount, LockMerchantAccount, RefuseOverflow,
       CommitCallback, SkipOutbox, WriteOutbox, Dispatch, FailCallback, Abandon, CallbackDone,
       Advance, readVars

LEMMA CallbackLocks ==
  ASSUME NEW c \in Callbacks, CallbackStep(c)
  PROVE  EndTransaction(c) \/ (\E r : SelectForUpdate(c, r)) \/ UNCHANGED lock
BY DEF CallbackStep, CallbackProgress, ReceiveCallback, TransactionNotFound, LockTransaction,
       AmountMismatch, ReplayCallback, RefuseCallback, LockIntent, RefuseWideVpa,
       LockPayerAccount, LockMerchantAccount, RefuseOverflow, CommitCallback, SkipOutbox,
       WriteOutbox, Dispatch, FailCallback, Abandon, CallbackDone, dbVars

\* No worker loses a lock when another worker's transaction ends or takes one.
LEMMA OthersKeepLocks ==
  ASSUME DbTypeOK, NEW w \in Workers, NEW x \in Workers, x # w,
         EndTransaction(w) \/ (\E r : SelectForUpdate(w, r)) \/ UNCHANGED lock
  PROVE  \A r \in Rows : lock[r] = x => lock'[r] = x
<1>1. CASE EndTransaction(w)  BY <1>1 DEF EndTransaction, Released
<1>2. CASE \E r : SelectForUpdate(w, r)
  BY <1>2, DbAssumption DEF SelectForUpdate, Free, DbTypeOK
<1> QED BY <1>1, <1>2

-----------------------------------------------------------------------------
(***************************************************************************)
(* No requests deadlock on row locks.  Rows are ranked: transaction,       *)
(* intent, payer account, merchant account.  Every worker takes them in    *)
(* ascending order, so that whoever waits stands lower than whom it waits  *)
(* for, and a highest member of a group waits for no member of the group.  *)
(***************************************************************************)

Rank(r) ==
  IF r[1] = "transactions" THEN 1
  ELSE IF r[1] = "payment_intents" THEN 2
  ELSE IF r[2] \in Vpas THEN 3
  ELSE 4

\* A worker holds rows below its ceiling only, and waits for none below it.
Ceiling(w) ==
  IF w \in Initiators
    THEN IF ipc[w] \in {"find_duplicate", "commit"} THEN 3 ELSE 1
    ELSE CASE cpc[w] = "lock_intent" -> 2
           [] cpc[w] = "lock_payer" -> 3
           [] cpc[w] = "lock_merchant" -> 4
           [] cpc[w] = "commit" -> 5
           [] OTHER -> 1

HoldsBelowCeiling == \A w \in Workers, r \in Rows : lock[r] = w => Rank(r) < Ceiling(w)

\* The inductive invariant.
LockOrderInv == TypeOK /\ HoldsBelowCeiling

-----------------------------------------------------------------------------
LEMMA RankOfRow ==
  /\ \A t : Rank(TxnLock(t)) = 1
  /\ \A o : Rank(OrderLock(o)) = 2
  /\ \A a \in Vpas : Rank(AccountLock(a)) = 3
  /\ \A a \in Merchants : Rank(AccountLock(a)) = 4
BY DbAssumption DEF Rank, TxnLock, OrderLock, AccountLock

LEMMA RankAndCeilingType ==
  /\ \A r : Rank(r) \in 1 .. 4
  /\ \A w : Ceiling(w) \in 1 .. 5
BY DEF Rank, Ceiling

\* The row a callback needs next stands at its ceiling.
LEMMA NeedsItsCeiling ==
  ASSUME TypeOK, NEW c \in Callbacks, cpc[c] \in BlockingPc
  PROVE  Rank(RowNeeded(c)) = Ceiling(c)
<1>1. c \notin Initiators  BY DbAssumption
<1>2. CASE cpc[c] \in {"lock_txn", "outbox"}
  BY <1>1, <1>2, RankOfRow DEF RowNeeded, Ceiling
<1>3. CASE cpc[c] = "lock_intent"
  BY <1>1, <1>3, RankOfRow DEF RowNeeded, Ceiling
<1>4. CASE cpc[c] = "lock_payer"
  BY <1>1, <1>4, RankOfRow, EventType DEF RowNeeded, Ceiling
<1>5. CASE cpc[c] = "lock_merchant"
  BY <1>1, <1>5, RankOfRow, EventType DEF RowNeeded, Ceiling
<1> QED BY <1>2, <1>3, <1>4, <1>5 DEF BlockingPc

\* Whoever waits stands lower than whom it waits for.
LEMMA WaitsUpwards ==
  ASSUME LockOrderInv, NEW w \in Workers, NEW x \in Workers, WaitsFor(w, x)
  PROVE  Ceiling(w) < Ceiling(x)
<1>1. PICK r \in Rows : AwaitsRow(w, r) /\ lock[r] = x  BY DEF WaitsFor
<1>2. Rank(r) < Ceiling(x)  BY <1>1 DEF LockOrderInv, HoldsBelowCeiling
<1>3. Ceiling(w) <= Rank(r)
  <2>1. CASE w \in Initiators
    BY <1>1, <2>1, RankOfRow, DbAssumption DEF AwaitsRow, Ceiling
  <2>2. CASE w \notin Initiators
    BY <1>1, <2>2, NeedsItsCeiling, RankAndCeilingType DEF AwaitsRow, LockOrderInv
  <2> QED BY <2>1, <2>2
<1> QED BY <1>2, <1>3, RankAndCeilingType

\* A highest member of a group exists, since there are five heights, and waits for none.
LEMMA NoCycle ==
  ASSUME LockOrderInv  PROVE NoWaitCycle
<1> SUFFICES ASSUME NEW S \in SUBSET Workers, S # {}
             PROVE  \E w \in S : \A x \in S : ~WaitsFor(w, x)
  BY DEF NoWaitCycle
<1>1. \E w \in S : \A x \in S : Ceiling(x) <= Ceiling(w)
  <2> DEFINE Top(n) == \A x \in S : Ceiling(x) <= n
             At(n) == \E w \in S : Ceiling(w) = n
  <2>1. Top(5)  BY RankAndCeilingType
  <2>2. \A n \in 1 .. 5 : Top(n) /\ ~At(n) => Top(n - 1)
    BY RankAndCeilingType
  <2>3. ~Top(0)  BY RankAndCeilingType
  <2>4. \E n \in 1 .. 5 : Top(n) /\ At(n)
    <3> HIDE DEF Top, At
    <3>1. SUFFICES ASSUME \A n \in 1 .. 5 : Top(n) => ~At(n)  PROVE FALSE
      OBVIOUS
    <3>2. Top(5) => Top(4)  BY <2>2, <3>1
    <3>3. Top(4) => Top(3)  BY <2>2, <3>1
    <3>4. Top(3) => Top(2)  BY <2>2, <3>1
    <3>5. Top(2) => Top(1)  BY <2>2, <3>1
    <3>6. Top(1) => Top(0)  BY <2>2, <3>1
    <3> QED BY <2>1, <2>3, <3>2, <3>3, <3>4, <3>5, <3>6
  <2> QED BY <2>4
<1>2. PICK w \in S : \A x \in S : Ceiling(x) <= Ceiling(w)  BY <1>1
<1>3. \A x \in S : ~WaitsFor(w, x)
  BY <1>2, WaitsUpwards, RankAndCeilingType
<1> QED BY <1>3

-----------------------------------------------------------------------------
\* A worker that ends its transaction, takes the row at its ceiling and rises, or
\* stays as high as it was with the locks it had, keeps below its ceiling.
LEMMA WorkerKeepsOrder ==
  ASSUME LockOrderInv, NEW w \in Workers,
         \/ EndTransaction(w)
         \/ \E r \in Rows : SelectForUpdate(w, r) /\ Rank(r) < Ceiling(w)'
                              /\ Ceiling(w) <= Ceiling(w)'
         \/ UNCHANGED lock /\ Ceiling(w) <= Ceiling(w)',
         \A x \in Workers \ {w} : Ceiling(x)' = Ceiling(x)
  PROVE  HoldsBelowCeiling'
<1> SUFFICES ASSUME NEW x \in Workers, NEW r \in Rows, lock'[r] = x
             PROVE  Rank(r) < Ceiling(x)'
  BY DEF HoldsBelowCeiling, Rank
<1> USE RankAndCeilingType
<1>0. Ceiling(w)' \in 1 .. 5  BY DEF Ceiling
<1>1. CASE EndTransaction(w)
  BY <1>1, DbAssumption DEF EndTransaction, Released, LockOrderInv, HoldsBelowCeiling
<1>2. ASSUME NEW q \in Rows, SelectForUpdate(w, q), Rank(q) < Ceiling(w)',
             Ceiling(w) <= Ceiling(w)'
      PROVE  Rank(r) < Ceiling(x)'
  BY <1>0, <1>2 DEF SelectForUpdate, LockOrderInv, HoldsBelowCeiling, TypeOK, DbTypeOK
<1>3. CASE UNCHANGED lock /\ Ceiling(w) <= Ceiling(w)'
  BY <1>0, <1>3 DEF LockOrderInv, HoldsBelowCeiling
<1> QED BY <1>1, <1>2, <1>3

LEMMA InitiateKeepsOrder ==
  ASSUME LockOrderInv, NEW i \in Initiators, InitiateStep(i), UNCHANGED callbackVars
  PROVE  LockOrderInv'
<1>1. TypeOK'  BY InitiateType DEF LockOrderInv
<1>2. \A x \in Workers \ {i} : Ceiling(x)' = Ceiling(x)
  BY InitiateStepIsOwn DEF Ceiling, callbackVars, LockOrderInv
<1>3. CASE LockIntentRow(i)
  <2>1. ipc[i] = "lock_intent" /\ ipc'[i] = "find_duplicate" /\ ireq[i].order \in Orders
    BY <1>3 DEF LockIntentRow, Goto, LockOrderInv, TypeOK, InitiateTypeOK, UpiInitiateRequest
  <2>2. OrderLock(ireq[i].order) \in Rows  BY <2>1 DEF Rows
  <2>3. Ceiling(i) = 1 /\ Ceiling(i)' = 3  BY <2>1 DEF Ceiling
  <2> QED BY <1>1, <1>2, <1>3, <2>2, <2>3, RankOfRow, WorkerKeepsOrder
          DEF LockIntentRow, LockOrderInv, Workers
<1>4. CASE AcceptInitiate(i) \/ Authenticate(i)
  <2>1. lock' = lock /\ Ceiling(i) <= Ceiling(i)'
    BY <1>4 DEF AcceptInitiate, Authenticate, Goto, Ceiling, dbVars, LockOrderInv, TypeOK,
                InitiateTypeOK
  <2> QED BY <1>1, <1>2, <2>1, WorkerKeepsOrder DEF LockOrderInv, Workers
<1>5. CASE EndTransaction(i)
  BY <1>1, <1>2, <1>5, WorkerKeepsOrder DEF LockOrderInv, Workers
<1> QED BY <1>3, <1>4, <1>5
        DEF InitiateStep, InitiateProgress, OrderNotFound, AlreadyFinalised, ReplayInitiate,
            RefuseInitiate, CommitInitiate, FailInitiate, InitiateDone

\* A callback's SELECT ... FOR UPDATE takes the row at its ceiling, and it rises.
LEMMA CallbackRises ==
  ASSUME LockOrderInv, NEW c \in Callbacks,
         LockTransaction(c) \/ LockIntent(c) \/ LockPayerAccount(c) \/ LockMerchantAccount(c)
  PROVE  \E r \in Rows : SelectForUpdate(c, r) /\ Rank(r) < Ceiling(c)'
                           /\ Ceiling(c) <= Ceiling(c)'
<1>1. c \notin Initiators  BY DbAssumption
<1>2. cpc[c] \in BlockingPc /\ SelectForUpdate(c, RowNeeded(c))
  BY DEF LockTransaction, LockIntent, LockPayerAccount, LockMerchantAccount, BlockingPc
<1>3. Rank(RowNeeded(c)) = Ceiling(c)  BY <1>2, NeedsItsCeiling DEF LockOrderInv
<1>4. Ceiling(c) < Ceiling(c)'
  BY <1>1 DEF LockTransaction, LockIntent, LockPayerAccount, LockMerchantAccount, Advance,
              Ceiling, LockOrderInv, TypeOK, CallbackTypeOK
<1>5. RowNeeded(c) \in Rows
  <2>1. CASE cpc[c] = "lock_txn"
    BY <2>1 DEF RowNeeded, Rows, LockOrderInv, TypeOK, CallbackTypeOK, BankEvent
  <2>2. CASE cpc[c] = "outbox"
    BY <2>2, EventType DEF RowNeeded, Rows, LockOrderInv
  <2>3. CASE cpc[c] = "lock_intent"
    BY <2>3, EventType DEF RowNeeded, Rows, LockOrderInv
  <2>4. CASE cpc[c] = "lock_payer"
    BY <2>4, EventType DEF RowNeeded, Rows, LockOrderInv
  <2>5. CASE cpc[c] = "lock_merchant"
    BY <2>5, EventType DEF RowNeeded, Rows, LockOrderInv
  <2> QED BY <1>2, <2>1, <2>2, <2>3, <2>4, <2>5 DEF BlockingPc
<1>6. Ceiling(c)' \in 1 .. 5  BY DEF Ceiling
<1>7. Rank(RowNeeded(c)) < Ceiling(c)' /\ Ceiling(c) <= Ceiling(c)'
  BY <1>3, <1>4, <1>6, RankAndCeilingType
<1> QED BY <1>2, <1>5, <1>7

LEMMA CallbackKeepsOrder ==
  ASSUME LockOrderInv, NEW c \in Callbacks, CallbackStep(c), UNCHANGED initiateVars
  PROVE  LockOrderInv'
<1>1. TypeOK'  BY CallbackType DEF LockOrderInv
<1>2. \A x \in Workers \ {c} : Ceiling(x)' = Ceiling(x)
  BY CallbackStepIsOwn DEF Ceiling, initiateVars, LockOrderInv, Workers
<1>3. CASE LockTransaction(c) \/ LockIntent(c) \/ LockPayerAccount(c) \/ LockMerchantAccount(c)
  BY <1>1, <1>2, <1>3, CallbackRises, WorkerKeepsOrder DEF LockOrderInv, Workers
<1>4. CASE ReceiveCallback(c) \/ WriteOutbox(c)
  <2>1. lock' = lock /\ Ceiling(c) <= Ceiling(c)'
    BY <1>4, DbAssumption DEF ReceiveCallback, WriteOutbox, Advance, Ceiling, dbVars,
                              LockOrderInv, TypeOK, CallbackTypeOK
  <2> QED BY <1>1, <1>2, <2>1, WorkerKeepsOrder DEF LockOrderInv, Workers
<1>5. CASE EndTransaction(c)
  BY <1>1, <1>2, <1>5, WorkerKeepsOrder DEF LockOrderInv, Workers
<1> QED BY <1>3, <1>4, <1>5
        DEF CallbackStep, CallbackProgress, TransactionNotFound, AmountMismatch,
            ReplayCallback, RefuseCallback, RefuseWideVpa, RefuseOverflow, CommitCallback,
            SkipOutbox, Dispatch, FailCallback, Abandon, CallbackDone

\* Initiations and callbacks, however many and over whatever orders, payers and
\* merchants, never wait for each other's row locks in a circle.
THEOREM LocksAreOrdered == Spec => []NoWaitCycle
<1>1. Init => LockOrderInv
  BY InitTyped, DbAssumption DEF Init, DbInit, LockOrderInv, HoldsBelowCeiling
<1>2. LockOrderInv /\ [Next]_vars => LockOrderInv'
  <2> SUFFICES ASSUME LockOrderInv, [Next]_vars  PROVE LockOrderInv'  OBVIOUS
  <2>1. CASE UNCHANGED vars
    <3>1. TypeOK'
      BY <2>1 DEF vars, dbVars, initiateVars, callbackVars, LockOrderInv, TypeOK, DbTypeOK,
                  InitiateTypeOK, CallbackTypeOK, Exists
    <3> QED BY <2>1, <3>1 DEF vars, dbVars, initiateVars, callbackVars, LockOrderInv,
                              HoldsBelowCeiling, Ceiling, Rank
  <2>2. CASE Next
    BY <2>2, InitiateKeepsOrder, CallbackKeepsOrder DEF Next
  <2> QED BY <2>1, <2>2
<1>3. LockOrderInv => NoWaitCycle  BY NoCycle
<1> QED BY <1>1, <1>2, <1>3, PTL DEF Spec
=============================================================================
