------------------------- MODULE UpiInitiateProofs -------------------------
(***************************************************************************)
(* That the intent's row lock alone keeps an order and an address from     *)
(* getting two transactions.  The duplicate query and the insert are two   *)
(* awaits; the lock, held from before the first to the end of the second,  *)
(* keeps what the query found true until the insert commits.               *)
(***************************************************************************)
EXTENDS SettlementProofs, FiniteSetTheorems

\* An initiation past its locking SELECT holds its intent's row.
HoldsIntent(i) ==
  ipc[i] \in {"find_duplicate", "commit"} => lock[OrderLock(ireq[i].order)] = i

\* An initiation about to commit has no duplicate, still.
StillNoDuplicate(i) == ipc[i] = "commit" => ~HasDuplicate(ireq[i])

\* The inductive invariant.
DuplicateInv ==
  /\ TypeOK
  /\ OneTransactionPerVpa
  /\ \A i \in Initiators : HoldsIntent(i) /\ StillNoDuplicate(i)

-----------------------------------------------------------------------------
\* A step that opens no transaction and changes of the existing ones the state only.
KeepsPayments ==
  \A t \in Txns : /\ Exists(t)' = Exists(t)
                  /\ Exists(t) => /\ txns'[t].order = txns[t].order
                                  /\ txns'[t].vpa = txns[t].vpa

LEMMA NoNewDuplicate ==
  ASSUME KeepsPayments, OneTransactionPerVpa
  PROVE  OneTransactionPerVpa'
BY DEF KeepsPayments, OneTransactionPerVpa, Exists

\* An initiation that a step leaves alone keeps its part of the invariant, if its
\* locks stay and what the step opens, if anything, is of another order.
LEMMA InitiationStands ==
  ASSUME DuplicateInv, NEW i \in Initiators, ipc'[i] = ipc[i], ireq'[i] = ireq[i],
         \A r \in Rows : lock[r] = i => lock'[r] = i,
         ipc[i] = "commit" =>
           \A t \in Txns : Exists(t)' /\ txns'[t].order = ireq[i].order =>
                             /\ Exists(t) /\ txns[t].order = ireq[i].order
                             /\ txns'[t].vpa = txns[t].vpa
  PROVE  HoldsIntent(i)' /\ StillNoDuplicate(i)'
<1>1. CASE ipc[i] \in {"find_duplicate", "commit"}
  <2>1. OrderLock(ireq[i].order) \in Rows
    BY <1>1 DEF DuplicateInv, TypeOK, InitiateTypeOK, UpiInitiateRequest, Rows
  <2>2. HoldsIntent(i)'
    BY <1>1, <2>1 DEF DuplicateInv, HoldsIntent
  <2>3. StillNoDuplicate(i)'
    BY DEF DuplicateInv, StillNoDuplicate, HasDuplicate
  <2> QED BY <2>2, <2>3
<1>2. CASE ipc[i] \notin {"find_duplicate", "commit"}
  BY <1>2 DEF HoldsIntent, StillNoDuplicate
<1> QED BY <1>1, <1>2

\* A step of another worker that opens nothing: every initiation stands.
LEMMA OtherWorkerKeeps ==
  ASSUME DuplicateInv, NEW w \in Workers, KeepsPayments,
         EndTransaction(w) \/ (\E r : SelectForUpdate(w, r)) \/ UNCHANGED lock,
         NEW i \in Initiators, i # w, ipc'[i] = ipc[i], ireq'[i] = ireq[i]
  PROVE  HoldsIntent(i)' /\ StillNoDuplicate(i)'
<1>1. \A r \in Rows : lock[r] = i => lock'[r] = i
  BY OthersKeepLocks DEF DuplicateInv, TypeOK, Workers
<1> QED BY <1>1, InitiationStands DEF KeepsPayments

-----------------------------------------------------------------------------
\* A callback locks what it likes and decides transactions, and opens none.
LEMMA CallbackKeepsDuplicateInv ==
  ASSUME DuplicateInv, NEW c \in Callbacks, CallbackStep(c), UNCHANGED initiateVars
  PROVE  DuplicateInv'
<1>1. TypeOK'  BY CallbackType DEF DuplicateInv
<1>2. KeepsPayments
  <2>1. CASE CommitCallback(c)
    <3>1. creq[c].txn \in Txns /\ txns[creq[c].txn] \in TxnRow
      BY <2>1, EventType DEF CommitCallback, DuplicateInv
    <3>2. txns' = [txns EXCEPT ![creq[c].txn].state = TargetOf(creq[c].event)]
      BY <2>1 DEF CommitCallback
    <3>3. \A t \in Txns : t # creq[c].txn => txns'[t] = txns[t]
      BY <3>2 DEF DuplicateInv, TypeOK, DbTypeOK
    <3>4. /\ txns'[creq[c].txn].order = txns[creq[c].txn].order
          /\ txns'[creq[c].txn].vpa = txns[creq[c].txn].vpa
          /\ txns'[creq[c].txn] \in TxnRow
      BY <3>1, <3>2 DEF DuplicateInv, TypeOK, DbTypeOK, TxnRow, TransactionState, TargetOf
    <3> QED BY <3>1, <3>3, <3>4, SentinelAssumption DEF KeepsPayments, Exists
  <2>2. CASE ~CommitCallback(c)
    BY <2>2, OnlyCommitsWrite DEF KeepsPayments, Exists
  <2> QED BY <2>1, <2>2
<1>3. \A i \in Initiators : HoldsIntent(i)' /\ StillNoDuplicate(i)'
  BY <1>2, CallbackLocks, OtherWorkerKeeps, DbAssumption DEF Workers, initiateVars
<1> QED BY <1>1, <1>2, <1>3, NoNewDuplicate DEF DuplicateInv

\* Every initiation step but a commit leaves the transactions alone.
LEMMA OnlyInitiateCommitsOpen ==
  ASSUME NEW i \in Initiators, InitiateStep(i), ~CommitInitiate(i)
  PROVE  UNCHANGED txns
BY DEF InitiateStep, InitiateProgress, Authenticate, OrderNotFound, AlreadyFinalised,
       LockIntentRow, ReplayInitiate, RefuseInitiate, AcceptInitiate, FailInitiate, dbVars

\* The initiation that moves: it takes the lock, then it looks, then it commits.
LEMMA OwnInitiateStep ==
  ASSUME DuplicateInv, NEW i \in Initiators, InitiateStep(i)
  PROVE  HoldsIntent(i)' /\ StillNoDuplicate(i)'
<1>1. ASSUME ipc'[i] \notin {"find_duplicate", "commit"}
      PROVE  HoldsIntent(i)' /\ StillNoDuplicate(i)'
  BY <1>1 DEF HoldsIntent, StillNoDuplicate
<1>2. CASE LockIntentRow(i)
  <2>1. ireq[i].order \in Orders /\ ireq' = ireq /\ ipc'[i] = "find_duplicate"
    BY <1>2 DEF LockIntentRow, Goto, DuplicateInv, TypeOK, InitiateTypeOK, UpiInitiateRequest
  <2>2. OrderLock(ireq[i].order) \in Rows  BY <2>1 DEF Rows
  <2>3. lock'[OrderLock(ireq[i].order)] = i
    BY <1>2, <2>2 DEF LockIntentRow, SelectForUpdate, DuplicateInv, TypeOK, DbTypeOK
  <2> QED BY <2>1, <2>3 DEF HoldsIntent, StillNoDuplicate
<1>3. CASE AcceptInitiate(i)
  <2>1. /\ ipc[i] = "find_duplicate" /\ ipc'[i] = "commit" /\ ~HasDuplicate(ireq[i])
        /\ UNCHANGED <<txns, lock, ireq>>
    BY <1>3 DEF AcceptInitiate, Goto, dbVars, DuplicateInv, TypeOK, InitiateTypeOK
  <2> QED BY <2>1 DEF HoldsIntent, StillNoDuplicate, HasDuplicate, Exists, DuplicateInv
<1>4. CASE Authenticate(i)
  BY <1>1, <1>4 DEF Authenticate, Goto, DuplicateInv, TypeOK, InitiateTypeOK
<1>5. ASSUME InitiateDone(i)  PROVE ipc'[i] = "idle"
  BY <1>5 DEF InitiateDone, Goto, DuplicateInv, TypeOK, InitiateTypeOK
<1> QED BY <1>1, <1>2, <1>3, <1>4, <1>5
        DEF InitiateStep, InitiateProgress, OrderNotFound, AlreadyFinalised, ReplayInitiate,
            RefuseInitiate, CommitInitiate, FailInitiate

\* A commit opens a payment that its order does not have, and no other initiation is
\* past the lock of that order.
LEMMA CommitKeepsDuplicateInv ==
  ASSUME DuplicateInv, NEW i \in Initiators, CommitInitiate(i), NEW s \in Txns, ~Exists(s),
         txns' = [txns EXCEPT ![s] = [order |-> ireq[i].order, vpa |-> ireq[i].vpa,
                                      state |-> "PENDING"]]
  PROVE  /\ OneTransactionPerVpa'
         /\ \A j \in Initiators \ {i} : HoldsIntent(j)' /\ StillNoDuplicate(j)'
<1>1. InitiateStep(i)  BY DEF InitiateStep, InitiateProgress
<1>2. /\ txns'[s].order = ireq[i].order /\ txns'[s].vpa = ireq[i].vpa
      /\ \A t \in Txns \ {s} : txns'[t] = txns[t]
  BY DEF DuplicateInv, TypeOK, DbTypeOK
<1>3. \A t \in Txns : Exists(t) =>
        ~(txns[t].order = ireq[i].order /\ txns[t].vpa = ireq[i].vpa)
  BY DEF CommitInitiate, DuplicateInv, StillNoDuplicate, HasDuplicate
<1>4. OneTransactionPerVpa'
  BY <1>2, <1>3 DEF DuplicateInv, OneTransactionPerVpa, Exists
<1>5. ASSUME NEW j \in Initiators \ {i}
      PROVE  HoldsIntent(j)' /\ StillNoDuplicate(j)'
  <2>1. ipc'[j] = ipc[j] /\ ireq'[j] = ireq[j]
    BY <1>1, InitiateStepIsOwn DEF DuplicateInv
  <2>2. \A r \in Rows : lock[r] = j => lock'[r] = j
    BY <1>1, InitiateLocks, OthersKeepLocks DEF DuplicateInv, TypeOK, Workers
  <2>3. ipc[j] = "commit" => ireq[j].order # ireq[i].order
    BY DEF CommitInitiate, DuplicateInv, HoldsIntent
  <2>4. ipc[j] = "commit" =>
          \A t \in Txns : Exists(t)' /\ txns'[t].order = ireq[j].order =>
                            /\ Exists(t) /\ txns[t].order = ireq[j].order
                            /\ txns'[t].vpa = txns[t].vpa
    BY <1>2, <2>3 DEF Exists
  <2> QED BY <2>1, <2>2, <2>4, InitiationStands
<1> QED BY <1>4, <1>5

LEMMA InitiateKeepsDuplicateInv ==
  ASSUME DuplicateInv, NEW i \in Initiators, InitiateStep(i), UNCHANGED callbackVars
  PROVE  DuplicateInv'
<1>1. TypeOK'  BY InitiateType DEF DuplicateInv
<1>2. HoldsIntent(i)' /\ StillNoDuplicate(i)'  BY OwnInitiateStep
<1>3. CASE CommitInitiate(i)
  <2>1. PICK s \in Txns :
          /\ ~Exists(s)
          /\ txns' = [txns EXCEPT ![s] = [order |-> ireq[i].order, vpa |-> ireq[i].vpa,
                                          state |-> "PENDING"]]
    BY <1>3 DEF CommitInitiate
  <2> QED BY <1>1, <1>2, <1>3, <2>1, CommitKeepsDuplicateInv DEF DuplicateInv
<1>4. CASE ~CommitInitiate(i)
  <2>1. KeepsPayments  BY <1>4, OnlyInitiateCommitsOpen DEF KeepsPayments, Exists
  <2>2. \A j \in Initiators \ {i} : HoldsIntent(j)' /\ StillNoDuplicate(j)'
    BY <2>1, InitiateLocks, InitiateStepIsOwn, OtherWorkerKeeps DEF DuplicateInv, Workers
  <2> QED BY <1>1, <1>2, <2>1, <2>2, NoNewDuplicate DEF DuplicateInv
<1> QED BY <1>3, <1>4

\* However many initiations of an order and an address race, repeat or die half way,
\* one transaction at most is opened: the status an initiation read may be stale, the
\* answer of its duplicate query is not, because the intent's row is locked meanwhile.
THEOREM DuplicatesAreRefused == Spec => []OneTransactionPerVpa
<1>1. Init => DuplicateInv
  BY InitTyped DEF Init, DbInit, InitiateInit, DuplicateInv, OneTransactionPerVpa, Exists,
                   HoldsIntent, StillNoDuplicate
<1>2. DuplicateInv /\ [Next]_vars => DuplicateInv'
  <2> SUFFICES ASSUME DuplicateInv, [Next]_vars  PROVE DuplicateInv'  OBVIOUS
  <2>1. CASE UNCHANGED vars
    <3>1. TypeOK'
      BY <2>1 DEF vars, dbVars, initiateVars, callbackVars, DuplicateInv, TypeOK, DbTypeOK,
                  InitiateTypeOK, CallbackTypeOK, Exists
    <3> QED BY <2>1, <3>1 DEF vars, dbVars, initiateVars, DuplicateInv, OneTransactionPerVpa,
                              HoldsIntent, StillNoDuplicate, HasDuplicate, Exists
  <2>2. CASE Next
    BY <2>2, InitiateKeepsDuplicateInv, CallbackKeepsDuplicateInv DEF Next
  <2> QED BY <2>1, <2>2
<1>3. DuplicateInv => OneTransactionPerVpa  BY DEF DuplicateInv
<1> QED BY <1>1, <1>2, <1>3, PTL DEF Spec

-----------------------------------------------------------------------------
\* Besides the two commits, no step changes an order's status.
LEMMA OnlyCommitsSetStatus ==
  /\ \A i \in Initiators : InitiateStep(i) /\ ~CommitInitiate(i) => UNCHANGED <<status, txns>>
  /\ \A c \in Callbacks : CallbackStep(c) /\ ~CommitCallback(c) => UNCHANGED <<status, txns>>
<1>1. ASSUME NEW i \in Initiators, InitiateStep(i), ~CommitInitiate(i)
      PROVE  UNCHANGED <<status, txns>>
  BY <1>1 DEF InitiateStep, InitiateProgress, Authenticate, OrderNotFound, AlreadyFinalised,
       LockIntentRow, ReplayInitiate, RefuseInitiate, AcceptInitiate, FailInitiate, dbVars
<1>2. ASSUME NEW c \in Callbacks, CallbackStep(c), ~CommitCallback(c)
      PROVE  UNCHANGED <<status, txns>>
  BY <1>2 DEF CallbackStep, CallbackProgress, ReceiveCallback, TransactionNotFound,
       LockTransaction, AmountMismatch, ReplayCallback, RefuseCallback, LockIntent,
       RefuseWideVpa, LockPayerAccount, LockMerchantAccount, RefuseOverflow, SkipOutbox,
       WriteOutbox, Dispatch, FailCallback, Abandon, dbVars
<1> QED BY <1>1, <1>2

\* What the commit of an initiation writes.
LEMMA CommitInitiateWrites ==
  ASSUME TypeOK, NEW i \in Initiators, CommitInitiate(i)
  PROVE  \E s \in Txns :
           /\ ~Exists(s) /\ Exists(s)'
           /\ txns'[s].order = ireq[i].order /\ txns'[s].state = "PENDING"
           /\ \A t \in Txns \ {s} : txns'[t] = txns[t]
           /\ ireq[i].order \in Orders /\ status'[ireq[i].order] = "PROCESSING"
           /\ \A o \in Orders \ {ireq[i].order} : status'[o] = status[o]
<1>1. ireq[i] \in UpiInitiateRequest
  BY DEF CommitInitiate, TypeOK, InitiateTypeOK
<1>2. PICK s \in Txns :
        /\ ~Exists(s)
        /\ txns' = [txns EXCEPT ![s] = [order |-> ireq[i].order, vpa |-> ireq[i].vpa,
                                        state |-> "PENDING"]]
  BY DEF CommitInitiate
<1>3. txns'[s] = [order |-> ireq[i].order, vpa |-> ireq[i].vpa, state |-> "PENDING"]
  BY <1>2 DEF TypeOK, DbTypeOK
<1>4. txns'[s] \in TxnRow
  BY <1>1, <1>3 DEF TxnRow, UpiInitiateRequest, TransactionState
<1>5. \A t \in Txns \ {s} : txns'[t] = txns[t]
  BY <1>2 DEF TypeOK, DbTypeOK
<1>6. /\ ireq[i].order \in Orders /\ status'[ireq[i].order] = "PROCESSING"
      /\ \A o \in Orders \ {ireq[i].order} : status'[o] = status[o]
  BY <1>1 DEF CommitInitiate, TypeOK, DbTypeOK, UpiInitiateRequest
<1> QED BY <1>2, <1>3, <1>4, <1>5, <1>6, SentinelAssumption DEF Exists

\* What the commit of a callback writes: the outcome, of its transaction and its order.
LEMMA CommitCallbackWrites ==
  ASSUME SettlementInv, NEW c \in Callbacks, CommitCallback(c)
  PROVE  /\ creq[c].txn \in Txns /\ Exists(creq[c].txn) /\ txns'[creq[c].txn] # NoRow
         /\ txns[creq[c].txn].state = "PENDING" /\ OrderOf(c) \in Orders
         /\ txns'[creq[c].txn].order = OrderOf(c)
         /\ txns'[creq[c].txn].state \in Finalised
         /\ status'[OrderOf(c)] = txns'[creq[c].txn].state
         /\ \A t \in Txns \ {creq[c].txn} : txns'[t] = txns[t]
         /\ \A o \in Orders \ {OrderOf(c)} : status'[o] = status[o]
<1>1. creq[c].txn \in Txns /\ txns[creq[c].txn] \in TxnRow /\ Exists(creq[c].txn)
  BY EventType DEF CommitCallback, SettlementInv, TypeOK, CallbackTypeOK
<1>2. txns[creq[c].txn].state = "PENDING"
  BY DEF CommitCallback, SettlementInv, Current, Decided, HoldsTxnPc
<1>3. OrderOf(c) \in Orders  BY <1>1 DEF OrderOf, TxnRow
<1>4. txns'[creq[c].txn] = [txns[creq[c].txn] EXCEPT !.state = TargetOf(creq[c].event)]
  BY <1>1 DEF CommitCallback, SettlementInv, TypeOK, DbTypeOK
<1>5. /\ txns'[creq[c].txn] \in TxnRow /\ txns'[creq[c].txn].order = OrderOf(c)
      /\ txns'[creq[c].txn].state = TargetOf(creq[c].event)
  BY <1>1, <1>4 DEF TxnRow, TransactionState, TargetOf, OrderOf
<1>6. status'[OrderOf(c)] = TargetOf(creq[c].event)
  BY <1>3 DEF CommitCallback, SettlementInv, TypeOK, DbTypeOK
<1>7. \A t \in Txns \ {creq[c].txn} : txns'[t] = txns[t]
  BY DEF CommitCallback, SettlementInv, TypeOK, DbTypeOK
<1>8. \A o \in Orders \ {OrderOf(c)} : status'[o] = status[o]
  BY DEF CommitCallback, SettlementInv, TypeOK, DbTypeOK
<1>9. TargetOf(creq[c].event) \in Finalised  BY DEF TargetOf, Finalised
<1> QED BY <1>1, <1>2, <1>3, <1>5, <1>6, <1>7, <1>8, <1>9, SentinelAssumption DEF Exists

\* What reconciliation reports has an undecided transaction.  The last commit on an order
\* sets its status: PROCESSING if it opened a transaction, and the outcome if it decided
\* one, so a PROCESSING order's last commit opened one that nobody has decided since.
THEOREM StuckIntentsAreOpen == Spec => []StuckAwaitsBank
<1>1. Init => StuckAwaitsBank
  BY DEF Init, DbInit, StuckAwaitsBank, StuckIntents
<1>2. SettlementInv /\ StuckAwaitsBank /\ [Next]_vars => StuckAwaitsBank'
  <2> SUFFICES ASSUME SettlementInv, StuckAwaitsBank, [Next]_vars,
                      NEW o \in Orders, status'[o] = "PROCESSING"
               PROVE  \E t \in Txns : Exists(t)' /\ txns'[t].order = o
                                      /\ txns'[t].state = "PENDING"
    BY DEF StuckAwaitsBank, StuckIntents, TxnsOf
  <2>0. status[o] = "PROCESSING" => \E t \in Txns : /\ Exists(t) /\ txns[t].order = o
                                                    /\ txns[t].state = "PENDING"
    BY DEF StuckAwaitsBank, StuckIntents, TxnsOf
  <2>1. CASE UNCHANGED <<status, txns>>
    BY <2>0, <2>1 DEF Exists
  <2>2. ASSUME NEW i \in Initiators, CommitInitiate(i)
        PROVE  \E t \in Txns : Exists(t)' /\ txns'[t].order = o /\ txns'[t].state = "PENDING"
    BY <2>0, <2>2, CommitInitiateWrites DEF SettlementInv, Exists
  <2>3. ASSUME NEW c \in Callbacks, CommitCallback(c)
        PROVE  \E t \in Txns : Exists(t)' /\ txns'[t].order = o /\ txns'[t].state = "PENDING"
    <3>1. o # OrderOf(c)
      BY <2>3, CommitCallbackWrites DEF Finalised
    <3>2. status[o] = "PROCESSING"
      BY <2>3, <3>1, CommitCallbackWrites
    <3> QED BY <2>0, <2>3, <3>1, <3>2, CommitCallbackWrites DEF Exists, OrderOf
  <2> QED BY <2>1, <2>2, <2>3, OnlyCommitsSetStatus DEF Next, vars, dbVars
<1> QED BY <1>1, <1>2, SettlementInvHolds, PTL DEF Spec

-----------------------------------------------------------------------------
\* What holds while initiations do not overlap, which one initiator stands for.
OneInitiator == \A i, j \in Initiators : i = j

\* The status an initiation saw as CREATED is CREATED still, and only such a status is
\* advanced: with nobody else initiating, the stale read does no harm.
SeenStands(i) ==
  /\ ipc[i] # "idle" /\ statusSeen[i] = "CREATED" => status[ireq[i].order] = "CREATED"
  /\ ipc[i] = "commit" => statusSeen[i] = "CREATED"

NoSecondTransaction ==
  \A s, t \in Txns : Exists(s) /\ Exists(t) /\ txns[s].order = txns[t].order => s = t

\* The inductive invariant.
SerialInv ==
  /\ NoSecondTransaction
  /\ StatusMirrorsTransactions
  /\ \A i \in Initiators : SeenStands(i)

\* Initiation steps that commit nothing.
LEMMA QuietInitiateKeepsSerial ==
  ASSUME TypeOK, OneInitiator, SerialInv, NEW i \in Initiators, InitiateStep(i),
         ~CommitInitiate(i)
  PROVE  SerialInv'
<1>1. UNCHANGED <<status, txns>>  BY OnlyCommitsSetStatus
<1>2. NoSecondTransaction' /\ StatusMirrorsTransactions'
  BY <1>1 DEF SerialInv, NoSecondTransaction, StatusMirrorsTransactions, Exists
<1>3. SeenStands(i)'
  <2>1. CASE Authenticate(i)
    BY <2>1 DEF Authenticate, Goto, SeenStands, TypeOK, InitiateTypeOK, dbVars
  <2>2. CASE LockIntentRow(i)
    BY <2>2, <1>1 DEF LockIntentRow, Goto, SeenStands, SerialInv, TypeOK, InitiateTypeOK
  <2>3. CASE AcceptInitiate(i)
    <3>1. statusSeen[i] = "CREATED"
      BY <2>3 DEF AcceptInitiate, IntentTransition, PaymentIntentTransitions
    <3> QED BY <2>3, <3>1, <1>1 DEF AcceptInitiate, Goto, SeenStands, SerialInv, TypeOK,
                                    InitiateTypeOK
  <2>4. ASSUME InitiateDone(i)  PROVE ipc'[i] = "idle"
    BY <2>4 DEF InitiateDone, Goto, TypeOK, InitiateTypeOK
  <2> QED BY <2>1, <2>2, <2>3, <2>4
          DEF InitiateStep, InitiateProgress, OrderNotFound, AlreadyFinalised, ReplayInitiate,
              RefuseInitiate, FailInitiate, SeenStands
<1> QED BY <1>2, <1>3 DEF SerialInv, OneInitiator

\* The initiation that commits finds an order without a transaction.
LEMMA CommitInitiateKeepsSerial ==
  ASSUME TypeOK, OneInitiator, SerialInv, NEW i \in Initiators, CommitInitiate(i)
  PROVE  SerialInv' /\ status[ireq[i].order] = "CREATED"
<1>1. PICK s \in Txns :
        /\ ~Exists(s) /\ Exists(s)'
        /\ txns'[s].order = ireq[i].order /\ txns'[s].state = "PENDING"
        /\ \A t \in Txns \ {s} : txns'[t] = txns[t]
        /\ ireq[i].order \in Orders /\ status'[ireq[i].order] = "PROCESSING"
        /\ \A o \in Orders \ {ireq[i].order} : status'[o] = status[o]
  BY CommitInitiateWrites
<1>2. status[ireq[i].order] = "CREATED"
  BY DEF CommitInitiate, SerialInv, SeenStands
<1>3. \A t \in Txns : Exists(t) => /\ txns[t] \in TxnRow
                                   /\ txns[t].order # ireq[i].order
  BY <1>2 DEF SerialInv, StatusMirrorsTransactions, TypeOK, DbTypeOK, Exists, TxnRow,
              TransactionState
<1>4. NoSecondTransaction'
  BY <1>1, <1>3 DEF SerialInv, NoSecondTransaction, Exists
<1>5. StatusMirrorsTransactions'
  BY <1>1, <1>3 DEF SerialInv, StatusMirrorsTransactions, Exists, TxnRow
<1>6. ipc'[i] = "idle"
  BY DEF CommitInitiate, InitiateDone, Goto, TypeOK, InitiateTypeOK
<1> QED BY <1>2, <1>4, <1>5, <1>6 DEF SerialInv, SeenStands, OneInitiator

\* A callback that decides finds its order PROCESSING, and no initiation saw it CREATED.
LEMMA CallbackKeepsSerial ==
  ASSUME SettlementInv, SerialInv, NEW c \in Callbacks, CallbackStep(c),
         UNCHANGED initiateVars
  PROVE  SerialInv' /\ (CommitCallback(c) => status[OrderOf(c)] = "PROCESSING")
<1>1. CASE CommitCallback(c)
  <2> DEFINE t0 == creq[c].txn
  <2>1. status[OrderOf(c)] = "PROCESSING"
    BY <1>1, CommitCallbackWrites DEF SerialInv, StatusMirrorsTransactions, OrderOf
  <2>2. \A t \in Txns : Exists(t)' => Exists(t) /\ txns'[t].order = txns[t].order
    BY <1>1, CommitCallbackWrites DEF Exists, OrderOf
  <2>3. NoSecondTransaction'
    BY <2>2 DEF SerialInv, NoSecondTransaction
  <2>4. StatusMirrorsTransactions'
    <3> SUFFICES ASSUME NEW t \in Txns, Exists(t)'
                 PROVE  status'[txns'[t].order] = IF txns'[t].state = "PENDING"
                                                    THEN "PROCESSING" ELSE txns'[t].state
      BY DEF StatusMirrorsTransactions
    <3>1. CASE t = t0
      BY <1>1, <3>1, CommitCallbackWrites DEF Finalised
    <3>2. CASE t # t0
      <4>1. txns'[t] = txns[t] /\ Exists(t)
        BY <1>1, <2>2, <3>2, CommitCallbackWrites
      <4>2. txns[t].order # OrderOf(c)
        BY <1>1, <3>2, <4>1, CommitCallbackWrites DEF SerialInv, NoSecondTransaction, OrderOf
      <4>3. txns[t].order \in Orders
        BY <4>1 DEF SettlementInv, TypeOK, DbTypeOK, Exists, TxnRow
      <4> QED BY <1>1, <4>1, <4>2, <4>3, CommitCallbackWrites
              DEF SerialInv, StatusMirrorsTransactions
    <3> QED BY <3>1, <3>2
  <2>5. ASSUME NEW i \in Initiators  PROVE SeenStands(i)'
    <3>1. CASE ipc[i] # "idle" /\ statusSeen[i] = "CREATED"
      <4>1. ireq[i].order \in Orders /\ status[ireq[i].order] = "CREATED"
        BY <3>1 DEF SerialInv, SeenStands, SettlementInv, TypeOK, InitiateTypeOK,
                    UpiInitiateRequest
      <4>2. ireq[i].order # OrderOf(c)  BY <2>1, <4>1
      <4> QED BY <1>1, <4>1, <4>2, CommitCallbackWrites
              DEF SerialInv, SeenStands, initiateVars
    <3>2. CASE ~(ipc[i] # "idle" /\ statusSeen[i] = "CREATED")
      BY <3>2 DEF SerialInv, SeenStands, initiateVars
    <3> QED BY <3>1, <3>2
  <2> QED BY <2>1, <2>3, <2>4, <2>5 DEF SerialInv
<1>2. CASE ~CommitCallback(c)
  <2>1. UNCHANGED <<status, txns>>  BY <1>2, OnlyCommitsSetStatus
  <2> QED BY <1>2, <2>1 DEF SerialInv, NoSecondTransaction, StatusMirrorsTransactions,
                            SeenStands, Exists, initiateVars
<1> QED BY <1>1, <1>2

LEMMA SerialInvHolds ==
  ASSUME OneInitiator  PROVE Spec => []SerialInv
<1>1. Init => SerialInv
  BY DEF Init, DbInit, InitiateInit, SerialInv, NoSecondTransaction,
         StatusMirrorsTransactions, SeenStands, Exists
<1>2. SettlementInv /\ SerialInv /\ [Next]_vars => SerialInv'
  <2> SUFFICES ASSUME SettlementInv, SerialInv, [Next]_vars  PROVE SerialInv'  OBVIOUS
  <2>1. CASE UNCHANGED vars
    BY <2>1 DEF vars, dbVars, initiateVars, SerialInv, NoSecondTransaction,
                StatusMirrorsTransactions, SeenStands, Exists
  <2>2. CASE Next
    BY <2>2, QuietInitiateKeepsSerial, CommitInitiateKeepsSerial, CallbackKeepsSerial
       DEF Next, SettlementInv
  <2> QED BY <2>1, <2>2
<1> QED BY <1>1, <1>2, SettlementInvHolds, PTL DEF Spec

\* A set without two different members has at most one.
LEMMA NoTwoMembers ==
  ASSUME NEW S, \A x, y \in S : x = y  PROVE Cardinality(S) <= 1
<1>1. CASE S = {}  BY <1>1, FS_EmptySet
<1>2. ASSUME NEW x \in S  PROVE Cardinality(S) <= 1
  <2>1. S = {x}  OBVIOUS
  <2> QED BY <2>1, FS_Singleton
<1> QED BY <1>1, <1>2

\* While initiations do not overlap, no order ever has a second transaction.
THEOREM OneTransactionWhenSerial ==
  ASSUME OneInitiator  PROVE Spec => []OneTransactionPerOrder
<1>1. SerialInv => OneTransactionPerOrder
  <2> SUFFICES ASSUME SerialInv, NEW o \in Orders  PROVE Cardinality(TxnsOf(o)) <= 1
    BY DEF OneTransactionPerOrder
  <2>1. \A s, t \in TxnsOf(o) : s = t
    BY DEF TxnsOf, SerialInv, NoSecondTransaction
  <2> QED BY <2>1, NoTwoMembers
<1> QED BY <1>1, SerialInvHolds, PTL

\* While initiations do not overlap, no order is paid twice: the overlap is the only way.
THEOREM PaidOnceWhenSerial ==
  ASSUME OneInitiator  PROVE Spec => []OrderPaidOnce
<1>1. SerialInv => OrderPaidOnce
  <2> SUFFICES ASSUME SerialInv, NEW o \in Orders
               PROVE  Cardinality({t \in TxnsOf(o) : Succeeded(t)}) <= 1
    BY DEF OrderPaidOnce
  <2>1. \A s, t \in {x \in TxnsOf(o) : Succeeded(x)} : s = t
    BY DEF TxnsOf, SerialInv, NoSecondTransaction
  <2> QED BY <2>1, NoTwoMembers
<1> QED BY <1>1, SerialInvHolds, PTL

\* While initiations do not overlap, an order's status mirrors its transaction.
THEOREM StatusMirrorsWhenSerial ==
  ASSUME OneInitiator  PROVE Spec => []StatusMirrorsTransactions
<1>1. SerialInv => StatusMirrorsTransactions  BY DEF SerialInv
<1> QED BY <1>1, SerialInvHolds, PTL

\* While initiations do not overlap, an order's status moves along the matrix only.
THEOREM IntentsAdvanceWhenSerial ==
  ASSUME OneInitiator  PROVE Spec => IntentsOnlyAdvance
<1> DEFINE Advances ==
      \A o \in Orders : status[o] # status'[o] => IntentTransition(status[o], status'[o])
<1>1. SettlementInv /\ SerialInv /\ [Next]_vars => [Advances]_vars
  <2> SUFFICES ASSUME SettlementInv, SerialInv, [Next]_vars, NEW o \in Orders,
                      status[o] # status'[o]
               PROVE  IntentTransition(status[o], status'[o])
    OBVIOUS
  <2>1. ASSUME NEW i \in Initiators, CommitInitiate(i)
        PROVE  status[o] = "CREATED" /\ status'[o] = "PROCESSING"
    BY <2>1, CommitInitiateKeepsSerial, CommitInitiateWrites DEF SettlementInv
  <2>2. ASSUME NEW c \in Callbacks, CallbackStep(c), CommitCallback(c), UNCHANGED initiateVars
        PROVE  status[o] = "PROCESSING" /\ status'[o] \in Finalised
    BY <2>2, CallbackKeepsSerial, CommitCallbackWrites
  <2> QED BY <2>1, <2>2, OnlyCommitsSetStatus
          DEF Next, vars, dbVars, IntentTransition, PaymentIntentTransitions, Finalised
<1> QED BY <1>1, SerialInvHolds, SettlementInvHolds, PTL DEF Spec, IntentsOnlyAdvance
=============================================================================
