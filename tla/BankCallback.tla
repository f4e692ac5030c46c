---------------------------- MODULE BankCallback ----------------------------
(***************************************************************************)
(* POST /v1/webhooks/bank-callback: one action per await of                *)
(* process_bank_callback (app/services/webhook.py), then the outbox row    *)
(* and the task dispatch of the endpoint (app/api/v1/webhooks.py).         *)
(*                                                                         *)
(* A callback that fails signature, freshness or shape touches no table    *)
(* and is not modelled: ReceiveCallback is one the endpoint has verified.  *)
(* The session is new, so each locked row is read as the lock is granted;  *)
(* what was read is kept, since later awaits use it.                       *)
(***************************************************************************)
EXTENDS PaymentDb

VARIABLES
  cpc,           \* the await a callback worker stands at
  creq,          \* the event it applies
  stateRead,     \* txn.state of the locked transaction
  payerRead,     \* balance of the locked virtual account
  merchantRead,  \* balance of the locked settlement account
  outbox,        \* how many webhook_deliveries rows there are of each event
  queue,         \* how many delivery tasks were handed to Celery for each event
  acked          \* the events answered with 2xx (history)

callbackVars == <<cpc, creq, stateRead, payerRead, merchantRead, outbox, queue, acked>>
readVars == <<stateRead, payerRead, merchantRead>>
noticeVars == <<outbox, queue, acked>>

BankEvent == [event : Event, txn : Txns, amount : Amounts]

CallbackPc == {"idle", "lock_txn", "lock_intent", "lock_payer", "lock_merchant",
               "commit", "outbox", "dispatch"}

\* The awaits of statements that wait for a row lock.
BlockingPc == {"lock_txn", "lock_intent", "lock_payer", "lock_merchant", "outbox"}

CallbackTypeOK ==
  /\ cpc \in [Callbacks -> CallbackPc]
  /\ creq \in [Callbacks -> BankEvent \cup {NoRequest}]
  /\ stateRead \in [Callbacks -> TransactionState]
  /\ payerRead \in [Callbacks -> 0 .. MaxBalance]
  /\ merchantRead \in [Callbacks -> 0 .. MaxBalance]
  /\ outbox \in [Txns \X Event -> Nat]
  /\ queue \in [Txns \X Event -> Nat]
  /\ acked \in SUBSET (Txns \X Event)
  /\ \A c \in Callbacks : cpc[c] # "idle" => creq[c] \in BankEvent
  /\ \A c \in Callbacks : cpc[c] \notin {"idle", "lock_txn"} => Exists(creq[c].txn)

CallbackInit ==
  /\ cpc = [c \in Callbacks |-> "idle"]
  /\ creq = [c \in Callbacks |-> NoRequest]
  /\ stateRead = [c \in Callbacks |-> "INITIATED"]
  /\ payerRead = [c \in Callbacks |-> 0]
  /\ merchantRead = [c \in Callbacks |-> 0]
  /\ outbox = [n \in Txns \X Event |-> 0]
  /\ queue = [n \in Txns \X Event |-> 0]
  /\ acked = {}

Advance(c, label) == cpc' = [cpc EXCEPT ![c] = label]

\* The response is sent: the session is closed and whatever it locked is free.
CallbackDone(c) ==
  /\ Advance(c, "idle")
  /\ creq' = [creq EXCEPT ![c] = NoRequest]
  /\ stateRead' = [stateRead EXCEPT ![c] = "INITIATED"]
  /\ payerRead' = [payerRead EXCEPT ![c] = 0]
  /\ merchantRead' = [merchantRead EXCEPT ![c] = 0]
  /\ EndTransaction(c)

\* Mutated form: the error path answers without closing the session.
LeakSession(c) ==
  /\ Advance(c, "idle")
  /\ creq' = [creq EXCEPT ![c] = NoRequest]
  /\ UNCHANGED <<dbVars, readVars, noticeVars>>

\* An error response or none at all: everything uncommitted is rolled back.
Abandon(c) ==
  /\ CallbackDone(c)
  /\ UNCHANGED <<status, txns, ledgerVars, noticeVars>>

Notice(c) == <<creq[c].txn, creq[c].event>>

Succeeds(c) == creq[c].event = "payment.success"

\* Rows a callback's transaction reaches through the one it names.
OrderOf(c) == txns[creq[c].txn].order
PayerOf(c) == txns[creq[c].txn].vpa
PayeeOf(c) == MerchantOf[OrderOf(c)]

\* Mutated form: a declined payment locks its intent before its transaction.
DeclineLocksIntentFirst(c) ==
  CASE cpc[c] = "lock_txn" ->
         IF Succeeds(c) \/ ~Exists(creq[c].txn) THEN TxnLock(creq[c].txn)
                                               ELSE OrderLock(OrderOf(c))
    [] cpc[c] = "lock_intent" ->
         IF Succeeds(c) THEN OrderLock(OrderOf(c)) ELSE TxnLock(creq[c].txn)
    [] cpc[c] = "lock_payer" -> AccountLock(PayerOf(c))
    [] cpc[c] = "lock_merchant" -> AccountLock(PayeeOf(c))
    [] cpc[c] = "outbox" -> TxnLock(creq[c].txn)

\* The row the statement at c's await needs: the lock order of the callback.  The
\* outbox row's foreign key takes its transaction's row FOR KEY SHARE, which waits
\* for a FOR UPDATE.
RowNeeded(c) ==
  CASE cpc[c] = "lock_txn" -> TxnLock(creq[c].txn)
    [] cpc[c] = "lock_intent" -> OrderLock(OrderOf(c))
    [] cpc[c] = "lock_payer" -> AccountLock(PayerOf(c))
    [] cpc[c] = "lock_merchant" -> AccountLock(PayeeOf(c))
    [] cpc[c] = "outbox" -> TxnLock(creq[c].txn)

-----------------------------------------------------------------------------
ReceiveCallback(c) ==
  /\ cpc[c] = "idle"
  /\ \E b \in BankEvent : creq' = [creq EXCEPT ![c] = b]
  /\ Advance(c, "lock_txn")
  /\ UNCHANGED <<dbVars, readVars, noticeVars>>

\* TransactionNotFound, 422.
TransactionNotFound(c) ==
  /\ cpc[c] = "lock_txn"
  /\ ~Exists(creq[c].txn)
  /\ Abandon(c)

LockTransaction(c) ==
  /\ cpc[c] = "lock_txn"
  /\ Exists(creq[c].txn)
  /\ SelectForUpdate(c, RowNeeded(c))
  /\ stateRead' = [stateRead EXCEPT ![c] = txns[creq[c].txn].state]
  /\ Advance(c, "lock_intent")
  /\ UNCHANGED <<status, txns, ledgerVars, creq, payerRead, merchantRead, noticeVars>>

\* The second SELECT ... FOR UPDATE is granted; what follows needs no await.
IntentGranted(c) ==
  /\ cpc[c] = "lock_intent"
  /\ Free(RowNeeded(c))

\* Mutated form: the callback's amount is taken on trust.
AnyAmount(c) == TRUE

AmountMatches(c) == creq[c].amount = AmountOf[OrderOf(c)]

\* AmountMismatch, 422.
AmountMismatch(c) ==
  /\ IntentGranted(c)
  /\ ~AmountMatches(c)
  /\ Abandon(c)

\* Mutated form: any finalised transaction counts as a replay of the event.
AlreadyDecided(c) == stateRead[c] \in Finalised

\* The event was already applied to this transaction.
IsReplay(c) == stateRead[c] \in Finalised /\ stateRead[c] = TargetOf(creq[c].event)

\* A replay commits nothing, notifies nobody and is acknowledged.
ReplayCallback(c) ==
  /\ IntentGranted(c)
  /\ AmountMatches(c)
  /\ IsReplay(c)
  /\ acked' = acked \cup {Notice(c)}
  /\ CallbackDone(c)
  /\ UNCHANGED <<status, txns, ledgerVars, outbox, queue>>

\* Mutated form: only the intent's status is guarded.
IntentMayApply(c) == IntentTransition(status[OrderOf(c)], TargetOf(creq[c].event))

\* Mutated form: a success that comes late settles a declined payment after all.
LateSuccessWins(c) ==
  \/ TransactionTransition(stateRead[c], TargetOf(creq[c].event))
  \/ Succeeds(c) /\ stateRead[c] = "FAILED"

\* Neither assertion on the two state machines raises.
MayApply(c) ==
  /\ TransactionTransition(stateRead[c], TargetOf(creq[c].event))
  /\ IntentTransition(status[OrderOf(c)], TargetOf(creq[c].event))

\* InvalidStateTransition, which the endpoint does not catch: 500.
RefuseCallback(c) ==
  /\ IntentGranted(c)
  /\ AmountMatches(c)
  /\ ~IsReplay(c)
  /\ ~MayApply(c)
  /\ Abandon(c)

LockIntent(c) ==
  /\ cpc[c] = "lock_intent"
  /\ AmountMatches(c)
  /\ ~IsReplay(c)
  /\ MayApply(c)
  /\ SelectForUpdate(c, RowNeeded(c))
  /\ Advance(c, IF Succeeds(c) THEN "lock_payer" ELSE "commit")
  /\ UNCHANGED <<status, txns, ledgerVars, creq, readVars, noticeVars>>

-----------------------------------------------------------------------------
\* The address does not fit ledger_accounts.identifier: the INSERT fails, 500.
RefuseWideVpa(c) ==
  /\ cpc[c] = "lock_payer"
  /\ PayerOf(c) \in WideVpas
  /\ Abandon(c)

\* _ensure_account_locked: INSERT ON CONFLICT DO NOTHING, then FOR UPDATE.  An
\* insert of the same account that is still uncommitted is waited for, like a lock.
LockPayerAccount(c) ==
  /\ cpc[c] = "lock_payer"
  /\ PayerOf(c) \notin WideVpas
  /\ SelectForUpdate(c, RowNeeded(c))
  /\ payerRead' = [payerRead EXCEPT ![c] = balance[PayerOf(c)]]
  /\ Advance(c, "lock_merchant")
  /\ UNCHANGED <<status, txns, ledgerVars, creq, stateRead, merchantRead, noticeVars>>

LockMerchantAccount(c) ==
  /\ cpc[c] = "lock_merchant"
  /\ SelectForUpdate(c, RowNeeded(c))
  /\ merchantRead' = [merchantRead EXCEPT ![c] = balance[PayeeOf(c)]]
  /\ Advance(c, "commit")
  /\ UNCHANGED <<status, txns, ledgerVars, creq, stateRead, payerRead, noticeVars>>

\* Mutated form: the columns take any number.
Unbounded(c) == TRUE

\* Both new balances fit Numeric(18, 4).
FitsColumn(c) ==
  /\ payerRead[c] + creq[c].amount <= MaxBalance
  /\ merchantRead[c] + creq[c].amount <= MaxBalance

\* Numeric field overflow: the UPDATE fails and with it the transaction, 500.
RefuseOverflow(c) ==
  /\ cpc[c] = "commit"
  /\ Succeeds(c)
  /\ ~FitsColumn(c)
  /\ Abandon(c)

Entry(c, account, side) ==
  [txn |-> creq[c].txn, account |-> account, side |-> side, amount |-> creq[c].amount]

\* Mutated form: the amount is written in place of the sum.
PostAmountOnly(c) ==
  /\ balance' = [balance EXCEPT ![PayerOf(c)] = creq[c].amount,
                                ![PayeeOf(c)] = creq[c].amount]
  /\ entries' = [entries EXCEPT ![Entry(c, PayerOf(c), "DEBIT")] = @ + 1,
                                ![Entry(c, PayeeOf(c), "CREDIT")] = @ + 1]

\* Both accounts grow by the amount, and a DEBIT and a CREDIT line are added.
PostDoubleEntry(c) ==
  /\ balance' = [balance EXCEPT ![PayerOf(c)] = payerRead[c] + creq[c].amount,
                                ![PayeeOf(c)] = merchantRead[c] + creq[c].amount]
  /\ entries' = [entries EXCEPT ![Entry(c, PayerOf(c), "DEBIT")] = @ + 1,
                                ![Entry(c, PayeeOf(c), "CREDIT")] = @ + 1]

\* Mutated form: a declined attempt leaves its order open for another one.
DeclineKeepsOrderOpen(c) ==
  /\ cpc[c] = "commit"
  /\ Succeeds(c) => FitsColumn(c)
  /\ txns' = [txns EXCEPT ![creq[c].txn].state = TargetOf(creq[c].event)]
  /\ status' = [status EXCEPT ![OrderOf(c)] = IF Succeeds(c) THEN "SUCCESS" ELSE @]
  /\ IF Succeeds(c) THEN PostDoubleEntry(c) ELSE UNCHANGED ledgerVars
  /\ EndTransaction(c)
  /\ Advance(c, "outbox")
  /\ UNCHANGED <<creq, readVars, noticeVars>>

\* State change and ledger lines in one COMMIT, which ends the transaction.
CommitCallback(c) ==
  /\ cpc[c] = "commit"
  /\ Succeeds(c) => FitsColumn(c)
  /\ txns' = [txns EXCEPT ![creq[c].txn].state = TargetOf(creq[c].event)]
  /\ status' = [status EXCEPT ![OrderOf(c)] = TargetOf(creq[c].event)]
  /\ IF Succeeds(c) THEN PostDoubleEntry(c) ELSE UNCHANGED ledgerVars
  /\ EndTransaction(c)
  /\ Advance(c, "outbox")
  /\ UNCHANGED <<creq, readVars, noticeVars>>

-----------------------------------------------------------------------------
\* The merchant has no webhook_url: acknowledged with nothing to deliver.
SkipOutbox(c) ==
  /\ cpc[c] = "outbox"
  /\ PayeeOf(c) \notin Hooked
  /\ acked' = acked \cup {Notice(c)}
  /\ CallbackDone(c)
  /\ UNCHANGED <<status, txns, ledgerVars, outbox, queue>>

\* Mutated form: the row is left to a sweeper of the outbox, which nobody runs.
WriteOutboxOnly(c) ==
  /\ cpc[c] = "outbox"
  /\ PayeeOf(c) \in Hooked
  /\ Free(RowNeeded(c))
  /\ outbox' = [outbox EXCEPT ![Notice(c)] = @ + 1]
  /\ acked' = acked \cup {Notice(c)}
  /\ CallbackDone(c)
  /\ UNCHANGED <<status, txns, ledgerVars, queue>>

\* A second transaction of its own writes the webhook_deliveries row.
WriteOutbox(c) ==
  /\ cpc[c] = "outbox"
  /\ PayeeOf(c) \in Hooked
  /\ Free(RowNeeded(c))
  /\ outbox' = [outbox EXCEPT ![Notice(c)] = @ + 1]
  /\ Advance(c, "dispatch")
  /\ UNCHANGED <<dbVars, creq, readVars, queue, acked>>

\* deliver_merchant_webhook.delay, then the 2xx acknowledgement.
Dispatch(c) ==
  /\ cpc[c] = "dispatch"
  /\ queue' = [queue EXCEPT ![Notice(c)] = @ + 1]
  /\ acked' = acked \cup {Notice(c)}
  /\ CallbackDone(c)
  /\ UNCHANGED <<status, txns, ledgerVars, outbox>>

\* A crash, a lost connection, a pool timeout or an unreachable broker.
FailCallback(c) ==
  /\ c \in MayFail
  /\ cpc[c] # "idle"
  /\ Abandon(c)

-----------------------------------------------------------------------------
\* What the server does with a callback it has verified.
CallbackProgress(c) ==
  \/ TransactionNotFound(c)
  \/ LockTransaction(c)
  \/ AmountMismatch(c)
  \/ ReplayCallback(c)
  \/ RefuseCallback(c)
  \/ LockIntent(c)
  \/ RefuseWideVpa(c)
  \/ LockPayerAccount(c)
  \/ LockMerchantAccount(c)
  \/ RefuseOverflow(c)
  \/ CommitCallback(c)
  \/ SkipOutbox(c)
  \/ WriteOutbox(c)
  \/ Dispatch(c)

CallbackStep(c) == ReceiveCallback(c) \/ CallbackProgress(c) \/ FailCallback(c)
=============================================================================
