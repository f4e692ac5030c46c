---------------------------- MODULE PaymentFlow ----------------------------
(***************************************************************************)
(* The payment core: UPI initiations and bank callbacks running            *)
(* concurrently over the shared tables.  This module composes the two      *)
(* components and states what their interplay must keep true.              *)
(***************************************************************************)
EXTENDS UpiInitiate, BankCallback, FiniteSetsExt

vars == <<dbVars, initiateVars, callbackVars>>

TypeOK == DbTypeOK /\ InitiateTypeOK /\ CallbackTypeOK

Init == DbInit /\ InitiateInit /\ CallbackInit

Next ==
  \/ \E i \in Initiators : InitiateStep(i) /\ UNCHANGED callbackVars
  \/ \E c \in Callbacks : CallbackStep(c) /\ UNCHANGED initiateVars

Spec == Init /\ [][Next]_vars

\* PostgreSQL queues the waiters of a row, so a worker that waits for a lock is
\* not passed over for ever, and the event loop resumes every request whose
\* statement has returned.  Arrivals and failures are nobody's obligation.
Fairness ==
  /\ \A i \in Initiators : SF_vars(InitiateProgress(i) /\ UNCHANGED callbackVars)
  /\ \A c \in Callbacks : SF_vars(CallbackProgress(c) /\ UNCHANGED initiateVars)

FairSpec == Spec /\ Fairness

-----------------------------------------------------------------------------
\* The rows that opened, or succeeded in, an order.
TxnsOf(o) == {t \in Txns : Exists(t) /\ txns[t].order = o}

Succeeded(t) == Exists(t) /\ txns[t].state = "SUCCESS"

\* The two lines that a transaction's success posts.
DebitLine(t) == [txn |-> t, account |-> txns[t].vpa, side |-> "DEBIT",
                 amount |-> AmountOf[txns[t].order]]
CreditLine(t) == [txn |-> t, account |-> MerchantOf[txns[t].order], side |-> "CREDIT",
                  amount |-> AmountOf[txns[t].order]]

\* Exactly-once ledger post: however many callbacks of a transaction race, are
\* repeated, contradict each other or die half way, a successful transaction has
\* exactly its DEBIT and its CREDIT line and any other transaction has none.
LedgerExactlyOnce ==
  \A e \in EntryRow :
    entries[e] = IF Succeeded(e.txn) /\ e \in {DebitLine(e.txn), CreditLine(e.txn)}
                   THEN 1 ELSE 0

\* The ledger rows posted on an account.
PostedOn(a) == {e \in EntryRow : e.account = a /\ entries[e] > 0}

\* No lost update: the balance of every account, written from a value read awaits
\* earlier, is the sum of the lines posted on it.
BalancesMatchEntries ==
  \A a \in Accounts :
    balance[a] = SumFunctionOnSet([e \in EntryRow |-> entries[e] * e.amount], PostedOn(a))

\* The books balance: what the payers were debited is what the merchants were credited,
\* and both are what the successful transactions cost.
Total(A) == SumFunctionOnSet(balance, {a \in A : balance[a] > 0})

Settled == {t \in Txns : Succeeded(t)}

BooksBalance ==
  /\ Total(Vpas) = Total(Merchants)
  /\ Total(Merchants) = SumFunctionOnSet([t \in Settled |-> AmountOf[txns[t].order]], Settled)

\* At most one transaction of an order and a payer address is ever opened, also
\* when two initiations check for the duplicate at the same time: this rests on
\* the intent's row lock alone and not on the status that was read.
OneTransactionPerVpa ==
  \A s, t \in Txns :
    Exists(s) /\ Exists(t) /\ txns[s].order = txns[t].order /\ txns[s].vpa = txns[t].vpa
      => s = t

\* An order's status mirrors each of its transactions: PROCESSING while one is
\* open, and the outcome of the one that was decided.  It needs every order to have
\* one transaction, and so holds only while its initiations do not overlap.
StatusMirrorsTransactions ==
  \A t \in Txns :
    Exists(t) => status[txns[t].order] = IF txns[t].state = "PENDING" THEN "PROCESSING"
                                                                    ELSE txns[t].state

\* reconcile_stuck_intents: the orders it reports for a status check with the bank.
\* The hour they must have been untouched is left out: any of them may be that old.
StuckIntents == {o \in Orders : status[o] = "PROCESSING"}

\* What reconciliation reports is worth asking the bank about: an order it finds has a
\* transaction that no event has decided, also after overlapping initiations and late
\* callbacks have rewritten the order's status.
StuckAwaitsBank ==
  \A o \in StuckIntents : \E t \in TxnsOf(o) : txns[t].state = "PENDING"

\* An event is acknowledged only after its outcome is committed, and no later
\* callback takes the outcome back: the PSP may stop retrying.
AckedIsDurable ==
  \A t \in Txns, e \in Event :
    <<t, e>> \in acked => Exists(t) /\ txns[t].state = TargetOf(e)

\* The merchant is told of a transaction at most once, of its real outcome, and
\* only by a task whose outbox row is durable.
NoticesAreTrue ==
  \A t \in Txns, e \in Event :
    /\ outbox[<<t, e>>] <= 1
    /\ queue[<<t, e>>] <= outbox[<<t, e>>]
    /\ outbox[<<t, e>>] > 0 => Exists(t) /\ txns[t].state = TargetOf(e)

\* What a callback read awaits ago is what the tables still hold when it decides and
\* commits: the state of its transaction from the second lock on, and the balance
\* of each account, which it will overwrite, from the lock of that account on.
ReadsAreCurrent ==
  \A c \in Callbacks :
    /\ cpc[c] \in {"lock_intent", "lock_payer", "lock_merchant", "commit"}
         => stateRead[c] = txns[creq[c].txn].state
    /\ cpc[c] \in {"lock_merchant", "commit"} /\ Succeeds(c)
         => payerRead[c] = balance[PayerOf(c)]
    /\ cpc[c] = "commit" /\ Succeeds(c)
         => merchantRead[c] = balance[PayeeOf(c)]

-----------------------------------------------------------------------------
\* The row lock a worker waits for or is about to take.
AwaitsRow(w, r) ==
  \/ w \in Initiators /\ ipc[w] = "lock_intent" /\ OwnOrder(w) /\ r = OrderLock(ireq[w].order)
  \/ w \in Callbacks /\ cpc[w] \in BlockingPc /\ r = RowNeeded(w)

WaitsFor(w, x) == \E r \in Rows : AwaitsRow(w, r) /\ lock[r] = x

\* Transactions never wait for each other in a circle: every group of workers has
\* a member that waits for no member of the group.
NoWaitCycle ==
  \A S \in SUBSET Workers :
    S # {} => \E w \in S : \A x \in S : ~WaitsFor(w, x)

-----------------------------------------------------------------------------
\* A transaction row, once inserted, keeps its order and payer and only moves
\* along the permission matrix, whatever outcome a late callback asks for.
TransactionsOnlyAdvance ==
  [][\A t \in Txns :
       txns[t] # txns'[t] =>
         IF Exists(t)
           THEN /\ txns'[t] = [txns[t] EXCEPT !.state = txns'[t].state]
                /\ TransactionTransition(txns[t].state, txns'[t].state)
           ELSE txns'[t].state = "PENDING"]_vars

\* No order ever has a second transaction.
OneTransactionPerOrder == \A o \in Orders : Cardinality(TxnsOf(o)) <= 1

\* An order's status moves along the permission matrix only.
IntentsOnlyAdvance ==
  [][\A o \in Orders : status[o] # status'[o] => IntentTransition(status[o], status'[o])]_vars

\* An order is paid at most once.
OrderPaidOnce ==
  \A o \in Orders : Cardinality({t \in TxnsOf(o) : Succeeded(t)}) <= 1

\* The merchant's notice is enqueued as part of the callback: once no callback is at work
\* on a finalised transaction of a merchant with a webhook_url, Celery has its task.  A
\* death before the row's commit refutes it, and so does one between that and the call.
FinalisedIsEnqueued ==
  \A t \in Txns :
    /\ Exists(t)
    /\ txns[t].state \in Finalised
    /\ MerchantOf[txns[t].order] \in Hooked
    /\ \A c \in Callbacks : cpc[c] # "idle" => creq[c].txn # t
    => queue[<<t, "payment.success">>] + queue[<<t, "payment.failed">>] > 0

\* The payment core implements the abstract settlement of transactions.
Money == INSTANCE Settlement

SettlesAtomically == Money!Spec

\* Every request that is taken up is answered, whatever else is under way.
EveryRequestEnds ==
  /\ \A i \in Initiators : ipc[i] # "idle" ~> ipc[i] = "idle"
  /\ \A c \in Callbacks : cpc[c] # "idle" ~> cpc[c] = "idle"

\* The notice of every finalised transaction of a merchant with a webhook_url is
\* handed to Celery, provided that no request dies on the way.
FinalisedIsDispatched ==
  \A t \in Txns :
    (Exists(t) /\ txns[t].state \in Finalised /\ MerchantOf[txns[t].order] \in Hooked)
      ~> (queue[<<t, "payment.success">>] + queue[<<t, "payment.failed">>] = 1)
=============================================================================
