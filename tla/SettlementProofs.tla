-------------------------- MODULE SettlementProofs --------------------------
(***************************************************************************)
(* That PaymentFlow implements Settlement, and what follows from it.  Only *)
(* CommitCallback moves money.  It writes values that were read awaits     *)
(* earlier, so the argument is that the row locks a callback holds keep    *)
(* its reads current, and that it never decides what has been decided.     *)
(***************************************************************************)
EXTENDS PaymentFlowProofs, FiniteSums

HoldsTxnPc == {"lock_intent", "lock_payer", "lock_merchant", "commit"}

\* The rows callback c has locked at its await.
Holds(c) ==
  /\ cpc[c] \in HoldsTxnPc => lock[TxnLock(creq[c].txn)] = c
  /\ cpc[c] \in {"lock_merchant", "commit"} /\ Succeeds(c) => lock[AccountLock(PayerOf(c))] = c
  /\ cpc[c] = "commit" /\ Succeeds(c) => lock[AccountLock(PayeeOf(c))] = c

\* What callback c has read is what the tables hold.
Current(c) ==
  /\ cpc[c] \in HoldsTxnPc => stateRead[c] = txns[creq[c].txn].state
  /\ cpc[c] \in {"lock_merchant", "commit"} /\ Succeeds(c) => payerRead[c] = balance[PayerOf(c)]
  /\ cpc[c] = "commit" /\ Succeeds(c) => merchantRead[c] = balance[PayeeOf(c)]

\* What callback c has decided: an open transaction is settled at its order's amount.
Decided(c) ==
  /\ cpc[c] \in {"lock_payer", "lock_merchant", "commit"} =>
       stateRead[c] = "PENDING" /\ creq[c].amount = AmountOf[OrderOf(c)]
  /\ cpc[c] \in {"lock_payer", "lock_merchant"} => Succeeds(c)

\* The inductive invariant.
SettlementInv == TypeOK /\ \A c \in Callbacks : Holds(c) /\ Current(c) /\ Decided(c)

-----------------------------------------------------------------------------
\* A callback that a step leaves alone keeps its part of the invariant, if the rows
\* it has locked stay locked and keep their contents.
LEMMA Bystander ==
  ASSUME SettlementInv, NEW c \in Callbacks,
         cpc'[c] = cpc[c], creq'[c] = creq[c], stateRead'[c] = stateRead[c],
         payerRead'[c] = payerRead[c], merchantRead'[c] = merchantRead[c],
         \A r \in Rows : lock[r] = c => lock'[r] = c,
         \A t \in Txns : Exists(t) /\ lock[TxnLock(t)] = c => txns'[t] = txns[t],
         \A a \in Accounts : lock[AccountLock(a)] = c => balance'[a] = balance[a]
  PROVE  Holds(c)' /\ Current(c)' /\ Decided(c)'
<1>1. CASE cpc[c] \in HoldsTxnPc
  <2>1. /\ creq[c].txn \in Txns /\ Exists(creq[c].txn)
        /\ PayerOf(c) \in Accounts /\ PayeeOf(c) \in Accounts
    BY <1>1, EventType DEF SettlementInv, HoldsTxnPc, TypeOK, CallbackTypeOK
  <2>2. /\ TxnLock(creq[c].txn) \in Rows
        /\ AccountLock(PayerOf(c)) \in Rows /\ AccountLock(PayeeOf(c)) \in Rows
    BY <2>1 DEF Rows
  <2>3. txns'[creq[c].txn] = txns[creq[c].txn]
    BY <1>1, <2>1 DEF SettlementInv, Holds
  <2>4. /\ Succeeds(c)' = Succeeds(c) /\ OrderOf(c)' = OrderOf(c)
        /\ PayerOf(c)' = PayerOf(c) /\ PayeeOf(c)' = PayeeOf(c)
    BY <2>3 DEF Succeeds, OrderOf, PayerOf, PayeeOf
  <2>5. Holds(c)'
    BY <2>2, <2>4 DEF SettlementInv, Holds
  <2>6. Current(c)'
    BY <2>1, <2>3, <2>4 DEF SettlementInv, Holds, Current
  <2>7. Decided(c)'
    BY <2>4 DEF SettlementInv, Decided
  <2> QED BY <2>5, <2>6, <2>7
<1>2. CASE cpc[c] \notin HoldsTxnPc
  BY <1>2 DEF Holds, Current, Decided, HoldsTxnPc
<1> QED BY <1>1, <1>2

\* An initiation opens transactions nobody else knows of and touches no account.
LEMMA InitiateKeepsInv ==
  ASSUME SettlementInv, NEW i \in Initiators, InitiateStep(i), UNCHANGED callbackVars
  PROVE  SettlementInv'
<1>1. TypeOK'  BY InitiateType DEF SettlementInv
<1>2. balance' = balance
  BY DEF InitiateStep, InitiateProgress, Authenticate, OrderNotFound, AlreadyFinalised,
         LockIntentRow, ReplayInitiate, RefuseInitiate, AcceptInitiate, CommitInitiate,
         FailInitiate, dbVars, ledgerVars
<1>3. \A t \in Txns : Exists(t) => txns'[t] = txns[t]
  <2>1. CASE CommitInitiate(i)
    BY <2>1 DEF CommitInitiate, SettlementInv, TypeOK, DbTypeOK
  <2>2. CASE ~CommitInitiate(i)
    BY <2>2 DEF InitiateStep, InitiateProgress, Authenticate, OrderNotFound, AlreadyFinalised,
                LockIntentRow, ReplayInitiate, RefuseInitiate, AcceptInitiate, FailInitiate,
                dbVars
  <2> QED BY <2>1, <2>2
<1>4. EndTransaction(i) \/ (\E r : SelectForUpdate(i, r)) \/ UNCHANGED lock
  BY DEF InitiateStep, InitiateProgress, Authenticate, OrderNotFound, AlreadyFinalised,
         LockIntentRow, ReplayInitiate, RefuseInitiate, AcceptInitiate, CommitInitiate,
         FailInitiate, InitiateDone, dbVars
<1>5. ASSUME NEW c \in Callbacks
      PROVE  Holds(c)' /\ Current(c)' /\ Decided(c)'
  <2>1. \A r \in Rows : lock[r] = c => lock'[r] = c
    BY <1>4, OthersKeepLocks, DbAssumption DEF SettlementInv, TypeOK, Workers
  <2> QED BY <1>2, <1>3, <2>1, Bystander DEF callbackVars, readVars, noticeVars
<1> QED BY <1>1, <1>5 DEF SettlementInv

-----------------------------------------------------------------------------
\* The rows that a commit overwrites are locked by the callback that commits.
LEMMA CommitOwnsItsRows ==
  ASSUME SettlementInv, NEW c \in Callbacks, CommitCallback(c)
  PROVE  /\ \A t \in Txns : lock[TxnLock(t)] # c => txns'[t] = txns[t]
         /\ \A a \in Accounts : lock[AccountLock(a)] # c => balance'[a] = balance[a]
<1>1. \A t \in Txns : lock[TxnLock(t)] # c => txns'[t] = txns[t]
  BY DEF CommitCallback, SettlementInv, Holds, HoldsTxnPc, TypeOK, DbTypeOK
<1>2. CASE Succeeds(c)
  BY <1>1, <1>2 DEF CommitCallback, PostDoubleEntry, SettlementInv, Holds, TypeOK, DbTypeOK
<1>3. CASE ~Succeeds(c)
  BY <1>1, <1>3 DEF CommitCallback, ledgerVars
<1> QED BY <1>2, <1>3

\* Every callback step but a commit leaves transactions and ledger alone.
LEMMA OnlyCommitsWrite ==
  ASSUME NEW c \in Callbacks, CallbackStep(c), ~CommitCallback(c)
  PROVE  UNCHANGED <<txns, balance, entries>>
BY DEF CallbackStep, CallbackProgress, ReceiveCallback, TransactionNotFound, LockTransaction,
       AmountMismatch, ReplayCallback, RefuseCallback, LockIntent, RefuseWideVpa,
       LockPayerAccount, LockMerchantAccount, RefuseOverflow, SkipOutbox, WriteOutbox,
       Dispatch, FailCallback, Abandon, dbVars, ledgerVars

\* The callback that moves: each lock adds a row it holds and a read that is current.
LEMMA OwnStepKeepsInv ==
  ASSUME SettlementInv, NEW c \in Callbacks, CallbackStep(c)
  PROVE  Holds(c)' /\ Current(c)' /\ Decided(c)'
<1> USE DEF HoldsTxnPc
<1>1. ASSUME cpc'[c] \notin HoldsTxnPc
      PROVE  Holds(c)' /\ Current(c)' /\ Decided(c)'
  BY <1>1 DEF Holds, Current, Decided
<1>2. ASSUME CallbackDone(c)  PROVE cpc'[c] = "idle"
  BY <1>2 DEF CallbackDone, Advance, SettlementInv, TypeOK, CallbackTypeOK
<1>3. CASE LockTransaction(c)
  <2>1. creq[c].txn \in Txns
    BY <1>3 DEF LockTransaction, SettlementInv, TypeOK, CallbackTypeOK, BankEvent
  <2>2. cpc'[c] = "lock_intent" /\ creq' = creq /\ txns' = txns
    BY <1>3 DEF LockTransaction, Advance, SettlementInv, TypeOK, CallbackTypeOK
  <2>3. lock'[TxnLock(creq[c].txn)] = c
    BY <1>3, <2>1 DEF LockTransaction, SelectForUpdate, RowNeeded, Rows, SettlementInv, TypeOK,
                      DbTypeOK
  <2>4. stateRead'[c] = txns[creq[c].txn].state
    BY <1>3 DEF LockTransaction, SettlementInv, TypeOK, CallbackTypeOK
  <2> QED BY <2>2, <2>3, <2>4 DEF Holds, Current, Decided, TxnLock
<1>4. CASE LockIntent(c)
  <2>1. /\ cpc'[c] = (IF Succeeds(c) THEN "lock_payer" ELSE "commit")
        /\ creq' = creq /\ txns' = txns /\ stateRead' = stateRead
    BY <1>4 DEF LockIntent, Advance, readVars, SettlementInv, TypeOK, CallbackTypeOK
  <2>2. Succeeds(c)' = Succeeds(c) /\ OrderOf(c)' = OrderOf(c)
    BY <2>1 DEF Succeeds, OrderOf
  <2>3. creq[c].txn \in Txns
    BY <1>4, EventType DEF LockIntent, SettlementInv
  <2>4. lock[TxnLock(creq[c].txn)] = c /\ stateRead[c] = txns[creq[c].txn].state
    BY <1>4 DEF LockIntent, SettlementInv, Holds, Current
  <2>5. lock'[TxnLock(creq[c].txn)] = c
    BY <1>4, <2>3, <2>4, DbAssumption
    DEF LockIntent, SelectForUpdate, Free, Rows, SettlementInv, TypeOK, DbTypeOK, Workers
  <2>6. stateRead[c] = "PENDING"
    <3>1. TransactionTransition(stateRead[c], TargetOf(creq[c].event))
      BY <1>4 DEF LockIntent, MayApply
    <3> QED BY <3>1 DEF TransactionTransition, TransactionTransitions, TargetOf
  <2>7. creq[c].amount = AmountOf[OrderOf(c)]
    BY <1>4 DEF LockIntent, AmountMatches
  <2> QED BY <2>1, <2>2, <2>4, <2>5, <2>6, <2>7 DEF Holds, Current, Decided
<1>5. CASE LockPayerAccount(c)
  <2>1. /\ cpc[c] = "lock_payer" /\ cpc'[c] = "lock_merchant" /\ creq' = creq /\ txns' = txns
        /\ stateRead' = stateRead /\ balance' = balance /\ payerRead'[c] = balance[PayerOf(c)]
    BY <1>5 DEF LockPayerAccount, Advance, ledgerVars, SettlementInv, TypeOK, CallbackTypeOK
  <2>2. Succeeds(c)' = Succeeds(c) /\ OrderOf(c)' = OrderOf(c) /\ PayerOf(c)' = PayerOf(c)
    BY <2>1 DEF Succeeds, OrderOf, PayerOf
  <2>3. TxnLock(creq[c].txn) \in Rows /\ AccountLock(PayerOf(c)) \in Rows
    BY <2>1, EventType DEF SettlementInv, Rows
  <2>4. lock'[AccountLock(PayerOf(c))] = c
    BY <1>5, <2>1, <2>3 DEF LockPayerAccount, SelectForUpdate, RowNeeded, SettlementInv, TypeOK,
                            DbTypeOK
  <2>5. lock'[TxnLock(creq[c].txn)] = c
    BY <1>5, <2>1, <2>3 DEF LockPayerAccount, SelectForUpdate, SettlementInv, Holds, TypeOK, DbTypeOK
  <2> QED BY <2>1, <2>2, <2>4, <2>5 DEF SettlementInv, Holds, Current, Decided
<1>6. CASE LockMerchantAccount(c)
  <2>1. /\ cpc[c] = "lock_merchant" /\ cpc'[c] = "commit" /\ creq' = creq /\ txns' = txns
        /\ stateRead' = stateRead /\ balance' = balance /\ payerRead' = payerRead
        /\ merchantRead'[c] = balance[PayeeOf(c)]
    BY <1>6 DEF LockMerchantAccount, Advance, ledgerVars, SettlementInv, TypeOK, CallbackTypeOK
  <2>2. /\ Succeeds(c)' = Succeeds(c) /\ OrderOf(c)' = OrderOf(c)
        /\ PayerOf(c)' = PayerOf(c) /\ PayeeOf(c)' = PayeeOf(c)
    BY <2>1 DEF Succeeds, OrderOf, PayerOf, PayeeOf
  <2>3. /\ TxnLock(creq[c].txn) \in Rows
        /\ AccountLock(PayerOf(c)) \in Rows /\ AccountLock(PayeeOf(c)) \in Rows
    BY <2>1, EventType DEF SettlementInv, Rows
  <2>4. lock'[AccountLock(PayeeOf(c))] = c
    BY <1>6, <2>1, <2>3 DEF LockMerchantAccount, SelectForUpdate, RowNeeded, SettlementInv, TypeOK,
                            DbTypeOK
  <2>5. lock'[TxnLock(creq[c].txn)] = c /\ lock'[AccountLock(PayerOf(c))] = c
    BY <1>6, <2>1, <2>3 DEF LockMerchantAccount, SelectForUpdate, SettlementInv, Holds, Decided,
                            TypeOK, DbTypeOK
  <2> QED BY <2>1, <2>2, <2>4, <2>5 DEF SettlementInv, Holds, Current, Decided
<1>7. CASE ReceiveCallback(c) \/ CommitCallback(c) \/ WriteOutbox(c)
  BY <1>7, <1>1 DEF ReceiveCallback, CommitCallback, WriteOutbox, Advance, SettlementInv, TypeOK,
                    CallbackTypeOK
<1>8. CASE \/ TransactionNotFound(c) \/ AmountMismatch(c) \/ ReplayCallback(c)
           \/ RefuseCallback(c) \/ RefuseWideVpa(c) \/ RefuseOverflow(c)
           \/ SkipOutbox(c) \/ Dispatch(c) \/ FailCallback(c)
  BY <1>8, <1>1, <1>2 DEF TransactionNotFound, AmountMismatch, ReplayCallback, RefuseCallback,
                          RefuseWideVpa, RefuseOverflow, SkipOutbox, Dispatch, FailCallback,
                          Abandon
<1> QED BY <1>3, <1>4, <1>5, <1>6, <1>7, <1>8 DEF CallbackStep, CallbackProgress

LEMMA CallbackKeepsInv ==
  ASSUME SettlementInv, NEW c \in Callbacks, CallbackStep(c), UNCHANGED initiateVars
  PROVE  SettlementInv'
<1>1. TypeOK'  BY CallbackType DEF SettlementInv
<1>2. ASSUME NEW d \in Callbacks, d # c
      PROVE  Holds(d)' /\ Current(d)' /\ Decided(d)'
  <2>1. \A r \in Rows : lock[r] = d => lock'[r] = d
    BY <1>2, CallbackLocks, OthersKeepLocks DEF SettlementInv, TypeOK, Workers
  <2>2. /\ \A t \in Txns : lock[TxnLock(t)] = d => txns'[t] = txns[t]
        /\ \A a \in Accounts : lock[AccountLock(a)] = d => balance'[a] = balance[a]
    BY <1>2, CommitOwnsItsRows, OnlyCommitsWrite
  <2> QED BY <1>2, <2>1, <2>2, CallbackStepIsOwn, Bystander DEF SettlementInv
<1> QED BY <1>1, <1>2, OwnStepKeepsInv DEF SettlementInv

\* It holds initially, since no callback is at work.
LEMMA InitSettled ==
  ASSUME Init  PROVE SettlementInv
<1>1. TypeOK  BY InitTyped
<1> QED BY <1>1 DEF Init, CallbackInit, SettlementInv, Holds, Current, Decided, HoldsTxnPc

\* The inductive invariant holds.
LEMMA SettlementInvHolds == Spec => []SettlementInv
<1>1. Init => SettlementInv  BY InitSettled
<1>2. SettlementInv /\ [Next]_vars => SettlementInv'
  <2> SUFFICES ASSUME SettlementInv, [Next]_vars PROVE SettlementInv'  OBVIOUS
  <2>1. CASE UNCHANGED vars
    <3>1. TypeOK'
      BY <2>1 DEF vars, dbVars, initiateVars, callbackVars, SettlementInv, TypeOK, DbTypeOK,
                  InitiateTypeOK, CallbackTypeOK, Exists
    <3> QED BY <2>1, <3>1, Bystander DEF vars, dbVars, callbackVars, SettlementInv
  <2>2. CASE Next  BY <2>2, InitiateKeepsInv, CallbackKeepsInv DEF Next
  <2> QED BY <2>1, <2>2
<1> QED BY <1>1, <1>2, PTL DEF Spec

\* Whatever a callback decides and commits is still true when it is committed: the
\* state it read of its transaction and the balances it is about to overwrite.
THEOREM ReadsStayCurrent == Spec => []ReadsAreCurrent
<1>1. SettlementInv => ReadsAreCurrent
  BY DEF SettlementInv, Current, HoldsTxnPc, ReadsAreCurrent
<1> QED BY <1>1, SettlementInvHolds, PTL

-----------------------------------------------------------------------------
(***************************************************************************)
(* The refinement: CommitInitiate opens, CommitCallback settles or         *)
(* declines, and every other step stutters.                                *)
(***************************************************************************)

LEMMA CommitInitiateOpens ==
  ASSUME TypeOK, NEW i \in Initiators, CommitInitiate(i)
  PROVE  Money!Next
<1>1. PICK t \in Txns :
        /\ ~Exists(t)
        /\ txns' = [txns EXCEPT ![t] = [order |-> ireq[i].order, vpa |-> ireq[i].vpa,
                                        state |-> "PENDING"]]
  BY DEF CommitInitiate
<1>2. ireq[i].order \in Orders /\ ireq[i].vpa \in Vpas
  BY DEF CommitInitiate, TypeOK, InitiateTypeOK, UpiInitiateRequest
<1>3. Money!Open(t)
  BY <1>1, <1>2 DEF Money!Open, Exists, CommitInitiate, ledgerVars
<1> QED BY <1>3 DEF Money!Next

LEMMA CommitCallbackDecides ==
  ASSUME SettlementInv, NEW c \in Callbacks, CommitCallback(c)
  PROVE  Money!Next
<1> DEFINE t == creq[c].txn
<1>1. /\ t \in Txns /\ OrderOf(c) \in Orders
      /\ PayerOf(c) \in Accounts /\ PayeeOf(c) \in Accounts /\ PayerOf(c) # PayeeOf(c)
      /\ creq[c].amount \in Amounts /\ creq[c].amount \in Nat
  BY EventType DEF CommitCallback, SettlementInv
<1>2. creq[c].amount = AmountOf[OrderOf(c)] /\ txns[t].state = "PENDING"
  BY DEF CommitCallback, SettlementInv, Current, Decided, HoldsTxnPc
<1>3. Money!Pending(t)
  BY <1>1, <1>2 DEF Money!Pending, Exists, CommitCallback, SettlementInv, TypeOK, CallbackTypeOK
<1>4. CASE Succeeds(c)
  <2>1. txns' = [txns EXCEPT ![t].state = "SUCCESS"]
    BY <1>4 DEF CommitCallback, Succeeds, TargetOf
  <2>2. balance' = [a \in DOMAIN balance |->
                      balance[a] + (IF a \in {PayerOf(c), PayeeOf(c)} THEN AmountOf[OrderOf(c)]
                                                                     ELSE 0)]
    <3>1. /\ payerRead[c] = balance[PayerOf(c)] /\ merchantRead[c] = balance[PayeeOf(c)]
      BY <1>4 DEF CommitCallback, SettlementInv, Current
    <3>2. balance' = [balance EXCEPT ![PayerOf(c)] = balance[PayerOf(c)] + AmountOf[OrderOf(c)],
                                     ![PayeeOf(c)] = balance[PayeeOf(c)] + AmountOf[OrderOf(c)]]
      BY <1>2, <1>4, <3>1 DEF CommitCallback, PostDoubleEntry
    <3>3. balance \in [Accounts -> 0 .. MaxBalance]
      BY DEF SettlementInv, TypeOK, DbTypeOK
    <3>4. \A a \in Accounts : balance[a] + 0 = balance[a]
      BY <3>3
    <3> QED BY <1>1, <3>2, <3>3, <3>4
  <2>3. entries' = [e \in DOMAIN entries |->
                      entries[e] + (IF e \in {Entry(c, PayerOf(c), "DEBIT"),
                                              Entry(c, PayeeOf(c), "CREDIT")} THEN 1 ELSE 0)]
    <3> DEFINE debit == Entry(c, PayerOf(c), "DEBIT")
               credit == Entry(c, PayeeOf(c), "CREDIT")
    <3>1. debit \in EntryRow /\ credit \in EntryRow /\ debit # credit
      BY <1>1 DEF Entry, EntryRow
    <3>2. entries' = [entries EXCEPT ![debit] = @ + 1, ![credit] = @ + 1]
      BY <1>4 DEF CommitCallback, PostDoubleEntry
    <3>3. entries \in [EntryRow -> Nat]
      BY DEF SettlementInv, TypeOK, DbTypeOK
    <3>4. \A e \in EntryRow : entries[e] + 0 = entries[e]
      BY <3>3
    <3> HIDE DEF debit, credit
    <3>5. entries' = [e \in DOMAIN entries |->
                        entries[e] + (IF e \in {debit, credit} THEN 1 ELSE 0)]
      BY <3>1, <3>2, <3>3, <3>4
    <3> QED BY <3>5 DEF debit, credit
  <2>4. /\ txns[t].vpa = PayerOf(c) /\ MerchantOf[txns[t].order] = PayeeOf(c)
        /\ AmountOf[txns[t].order] = AmountOf[OrderOf(c)]
    BY DEF PayerOf, PayeeOf, OrderOf
  <2>5. /\ Entry(c, PayerOf(c), "DEBIT") =
             [txn |-> t, account |-> PayerOf(c), side |-> "DEBIT", amount |-> AmountOf[OrderOf(c)]]
        /\ Entry(c, PayeeOf(c), "CREDIT") =
             [txn |-> t, account |-> PayeeOf(c), side |-> "CREDIT",
              amount |-> AmountOf[OrderOf(c)]]
    BY <1>2 DEF Entry
  <2>6. Money!Settle(t)
    BY <1>3, <2>1, <2>2, <2>3, <2>4, <2>5 DEF Money!Settle
  <2> QED BY <1>1, <2>6 DEF Money!Next
<1>5. CASE ~Succeeds(c)
  <2>1. Money!Decline(t)
    BY <1>3, <1>5 DEF Money!Decline, CommitCallback, Succeeds, TargetOf, ledgerVars
  <2> QED BY <1>1, <2>1 DEF Money!Next
<1> QED BY <1>4, <1>5

LEMMA StepIsSettlementStep ==
  ASSUME SettlementInv, [Next]_vars
  PROVE  [Money!Next]_(Money!settlementVars)
<1> USE DEF Money!settlementVars
<1>1. CASE UNCHANGED vars
  BY <1>1 DEF vars, dbVars
<1>2. ASSUME NEW i \in Initiators, InitiateStep(i)
      PROVE  [Money!Next]_(Money!settlementVars)
  <2>1. CASE CommitInitiate(i)
    BY <2>1, CommitInitiateOpens DEF SettlementInv
  <2>2. CASE ~CommitInitiate(i)
    BY <1>2, <2>2 DEF InitiateStep, InitiateProgress, Authenticate, OrderNotFound,
                      AlreadyFinalised, LockIntentRow, ReplayInitiate, RefuseInitiate,
                      AcceptInitiate, FailInitiate, dbVars, ledgerVars
  <2> QED BY <2>1, <2>2
<1>3. ASSUME NEW c \in Callbacks, CallbackStep(c)
      PROVE  [Money!Next]_(Money!settlementVars)
  BY <1>3, CommitCallbackDecides, OnlyCommitsWrite
<1> QED BY <1>1, <1>2, <1>3 DEF Next

\* The payment core implements the abstract settlement: with any interleaving of
\* workers and any of them failing, money moves only when an open transaction is
\* decided, once, by its order's amount and to both accounts at the same time.
THEOREM Refinement == Spec => SettlesAtomically
<1>1. Init => Money!Init
  BY DEF Init, DbInit, Money!Init
<1>2. SettlementInv /\ [Next]_vars => [Money!Next]_(Money!settlementVars)
  BY StepIsSettlementStep
<1> QED BY <1>1, <1>2, SettlementInvHolds, PTL DEF Spec, SettlesAtomically, Money!Spec
-----------------------------------------------------------------------------
(***************************************************************************)
(* What every implementation of Settlement has.                            *)
(***************************************************************************)

\* A settled transaction is given exactly its two lines; no other line is posted.
LEMMA SettlementPostsOnce ==
  ASSUME TypeOK, LedgerExactlyOnce, Money!Next
  PROVE  LedgerExactlyOnce'
<1>1. PICK t \in Txns : Money!Open(t) \/ Money!Decline(t) \/ Money!Settle(t)
  BY DEF Money!Next
<1>2. \A e \in EntryRow : e.txn \in Txns  BY DEF EntryRow
<1>3. txns \in [Txns -> TxnRow \cup {NoRow}] /\ entries \in [EntryRow -> Nat]
  BY DEF TypeOK, DbTypeOK
<1>4. CASE Money!Open(t)
  <2>1. PICK o \in Orders, v \in Vpas :
          txns' = [txns EXCEPT ![t] = [order |-> o, vpa |-> v, state |-> "PENDING"]]
    BY <1>4 DEF Money!Open
  <2>2. entries' = entries /\ txns[t] = NoRow  BY <1>4 DEF Money!Open
  <2>3. \A s \in Txns \ {t} : txns'[s] = txns[s]  BY <2>1
  <2>4. ~Succeeded(t) /\ ~Succeeded(t)'
    BY <1>3, <2>1, <2>2 DEF Succeeded, Exists
  <2>5. \A s \in Txns \ {t} : /\ Succeeded(s)' = Succeeded(s)
                              /\ DebitLine(s)' = DebitLine(s) /\ CreditLine(s)' = CreditLine(s)
    BY <2>3 DEF Succeeded, Exists, DebitLine, CreditLine
  <2> QED BY <1>2, <2>2, <2>4, <2>5 DEF LedgerExactlyOnce
<1>5. ASSUME NEW outcome \in {"SUCCESS", "FAILED"}, Money!Pending(t),
             txns' = [txns EXCEPT ![t].state = outcome]
      PROVE  /\ ~Succeeded(t) /\ (Succeeded(t)' <=> outcome = "SUCCESS")
             /\ DebitLine(t)' = DebitLine(t) /\ CreditLine(t)' = CreditLine(t)
             /\ \A s \in Txns \ {t} :
                  /\ Succeeded(s)' = Succeeded(s)
                  /\ DebitLine(s)' = DebitLine(s) /\ CreditLine(s)' = CreditLine(s)
  <2>1. txns[t] \in TxnRow  BY <1>3, <1>5 DEF Money!Pending
  <2>2. /\ txns'[t] \in TxnRow /\ txns'[t].state = outcome
        /\ txns'[t].vpa = txns[t].vpa /\ txns'[t].order = txns[t].order
    BY <1>3, <1>5, <2>1 DEF TxnRow, TransactionState
  <2>3. \A s \in Txns \ {t} : txns'[s] = txns[s]  BY <1>3, <1>5
  <2> QED BY <1>5, <2>2, <2>3, SentinelAssumption
          DEF Money!Pending, Succeeded, Exists, DebitLine, CreditLine
<1>6. CASE Money!Decline(t)
  BY <1>2, <1>5, <1>6 DEF Money!Decline, LedgerExactlyOnce
<1>7. CASE Money!Settle(t)
  <2>1. \A e \in EntryRow :
          entries'[e] = entries[e] + (IF e \in {DebitLine(t), CreditLine(t)} THEN 1 ELSE 0)
    BY <1>3, <1>7 DEF Money!Settle, DebitLine, CreditLine
  <2>2. /\ ~Succeeded(t) /\ Succeeded(t)'
        /\ DebitLine(t)' = DebitLine(t) /\ CreditLine(t)' = CreditLine(t)
        /\ \A s \in Txns \ {t} :
             /\ Succeeded(s)' = Succeeded(s)
             /\ DebitLine(s)' = DebitLine(s) /\ CreditLine(s)' = CreditLine(s)
    BY <1>5, <1>7 DEF Money!Settle
  <2>3. DebitLine(t).txn = t /\ CreditLine(t).txn = t  BY DEF DebitLine, CreditLine
  <2>4. ASSUME NEW e \in EntryRow
        PROVE  (entries[e] = IF Succeeded(e.txn) /\ e \in {DebitLine(e.txn), CreditLine(e.txn)}
                               THEN 1 ELSE 0)'
    <3>1. CASE e.txn = t
      <4>1. entries[e] = 0  BY <2>2, <3>1 DEF LedgerExactlyOnce
      <4> QED BY <2>1, <2>2, <3>1, <4>1
    <3>2. CASE e.txn # t
      <4>1. e \notin {DebitLine(t), CreditLine(t)}  BY <2>3, <3>2
      <4>2. entries'[e] = entries[e]  BY <1>3, <2>1, <4>1
      <4> QED BY <1>2, <2>2, <3>2, <4>2 DEF LedgerExactlyOnce
    <3> QED BY <3>1, <3>2
  <2> QED BY <2>4 DEF LedgerExactlyOnce
<1> QED BY <1>1, <1>4, <1>6, <1>7

\* Exactly-once ledger post: however many callbacks of a transaction race, repeat,
\* contradict each other or die, its success posts its two lines once and nothing
\* else posts a line.
THEOREM LedgerIsExact == Spec => []LedgerExactlyOnce
<1>1. Init => LedgerExactlyOnce
  BY DEF Init, DbInit, LedgerExactlyOnce, Succeeded, Exists, EntryRow
<1>2. SettlementInv /\ LedgerExactlyOnce /\ [Next]_vars => LedgerExactlyOnce'
  <2> SUFFICES ASSUME SettlementInv, LedgerExactlyOnce, [Next]_vars
               PROVE  LedgerExactlyOnce'
    OBVIOUS
  <2>1. CASE Money!Next  BY <2>1, SettlementPostsOnce DEF SettlementInv
  <2>2. CASE UNCHANGED Money!settlementVars
    BY <2>2 DEF Money!settlementVars, LedgerExactlyOnce, Succeeded, Exists, DebitLine, CreditLine
  <2> QED BY <2>1, <2>2, StepIsSettlementStep
<1> QED BY <1>1, <1>2, SettlementInvHolds, PTL DEF Spec

-----------------------------------------------------------------------------
(***************************************************************************)
(* The books: what a settlement does to the sums.                          *)
(***************************************************************************)

Price(t) == AmountOf[txns[t].order]

\* What settling an open transaction changes, told apart by account and line.
LEMMA SettleParts ==
  ASSUME TypeOK, NEW t \in Txns, Money!Settle(t)
  PROVE  /\ txns[t].vpa \in Vpas /\ MerchantOf[txns[t].order] \in Merchants
         /\ Price(t) \in Nat /\ Price(t) > 0
         /\ DebitLine(t) \in EntryRow /\ CreditLine(t) \in EntryRow
         /\ DebitLine(t).account = txns[t].vpa /\ DebitLine(t).amount = Price(t)
         /\ CreditLine(t).account = MerchantOf[txns[t].order] /\ CreditLine(t).amount = Price(t)
         /\ DebitLine(t).txn = t /\ CreditLine(t).txn = t
         /\ \A e \in EntryRow :
              entries'[e] = entries[e] + (IF e \in {DebitLine(t), CreditLine(t)} THEN 1 ELSE 0)
         /\ \A a \in Accounts :
              balance'[a] = balance[a] + (IF a \in {txns[t].vpa, MerchantOf[txns[t].order]}
                                            THEN Price(t) ELSE 0)
         /\ ~Succeeded(t) /\ Succeeded(t)' /\ Price(t)' = Price(t)
         /\ \A s \in Txns \ {t} : txns'[s] = txns[s]
<1>1. txns \in [Txns -> TxnRow \cup {NoRow}] /\ entries \in [EntryRow -> Nat]
      /\ balance \in [Accounts -> 0 .. MaxBalance]
  BY DEF TypeOK, DbTypeOK
<1>2. txns[t] \in TxnRow /\ txns[t].state = "PENDING"
  BY <1>1 DEF Money!Settle, Money!Pending
<1>3. txns' = [txns EXCEPT ![t].state = "SUCCESS"]  BY DEF Money!Settle
<1>4. txns[t].order \in Orders /\ txns[t].vpa \in Vpas  BY <1>2 DEF TxnRow
<1>5. MerchantOf[txns[t].order] \in Merchants /\ Price(t) \in Amounts
  BY <1>4, DbAssumption DEF Price
<1>6. Price(t) \in Nat /\ Price(t) > 0
  <2>1. Amounts \subseteq Nat \ {0}  BY DbAssumption
  <2>2. Price(t) \in Nat \ {0}  BY <1>5, <2>1
  <2> QED BY <2>2
<1>7. DebitLine(t) \in EntryRow /\ CreditLine(t) \in EntryRow
  BY <1>4, <1>5 DEF DebitLine, CreditLine, EntryRow, Accounts, Price
<1>8. /\ DebitLine(t).account = txns[t].vpa /\ DebitLine(t).amount = Price(t)
      /\ CreditLine(t).account = MerchantOf[txns[t].order] /\ CreditLine(t).amount = Price(t)
      /\ DebitLine(t).txn = t /\ CreditLine(t).txn = t
  BY DEF DebitLine, CreditLine, Price
<1>9. \A e \in EntryRow :
        entries'[e] = entries[e] + (IF e \in {DebitLine(t), CreditLine(t)} THEN 1 ELSE 0)
  BY <1>1 DEF Money!Settle, DebitLine, CreditLine
<1>10. \A a \in Accounts :
         balance'[a] = balance[a] + (IF a \in {txns[t].vpa, MerchantOf[txns[t].order]}
                                       THEN Price(t) ELSE 0)
  BY <1>1 DEF Money!Settle, Price
<1>11. txns'[t] \in TxnRow /\ txns'[t].state = "SUCCESS" /\ txns'[t].order = txns[t].order
  BY <1>1, <1>2, <1>3 DEF TxnRow, TransactionState
<1>12. ~Succeeded(t) /\ Succeeded(t)' /\ Price(t)' = Price(t)
  BY <1>2, <1>11, SentinelAssumption DEF Succeeded, Exists, Price
<1>13. \A s \in Txns \ {t} : txns'[s] = txns[s]  BY <1>1, <1>3
<1> QED BY <1>4, <1>5, <1>6, <1>7, <1>8, <1>9, <1>10, <1>12, <1>13

\* Opening and declining a transaction move no money.
LEMMA OnlySettleMoves ==
  ASSUME TypeOK, NEW t \in Txns, Money!Open(t) \/ Money!Decline(t)
  PROVE  /\ UNCHANGED <<balance, entries>>
         /\ \A s \in Txns : /\ Succeeded(s)' = Succeeded(s)
                            /\ Succeeded(s) => Price(s)' = Price(s)
<1>1. txns \in [Txns -> TxnRow \cup {NoRow}]  BY DEF TypeOK, DbTypeOK
<1>2. UNCHANGED <<balance, entries>>  BY DEF Money!Open, Money!Decline
<1>3. \A s \in Txns \ {t} : txns'[s] = txns[s]
  BY <1>1 DEF Money!Open, Money!Decline
<1>4. ~Succeeded(t) /\ ~Succeeded(t)'
  <2>1. CASE Money!Open(t)
    BY <1>1, <2>1 DEF Money!Open, Succeeded, Exists
  <2>2. CASE Money!Decline(t)
    <3>1. txns[t] \in TxnRow  BY <1>1, <2>2 DEF Money!Decline, Money!Pending
    <3>2. txns'[t].state = "FAILED"  BY <1>1, <2>2, <3>1 DEF Money!Decline, TxnRow
    <3> QED BY <2>2, <3>2 DEF Money!Decline, Money!Pending, Succeeded
  <2> QED BY <2>1, <2>2
<1> QED BY <1>2, <1>3, <1>4 DEF Succeeded, Exists, Price

\* The lines on an account, each counted as often as it was posted.
Posted == [e \in EntryRow |-> entries[e] * e.amount]

\* An account on which one new line is posted.
LEMMA LineIsPosted ==
  ASSUME TypeOK, NEW a \in Accounts, IsFiniteSet(PostedOn(a)),
         NEW line \in EntryRow, line.account = a, entries[line] = 0, entries'[line] = 1,
         \A e \in EntryRow \ {line} : e.account = a => entries'[e] = entries[e]
  PROVE  /\ IsFiniteSet(PostedOn(a)')
         /\ SumFunctionOnSet(Posted', PostedOn(a)') =
              SumFunctionOnSet(Posted, PostedOn(a)) + line.amount
<1>1. entries \in [EntryRow -> Nat] /\ \A e \in EntryRow : e.amount \in Nat
  BY DbAssumption DEF TypeOK, DbTypeOK, EntryRow
<1>2. PostedOn(a)' = PostedOn(a) \cup {line} /\ line \notin PostedOn(a)
  BY <1>1 DEF PostedOn
<1>3. \A e \in PostedOn(a) : Posted[e] \in Nat /\ Posted'[e] = Posted[e]
  <2> SUFFICES ASSUME NEW e \in PostedOn(a)
               PROVE  Posted[e] \in Nat /\ Posted'[e] = Posted[e]
    OBVIOUS
  <2>1. e \in EntryRow /\ entries'[e] = entries[e]  BY <1>2 DEF PostedOn
  <2>2. entries[e] \in Nat /\ e.amount \in Nat  BY <1>1, <2>1
  <2> QED BY <2>1, <2>2 DEF Posted
<1>4. Posted'[line] = line.amount
  BY <1>1 DEF Posted
<1> QED BY <1>1, <1>2, <1>3, <1>4, SumWithOneMore, FS_AddElement

\* Every account has finitely many lines on it, and their sum is its balance.
AccountsAreSummed ==
  /\ \A a \in Accounts : IsFiniteSet(PostedOn(a))
  /\ BalancesMatchEntries

LEMMA SettlementKeepsSums ==
  ASSUME TypeOK, LedgerExactlyOnce, AccountsAreSummed, Money!Next
  PROVE  AccountsAreSummed'
<1>1. PICK t \in Txns : Money!Open(t) \/ Money!Decline(t) \/ Money!Settle(t)
  BY DEF Money!Next
<1>2. CASE Money!Open(t) \/ Money!Decline(t)
  BY <1>2, OnlySettleMoves DEF AccountsAreSummed, BalancesMatchEntries, PostedOn
<1>3. CASE Money!Settle(t)
  <2> DEFINE payer == txns[t].vpa
             payee == MerchantOf[txns[t].order]
  <2>1. /\ payer \in Accounts /\ payee \in Accounts /\ payer # payee
        /\ DebitLine(t).account # CreditLine(t).account
    BY <1>3, SettleParts, DbAssumption DEF Accounts
  <2>2. entries[DebitLine(t)] = 0 /\ entries[CreditLine(t)] = 0
    BY <1>3, SettleParts DEF LedgerExactlyOnce
  <2>3. entries'[DebitLine(t)] = 1 /\ entries'[CreditLine(t)] = 1
    BY <1>3, <2>2, SettleParts
  <2>4. \A e \in EntryRow \ {DebitLine(t), CreditLine(t)} : entries'[e] = entries[e]
    BY <1>3, SettleParts DEF TypeOK, DbTypeOK
  <2>5. ASSUME NEW a \in Accounts
        PROVE  /\ IsFiniteSet(PostedOn(a)')
               /\ balance'[a] = SumFunctionOnSet(Posted', PostedOn(a)')
    <3>1. IsFiniteSet(PostedOn(a)) /\ balance[a] = SumFunctionOnSet(Posted, PostedOn(a))
      BY DEF AccountsAreSummed, BalancesMatchEntries, Posted
    <3>2. CASE a = payer
      <4>1. balance'[a] = balance[a] + DebitLine(t).amount
        BY <1>3, <2>1, <3>2, SettleParts
      <4> QED BY <1>3, <2>1, <2>2, <2>3, <2>4, <3>1, <3>2, <4>1, LineIsPosted, SettleParts
    <3>3. CASE a = payee
      <4>1. balance'[a] = balance[a] + CreditLine(t).amount
        BY <1>3, <2>1, <3>3, SettleParts
      <4> QED BY <1>3, <2>1, <2>2, <2>3, <2>4, <3>1, <3>3, <4>1, LineIsPosted, SettleParts
    <3>4. CASE a \notin {payer, payee}
      <4>1. \A e \in EntryRow : e.account = a => entries'[e] = entries[e]
        BY <1>3, <2>4, <3>4, SettleParts
      <4>2. PostedOn(a)' = PostedOn(a) /\ \A e \in PostedOn(a) : Posted'[e] = Posted[e]
        BY <4>1 DEF PostedOn, Posted
      <4>3. balance'[a] = balance[a]
        BY <1>3, <3>4, SettleParts DEF TypeOK, DbTypeOK
      <4> QED BY <3>1, <4>2, <4>3, SumOfSame
    <3> QED BY <3>2, <3>3, <3>4
  <2> QED BY <2>5 DEF AccountsAreSummed, BalancesMatchEntries, Posted
<1> QED BY <1>1, <1>2, <1>3

\* No lost update: a balance is the sum of the lines on its account, although it is
\* written from a value that was read awaits earlier.
THEOREM BalancesAreExact == Spec => []BalancesMatchEntries
<1>1. Init => AccountsAreSummed
  <2> SUFFICES ASSUME Init PROVE AccountsAreSummed  OBVIOUS
  <2>1. \A a \in Accounts : PostedOn(a) = {} /\ balance[a] = 0
    BY DEF Init, DbInit, PostedOn
  <2> QED BY <2>1, SumOfNothing, FS_EmptySet DEF AccountsAreSummed, BalancesMatchEntries
<1>2. SettlementInv /\ LedgerExactlyOnce /\ AccountsAreSummed /\ [Next]_vars => AccountsAreSummed'
  <2> SUFFICES ASSUME SettlementInv, LedgerExactlyOnce, AccountsAreSummed, [Next]_vars
               PROVE  AccountsAreSummed'
    OBVIOUS
  <2>1. CASE Money!Next  BY <2>1, SettlementKeepsSums DEF SettlementInv
  <2>2. CASE UNCHANGED Money!settlementVars
    BY <2>2 DEF Money!settlementVars, AccountsAreSummed, BalancesMatchEntries, PostedOn
  <2> QED BY <2>1, <2>2, StepIsSettlementStep
<1>3. AccountsAreSummed => BalancesMatchEntries  BY DEF AccountsAreSummed
<1> QED BY <1>1, <1>2, <1>3, SettlementInvHolds, LedgerIsExact, PTL DEF Spec

\* What an account holds that money has moved to.
InUse(A) == {a \in A : balance[a] > 0}

\* One account of a group receives money.
LEMMA AccountIsCredited ==
  ASSUME NEW A, NEW a \in A, NEW due \in Nat,
         \A b \in A : balance[b] \in Nat /\ balance'[b] = balance[b] + (IF b = a THEN due ELSE 0),
         IsFiniteSet(InUse(A))
  PROVE  IsFiniteSet(InUse(A)') /\ Total(A)' = Total(A) + due
<1>1. /\ balance[a] \in Nat /\ balance'[a] \in Nat /\ balance'[a] = balance[a] + due
      /\ \A b \in A \ {a} : balance'[b] = balance[b]
  OBVIOUS
<1> DEFINE S == InUse(A)
           T == InUse(A)'
<1>2. /\ T \subseteq S \cup {a} /\ S \subseteq T \cup {a} /\ IsFiniteSet(S)
      /\ a \notin S => balance[a] = 0
      /\ a \notin T => balance'[a] = 0
      /\ \A b \in S \ {a} : balance[b] \in Nat /\ balance'[b] = balance[b]
  BY <1>1 DEF InUse
<1>3. /\ IsFiniteSet(T)
      /\ SumFunctionOnSet(balance, S) \in Nat
      /\ SumFunctionOnSet(balance', T) \in Nat
      /\ SumFunctionOnSet(balance', T) + balance[a] = SumFunctionOnSet(balance, S) + balance'[a]
  <2> HIDE DEF S, T
  <2> QED BY <1>1, <1>2, SumChangesAt
<1> QED BY <1>1, <1>3 DEF Total, InUse

\* Only finitely many accounts are in use and transactions settled, and the books balance.
BooksInv ==
  /\ IsFiniteSet(InUse(Vpas)) /\ IsFiniteSet(InUse(Merchants)) /\ IsFiniteSet(Settled)
  /\ BooksBalance

LEMMA SettlementKeepsBooks ==
  ASSUME TypeOK, BooksInv, Money!Next
  PROVE  BooksInv'
<1> DEFINE prices == [s \in Settled |-> Price(s)]
<1>1. PICK t \in Txns : Money!Open(t) \/ Money!Decline(t) \/ Money!Settle(t)
  BY DEF Money!Next
<1>2. CASE Money!Open(t) \/ Money!Decline(t)
  <2>1. Settled' = Settled /\ \A s \in Settled : Price(s)' = Price(s)
    BY <1>2, OnlySettleMoves DEF Settled
  <2>2. prices' = prices  BY <2>1
  <2> QED BY <1>2, <2>1, <2>2, OnlySettleMoves DEF BooksInv, BooksBalance, Total, InUse, Price
<1>3. CASE Money!Settle(t)
  <2> DEFINE payer == txns[t].vpa
             payee == MerchantOf[txns[t].order]
  <2>1. payer \in Vpas /\ payee \in Merchants /\ Price(t) \in Nat
    BY <1>3, SettleParts
  <2>2. \A a \in Accounts : balance[a] \in Nat  BY DEF TypeOK, DbTypeOK
  <2>3. \A v \in Vpas : balance[v] \in Nat
                          /\ balance'[v] = balance[v] + (IF v = payer THEN Price(t) ELSE 0)
    BY <1>3, <2>1, <2>2, SettleParts, DbAssumption DEF Accounts
  <2>4. \A m \in Merchants : balance[m] \in Nat
                               /\ balance'[m] = balance[m] + (IF m = payee THEN Price(t) ELSE 0)
    BY <1>3, <2>1, <2>2, SettleParts, DbAssumption DEF Accounts
  <2>5. /\ IsFiniteSet(InUse(Vpas)') /\ Total(Vpas)' = Total(Vpas) + Price(t)
        /\ IsFiniteSet(InUse(Merchants)') /\ Total(Merchants)' = Total(Merchants) + Price(t)
    BY <2>1, <2>3, <2>4, AccountIsCredited DEF BooksInv
  <2>6. /\ Settled' = Settled \cup {t} /\ t \notin Settled
        /\ \A s \in Settled : prices'[s] = prices[s] /\ prices[s] \in Nat
        /\ prices'[t] = Price(t)
    <3>1. Settled' = Settled \cup {t} /\ t \notin Settled
      BY <1>3, SettleParts DEF Settled, Succeeded, Exists
    <3>2. \A s \in Settled : Price(s)' = Price(s) /\ Price(s) \in Nat
      <4> SUFFICES ASSUME NEW s \in Settled PROVE Price(s)' = Price(s) /\ Price(s) \in Nat
        OBVIOUS
      <4>1. s \in Txns /\ s # t /\ txns'[s] = txns[s] /\ txns[s] \in TxnRow
        BY <1>3, <3>1, SettleParts DEF Settled, Succeeded, Exists, TypeOK, DbTypeOK
      <4>2. AmountOf[txns[s].order] \in Nat
        BY <4>1, DbAssumption DEF TxnRow
      <4> QED BY <4>1, <4>2 DEF Price
    <3> QED BY <1>3, <3>1, <3>2, SettleParts
  <2>7. IsFiniteSet(Settled')
        /\ SumFunctionOnSet(prices', Settled') = SumFunctionOnSet(prices, Settled) + Price(t)
    BY <2>1, <2>6, SumWithOneMore, FS_AddElement DEF BooksInv
  <2> QED BY <2>5, <2>7 DEF BooksInv, BooksBalance, Price
<1> QED BY <1>1, <1>2, <1>3

\* The books balance: payers were debited what merchants were credited, and both are the
\* price of what succeeded, in every committed state.
THEOREM BooksAlwaysBalance == Spec => []BooksBalance
<1>1. Init => BooksInv
  <2> SUFFICES ASSUME Init PROVE BooksInv  OBVIOUS
  <2>1. InUse(Vpas) = {} /\ InUse(Merchants) = {} /\ Settled = {}
    BY DEF Init, DbInit, InUse, Settled, Succeeded, Exists, Accounts
  <2>2. /\ SumFunctionOnSet(balance, InUse(Vpas)) = 0
        /\ SumFunctionOnSet(balance, InUse(Merchants)) = 0
        /\ SumFunctionOnSet([t \in Settled |-> AmountOf[txns[t].order]], Settled) = 0
    BY <2>1, SumOfNothing
  <2> QED BY <2>1, <2>2, FS_EmptySet DEF BooksInv, BooksBalance, Total, InUse
<1>2. SettlementInv /\ BooksInv /\ [Next]_vars => BooksInv'
  <2> SUFFICES ASSUME SettlementInv, BooksInv, [Next]_vars PROVE BooksInv'  OBVIOUS
  <2>1. CASE Money!Next  BY <2>1, SettlementKeepsBooks DEF SettlementInv
  <2>2. CASE UNCHANGED Money!settlementVars
    BY <2>2 DEF Money!settlementVars, BooksInv, BooksBalance, Total, InUse, Settled, Succeeded,
                Exists
  <2> QED BY <2>1, <2>2, StepIsSettlementStep
<1>3. BooksInv => BooksBalance  BY DEF BooksInv
<1> QED BY <1>1, <1>2, <1>3, SettlementInvHolds, PTL DEF Spec

-----------------------------------------------------------------------------
\* A transaction row keeps its order and payer and moves along the permission matrix
\* only: a late or contradictory callback cannot take an outcome back.
THEOREM TransactionsAdvance == Spec => TransactionsOnlyAdvance
<1> DEFINE Advances ==
      \A t \in Txns :
        txns[t] # txns'[t] =>
          IF Exists(t)
            THEN /\ txns'[t] = [txns[t] EXCEPT !.state = txns'[t].state]
                 /\ TransactionTransition(txns[t].state, txns'[t].state)
            ELSE txns'[t].state = "PENDING"
<1>1. SettlementInv /\ [Next]_vars => [Advances]_vars
  <2> SUFFICES ASSUME SettlementInv, [Next]_vars PROVE Advances  OBVIOUS
  <2>1. txns \in [Txns -> TxnRow \cup {NoRow}]  BY DEF SettlementInv, TypeOK, DbTypeOK
  <2>2. CASE UNCHANGED Money!settlementVars
    BY <2>2 DEF Money!settlementVars
  <2>3. ASSUME NEW t \in Txns, Money!Open(t)  PROVE Advances
    BY <2>1, <2>3 DEF Money!Open, Exists
  <2>4. ASSUME NEW t \in Txns, Money!Pending(t), NEW outcome \in {"SUCCESS", "FAILED"},
               txns' = [txns EXCEPT ![t].state = outcome]
        PROVE  Advances
    <3>1. txns[t] \in TxnRow  BY <2>1, <2>4 DEF Money!Pending
    <3>2. txns'[t] = [txns[t] EXCEPT !.state = outcome] /\ txns'[t].state = outcome
      BY <2>1, <2>4, <3>1 DEF TxnRow
    <3>3. TransactionTransition(txns[t].state, txns'[t].state)
      BY <2>4, <3>2 DEF Money!Pending, TransactionTransition, TransactionTransitions
    <3>4. \A s \in Txns \ {t} : txns'[s] = txns[s]  BY <2>1, <2>4
    <3> QED BY <2>4, <3>2, <3>3, <3>4 DEF Money!Pending, Exists
  <2>5. CASE Money!Next
    BY <2>3, <2>4, <2>5 DEF Money!Next, Money!Decline, Money!Settle
  <2> QED BY <2>2, <2>5, StepIsSettlementStep
<1> QED BY <1>1, SettlementInvHolds, PTL DEF Spec, TransactionsOnlyAdvance
=============================================================================
