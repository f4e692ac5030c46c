----------------------------- MODULE PaymentDb -----------------------------
(***************************************************************************)
(* The PostgreSQL tables the payment services share, and the row locks by  *)
(* which their transactions exclude each other (app/models, READ           *)
(* COMMITTED).  A worker is one request in flight, with a session of its   *)
(* own; what it has written and not committed is no part of this state, so *)
(* a rollback only gives its locks back.                                   *)
(*                                                                         *)
(* Orders stand for the committed payment_intents rows: merchant, amount   *)
(* and public id never change, so only the status is a variable.           *)
(***************************************************************************)
EXTENDS PaymentStates, Naturals, FiniteSets

CONSTANTS
  Orders,       \* payment intents
  Merchants,    \* merchants; also the identifiers of their settlement accounts
  Vpas,         \* payer addresses; also the identifiers of their virtual accounts
  Txns,         \* ids (psp references) transactions may get; bounds their number
  Initiators,   \* workers that serve POST /v1/payments/upi/initiate
  Callbacks,    \* workers that serve POST /v1/webhooks/bank-callback
  MerchantOf,   \* the merchant of an order
  AmountOf,     \* the amount of an order
  Amounts,      \* the amounts a callback may carry
  MaxBalance,   \* the largest balance Numeric(18, 4) holds
  WideVpas,     \* addresses too long for ledger_accounts.identifier
  Hooked,       \* merchants with a webhook_url
  MayFail,      \* workers whose request may die of a crash or a database error
  NoWorker,     \* nobody holds the row lock
  NoRow,        \* the transactions table has no such row
  NoRequest     \* a worker that serves no request

Workers == Initiators \cup Callbacks

Accounts == Vpas \cup Merchants

ASSUME DbAssumption ==
  /\ MerchantOf \in [Orders -> Merchants]
  /\ Amounts \subseteq Nat \ {0}
  /\ AmountOf \in [Orders -> Amounts]
  /\ MaxBalance \in Nat
  /\ WideVpas \subseteq Vpas
  /\ Hooked \subseteq Merchants
  /\ Vpas \cap Merchants = {}          \* a vpa contains '@', "merchant:<id>" does not
  /\ Initiators \cap Callbacks = {}
  /\ MayFail \subseteq Workers
  /\ NoWorker \notin Workers

TxnRow == [order : Orders, vpa : Vpas, state : TransactionState]

ASSUME SentinelAssumption == NoRow \notin TxnRow

EntryRow == [txn : Txns, account : Accounts, side : {"DEBIT", "CREDIT"}, amount : Amounts]

\* The rows a SELECT ... FOR UPDATE locks, of three different tables.
TxnLock(t) == <<"transactions", t>>
OrderLock(o) == <<"payment_intents", o>>
AccountLock(a) == <<"ledger_accounts", a>>

Rows == {TxnLock(t) : t \in Txns} \cup {OrderLock(o) : o \in Orders}
          \cup {AccountLock(a) : a \in Accounts}

VARIABLES
  status,    \* payment_intents.status
  txns,      \* the transactions rows
  balance,   \* ledger_accounts.balance; an account that does not exist yet has 0
  entries,   \* how many ledger_entries rows have each content
  lock       \* who holds the row lock of each row

dbVars == <<status, txns, balance, entries, lock>>
ledgerVars == <<balance, entries>>

DbTypeOK ==
  /\ status \in [Orders -> PaymentStatus]
  /\ txns \in [Txns -> TxnRow \cup {NoRow}]
  /\ balance \in [Accounts -> 0 .. MaxBalance]
  /\ entries \in [EntryRow -> Nat]
  /\ lock \in [Rows -> Workers \cup {NoWorker}]

\* Every order was committed by create_order; nothing has been paid yet.
DbInit ==
  /\ status = [o \in Orders |-> "CREATED"]
  /\ txns = [t \in Txns |-> NoRow]
  /\ balance = [a \in Accounts |-> 0]
  /\ entries = [e \in EntryRow |-> 0]
  /\ lock = [r \in Rows |-> NoWorker]

Exists(t) == txns[t] # NoRow

-----------------------------------------------------------------------------
Free(r) == lock[r] = NoWorker

\* Mutated form: a plain SELECT, which reads the row and waits for nobody.
SelectOnly(w, r) == UNCHANGED lock

\* SELECT ... FOR UPDATE: waits until nobody holds the row, then locks it.
SelectForUpdate(w, r) ==
  /\ Free(r)
  /\ lock' = [lock EXCEPT ![r] = w]

\* The lock table after w's transaction has ended: COMMIT or ROLLBACK.
Released(w) == [r \in Rows |-> IF lock[r] = w THEN NoWorker ELSE lock[r]]

EndTransaction(w) == lock' = Released(w)
=============================================================================
