\* Concurrent initiations of one order race with concurrent, failing callbacks.
CONSTANTS
  o1 = o1
  m1 = m1
  m2 = m2
  Orders = {o1}
  Merchants = {m1}
  Vpas = {v1, v2}
  Txns = {t1, t2}
  Initiators = {i1, i2}
  Callbacks = {c1, c2}
  MerchantOf <- OwnedByM1
  AmountOf <- AllOne
  Amounts = {1}
  MaxBalance = 3
  WideVpas = {}
  Hooked = {m1}
  MayFail = {i1, i2, c1, c2}
  NoWorker = NoWorker
  NoRow = NoRow
  NoRequest = NoRequest
SYMMETRY WorkersTxnsAndVpas
SPECIFICATION Spec
INVARIANTS
  LedgerExactlyOnce
  BooksBalance
  OneTransactionPerVpa
  StuckAwaitsBank
  AckedIsDurable
  NoticesAreTrue
  NoWaitCycle
PROPERTIES
  TransactionsOnlyAdvance
