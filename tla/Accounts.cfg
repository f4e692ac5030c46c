\* Two orders, of different amounts, are settled over the same two accounts; a second
\* address is too long for its account.  Initiations do not overlap; callbacks do.
CONSTANTS
  o1 = o1
  m1 = m1
  m2 = m2
  Orders = {o1, o2}
  Merchants = {m1}
  Vpas = {v1, v2}
  Txns = {t1, t2}
  Initiators = {i1}
  Callbacks = {c1, c2}
  MerchantOf <- OwnedByM1
  AmountOf <- OneAndTwo
  Amounts = {1, 2}
  MaxBalance = 3
  WideVpas = {v2}
  Hooked = {m1}
  MayFail = {c1, c2}
  NoWorker = NoWorker
  NoRow = NoRow
  NoRequest = NoRequest
SYMMETRY WorkersAndTxns
SPECIFICATION Spec
INVARIANTS
  BalancesMatchEntries
  ReadsAreCurrent
  OneTransactionPerOrder
  StatusMirrorsTransactions
PROPERTIES
  IntentsOnlyAdvance
  SettlesAtomically
