\* Two initiations of one order overlap with its settlement.
CONSTANTS
  o1 = o1
  m1 = m1
  m2 = m2
  Orders = {o1}
  Merchants = {m1}
  Vpas = {v1, v2}
  Txns = {t1, t2}
  Initiators = {i1, i2}
  Callbacks = {c1}
  MerchantOf <- OwnedByM1
  AmountOf <- AllOne
  Amounts = {1}
  MaxBalance = 2
  WideVpas = {}
  Hooked = {m1}
  MayFail = {}
  NoWorker = NoWorker
  NoRow = NoRow
  NoRequest = NoRequest
SYMMETRY WorkersTxnsAndVpas
SPECIFICATION Spec
INVARIANTS
  OrderPaidOnce
