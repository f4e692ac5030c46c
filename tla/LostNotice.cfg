\* A callback dies between its two commits.
CONSTANTS
  o1 = o1
  m1 = m1
  m2 = m2
  Orders = {o1}
  Merchants = {m1}
  Vpas = {v1}
  Txns = {t1}
  Initiators = {i1}
  Callbacks = {c1, c2}
  MerchantOf <- OwnedByM1
  AmountOf <- AllOne
  Amounts = {1}
  MaxBalance = 2
  WideVpas = {}
  Hooked = {m1}
  MayFail = {c1}
  NoWorker = NoWorker
  NoRow = NoRow
  NoRequest = NoRequest
SPECIFICATION Spec
INVARIANTS
  FinalisedIsEnqueued
