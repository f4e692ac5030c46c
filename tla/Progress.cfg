\* Every request is answered and every outcome is handed to Celery when nothing dies.  The
\* orders share the payer's account, which has no room for the second success; the second
\* merchant has no webhook.
CONSTANTS
  o1 = o1
  m1 = m1
  m2 = m2
  Orders = {o1, o2}
  Merchants = {m1, m2}
  Vpas = {v1}
  Txns = {t1, t2}
  Initiators = {i1}
  Callbacks = {c1, c2}
  MerchantOf <- OwnedInTurn
  AmountOf <- AllOne
  Amounts = {1}
  MaxBalance = 1
  WideVpas = {}
  Hooked = {m1}
  MayFail = {}
  NoWorker = NoWorker
  NoRow = NoRow
  NoRequest = NoRequest
SPECIFICATION FairSpec
INVARIANTS
  TypeOK
PROPERTIES
  EveryRequestEnds
  FinalisedIsDispatched
