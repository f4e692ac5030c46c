\* celery_webhook_max_retries as it is configured (5), one worker that lives.
CONSTANTS
  m1 = m1
  Orders = {o1}
  Merchants = {m1}
  Vpas = {v1}
  Txns = {t1}
  Initiators = {i1}
  Callbacks = {c1}
  MerchantOf <- OwnedByM1
  AmountOf <- AllOne
  Amounts = {1}
  MaxBalance = 1
  WideVpas = {}
  Hooked = {m1}
  MayFail = {}
  NoWorker = NoWorker
  NoRow = NoRow
  NoRequest = NoRequest
  Deliverers = {d1}
  MaxRetries = 5
  MaxDeaths = 0
  NoMessage = NoMessage
SPECIFICATION NotificationSpec
INVARIANTS
  AtMostMaxAttempts
