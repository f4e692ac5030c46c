\* One order is decided by callbacks that may repeat, contradict and fail, and its notice is
\* delivered by two workers, of which one may die.
CONSTANTS
  m1 = m1
  Orders = {o1}
  Merchants = {m1}
  Vpas = {v1}
  Txns = {t1}
  Initiators = {i1}
  Callbacks = {c1}
  MerchantOf <- OwnedByM1
  AmountOf <- AllOne
  Amounts = {1}
  MaxBalance = 1
  WideVpas = {}
  Hooked = {m1}
  MayFail = {c1}
  NoWorker = NoWorker
  NoRow = NoRow
  NoRequest = NoRequest
  Deliverers = {d1, d2}
  MaxRetries = 2
  MaxDeaths = 1
  NoMessage = NoMessage
SPECIFICATION NotificationFairSpec
INVARIANTS
  NoticeIsNeverLost
  AttemptsStayBounded
  MerchantHearsTheOutcome
PROPERTIES
  KeepsThePromise
  HandedIsConcluded
