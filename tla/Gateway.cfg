\* Two attempts and a request without the header share a quota of two in windows of two
\* ticks; another merchant uses the same key.  A request may stay unserved for ever.
CONSTANTS
  Attempts = {a1, a2, other}
  Unkeyed = {u1}
  NoAttempt = NoAttempt
  m1 = m1
  m2 = m2
  other = other
  apiKey = apiKey
  address = address
  Identities = {apiKey, address}
  IdentityOf <- ByKeyOrAddress
  Limit = 1
  Window = 1
  MaxTime = 1
  Merchants = {m1, m2}
  MerchantOf <- OwnMerchant
  Keys = {k1}
  KeyOf <- OneKey
  NoOrder = NoOrder
SYMMETRY AttemptsAlike
CHECK_DEADLOCK FALSE
SPECIFICATION GatewaySpec
INVARIANTS
  OneOrderIsTold
  ToldOrderIsReadable
  CacheTellsTheEffect
  QuotaHolds
  RefusedOnlyWhenSpent
PROPERTIES
  KeepsTheRegistry
