\* "Only cache successful responses" (idempotency.py:109): refusals below 500 are cached as well.
CONSTANTS
  Attempts = {a1}
  Unkeyed = {u1}
  NoAttempt = NoAttempt
  m1 = m1
  m2 = m2
  other = other
  apiKey = apiKey
  address = address
  Identities = {apiKey, address}
  IdentityOf <- ByKeyOrAddress
  Limit = 1
  Window = 1
  MaxTime = 1
  Merchants = {m1}
  MerchantOf <- OwnMerchant
  Keys = {k1}
  KeyOf <- OneKey
  NoOrder = NoOrder
CHECK_DEADLOCK FALSE
SPECIFICATION GatewaySpec
INVARIANTS
  OnlySuccessIsCached
