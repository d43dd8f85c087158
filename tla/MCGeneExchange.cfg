CONSTANTS
  a = a
  b = b
  c = c
  Badge = {a, b, c}
  Asks <- Rivals
  SEX_TIMEOUT = 0
  CONSENT_TIME = 1
  Nobody = Nobody
SPECIFICATION FairSpec
INVARIANTS ChildrenAreConsensual
PROPERTIES SuccessHasChild ExchangeEnds
