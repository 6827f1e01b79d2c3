SPECIFICATION LiveSpec
CONSTANTS
  d1 = d1
  d2 = d2
  w1 = w1
  w2 = w2
  Deliveries = {d1, d2}
  Workers = {w1, w2}
  MaxAttempts = 2
  BatchSize = 2
  AttemptsBound = 3
PROPERTIES
  LatestAttemptDecides
  ForgottenIsExplained
  ImplementsLedger
  DeliveryIsDecided
CHECK_DEADLOCK FALSE
