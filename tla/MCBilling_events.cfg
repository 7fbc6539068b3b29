SPECIFICATION BillingSpec
CONSTANTS
  s1 = s1
  s2 = s2
  s3 = s3
  LimitOf <- Limits
  Bought <- Subscriptions
  MaxEvents = 4
INVARIANT RowIsOneSubscription
INVARIANT SettledRow
CHECK_DEADLOCK FALSE
