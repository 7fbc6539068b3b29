SPECIFICATION Spec
CONSTANTS
  s1 = s1
  p1 = p1
  p2 = p2
  p3 = p3
  a1 = a1
  a2 = a2
  a3 = a3
  c1 = c1
  v1 = v1
  NoPerson = NoPerson
  LimitOf <- Limits
  Bought <- Subscriptions
  MaxEvents = 1
  Persons = {p1, p2, p3}
  Addresses = {a1, a2, a3}
  Campaigns = {c1}
  Requests <- SomeRequests
  FirstOwner <- Owners
  MaxConcurrent = 2
  MaxChanges = 1
INVARIANT TypeOK
INVARIANT OverrunBounded
INVARIANT OneEffectPerEvent
INVARIANT NoOrphans
CHECK_DEADLOCK FALSE
