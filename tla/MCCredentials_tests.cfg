SPECIFICATION FairSpec
CONSTANTS
  account = account
  secret = secret
  good = good
  bad = bad
  Blank = Blank
  NoConfig = NoConfig
  Nobody = Nobody
  Providers = {p1, p2}
  Fields = {account, secret}
  Values = {good, bad}
  Works <- Accepted
  Calls = {k1, k2}
  Jobs = {j1}
  MaxSaves = 2
  MaxPolls = 2
INVARIANT VerifiedUnlessOverlapped
INVARIANT OneCallPerProvider
INVARIANT WaitingIsWatched
PROPERTY PageRecovers
CHECK_DEADLOCK FALSE
