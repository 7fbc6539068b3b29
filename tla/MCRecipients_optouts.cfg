SPECIFICATION Spec
CONSTANTS
  l1 = l1
  c1 = c1
  c2 = c2
  NoAddress = NoAddress
  Channels = {ch1, ch2}
  Addresses = {a1, a2}
  Campaigns = {c1, c2}
  Links = {l1}
  CampaignOf <- FirstCampaign
  Calls = {k1, k2}
  MaxChanges = 3
SYMMETRY Interchangeable
INVARIANT OptOutLasts
INVARIANT SilencedStaysSilent
CHECK_DEADLOCK FALSE
