SPECIFICATION Spec
CONSTANTS
  ann = ann
  bob = bob
  acme = acme
  zeta = zeta
  old = old
  new = new
  NoUser = NoUser
  NoToken = NoToken
  Emails = {ann, bob}
  Slugs = {acme, zeta}
  Passwords = {old, new}
  Founder = ann
  Home = acme
  First = old
  Tabs = {t1, t2}
  Calls = {k1, k2}
  MaxVersion = 1
  MaxTokens = 1
SYMMETRY Interchangeable
INVARIANT SessionsKnowThePassword
INVARIANT AccountsAreWhole
PROPERTY LateRefusalHarmless
CHECK_DEADLOCK FALSE
