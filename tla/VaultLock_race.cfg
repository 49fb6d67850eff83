CONSTANTS
  b1 = b1
  b2 = b2
  r1 = r1
  r2 = r2
  p1 = p1
  p2 = p2
  Browsers = {b1, b2}
  Requests = {r1, r2}
  BrowserOf <- TwoBrowsers
  Passwords = {p1, p2}
  SetupPasswords <- OneOrTwoPasswords
  MaxKeys = 3
  MaxDisturbances = 2
SPECIFICATION Spec
INVARIANT
  SetupEncrypts
