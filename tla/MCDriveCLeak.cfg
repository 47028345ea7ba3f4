CONSTANTS
  r1 = r1
  r2 = r2
  r3 = r3
  k1 = k1
  k2 = k2
  h1 = h1
  h2 = h2
  h3 = h3
  NoKey = NoKey
  None = None
  Requests = {r1, r2, r3}
  Keys = {k1, k2}
  Ids = {h1, h2, h3}
  KeyOf <- MCKeyOf
  IdOf <- MCIdOf
  Cap = 2
  Timeout = 2
  Retries = 1
  Modulus = 16
  Horizon = 6
  DueMax = 2
SPECIFICATION Spec
INVARIANTS RefusedOnlyWhenFull
