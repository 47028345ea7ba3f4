CONSTANTS
  r1 = r1
  r2 = r2
  r3 = r3
  r4 = r4
  r5 = r5
  k1 = k1
  k2 = k2
  k3 = k3
  h1 = h1
  NoKey = NoKey
  None = None
  Requests = {r1, r2, r3, r4, r5}
  Keys = {k1, k2, k3}
  Ids = {h1}
  KeyOf <- MCKeyOf
  IdOf <- MCIdOf
  Cap = 2
  Timeout = 1
  Retries = 1
  Modulus = 3
  Start = 0
  Wraps = TRUE
  SubmitFails = FALSE
SPECIFICATION Spec
INVARIANTS ReplacedByItsKey ExpiriesTold
PROPERTIES Patience ExchangeSpec
