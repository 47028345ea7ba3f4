CONSTANTS
  r1 = r1
  r2 = r2
  r3 = r3
  r4 = r4
  k1 = k1
  k2 = k2
  h1 = h1
  h2 = h2
  h3 = h3
  NoKey = NoKey
  None = None
  Requests = {r1, r2, r3, r4}
  Keys = {k1, k2}
  Ids = {h1, h2, h3}
  KeyOf <- MCKeyOf
  IdOf <- MCIdOf
  Cap = 2
  Timeout = 2
  Retries = 1
  Modulus = 16
  Horizon = 9
  DueMax = 2
  Hosts = {"qt"}
  CallerHorizon = 4
  SendingHooks = {"on_reply", "on_unmatched", "on_malformed", "on_error", "on_done"}
  Opens = {r1, r3}
  InboxMax = 1
  MaxArrivals = 1
  MaxBegun = 2
  MaxLag = 1
  MayNest = TRUE
  MaxDepth = 1
SPECIFICATION HostsSpec
INVARIANT DeletedUnwound
CHECK_DEADLOCK FALSE
