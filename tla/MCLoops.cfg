CONSTANTS
  r1 = r1
  r2 = r2
  k1 = k1
  k2 = k2
  h1 = h1
  h2 = h2
  NoKey = NoKey
  None = None
  Requests = {r1, r2}
  Keys = {k1, k2}
  Ids = {h1, h2}
  KeyOf <- MCKeyOf
  IdOf <- MCIdOf
  Cap = 2
  Timeout = 2
  Retries = 1
  Modulus = 32
  Horizon = 10
  RingHorizon = 4
  DueMax = 2
  Floor = 0
  SendingHooks = {"on_reply", "on_unmatched"}
  InboxMax = 1
  MaxArrivals = 1
  MaxRuns = 2
  MaxLag = 1
  EnterFails = TRUE
  TearsDown = FALSE
SPECIFICATION DriversSpec
INVARIANTS DoneOncePerRun ExpiriesTold CompleteMeansIdle NoOversleep BufferOwned RingHasOneRecv
PROPERTIES FdRunEnds
CHECK_DEADLOCK FALSE
