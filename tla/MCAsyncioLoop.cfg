CONSTANTS
  r1 = r1
  r2 = r2
  k1 = k1
  k2 = k2
  h1 = h1
  NoKey = NoKey
  None = None
  Requests = {r1, r2}
  Keys = {k1, k2}
  Ids = {h1}
  KeyOf <- OwnKeys
  IdOf <- MCIdOf
  Cap = 2
  Timeout = 2
  Retries = 1
  Modulus = 16
  Start = 0
  Wraps = FALSE
  SubmitFails = TRUE
  SendingHooks = {"on_reply", "on_unmatched"}
  InboxMax = 1
  MaxArrivals = 2
  MaxRuns = 2
  MaxLag = 1
SPECIFICATION FairLoopSpec
INVARIANTS DoneOncePerRun CompleteMeansIdle NoOversleep
PROPERTIES RunEnds
CHECK_DEADLOCK FALSE
