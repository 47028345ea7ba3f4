CONSTANTS
  Cap = 4
  LenAt <- MCLenAt
  KnownNeed <- MCKnownNeed
  SizeMin = 2
  Layout <- MCLayout
  End <- MCEnd
  TableCap = 3
  Schema <- MCSchema
  Bytes = {0, 1, 2, 15}
  MaxBytes = 6
  Top = 15
  VarintMax = 3
  WhileCap = 2
  r1 = r1
  r2 = r2
  r3 = r3
  r4 = r4
  k1 = k1
  k2 = k2
  h1 = h1
  h2 = h2
  Requests = {r1, r2, r3, r4}
  Keys = {k1, k2}
  Ids = {h1, h2}
  NoKey = NoKey
  None = None
  KeyOf <- MCKeyOf
  IdOf <- MCIdOf
SPECIFICATION MCSpec
INVARIANTS ViewIntact WaitingHelps RequiredKeepsContract
PROPERTIES ReadersImplementStream DropsOneWhole StreamGoesOn PendingSpec
CHECK_DEADLOCK FALSE
