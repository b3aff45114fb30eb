CONSTANTS
  k1 = k1
  e1 = e1
  NoEntry = NoEntry
  MaxTraffic = 2
  Key <- MCKey
  Email <- MCEmail
  Dir <- MCDir
SPECIFICATION SamplerSpec
INVARIANTS NeverOverReported ExactUntilRestart
PROPERTIES AccountedNeverShrinks
