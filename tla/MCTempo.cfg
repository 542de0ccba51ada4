SPECIFICATION FairSpec
CONSTANTS
  Unit = 4
  QuantStep = 3
  Tempos <- MCTempos
  Grads <- MCGrads
  MaxCalls = 5
  Uninit = Uninit
INVARIANTS
  RampOnTime
  PaceExact
PROPERTIES
  RampConverges
CHECK_DEADLOCK FALSE
