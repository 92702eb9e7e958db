SPECIFICATION CoreFairSpec
CHECK_DEADLOCK FALSE
CONSTANTS
  Margin = 6
  Lifetimes <- MCLifetimes
  Quick = 1
  MaxLatency = 4
INVARIANTS
  OneTick
  StopIsFinal
  TokenIsValid
PROPERTIES
  CyclesKeepComing
  TokenRecovers
