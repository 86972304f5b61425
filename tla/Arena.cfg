SPECIFICATION Spec
CONSTANTS
  MaxSlices = 2
  PointsPerSlice = 3
  RadarLimit = 1
  Circle = 4
  FrontLow = 1
  FrontHigh = 2
  Expiry = 1
  KeyBudget = 3
  PointBudget = 2
  DriftBound = 8
INVARIANTS EngineHeard RadarKeepsTurning StatusMailBounded
