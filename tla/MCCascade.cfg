SPECIFICATION Spec
CONSTANTS
  NaN = NaN
  PosInf = PosInf
  NegInf = NegInf
  Unit = 1
  Floats <- SmallFloats
  Overflow = 1792
  UintMax = 4000
  Gains <- SmallGains
  InitialGains <- SmallInitial
  Samples <- SmallSamples
  Desired = 0
  MaxAttErrInt = 3
  MaxRateErrInt = 4
  MaxRateDes = 4
  MaxCorr = 6
  Bound <- SmallBound
INVARIANTS WindUpIsBounded PoisonedIsNeutral
