SPECIFICATION StepFairSpec
CONSTANTS
  MaxSpeed = 4
  SpeedPerStep = 2
  SeqLen = 4
  IntRange = 4
  MaxRem = 3
INVARIANTS
  RunsUntilDone
  PhaseIsPosition
  RateIsSpeed
PROPERTY
  MotorStops
