SPECIFICATION Spec
CONSTANTS
  reader_samples = 2
  MaxSteps = 5
  MaxPulses = 2
INVARIANTS
  SampleCoherent
  StepsIncrease
  OwnSamples
  TriggerMarksOne
\* the servo thread stops at the bound on step_counter
CHECK_DEADLOCK FALSE
