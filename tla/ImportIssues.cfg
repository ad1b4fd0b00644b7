\* Two issues with one label, at most three runs of the script.
SPECIFICATION Spec
CONSTANTS
  Count = 2
  Label = {bug}
  Limits = {1, 2}
  MaxAttempts = 1
  MaxRuns = 3
  FirstNumber = 1
INVARIANT SkipsSuccessfulOnes
CHECK_DEADLOCK FALSE
