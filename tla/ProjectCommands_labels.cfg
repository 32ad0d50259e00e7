SPECIFICATION Spec
CONSTANTS
  Targets = {"t", "u"}
  Rules = {"g"}
  Stages = {"s", "z"}
  Plain = {"readme"}
  Files <- MCFiles
  Root <- MCRoot
  Dirs = {"root", "rootz", "d", "v"}
  MaxVersion = 1
  MaxShort = 1
  Projects <- MCLabels
  Invocations <- MCInvocations
  TestTargets = {"u"}
  Reserved = {"build", "help"}
  Integers10 = {"7"}
  DepthLimit = 4
  MaxRuns = 2
INVARIANT LabelsAreBuilt
CHECK_DEADLOCK FALSE
