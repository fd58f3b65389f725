SPECIFICATION Spec
CONSTANTS
  a = a  b = b  i1 = i1  i2 = i2
  Last = 4  Keeps = 3  Mounts = 2
  Pin <- MCPin
  Instances = {i1, i2}
  Hazards = {"fault"}
INVARIANTS DecisionKept NewCodeRuns
PROPERTIES OffStaysOff LiftedOrTold
