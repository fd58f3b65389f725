SPECIFICATION Spec
CONSTANTS
  None = None  Torn = Torn
  Instances = {i1, i2}
  Values = {a}
  Threads = {t1, t2}
  Postinst = postinst
  Hazards = {"fault", "damage", "crash"}
SYMMETRY Symmetry
INVARIANT RecordedOrNoted
PROPERTY CommitsOwnFile
PROPERTY ConfigureRecords
