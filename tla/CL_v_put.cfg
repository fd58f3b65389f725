SPECIFICATION Spec
CONSTANTS
  None = None  Torn = Torn
  Instances = {i1}
  Values = {a}
  Threads = {t1, t2}
  Postinst = postinst
  Hazards = {}
PROPERTY PutStays
