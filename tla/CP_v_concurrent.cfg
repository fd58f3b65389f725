SPECIFICATION ReconcileAnyTime
CONSTANTS
  None = None  Torn = Torn
  good = good  good2 = good2  bad = bad  open = open
  p1 = p1  p2 = p2
  Instances = {1}
  Images = {good, good2}
  CanPass = {good, good2}
  CanFail = {}
  Unchecked = {}
  Ports = {p1}
  PortsOf <- OwnPort
  Ids = {1, 2, 3, 4, 5, 6, 7}
  Pick <- Smallest
  FirstId <- MCFirstId
  Threads = {t1, t2}
  Loop = loop
  Ops = {"patch", "reconcile"}
  Hazards = {}
INVARIANT RestInService
