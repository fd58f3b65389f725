SPECIFICATION CmdSpec
CONSTANTS
  None = None  Torn = Torn
  good = good  good2 = good2  bad = bad  open = open
  p1 = p1  p2 = p2
  Instances = {1}
  Images = {good, good2, bad}
  CanPass = {good, good2}
  CanFail = {good, good2, bad}
  Unchecked = {}
  Ports = {p1}
  PortsOf <- OwnPort
  Ids = {1, 2, 3, 4, 5}
  Pick <- Smallest
  FirstId <- MCFirstId
  Threads = {t1}
  Loop = loop
  Ops = {"patch", "delete", "rollback", "update", "reconcile", "start", "restart"}
  Hazards = {}
INVARIANT RestInService
PROPERTY DeleteLeavesNothing
PROPERTY UpdateSettles
PROPERTY AtomicReplacement
VIEW View
SYMMETRY Symmetry
