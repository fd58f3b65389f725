SPECIFICATION CmdSpec
CONSTANTS
  None = None  Torn = Torn
  good = good  good2 = good2  bad = bad  open = open
  p1 = p1  p2 = p2
  Instances = {1}
  Images = {good, open}
  CanPass = {good}
  CanFail = {}
  Unchecked = {open}
  Ports = {p1}
  PortsOf <- OwnPort
  Ids = {1, 2, 3, 4, 5}
  Pick <- Smallest
  FirstId <- MCFirstId
  Threads = {t1}
  Loop = loop
  Ops = {"create", "patch", "delete", "update", "updateAll", "rollback", "reconcile", "lists"}
  Hazards = {"fault", "abort", "crash", "reboot", "killed"}
INVARIANT MountsNeverDangle
INVARIANT NothingServesUndefined
INVARIANT SpareNeverServes
PROPERTY ReconcileRestores
PROPERTY ExitZeroIsTrue
VIEW View
