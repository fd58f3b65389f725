SPECIFICATION FairCmdSpec
CONSTANTS
  None = None  Torn = Torn
  good = good  good2 = good2  bad = bad  open = open
  p1 = p1  p2 = p2
  Instances = {1, 2}
  Images = {good, bad}
  CanPass = {good}
  CanFail = {good, bad}
  Unchecked = {}
  Ports = {p1, p2}
  PortsOf <- OwnPort
  Ids = {1, 2, 3, 4, 5, 6, 7, 8}
  Pick <- Smallest
  FirstId <- MCFirstId
  Threads = {t1}
  Loop = loop
  Ops = {"updateAll", "reconcile", "stop"}
  Hazards = {"fault"}
INVARIANT TypeOK
INVARIANT NoLeftovers
PROPERTY OnlyHealthyReplaces
PROPERTY MatchingLeftAlone
PROPERTY NotesKnownGood
PROPERTY BatchReachesEvery
PROPERTY EveryRequestEnds
PROPERTY AtomicReplacement
VIEW View
