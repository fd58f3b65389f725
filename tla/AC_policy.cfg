SPECIFICATION FairSpec
CONSTANTS
  a = a
  b = b
  ip = ip
  Conns = {c1}
  Users = {u1}
  Sites = {a, b}
  Literals = {ip}
  None = None
  Ptr <- MCPtr
  Requests <- MCRequests
  Ttl <- MCTtl
  Refresh <- MCRefresh
  HelperTime = 0
  BlockLists <- MCBlockLists
  NoauthLists <- MCNoauthLists
INVARIANTS TypeOK TicketOrListed BlocklistWins NoauthTunnelKeepsName
PROPERTIES RemovalTakesEffect JoiningTakesEffect EveryRequestAnswered
