SPECIFICATION Safety
CONSTANTS
  r = r
  d = d
  f = f
  k1 = k1
  k2 = k2
  k3 = k3
  c1 = c1
  c2 = c2
  Cookies = {k1}
  Paths <- MCPaths
  Under <- MCUnder
  StrPrefix <- MCUnder
  Root = r
  Nodes <- MCNodes
  Dirs = {r, d}
  Parent <- MCParent
  Clients = {c1}
  InitDisks <- MCInitFull
  QueueLimit = 1
  MaxChanges = 2
  MaxActs = 3
INVARIANT OverflowIsRepaired
CHECK_DEADLOCK FALSE
