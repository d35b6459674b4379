SPECIFICATION Spec
CONSTANTS
  r = r
  d = d
  f = f
  k1 = k1
  k2 = k2
  k3 = k3
  c1 = c1
  c2 = c2
  Cookies = {k1, k2}
  Paths <- MCFlatPaths
  Under <- MCFlatUnder
  StrPrefix <- MCFlatUnder
  Root = r
  Nodes = {f}
  Dirs = {r}
  Parent <- MCFlatParent
  Clients = {c1}
  InitDisks <- MCFlatDisks
  QueueLimit = 1
  MaxChanges = 1
  MaxActs = 2
PROPERTY CookieIsAnswered
CHECK_DEADLOCK FALSE
