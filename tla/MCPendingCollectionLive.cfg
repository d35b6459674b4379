SPECIFICATION Spec
CONSTANTS
  r = r
  d = d
  x = x
  k = k
  dd = dd
  c1 = c1
  c2 = c2
  Paths <- MCPaths
  Under <- MCUnder
  StrPrefix <- MCStrPrefix
  Cookies = {k}
  Root = r
  CookieDir = d
  Clients = {c1, c2}
  NotifyFlags <- MCNotifyFlagsLive
  MaxReports = 1
PROPERTIES EveryWaiterIsAnswered HandedOverIsTaken
CHECK_DEADLOCK FALSE
