SPECIFICATION Safety
CONSTANTS
  r = r
  d = d
  x = x
  k = k
  dd = dd
  c1 = c1
  c2 = c2
  Paths <- MCPaths
  Under <- MCUnder
  StrPrefix <- MCStrPrefix
  Cookies = {k}
  Root = r
  CookieDir = d
  Clients = {c1}
  NotifyFlags <- MCNotifyFlags
  MaxReports = 3
INVARIANTS TypeOK ListMatchesTree NothingForgotten CookieNoticeKept NobodyLeftWaiting
  AnsweredOnce
CHECK_DEADLOCK FALSE
