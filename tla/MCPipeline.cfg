\* Two requests race for one token, a channel of one entry and a ring of one.
CONSTANTS
  r1 = r1
  r2 = r2
  Requests = {r1, r2}
  Lines <- MCLines
  Entries = {e1, e2}
  BufferSize = 1
  RingSize = 1
  Blank = Blank
  NoEntry = NoEntry
  Configs <- MCConfigs
  Kinds <- MCKinds
  Responses <- MCResponses
  Plugins = 1
SPECIFICATION Spec
INVARIANTS TypeOK Exclusive MonitorFollowsLog TokensMatchRequests PluginsSeeAllOrNothing BodyMatchesHeader LoggedAsSent
PROPERTIES ImplementsLossyLog
\* The bounded set of requests ends.
CHECK_DEADLOCK FALSE
