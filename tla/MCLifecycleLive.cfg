\* One site listener and the API under fairness, one request, one child.
CONSTANTS
  web = web
  h3 = h3
  api = api
  None = None
  Sites = {site}
  Tcp = {web}
  Quic = {}
  Admin = {api}
  Reqs = {r1}
  Children = {c1}
  MaxImage = 2
  MaxDrains = 1
  H3Of <- MCH3Of
SPECIFICATION FairSpec
PROPERTIES DrainEnds StopStops
CHECK_DEADLOCK FALSE
