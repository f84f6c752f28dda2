\* One site listener, one request, one child: what survives a drain.
CONSTANTS
  web = web
  h3 = h3
  api = api
  None = None
  Sites = {site}
  Tcp = {web}
  Quic = {}
  Admin = {}
  Reqs = {r1}
  Children = {c1}
  MaxImage = 2
  MaxDrains = 1
  H3Of <- MCH3Of
SPECIFICATION Spec
PROPERTY NoOrphans
CHECK_DEADLOCK FALSE
