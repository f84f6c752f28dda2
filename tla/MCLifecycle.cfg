\* One site listener with HTTP/3, two requests, two children, two images.
CONSTANTS
  web = web
  h3 = h3
  api = api
  None = None
  Sites = {site}
  Tcp = {web}
  Quic = {h3}
  Admin = {}
  Reqs = {r1, r2}
  Children = {c1, c2}
  MaxImage = 2
  MaxDrains = 2
  H3Of <- MCH3Of
SYMMETRY Symmetry
SPECIFICATION Spec
INVARIANTS TypeOK DrainedIsQuiet TrackedUntilExit NeverReadyWhenShut
PROPERTIES NoChildAfterExitHook ChildOutlivesItsRequests
CHECK_DEADLOCK FALSE
