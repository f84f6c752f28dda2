\* Two sites, two requests, two host ports, two processes, one after the other.
CONSTANTS
  a = a
  b = b
  Sites = {a, b}
  Requests = {r1, r2}
  Boot = Boot
  ContainerPorts <- MCContainerPorts
  Matches <- MCMatches
  HostPorts = {1, 2}
  MaxLives = 2
  None = None
SYMMETRY Symmetry
SPECIFICATION Spec
INVARIANTS TypeOK ExitRemoves
\* The last process has ended.
CHECK_DEADLOCK FALSE
