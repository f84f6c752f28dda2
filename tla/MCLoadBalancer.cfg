\* Two requests in flight, one with an impatient client; one of the two
\* backends comes and goes.  No symmetry: there is a liveness property.
CONSTANTS
  N = 2
  Reqs = {r1, r2}
  Impatient = {r1}
  Fragile = {0}
  Kinds = {"plain"}
  Cooldown = 1
  CounterMod = 2
SPECIFICATION FairSpec
INVARIANTS TypeOK OneAnswer
PROPERTIES NoNeedlessBadGateway BackendReturns
