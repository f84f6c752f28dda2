\* One request, two backends that are up: what ejects a backend.
CONSTANTS
  N = 2
  Reqs = {r1}
  Impatient = {r1}
  Fragile = {}
  Kinds = {"plain", "body", "upgrade"}
  Cooldown = 1
  CounterMod = 2
SPECIFICATION Spec
PROPERTY EjectsTheUnreachable
