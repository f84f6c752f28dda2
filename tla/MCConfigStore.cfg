\* Two domains, one of which a second file may configure, two plugins; three calls, two at a time.
CONSTANTS
  Calls = {c1, c2}
  Domains = {d1, d2}
  Doubled = d1
  Fields = {f1, f2}
  Others = {o1}
  Plugins = {p1, p2}
  Length <- Lengths
  None = None
  Bad = Bad
  Global = Global
  MaxCalls = 3
  AtStart <- FoundSites
  Lists <- FoundLists
SPECIFICATION Spec
INVARIANTS TypeOK AcknowledgedSurvives
PROPERTIES ToggleTakesEffect
CHECK_DEADLOCK FALSE
