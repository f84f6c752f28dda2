\* One client, three requests that may overtake, a bucket of two tokens, a
\* sweeper that drops it before it is full.
CONSTANTS
  Clients = {p1}
  Requests = {t1, t2, t3}
  Rate = 1
  Scale = 2
  Burst = 2
  Idle = 4
  MaxWait = 1
  MaxClock = 12
  Yield = 2
  From = 1
SPECIFICATION Spec
INVARIANTS TypeOK WindowBound
PROPERTIES RefusedOnlyWhenSpent
