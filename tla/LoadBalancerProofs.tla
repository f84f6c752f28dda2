------------------------- MODULE LoadBalancerProofs -------------------------
(***************************************************************************)
(* Proofs about LoadBalancer for any number of backends and requests: one  *)
(* answer per request, and no needless 502.                                *)
(***************************************************************************)
EXTENDS LoadBalancer, TLAPS

\* The loop visits every backend, whichever it starts at.
LEMMA Covered ==
  ASSUME NEW s \in Backends, NEW b \in Backends
  PROVE  \E j \in Backends : (s + j) % N = b
<1> USE BalancerAssumption DEF Backends
<1>1. b % N = b /\ (b + N) % N = b
  OBVIOUS
<1>2. CASE b >= s
  <2>1. b - s \in Backends /\ s + (b - s) = b
    BY <1>2
  <2> QED BY <1>1, <2>1
<1>3. CASE b < s
  <2>1. b - s + N \in Backends /\ s + (b - s + N) = b + N
    BY <1>3
  <2> QED BY <1>1, <2>1
<1> QED BY <1>2, <1>3

\* A request is always at one of the backends.
LEMMA AtType ==
  ASSUME TypeOK, NEW r \in Reqs
  PROVE  At(r) \in Backends
  BY BalancerAssumption DEF TypeOK, At, Backends

\* The first states are well typed.
LEMMA BalancerInit == ASSUME Init PROVE TypeOK
  BY BalancerAssumption DEF Init, TypeOK, Ages, Old, Backends, RequestKinds

\* Every step keeps the types.
LEMMA BalancerTypes ==
  ASSUME TypeOK, [Next]_vars
  PROVE  TypeOK'
<1> USE DEF beVars, reqVars
<1>1. CASE Tick
  <2>1. \A a \in Ages : Older(a) \in Ages
    BY BalancerAssumption DEF Older, Ages, Old
  <2> QED BY <1>1, <2>1 DEF Tick, TypeOK
<1>2. ASSUME NEW b \in Backends, Toggle(b) PROVE TypeOK'
  BY <1>2 DEF Toggle, TypeOK
<1>3. ASSUME NEW r \in Reqs, Arrive(r) PROVE TypeOK'
  <2>1. Count \in 0..(CounterMod - 1)
    BY BalancerAssumption DEF Count, TypeOK
  <2>2. counter' \in 0..(CounterMod - 1) /\ counter' % N \in Backends
    BY <1>3, <2>1, BalancerAssumption DEF Arrive, Backends
  <2>3. start' \in [Reqs -> Backends]
    BY <1>3, <2>2 DEF Arrive, TypeOK
  <2>4. req' \in [Reqs -> RequestKinds \cup {"spent", "gone"}]
    BY <1>3, BalancerAssumption DEF Arrive, TypeOK
  <2> QED BY <1>3, <2>2, <2>3, <2>4 DEF Arrive, TypeOK
<1>4. ASSUME NEW r \in Reqs, ClientLeaves(r) PROVE TypeOK'
  BY <1>4 DEF ClientLeaves, TypeOK
<1>5. ASSUME NEW r \in Reqs, Work(r) PROVE TypeOK'
  <2>0. At(r) \in Backends
    BY AtType
  <2>0a. Old \in Ages /\ 0 \in Ages /\ 0 \in Backends
    BY BalancerAssumption DEF Old, Ages, Backends
  <2>0b. ASSUME Advance(r)
         PROVE  /\ i' \in [Reqs -> Backends]
                /\ pc' \in [Reqs -> {"idle", "check", "stamp", "compare", "revive",
                                   "attempt", "failed", "eject", "gateway"}]
    <3>1. i[r] # N - 1 => i[r] + 1 \in Backends
      BY BalancerAssumption DEF TypeOK, Backends
    <3> QED BY <2>0b, <3>1 DEF Advance, Last, TypeOK
  <2>0c. ASSUME Return(r)
         PROVE  /\ start' \in [Reqs -> Backends] /\ i' \in [Reqs -> Backends]
                /\ req' \in [Reqs -> RequestKinds \cup {"spent", "gone"}]
                /\ wrote' \in [Reqs -> BOOLEAN]
                /\ pc' \in [Reqs -> {"idle", "check", "stamp", "compare", "revive",
                                   "attempt", "failed", "eject", "gateway"}]
    BY <2>0a, <2>0c DEF Return, TypeOK, RequestKinds
  <2>1. CASE LoadDown(r) \/ LoadDownAt(r) \/ Revive(r)
    BY <2>0, <2>1 DEF LoadDown, LoadDownAt, Revive, TypeOK
  <2>2. CASE Compare(r)
    BY <2>0a, <2>0b, <2>2 DEF Compare, TypeOK
  <2>3. CASE Answer(r) \/ BadGateway(r)
    BY <2>0c, <2>3 DEF Answer, BadGateway, TypeOK
  <2>4. CASE Fail(r)
    <3>1. wrote' \in [Reqs -> BOOLEAN]
      BY <2>4 DEF Fail, TypeOK
    <3> QED BY <2>0a, <2>4, <3>1 DEF Fail, TypeOK
  <2>5. CASE StoreDownAt(r)
    BY <2>0, <2>5 DEF StoreDownAt, TypeOK
  <2>6. CASE StoreDown(r)
    <3>1. /\ down' \in [Backends -> BOOLEAN] /\ seen' \in [Reqs -> Ages]
          /\ okay' \in [Reqs -> SUBSET Backends]
      BY <2>0, <2>0a, <2>6 DEF StoreDown, TypeOK
    <3> QED BY <2>0b, <2>0c, <2>6, <3>1 DEF StoreDown, TypeOK
  <2> QED BY <1>5, <2>1, <2>2, <2>3, <2>4, <2>5, <2>6 DEF Work
<1>6. CASE UNCHANGED vars
  BY <1>6 DEF vars, TypeOK
<1> QED BY <1>1, <1>2, <1>3, <1>4, <1>5, <1>6 DEF Next

\* Type correctness of the balancer, for any number of backends.
THEOREM BalancerTypeCorrect == Spec => []TypeOK
<1>1. Init => TypeOK
  BY BalancerInit
<1>2. TypeOK /\ [Next]_vars => TypeOK'
  BY BalancerTypes
<1> QED BY <1>1, <1>2, PTL DEF Spec

----------------------------------------------------------------------------
\* Only a failed attempt has written anything and goes on.
WroteInv == \A r \in Reqs : wrote[r] => pc[r] \in {"failed", "eject"}

\* Every step preserves WroteInv.
LEMMA WroteStep ==
  ASSUME TypeOK, WroteInv, [Next]_vars
  PROVE  WroteInv'
<1> USE DEF beVars, reqVars
<1>1. CASE Tick \/ (\E b \in Backends : Toggle(b)) \/ UNCHANGED vars
  BY <1>1 DEF Tick, Toggle, vars, WroteInv
<1>2. ASSUME NEW r \in Reqs, Arrive(r) \/ ClientLeaves(r) PROVE WroteInv'
  BY <1>2 DEF Arrive, ClientLeaves, WroteInv, TypeOK
<1>3. ASSUME NEW r \in Reqs, Work(r) PROVE WroteInv'
  BY <1>3 DEF Work, LoadDown, LoadDownAt, Compare, Revive, Answer, Fail,
              StoreDownAt, StoreDown, BadGateway, Advance, Return, Committed,
              WroteInv, TypeOK
<1> QED BY <1>1, <1>2, <1>3 DEF Next

\* No answer is mixed from two backends.
THEOREM NoMixedAnswer == Spec => []OneAnswer
<1>1. Init => TypeOK /\ WroteInv
  BY BalancerInit DEF Init, WroteInv
<1>2. TypeOK /\ WroteInv /\ [Next]_vars => TypeOK' /\ WroteInv'
  BY BalancerTypes, WroteStep
<1>3. WroteInv => OneAnswer
  BY DEF WroteInv, OneAnswer
<1> QED BY <1>1, <1>2, <1>3, PTL DEF Spec

----------------------------------------------------------------------------
(* No needless 502 *)

\* What the monitor says of a backend is so.
MonitorInv == \A r \in Reqs : \A b \in okay[r] : reachable[b] /\ ~down[b]

\* A plain request has passed over no backend that was in rotation all along,
\* and is about to pass over none.
Passing(r) == pc[r] \in {"stamp", "compare", "failed", "eject"}
Faithful(r) ==
  /\ pc[r] = "idle" => i[r] = 0
  /\ req[r] = "plain" =>
       /\ \A j \in Backends : j < i[r] => (start[r] + j) % N \notin okay[r]
       /\ Passing(r) => At(r) \notin okay[r]
       /\ pc[r] = "gateway" => okay[r] = {}

PassedInv == MonitorInv /\ \A r \in Reqs : Faithful(r)

\* Every step preserves PassedInv.
LEMMA PassedStep ==
  ASSUME TypeOK, PassedInv, [Next]_vars
  PROVE  PassedInv'
<1> USE DEF beVars, reqVars
\* A request that stays where it is while its monitor shrinks.
<1>0. ASSUME NEW r \in Reqs, pc'[r] = pc[r], start'[r] = start[r], i'[r] = i[r],
             req'[r] \in {req[r], "gone"}, okay'[r] \subseteq okay[r]
      PROVE  Faithful(r)'
  BY <1>0 DEF PassedInv, Faithful, Passing, At
<1>1. CASE Tick \/ UNCHANGED vars
  <2>1. MonitorInv'
    BY <1>1 DEF Tick, vars, PassedInv, MonitorInv
  <2> QED BY <1>1, <1>0, <2>1 DEF Tick, vars, PassedInv
<1>2. ASSUME NEW b \in Backends, Toggle(b) PROVE PassedInv'
  <2>1. MonitorInv'
    BY <1>2 DEF Toggle, PassedInv, MonitorInv, TypeOK
  <2> QED BY <1>2, <1>0, <2>1 DEF Toggle, PassedInv
<1>3. ASSUME NEW r \in Reqs, Arrive(r) PROVE PassedInv'
  <2>1. MonitorInv'
    BY <1>3 DEF Arrive, PassedInv, MonitorInv, TypeOK
  <2>2. Faithful(r)'
    BY <1>3 DEF Arrive, Faithful, Passing, PassedInv, TypeOK, Backends
  <2>3. \A q \in Reqs : q # r => Faithful(q)'
    BY <1>3, <1>0 DEF Arrive, TypeOK
  <2> QED BY <2>1, <2>2, <2>3 DEF PassedInv
<1>4. ASSUME NEW r \in Reqs, ClientLeaves(r) PROVE PassedInv'
  <2>1. MonitorInv'
    BY <1>4 DEF ClientLeaves, PassedInv, MonitorInv
  <2> QED BY <1>4, <1>0, <2>1 DEF ClientLeaves, PassedInv, TypeOK
<1>5. ASSUME NEW r \in Reqs, Work(r) PROVE PassedInv'
  <2>0. At(r) \in Backends
    BY AtType
  <2>1. \A q \in Reqs : q # r => Faithful(q)'
    <3>1. ASSUME NEW q \in Reqs, q # r
          PROVE  /\ pc'[q] = pc[q] /\ start'[q] = start[q] /\ i'[q] = i[q]
                 /\ req'[q] = req[q] /\ okay'[q] \subseteq okay[q]
      BY <1>5, <3>1 DEF Work, LoadDown, LoadDownAt, Compare, Revive, Answer, Fail,
                        StoreDownAt, StoreDown, BadGateway, Advance, Return, TypeOK
    <3> QED BY <3>1, <1>0
  <2>2. MonitorInv'
    <3>1. CASE Revive(r)
      BY <2>0, <3>1 DEF Revive, PassedInv, MonitorInv, TypeOK
    <3>2. CASE StoreDown(r)
      <4>1. \A q \in Reqs : okay'[q] \subseteq okay[q] \ {At(r)}
        BY <3>2 DEF StoreDown, TypeOK
      <4>2. /\ reachable' = reachable
            /\ \A b \in Backends : b # At(r) => down'[b] = down[b]
        BY <2>0, <3>2 DEF StoreDown, TypeOK
      <4>3. \A q \in Reqs : okay[q] \subseteq Backends
        BY DEF TypeOK
      <4> QED BY <4>1, <4>2, <4>3 DEF PassedInv, MonitorInv
    <3>3. CASE ~Revive(r) /\ ~StoreDown(r)
      BY <1>5, <3>3 DEF Work, LoadDown, LoadDownAt, Compare, Answer, Fail,
                        StoreDownAt, BadGateway, PassedInv, MonitorInv, TypeOK
    <3> QED BY <3>1, <3>2, <3>3
  \* The loop goes on past a backend that was not in rotation all along.
  <2>3. ASSUME Advance(r), start' = start, okay'[r] \subseteq okay[r] \ {At(r)},
               req'[r] = req[r], pc[r] # "idle"
        PROVE  Faithful(r)'
    <3>1. /\ i[r] \in Backends /\ start[r] \in Backends /\ okay[r] \subseteq Backends
          /\ i'[r] = IF Last(r) THEN i[r] ELSE i[r] + 1
          /\ pc'[r] = IF Last(r) THEN "gateway" ELSE "check"
      BY <2>3 DEF Advance, TypeOK
    <3>2. SUFFICES ASSUME req[r] = "plain"
                   PROVE  /\ \A j \in Backends : j < i'[r] => (start[r] + j) % N \notin okay'[r]
                          /\ Last(r) => okay'[r] = {}
      BY <2>3, <3>1 DEF Faithful, Passing
    <3>3. \A j \in Backends : j <= i[r] => (start[r] + j) % N \notin okay'[r]
      <4>1. \A j \in Backends : j <= i[r] => j < i[r] \/ j = i[r]
        BY <3>1, BalancerAssumption DEF Backends
      <4> QED BY <2>3, <3>2, <4>1 DEF PassedInv, Faithful, At
    <3>4. \A j \in Backends : j < i'[r] => j <= i[r]
      BY <3>1, BalancerAssumption DEF Backends
    <3>5. Last(r) => okay'[r] = {}
      <4>1. SUFFICES ASSUME Last(r), NEW b \in okay'[r] PROVE FALSE
        OBVIOUS
      <4>2. PICK j \in Backends : (start[r] + j) % N = b
        BY <2>3, <3>1, <4>1, Covered
      <4>3. j <= i[r]
        BY <4>1, BalancerAssumption DEF Last, Backends
      <4> QED BY <3>3, <4>1, <4>2, <4>3
    <3> QED BY <3>3, <3>4, <3>5
  <2>4. ASSUME Return(r) PROVE Faithful(r)'
    <3>1. pc'[r] = "idle" /\ i'[r] = 0
      BY <2>4 DEF Return, TypeOK
    <3> QED BY <3>1, BalancerAssumption DEF Faithful, Passing, Backends
  <2>5. Faithful(r)'
    <3>1. CASE LoadDown(r)
      <4>1. down[At(r)] => At(r) \notin okay[r]
        BY DEF PassedInv, MonitorInv
      <4>2. /\ pc[r] = "check" /\ pc'[r] = IF down[At(r)] THEN "stamp" ELSE "attempt"
            /\ UNCHANGED <<start, i, req, okay>>
        BY <3>1 DEF LoadDown, TypeOK
      <4> QED BY <4>1, <4>2 DEF PassedInv, Faithful, Passing, At
    <3>2. CASE LoadDownAt(r)
      BY <3>2 DEF LoadDownAt, PassedInv, Faithful, Passing, At, TypeOK
    <3>3. CASE Compare(r)
      <4>1. req[r] = "plain" => At(r) \notin okay[r]
        BY <3>3 DEF Compare, PassedInv, Faithful, Passing
      <4>2. CASE Elapsed(r)
        BY <3>3, <4>2 DEF Compare, PassedInv, Faithful, Passing, TypeOK
      <4>3. CASE ~Elapsed(r) /\ req[r] = "plain"
        BY <2>3, <3>3, <4>1, <4>3 DEF Compare
      <4>4. CASE ~Elapsed(r) /\ req[r] # "plain"
        BY <3>3, <4>4 DEF Compare, Advance, Faithful, TypeOK
      <4> QED BY <4>2, <4>3, <4>4
    <3>4. CASE Revive(r)
      BY <3>4 DEF Revive, PassedInv, Faithful, Passing, TypeOK
    <3>5. CASE Answer(r) \/ BadGateway(r)
      BY <2>4, <3>5 DEF Answer, BadGateway
    <3>6. CASE Fail(r)
      <4>1. req[r] = "plain" => At(r) \notin okay[r]
        BY <3>6 DEF Fail, MayFail, PassedInv, MonitorInv
      <4>2. /\ pc'[r] = "failed" /\ req'[r] = (IF req[r] = "body" THEN "spent" ELSE req[r])
            /\ UNCHANGED <<start, i, okay>>
        BY <3>6 DEF Fail, TypeOK
      <4> QED BY <4>1, <4>2 DEF PassedInv, Faithful, Passing, At
    <3>7. CASE StoreDownAt(r)
      BY <3>7 DEF StoreDownAt, PassedInv, Faithful, Passing, At, TypeOK
    <3>8. CASE StoreDown(r)
      <4>1. CASE Committed(r)
        BY <2>4, <3>8, <4>1 DEF StoreDown
      <4>2. CASE ~Committed(r)
        BY <2>3, <3>8, <4>2 DEF StoreDown, TypeOK
      <4> QED BY <4>1, <4>2
    <3> QED BY <1>5, <3>1, <3>2, <3>3, <3>4, <3>5, <3>6, <3>7, <3>8 DEF Work
  <2> QED BY <2>1, <2>2, <2>5 DEF PassedInv
<1> QED BY <1>1, <1>2, <1>3, <1>4, <1>5 DEF Next

\* Retries reach every backend: a request without a body is refused only when
\* no backend was in rotation all through it.
THEOREM NoRefusalInVain == Spec => NoNeedlessBadGateway
<1>1. Init => TypeOK /\ PassedInv
  BY BalancerInit, BalancerAssumption
     DEF Init, PassedInv, MonitorInv, Faithful, Passing, Backends
<1>2. TypeOK /\ PassedInv /\ [Next]_vars => TypeOK' /\ PassedInv'
  BY BalancerTypes, PassedStep
<1>3. PassedInv =>
        \A r \in Reqs : BadGateway(r) /\ req[r] = "plain" => okay[r] = {}
  BY DEF PassedInv, Faithful, BadGateway
<1> QED BY <1>1, <1>2, <1>3, PTL DEF Spec, NoNeedlessBadGateway

=============================================================================
