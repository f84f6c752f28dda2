---------------------------- MODULE LoadBalancer ----------------------------
(***************************************************************************)
(* loadBalancer: requests share the backends and a counter, nothing is     *)
(* locked.  Each load and store of an lbBackend's two atomics is a step.   *)
(*                                                                         *)
(* Times are kept as ages, in units of which the cooldown is `Cooldown',   *)
(* and an age saturates at "older than the cooldown": the code only ever   *)
(* compares an age with the cooldown.                                      *)
(***************************************************************************)
EXTENDS Naturals, FiniteSets

CONSTANTS
  N,          \* number of backends, numbered in the order of the list
  Reqs,       \* request slots: at most that many requests in flight
  Impatient,  \* bound: the requests whose client may leave
  Fragile,    \* bound: the backends that may become unreachable
  Kinds,      \* what clients ask for, a subset of RequestKinds
  Cooldown,   \* lbCooldown
  CounterMod  \* 2^64 in the code: where the counter wraps

\* "plain" no body; "body" its body can be read once; "upgrade" asks for
\* another protocol.
RequestKinds == {"plain", "body", "upgrade"}

ASSUME BalancerAssumption ==
  /\ N \in Nat \ {0} /\ Cooldown \in Nat \ {0} /\ CounterMod \in Nat \ {0}
  /\ Kinds \subseteq RequestKinds /\ Impatient \subseteq Reqs

Backends == 0..(N - 1)
Old      == Cooldown + 1
Ages     == 0..Old

VARIABLES
  down, downAge,  \* per backend: down, and the age of downAt
  counter,        \* lb.counter
  reachable,      \* per backend: it answers connections
  pc,             \* per request: control point in ServeHTTP
  start, i,       \* per request: the locals of ServeHTTP
  seen,           \* per request: age of the time it has loaded or read
  req,            \* per request: its kind, or "spent" or "gone"
  wrote,          \* per request: trackWriter.wrote
  okay            \* per request, a monitor: the backends that have been
                  \* reachable and not ejected ever since it arrived

beVars  == <<down, downAge>>
reqVars == <<start, i, req, wrote>>
vars    == <<beVars, counter, reachable, pc, reqVars, seen, okay>>

\* The backend a request is at.
At(r) == (start[r] + i[r]) % N

Init ==
  /\ down = [b \in Backends |-> FALSE]
  /\ downAge = [b \in Backends |-> Old]
  /\ counter = 0
  /\ reachable = [b \in Backends |-> TRUE]
  /\ pc = [r \in Reqs |-> "idle"]
  /\ start = [r \in Reqs |-> 0] /\ i = [r \in Reqs |-> 0]
  /\ seen = [r \in Reqs |-> Old]
  /\ req = [r \in Reqs |-> "plain"] /\ wrote = [r \in Reqs |-> FALSE]
  /\ okay = [r \in Reqs |-> {}]

----------------------------------------------------------------------------
(* The environment *)

\* A backend comes or goes.
Toggle(b) ==
  /\ reachable' = [reachable EXCEPT ![b] = ~@]
  /\ okay' = [r \in Reqs |-> okay[r] \ {b}]
  /\ UNCHANGED <<beVars, counter, pc, reqVars, seen>>

\* The client of a request closes its connection: r.Context is cancelled.
ClientLeaves(r) ==
  /\ r \in Impatient /\ pc[r] # "idle" /\ req[r] # "gone"
  /\ req' = [req EXCEPT ![r] = "gone"]
  /\ UNCHANGED <<beVars, counter, reachable, pc, start, i, wrote, seen, okay>>

\* Time passes.
Older(a) == IF a = Old THEN Old ELSE a + 1
Tick ==
  /\ downAge' = [b \in Backends |-> Older(downAge[b])]
  /\ seen' = [r \in Reqs |-> Older(seen[r])]
  /\ UNCHANGED <<down, counter, reachable, pc, reqVars, okay>>

----------------------------------------------------------------------------
(* ServeHTTP *)

Count == (counter + 1) % CounterMod

Arrive(r) ==
  /\ pc[r] = "idle"
  /\ counter' = Count
  /\ start' = [start EXCEPT ![r] = counter' % N]
  /\ \E k \in Kinds : req' = [req EXCEPT ![r] = k]
  /\ pc' = [pc EXCEPT ![r] = "check"]
  /\ okay' = [okay EXCEPT ![r] = {b \in Backends : reachable[b] /\ ~down[b]}]
  /\ UNCHANGED <<beVars, reachable, i, wrote, seen>>

\* isDown: b.down.Load()
LoadDown(r) ==
  /\ pc[r] = "check"
  /\ pc' = [pc EXCEPT ![r] = IF down[At(r)] THEN "stamp" ELSE "attempt"]
  /\ UNCHANGED <<beVars, counter, reachable, reqVars, seen, okay>>

\* isDown: b.downAt.Load()
LoadDownAt(r) ==
  /\ pc[r] = "stamp"
  /\ seen' = [seen EXCEPT ![r] = downAge[At(r)]]
  /\ pc' = [pc EXCEPT ![r] = "compare"]
  /\ UNCHANGED <<beVars, counter, reachable, reqVars, okay>>

FaultyLast(r) == i[r] >= N - 2  \* fault: the loop ends one backend early
OverrunLast(r) == i[r] = N      \* fault: i <= n
Last(r) == i[r] = N - 1

\* The loop goes to the next backend, or ends after the last one.
Advance(r) ==
  /\ i' = [i EXCEPT ![r] = IF Last(r) THEN @ ELSE @ + 1]
  /\ pc' = [pc EXCEPT ![r] = IF Last(r) THEN "gateway" ELSE "check"]

FaultyElapsed(r) == FALSE  \* fault: an ejected backend is never retried
Elapsed(r) == seen[r] > Cooldown

\* isDown: time.Since(...) > lbCooldown
Compare(r) ==
  /\ pc[r] = "compare"
  /\ \/ /\ Elapsed(r)
        /\ pc' = [pc EXCEPT ![r] = "revive"]
        /\ UNCHANGED i
     \/ /\ ~Elapsed(r)
        /\ Advance(r)
  /\ seen' = [seen EXCEPT ![r] = Old]
  /\ UNCHANGED <<beVars, counter, reachable, start, req, wrote, okay>>

\* isDown: b.down.Store(false)
Revive(r) ==
  /\ pc[r] = "revive"
  /\ down' = [down EXCEPT ![At(r)] = FALSE]
  /\ pc' = [pc EXCEPT ![r] = "attempt"]
  /\ UNCHANGED <<downAge, counter, reachable, reqVars, seen, okay>>

\* ServeHTTP returns.
Return(r) ==
  /\ pc' = [pc EXCEPT ![r] = "idle"]
  /\ start' = [start EXCEPT ![r] = 0] /\ i' = [i EXCEPT ![r] = 0]
  /\ req' = [req EXCEPT ![r] = "plain"] /\ wrote' = [wrote EXCEPT ![r] = FALSE]

\* The proxy copies an answer, or panics half-way through one
\* (http.ErrAbortHandler): the balancer learns of no failure.
Answer(r) ==
  /\ pc[r] = "attempt" /\ reachable[At(r)]
  /\ Return(r)
  /\ okay' = [okay EXCEPT ![r] = {}]
  /\ UNCHANGED <<beVars, counter, reachable, seen>>

\* The proxy calls its ErrorHandler, which sets `failed': no connection or no
\* response; the client has left; the body was read by an earlier attempt;
\* the backend switches protocols, which trackWriter, without Hijack or
\* Unwrap, cannot pass on.  A 1xx answer may have been written before.
MayFail(r) == ~reachable[At(r)] \/ req[r] \in {"gone", "spent", "upgrade"}

Fail(r) ==
  /\ pc[r] = "attempt" /\ MayFail(r)
  /\ \E w \in BOOLEAN : wrote' = [wrote EXCEPT ![r] = @ \/ w]
  /\ req' = [req EXCEPT ![r] = IF @ = "body" THEN "spent" ELSE @]
  /\ seen' = [seen EXCEPT ![r] = 0]
  /\ pc' = [pc EXCEPT ![r] = "failed"]
  /\ UNCHANGED <<beVars, counter, reachable, start, i, okay>>

\* markDown: b.downAt.Store(now)
StoreDownAt(r) ==
  /\ pc[r] = "failed"
  /\ downAge' = [downAge EXCEPT ![At(r)] = seen[r]]
  /\ pc' = [pc EXCEPT ![r] = "eject"]
  /\ UNCHANGED <<down, counter, reachable, reqVars, seen, okay>>

FaultyCommitted(r) == FALSE  \* fault: tw.wrote is not looked at
Committed(r) == wrote[r]

\* markDown: b.down.Store(true); then stop or go on to the next backend.
StoreDown(r) ==
  /\ pc[r] = "eject"
  /\ down' = [down EXCEPT ![At(r)] = TRUE]
  /\ seen' = [seen EXCEPT ![r] = Old]
  /\ \/ /\ Committed(r)
        /\ Return(r)
        /\ okay' = [q \in Reqs |-> IF q = r THEN {} ELSE okay[q] \ {At(r)}]
     \/ /\ ~Committed(r)
        /\ Advance(r)
        /\ okay' = [q \in Reqs |-> okay[q] \ {At(r)}]
        /\ UNCHANGED <<start, req, wrote>>
  /\ UNCHANGED <<downAge, counter, reachable>>

\* "No healthy backend available."
BadGateway(r) ==
  /\ pc[r] = "gateway"
  /\ Return(r)
  /\ okay' = [okay EXCEPT ![r] = {}]
  /\ UNCHANGED <<beVars, counter, reachable, seen>>

----------------------------------------------------------------------------
Work(r) ==
  \/ LoadDown(r) \/ LoadDownAt(r) \/ Compare(r) \/ Revive(r)
  \/ Answer(r) \/ Fail(r) \/ StoreDownAt(r) \/ StoreDown(r)
  \/ BadGateway(r)

Next ==
  \/ Tick
  \/ \E b \in Fragile \cap Backends : Toggle(b)
  \/ \E r \in Reqs : Arrive(r) \/ ClientLeaves(r) \/ Work(r)

Spec == Init /\ [][Next]_vars

\* Goroutines run, the transport's timeouts end every attempt, and the clock
\* advances.  That requests arrive is the client's business.
FairSpec == Spec /\ WF_vars(Tick) /\ \A r \in Reqs : WF_vars(Work(r))

----------------------------------------------------------------------------
(* Properties *)

TypeOK ==
  /\ down \in [Backends -> BOOLEAN] /\ downAge \in [Backends -> Ages]
  /\ counter \in 0..(CounterMod - 1)
  /\ reachable \in [Backends -> BOOLEAN]
  /\ pc \in [Reqs -> {"idle", "check", "stamp", "compare", "revive", "attempt",
                      "failed", "eject", "gateway"}]
  /\ start \in [Reqs -> Backends] /\ i \in [Reqs -> Backends]
  /\ seen \in [Reqs -> Ages]
  /\ req \in [Reqs -> RequestKinds \cup {"spent", "gone"}]
  /\ wrote \in [Reqs -> BOOLEAN]
  /\ okay \in [Reqs -> SUBSET Backends]

\* Once part of an answer has reached the client, no other backend is asked
\* and no error page is appended to it (loadbalancer.go:116-119).
OneAnswer ==
  \A r \in Reqs : pc[r] \in {"check", "stamp", "compare", "revive", "attempt",
                             "gateway"} => ~wrote[r]

\* A request without a body whose client waits is refused only when no
\* backend was up and in rotation all through it: the retries reach every
\* backend, whatever other requests eject or revive meanwhile.
NoNeedlessBadGateway ==
  [][\A r \in Reqs : BadGateway(r) /\ req[r] = "plain" => okay[r] = {}]_vars

\* No backend stays out of rotation for ever as long as requests keep coming:
\* each ejection is followed by another chance, even when failing attempts
\* and revivals race (loadbalancer.go:21-23, 36-39).
BackendReturns ==
  []<><<\E r \in Reqs : Arrive(r)>>_vars =>
    \A b \in Backends : down[b] ~> ~down[b]

\* "ejecting a backend on a connection failure" (loadbalancer.go:49-51): what
\* counts as a failure of a backend is that it could not be reached.
EjectsTheUnreachable ==
  [][\A r \in Reqs : Fail(r) => ~reachable[At(r)]]_vars

=============================================================================
