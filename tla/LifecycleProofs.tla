-------------------------- MODULE LifecycleProofs --------------------------
(***************************************************************************)
(* Proofs about Lifecycle for every set of listeners, requests, children   *)
(* and images: type correctness, the drain invariant, the tracking of      *)
(* children up to the exit hook, and the two action properties about the   *)
(* hook.                                                                   *)
(***************************************************************************)
EXTENDS Lifecycle, TLAPS

\* Restarts keep a spare image: what the bound in the guards is for.
ImageInv ==
  \A d \in Drainers : d # "term" /\ dpc[d] # "idle" => image < MaxImage

\* The drainers by name.
LEMMA DrainerNames == "term" \in Drainers /\ "force" \in Drainers
                      /\ "hup" \in Drainers /\ "api" \in Drainers
  BY DEF Drainers

\* A fresh image has well-typed memory.
LEMMA FreshTypes ==
  ASSUME TypeOK, FreshMemory,
         image' \in 1..MaxImage, phase' \in Phases,
         pidfile' \in BOOLEAN, stopping' \in BOOLEAN
  PROVE  TypeOK' /\ ImageInv'
  BY DEF TypeOK, FreshMemory, ImageInv

\* Every step keeps the types.
LEMMA TypeStep ==
  ASSUME TypeOK, ImageInv, [Next]_vars
  PROVE  TypeOK' /\ ImageInv'
<1> USE DEF procVars, srvVars, reqVars, childVars, drainVars
<1>0. image \in Nat /\ MaxImage \in Nat /\ image <= MaxImage
  BY BoundAssumption DEF TypeOK
<1>1. CASE StartUp
  <2>1. CASE Install
    BY <2>1 DEF Install, TypeOK, ImageInv, Phases
  <2>2. CASE Wire
    BY <2>2 DEF Wire, TypeOK, ImageInv, Phases
  <2>3. ASSUME NEW s \in Admin, StartAdmin(s) \/ RegisterAdmin(s)
        PROVE  TypeOK' /\ ImageInv'
    BY <2>3 DEF StartAdmin, RegisterAdmin, TypeOK, ImageInv, Servers
  <2>4. ASSUME NEW s \in Tcp, StartTcp(s)
        PROVE  TypeOK' /\ ImageInv'
    BY <2>4 DEF StartTcp, TypeOK, ImageInv, Servers
  <2>5. ASSUME NEW s \in Quic, StartQuic(s)
        PROVE  TypeOK' /\ ImageInv'
    BY <2>5 DEF StartQuic, TypeOK, ImageInv, Servers
  <2>6. ASSUME NEW s \in Servers, Listen(s)
        PROVE  TypeOK' /\ ImageInv'
    BY <2>6 DEF Listen, TypeOK, ImageInv
  <2> QED BY <1>1, <2>1, <2>2, <2>3, <2>4, <2>5, <2>6 DEF StartUp
<1>2. ASSUME NEW r \in Reqs, Request(r)
      PROVE  TypeOK' /\ ImageInv'
  <2>1. ASSUME NEW s \in Servers, NEW h \in Sites \cup {None}, Accept(r, s, h)
        PROVE  TypeOK' /\ ImageInv'
    BY <2>1 DEF Accept, TypeOK, ImageInv
  <2>2. CASE Ensure(r)
    BY <2>2 DEF Ensure, TypeOK, ImageInv
  <2>3. ASSUME NEW c \in Children, StartChild(r, c)
        PROVE  TypeOK' /\ ImageInv'
    <3>1. cimg' \in [Children -> 0..MaxImage]
      BY <1>0, <2>3 DEF StartChild, TypeOK
    <3>2. rec' \in [Sites -> Children \cup {None}]
      BY <2>3 DEF StartChild, TypeOK
    <3>3. csite' \in [Children -> Sites \cup {None}]
      BY <2>3 DEF StartChild, TypeOK
    <3> QED BY <2>3, <3>1, <3>2, <3>3 DEF StartChild, TypeOK, ImageInv
  <2>4. CASE StartFails(r)
    BY <2>4 DEF StartFails, TypeOK, ImageInv
  <2>5. CASE Upgrade(r)
    BY <2>5 DEF Upgrade, TypeOK, ImageInv
  <2>6. CASE Finish(r)
    BY <2>6 DEF Finish, TypeOK, ImageInv
  <2> QED BY <1>2, <2>1, <2>2, <2>3, <2>4, <2>5, <2>6 DEF Request
<1>3. ASSUME NEW c \in Children, Child(c)
      PROVE  TypeOK' /\ ImageInv'
  BY <1>3 DEF Child, ChildExits, Reap, TypeOK, ImageInv
<1>4. CASE Trigger
  BY <1>4, DrainerNames DEF Trigger, Terminate, MemoryExceeded, Reload, TypeOK, ImageInv
<1>5. ASSUME NEW d \in Drainers, Drain(d)
      PROVE  TypeOK' /\ ImageInv'
  <2>1. CASE Begin(d)
    BY <2>1 DEF Begin, SetReady, TypeOK, ImageInv
  <2>2. CASE Snapshot(d)
    BY <2>2 DEF Snapshot, TypeOK, ImageInv
  <2>3. ASSUME NEW s \in Servers, Close(d, s)
        PROVE  TypeOK' /\ ImageInv'
    BY <2>3 DEF Close, TypeOK, ImageInv
  <2>4. CASE Drained(d)
    BY <2>4 DEF Drained, TypeOK, ImageInv
  <2>5. CASE Deadline(d)
    BY <2>5 DEF Deadline, TypeOK, ImageInv
  <2>6. CASE ExitPlugins(d)
    BY <2>6 DEF ExitPlugins, HookDue, ForgetAll, TypeOK, ImageInv
  <2> QED BY <1>5, <2>1, <2>2, <2>3, <2>4, <2>5, <2>6 DEF Drain
<1>6. CASE Leave
  <2>1. CASE ExitProcess
    BY <2>1, FreshTypes DEF ExitProcess, TypeOK, Phases
  <2>2. CASE EarlySignal
    BY <2>2, FreshTypes DEF EarlySignal, TypeOK, Phases
  <2>3. ASSUME NEW d \in Drainers, Exec(d)
        PROVE  TypeOK' /\ ImageInv'
    <3>1. image' \in 1..MaxImage
      BY <1>0, <2>3 DEF Exec, ImageInv, TypeOK
    <3> QED BY <3>1, <2>3, FreshTypes DEF Exec, TypeOK, Phases
  <2>4. ASSUME NEW d \in Drainers, ExecFails(d)
        PROVE  TypeOK' /\ ImageInv'
    BY <2>4, FreshTypes DEF ExecFails, TypeOK, Phases
  <2> QED BY <1>6, <2>1, <2>2, <2>3, <2>4 DEF Leave
<1>7. CASE Command
  <2>1. CASE StopCommand
    <3>1. CASE phase = "exec"
      BY <2>1, <3>1, FreshTypes DEF StopCommand, TypeOK, Phases
    <3>2. CASE phase # "exec"
      <4>1. /\ dpc' = [dpc EXCEPT !["term"] = IF @ = "idle" THEN "begin" ELSE @]
            /\ stopping' = TRUE
            /\ UNCHANGED <<image, pidfile, phase, srvVars, reqVars, childVars,
                          snap, todo, late>>
        BY <2>1, <3>2 DEF StopCommand
      <4>2. dpc' \in [Drainers -> {"idle", "begin", "snapshot", "draining",
                                   "drained", "exit"}]
        BY <4>1 DEF TypeOK
      <4>3. \A d \in Drainers : d # "term" => dpc'[d] = dpc[d]
        BY <4>1 DEF TypeOK
      <4> QED BY <4>1, <4>2, <4>3 DEF TypeOK, ImageInv
    <3> QED BY <3>1, <3>2
  <2>2. CASE StopKills
    BY <2>2, FreshTypes DEF StopKills, TypeOK, Phases
  <2>3. CASE StopReturns
    BY <2>3 DEF StopReturns, TypeOK, ImageInv
  <2>4. CASE StartCommand
    <3>1. image' \in 1..MaxImage
      BY <1>0, <2>4 DEF StartCommand
    <3> QED BY <3>1, <2>4, FreshTypes DEF StartCommand, TypeOK, Phases
  <2> QED BY <1>7, <2>1, <2>2, <2>3, <2>4 DEF Command
<1>8. CASE UNCHANGED vars
  BY <1>8 DEF vars, TypeOK, ImageInv
<1> QED BY <1>1, <1>2, <1>3, <1>4, <1>5, <1>6, <1>7, <1>8 DEF Next

\* The first states are well typed.
LEMMA InitTypes ==
  ASSUME Init PROVE TypeOK /\ ImageInv
<1>1. 0 \in 0..MaxImage /\ 1 \in 1..MaxImage
  BY BoundAssumption
<1>2. /\ cimg \in [Children -> 0..MaxImage]
      /\ csite \in [Children -> Sites \cup {None}]
      /\ cst \in [Children -> {"unused", "running", "exited", "gone"}]
      /\ rec \in [Sites -> Children \cup {None}]
  BY <1>1 DEF Init
<1>3. ImageInv
  BY DEF Init, ImageInv
<1>4. /\ image \in 1..MaxImage /\ phase \in Phases
      /\ mu \in Reqs \cup {None}
      /\ ready \in BOOLEAN /\ pidfile \in BOOLEAN /\ stopping \in BOOLEAN
  BY <1>1 DEF Init, Phases
<1>5. /\ rpc \in [Reqs -> {"idle", "ensure", "starting", "serving", "upgraded"}]
      /\ rat \in [Reqs -> Servers \cup {None}]
      /\ rsite \in [Reqs -> Sites \cup {None}]
      /\ listener \in [Servers -> {"new", "starting", "open", "shut"}]
      /\ registry \subseteq Servers
  BY DEF Init
<1>6. /\ dpc \in [Drainers -> {"idle", "begin", "snapshot", "draining",
                               "drained", "exit"}]
      /\ snap \in [Drainers -> SUBSET Servers]
      /\ todo \in [Drainers -> SUBSET Servers]
      /\ late \in [Drainers -> BOOLEAN]
  BY DEF Init
<1> QED BY <1>2, <1>3, <1>4, <1>5, <1>6 DEF TypeOK

\* Type correctness of Lifecycle, for all constants.
THEOREM TypeCorrect == Spec => [](TypeOK /\ ImageInv)
<1>1. Init => TypeOK /\ ImageInv
  BY InitTypes
<1>2. TypeOK /\ ImageInv /\ [Next]_vars => TypeOK' /\ ImageInv'
  BY TypeStep
<1> QED BY <1>1, <1>2, PTL DEF Spec

----------------------------------------------------------------------------
(* What a drain has achieved, per drain *)

\* The listeners the drain has dealt with are shut.
ShutInv ==
  \A d \in Drainers : \A s \in snap[d] \ todo[d] : listener[s] = "shut"

\* A request that Shutdown waits for.
Waiting(r) == rpc[r] \notin {"idle", "upgraded"}

\* A drain that ended in time has dealt with all of its snapshot, and left
\* nothing on an http.Server of it but upgraded connections.
QuietInv ==
  \A d \in Drainers : Exiting(d) /\ ~late[d] =>
    /\ todo[d] = {}
    /\ \A s \in snap[d] \ Quic, r \in Reqs : ~(Waiting(r) /\ rat[r] = s)

\* Before its snapshot a drain has none, nor anything to close.
EarlyInv ==
  \A d \in Drainers : dpc[d] \in {"idle", "begin", "snapshot"} =>
    snap[d] = {} /\ todo[d] = {} /\ late[d] = FALSE

DrainInv == ShutInv /\ QuietInv /\ EarlyInv

\* A fresh image drains nothing.
LEMMA FreshDrain ==
  ASSUME FreshMemory PROVE DrainInv'
  BY DEF FreshMemory, Waiting, DrainInv, ShutInv, QuietInv, EarlyInv, Exiting

\* Every step preserves DrainInv.
LEMMA DrainStep ==
  ASSUME TypeOK, DrainInv, [Next]_vars
  PROVE  DrainInv'
<1> USE DEF procVars, srvVars, reqVars, childVars, drainVars, Waiting
<1> DEFINE DrainFrame == UNCHANGED <<listener, rpc, rat, dpc, snap, todo, late>>
           Same == UNCHANGED <<rpc, rat, dpc, snap, todo, late>>
\* A step that leaves what the invariant speaks of alone.
<1>0. ASSUME DrainFrame PROVE DrainInv'
  BY <1>0 DEF DrainInv, ShutInv, QuietInv, EarlyInv, Exiting
\* A step that moves a listener which is not shut.
<1>0a. ASSUME NEW s \in Servers, NEW v, Same, listener[s] # "shut",
              listener' = [listener EXCEPT ![s] = v]
       PROVE  DrainInv'
  <2>1. ShutInv'
    BY <1>0a DEF DrainInv, ShutInv, TypeOK
  <2> QED BY <1>0a, <2>1 DEF DrainInv, QuietInv, EarlyInv, Exiting
<1>1. CASE StartUp
  <2>1. CASE Install \/ Wire
    BY <2>1, <1>0 DEF Install, Wire
  <2>2. ASSUME NEW s \in Admin, StartAdmin(s) \/ RegisterAdmin(s)
        PROVE  DrainInv'
    <3>1. CASE StartAdmin(s)
      BY <3>1, <1>0a DEF StartAdmin, Servers
    <3>2. CASE RegisterAdmin(s)
      BY <3>2, <1>0 DEF RegisterAdmin
    <3> QED BY <2>2, <3>1, <3>2
  <2>3. ASSUME NEW s \in Tcp, StartTcp(s)
        PROVE  DrainInv'
    BY <2>3, <1>0a DEF StartTcp, Servers
  <2>4. ASSUME NEW q \in Quic, StartQuic(q)
        PROVE  DrainInv'
    BY <2>4, <1>0a DEF StartQuic, Servers
  <2>5. ASSUME NEW s \in Servers, Listen(s)
        PROVE  DrainInv'
    BY <2>5, <1>0a DEF Listen
  <2> QED BY <1>1, <2>1, <2>2, <2>3, <2>4, <2>5 DEF StartUp
<1>2. ASSUME NEW r \in Reqs, Request(r)
      PROVE  DrainInv'
  <2>1. ASSUME NEW s \in Servers, NEW h \in Sites \cup {None}, Accept(r, s, h)
        PROVE  DrainInv'
    \* A new request cannot come in through a listener that is shut.
    <3>1. \A d \in Drainers : Exiting(d) /\ ~late[d] => s \notin snap[d]
      BY <2>1 DEF Accept, DrainInv, ShutInv, QuietInv, TypeOK
    <3>2. QuietInv'
      BY <2>1, <3>1 DEF Accept, DrainInv, QuietInv, Exiting, TypeOK
    <3> QED BY <2>1, <3>2 DEF Accept, DrainInv, ShutInv, EarlyInv
  <2>2. ASSUME Ensure(r) \/ StartFails(r) \/ Upgrade(r) \/ \E c \in Children : StartChild(r, c)
        PROVE  DrainInv'
    <3>1. /\ rat' = rat /\ Waiting(r)
          /\ \A q \in Reqs : q # r => rpc'[q] = rpc[q]
          /\ UNCHANGED <<listener, dpc, snap, todo, late>>
      BY <2>2 DEF Ensure, StartFails, Upgrade, StartChild, Waiting, TypeOK
    <3>2. QuietInv'
      BY <3>1 DEF DrainInv, QuietInv, Exiting, Waiting
    <3> QED BY <3>1, <3>2 DEF DrainInv, ShutInv, EarlyInv
  <2>3. CASE Finish(r)
    <3>1. \A q \in Reqs : Waiting(q)' => Waiting(q) /\ rat'[q] = rat[q]
      BY <2>3 DEF Finish, Waiting, TypeOK
    <3>2. QuietInv'
      BY <2>3, <3>1 DEF Finish, DrainInv, QuietInv, Exiting
    <3> QED BY <2>3, <3>2 DEF Finish, DrainInv, ShutInv, EarlyInv
  <2> QED BY <1>2, <2>1, <2>2, <2>3 DEF Request
<1>3. ASSUME NEW c \in Children, Child(c)
      PROVE  DrainInv'
  BY <1>3, <1>0 DEF Child, ChildExits, Reap
\* A drainer that was idle has no snapshot and nothing to close.
<1>4. ASSUME NEW d \in Drainers, NEW v \in {"begin", "drained"}, dpc[d] = "idle",
             dpc' = [dpc EXCEPT ![d] = v],
             UNCHANGED <<listener, rpc, rat, snap, todo, late>>
      PROVE  DrainInv'
  <2>1. \A e \in Drainers : e # d => dpc'[e] = dpc[e]
    BY <1>4 DEF TypeOK
  <2>2. dpc'[d] = v /\ snap[d] = {} /\ todo[d] = {} /\ late[d] = FALSE
    BY <1>4 DEF TypeOK, DrainInv, EarlyInv
  <2>3. ShutInv'
    BY <1>4 DEF DrainInv, ShutInv
  <2>4. QuietInv'
    BY <1>4, <2>1, <2>2 DEF DrainInv, QuietInv, Exiting
  <2>5. EarlyInv'
    BY <1>4, <2>1, <2>2 DEF DrainInv, EarlyInv
  <2> QED BY <2>3, <2>4, <2>5 DEF DrainInv
<1>5. CASE Trigger
  BY <1>5, <1>4, DrainerNames DEF Trigger, Terminate, MemoryExceeded, Reload
<1>6. ASSUME NEW d \in Drainers, Drain(d)
      PROVE  DrainInv'
  <2>0. ASSUME UNCHANGED <<listener, rpc, rat>>,
               \A e \in Drainers \ {d} :
                 /\ dpc'[e] = dpc[e] /\ snap'[e] = snap[e]
                 /\ todo'[e] = todo[e] /\ late'[e] = late[e],
               \A s \in snap'[d] \ todo'[d] : listener[s] = "shut",
               dpc'[d] \in {"idle", "begin", "snapshot"} =>
                 snap'[d] = {} /\ todo'[d] = {} /\ late'[d] = FALSE,
               dpc'[d] \in {"drained", "exit"} /\ ~late'[d] =>
                 /\ todo'[d] = {}
                 /\ \A s \in snap'[d] \ Quic, r \in Reqs :
                      ~(Waiting(r) /\ rat[r] = s)
        PROVE  DrainInv'
    <3>1. ShutInv'
      BY <2>0 DEF DrainInv, ShutInv
    <3>2. QuietInv'
      BY <2>0 DEF DrainInv, QuietInv, Exiting
    <3>3. EarlyInv'
      BY <2>0 DEF DrainInv, EarlyInv
    <3> QED BY <3>1, <3>2, <3>3 DEF DrainInv
  <2>1. CASE Begin(d)
    BY <2>1, <2>0 DEF Begin, SetReady, TypeOK, DrainInv, EarlyInv
  <2>2. CASE Snapshot(d)
    BY <2>2, <2>0 DEF Snapshot, TypeOK, DrainInv, EarlyInv
  <2>3. ASSUME NEW s \in Servers, Close(d, s)
        PROVE  DrainInv'
    <3>1. /\ listener' = [listener EXCEPT ![s] = "shut"] /\ s \in todo[d]
          /\ todo' = [todo EXCEPT ![d] = @ \ {s}]
          /\ UNCHANGED <<rpc, rat, dpc, snap, late>>
      BY <2>3 DEF Close
    <3>2. ShutInv'
      BY <3>1 DEF DrainInv, ShutInv, TypeOK
    <3>3. QuietInv'
      BY <3>1 DEF DrainInv, QuietInv, Exiting, TypeOK
    <3>4. EarlyInv'
      BY <3>1 DEF DrainInv, EarlyInv, TypeOK
    <3> QED BY <3>2, <3>3, <3>4 DEF DrainInv
  <2>4. CASE Drained(d)
    <3>1. \A s \in snap[d] \ Quic, r \in Reqs : ~(Waiting(r) /\ rat[r] = s)
      BY <2>4 DEF Drained, Waited, Awaited, InFlight, Waiting
    <3> QED BY <2>4, <2>0, <3>1 DEF Drained, TypeOK, DrainInv, ShutInv
  <2>5. CASE Deadline(d)
    BY <2>5, <2>0 DEF Deadline, TypeOK, DrainInv, ShutInv
  <2>6. CASE ExitPlugins(d)
    BY <2>6, <2>0 DEF ExitPlugins, HookDue, TypeOK, DrainInv, ShutInv, QuietInv, Exiting
  <2> QED BY <1>6, <2>1, <2>2, <2>3, <2>4, <2>5, <2>6 DEF Drain
<1>7. CASE Leave
  BY <1>7, FreshDrain DEF Leave, ExitProcess, EarlySignal, Exec, ExecFails
<1>8. CASE Command
  <2>1. CASE StopCommand
    <3>1. CASE phase = "exec"
      BY <2>1, <3>1, FreshDrain DEF StopCommand
    <3>2. CASE phase # "exec" /\ dpc["term"] = "idle"
      BY <2>1, <3>2, <1>4, DrainerNames DEF StopCommand
    <3>3. CASE phase # "exec" /\ dpc["term"] # "idle"
      <4>1. dpc' = dpc
        BY <2>1, <3>3, DrainerNames DEF StopCommand, TypeOK
      <4> QED BY <2>1, <3>3, <4>1, <1>0 DEF StopCommand
    <3> QED BY <3>1, <3>2, <3>3
  <2>2. CASE StopKills \/ StartCommand
    BY <2>2, FreshDrain DEF StopKills, StartCommand
  <2>3. CASE StopReturns
    BY <2>3, <1>0 DEF StopReturns
  <2> QED BY <1>8, <2>1, <2>2, <2>3 DEF Command
<1>9. CASE UNCHANGED vars
  BY <1>9, <1>0 DEF vars
<1> QED BY <1>1, <1>2, <1>3, <1>5, <1>6, <1>7, <1>8, <1>9 DEF Next

\* What Init says, spelled out.
LEMMA InitFacts ==
  ASSUME Init PROVE TypeOK /\ ImageInv /\ DrainInv
<1>1. DrainInv
  BY DEF Init, Waiting, DrainInv, ShutInv, QuietInv, EarlyInv, Exiting
<1> QED BY <1>1, InitTypes

\* DrainInv holds in every reachable state.
LEMMA DrainInvariant == Spec => [](TypeOK /\ ImageInv /\ DrainInv)
<1>1. Init => TypeOK /\ ImageInv /\ DrainInv
  BY InitFacts
<1>2. TypeOK /\ ImageInv /\ DrainInv /\ [Next]_vars
      => TypeOK' /\ ImageInv' /\ DrainInv'
  BY TypeStep, DrainStep
<1> QED BY <1>1, <1>2, PTL DEF Spec

\* A drain that ended in time leaves its servers shut and nothing in flight there
\* but upgraded connections (lifecycle.go:87-109).
THEOREM DrainIsQuiet == Spec => []DrainedIsQuiet
<1>1. TypeOK /\ DrainInv => DrainedIsQuiet
  BY DEF TypeOK, DrainInv, ShutInv, QuietInv, DrainedIsQuiet, Awaited, InFlight, Waiting
<1> QED BY <1>1, DrainInvariant, PTL

\* No request of a drained server starts a child after the exit hook.
THEOREM HookIsFinal == Spec => NoChildAfterExitHook
<1>1. TypeOK /\ DrainInv =>
        \A r \in Reqs, c \in Children : StartChild(r, c) =>
          \A d \in Drainers : dpc[d] = "exit" /\ ~late[d] =>
            rat[r] \notin snap[d] \ Quic
  BY DEF TypeOK, DrainInv, QuietInv, Exiting, Waiting, StartChild
<1> QED BY <1>1, DrainInvariant, PTL DEF NoChildAfterExitHook

\* The exit hook kills no child under a request of a server that was drained in
\* time, unless its connection was upgraded (lifecycle.go:87-114).
THEOREM HookSparesRequests == Spec => ChildOutlivesItsRequests
<1>1. TypeOK /\ DrainInv =>
        \A d \in Drainers, r \in Reqs :
          ExitPlugins(d) /\ rpc[r] # "idle" /\ rsite[r] # None =>
            late[d] \/ rat[r] \notin snap[d] \ Quic \/ rpc[r] = "upgraded"
  BY DEF TypeOK, DrainInv, QuietInv, Exiting, Waiting, ExitPlugins, HookDue
<1> QED BY <1>1, DrainInvariant, PTL DEF ChildOutlivesItsRequests

----------------------------------------------------------------------------
(* The health check turns before a listener closes *)

ReadyInv ==
  /\ \A d \in Drainers : dpc[d] = "snapshot" \/ todo[d] # {} => ~ready
  /\ NeverReadyWhenShut

\* A fresh image has shut nothing.
LEMMA FreshReady ==
  ASSUME FreshMemory PROVE ReadyInv'
  BY DEF FreshMemory, ReadyInv, NeverReadyWhenShut

\* Every step preserves ReadyInv.
LEMMA ReadyStep ==
  ASSUME TypeOK, ReadyInv, [Next]_vars
  PROVE  ReadyInv'
<1> USE DEF procVars, srvVars, reqVars, childVars, drainVars
\* A step that shuts no listener, gives no drain anything to close and does
\* not raise the flag.
<1>0. ASSUME ready' = ready,
             \A s \in Servers : listener'[s] = "shut" => listener[s] = "shut",
             \A d \in Drainers : dpc'[d] = "snapshot" \/ todo'[d] # {}
                                  => dpc[d] = "snapshot" \/ todo[d] # {}
      PROVE  ReadyInv'
  BY <1>0 DEF ReadyInv, NeverReadyWhenShut
<1>1. CASE StartUp
  BY <1>1, <1>0 DEF StartUp, Install, Wire, StartAdmin, RegisterAdmin, StartTcp,
                    StartQuic, Listen, TypeOK
<1>2. ASSUME NEW r \in Reqs, Request(r)
      PROVE  ReadyInv'
  BY <1>2, <1>0 DEF Request, Accept, Ensure, StartChild, StartFails, Upgrade, Finish
<1>3. ASSUME NEW c \in Children, Child(c)
      PROVE  ReadyInv'
  BY <1>3, <1>0 DEF Child, ChildExits, Reap
<1>4. CASE Trigger
  BY <1>4, <1>0, DrainerNames DEF Trigger, Terminate, MemoryExceeded, Reload, TypeOK
<1>5. ASSUME NEW d \in Drainers, Drain(d)
      PROVE  ReadyInv'
  <2>1. CASE Begin(d)
    <3>1. CASE Unwired(d)
      BY <2>1, <3>1, <1>0 DEF Begin, TypeOK
    <3>2. CASE ~Unwired(d)
      BY <2>1, <3>2 DEF Begin, SetReady, ReadyInv, NeverReadyWhenShut
    <3> QED BY <3>1, <3>2
  <2>2. CASE Snapshot(d)
    BY <2>2 DEF Snapshot, ReadyInv, NeverReadyWhenShut, TypeOK
  <2>3. ASSUME NEW s \in Servers, Close(d, s)
        PROVE  ReadyInv'
    BY <2>3 DEF Close, ReadyInv, NeverReadyWhenShut, TypeOK
  <2>4. CASE Drained(d)
    BY <2>4, <1>0 DEF Drained, TypeOK
  <2>5. CASE Deadline(d)
    BY <2>5, <1>0 DEF Deadline, TypeOK
  <2>6. CASE ExitPlugins(d)
    BY <2>6, <1>0 DEF ExitPlugins, TypeOK
  <2> QED BY <1>5, <2>1, <2>2, <2>3, <2>4, <2>5, <2>6 DEF Drain
<1>6. CASE Leave
  BY <1>6, FreshReady DEF Leave, ExitProcess, EarlySignal, Exec, ExecFails
<1>7. CASE Command
  <2>1. CASE StopCommand
    <3>1. CASE phase = "exec"
      BY <2>1, <3>1, FreshReady DEF StopCommand
    <3>2. CASE phase # "exec"
      BY <2>1, <3>2, <1>0, DrainerNames DEF StopCommand, TypeOK
    <3> QED BY <3>1, <3>2
  <2>2. CASE StopKills \/ StartCommand
    BY <2>2, FreshReady DEF StopKills, StartCommand
  <2>3. CASE StopReturns
    BY <2>3, <1>0 DEF StopReturns
  <2> QED BY <1>7, <2>1, <2>2, <2>3 DEF Command
<1>8. CASE UNCHANGED vars
  BY <1>8, <1>0 DEF vars
<1> QED BY <1>1, <1>2, <1>3, <1>4, <1>5, <1>6, <1>7, <1>8 DEF Next

\* /up turns before a listener closes, for every instance.
THEOREM ReadyTurnsFirst == Spec => []NeverReadyWhenShut
<1>1. Init => TypeOK /\ ImageInv /\ ReadyInv
  BY InitTypes DEF Init, ReadyInv, NeverReadyWhenShut
<1>2. TypeOK /\ ImageInv /\ ReadyInv /\ [Next]_vars
      => TypeOK' /\ ImageInv' /\ ReadyInv'
  BY TypeStep, ReadyStep
<1>3. ReadyInv => NeverReadyWhenShut
  BY DEF ReadyInv
<1> QED BY <1>1, <1>2, <1>3, PTL DEF Spec

----------------------------------------------------------------------------
(* The plugins do not lose sight of a child before the exit hook *)

\* Only a request that names a site waits for a child, and the one that
\* starts it holds the mutex and found no record.
StarterInv ==
  \A r \in Reqs :
    /\ rpc[r] \in {"ensure", "starting"} => rsite[r] \in Sites
    /\ rpc[r] = "starting" => mu = r /\ rec[rsite[r]] = None

\* Only the image that started a child waits for it.
ChildInv ==
  \A c \in Children :
    /\ cst[c] \in {"running", "exited"} => csite[c] \in Sites /\ cimg[c] <= image
    /\ cst[c] = "exited" => Ours(c)

\* What is recorded was started by the image that runs.
RecordInv == \A h \in Sites : rec[h] # None => Ours(rec[h])

\* Nothing listens, no request and no drain runs in a process that is gone.
GoneInv ==
  ~Alive => /\ \A s \in Servers : listener[s] = "new"
            /\ \A r \in Reqs : rpc[r] = "idle"
            /\ \A d \in Drainers : dpc[d] = "idle" /\ todo[d] = {}

TrackInv == StarterInv /\ ChildInv /\ RecordInv /\ GoneInv /\ TrackedUntilExit

\* A fresh image, or none at all: the children left behind are not ours.
LEMMA FreshTrack ==
  ASSUME TypeOK, TrackInv, FreshMemory,
         image' = image + 1 \/ (image' = image /\ phase' = "exited")
  PROVE  TrackInv'
<1>1. image \in Nat /\ \A c \in Children : cimg[c] \in Nat
  BY BoundAssumption DEF TypeOK
<1>2. \A c \in Children :
        cst'[c] \in {"running", "exited"} => cst[c] = "running" /\ cst'[c] = "running"
  BY DEF FreshMemory, TypeOK
<1>3. ChildInv'
  BY <1>1, <1>2 DEF FreshMemory, TrackInv, ChildInv
<1>4. \A c \in Children : cst'[c] \in {"running", "exited"} => ~Ours(c)'
  BY <1>1, <1>2 DEF FreshMemory, TrackInv, ChildInv, Ours, Alive
<1>5. TrackedUntilExit'
  BY <1>4 DEF TrackedUntilExit
<1>6. StarterInv' /\ RecordInv' /\ GoneInv'
  BY DEF FreshMemory, StarterInv, RecordInv, GoneInv
<1> QED BY <1>3, <1>5, <1>6 DEF TrackInv

\* Every step preserves TrackInv.
LEMMA TrackStep ==
  ASSUME TypeOK, TrackInv, [Next]_vars
  PROVE  TrackInv'
<1> USE DEF procVars, srvVars, reqVars, childVars, drainVars
<1> DEFINE ChildFrame == UNCHANGED <<image, mu, rec, cst, csite, cimg>>
           ExitKept == \A d \in Drainers : dpc[d] = "exit" => dpc'[d] = "exit"
\* A step that touches neither requests nor children, and nothing of a
\* process that is gone.
<1>0. ASSUME ChildFrame, ExitKept, rpc' = rpc, rsite' = rsite,
             Alive <=> Alive', Alive \/ UNCHANGED <<listener, dpc, todo>>
      PROVE  TrackInv'
  <2>1. \A c \in Children : Ours(c)' <=> Ours(c)
    BY <1>0 DEF Ours
  <2>2. TrackedUntilExit'
    BY <1>0, <2>1 DEF TrackInv, TrackedUntilExit
  <2>3. RecordInv'
    BY <1>0 DEF TrackInv, RecordInv, Ours
  <2>4. ChildInv' /\ StarterInv' /\ GoneInv'
    BY <1>0, <2>1 DEF TrackInv, ChildInv, StarterInv, GoneInv
  <2> QED BY <2>2, <2>3, <2>4 DEF TrackInv
<1>1. CASE StartUp
  <2>1. CASE Install \/ Wire
    BY <2>1, <1>0 DEF Install, Wire, Alive
  <2>2. ASSUME NEW s \in Admin, StartAdmin(s) \/ RegisterAdmin(s)
        PROVE  TrackInv'
    BY <2>2, <1>0 DEF StartAdmin, RegisterAdmin, Alive
  <2>3. ASSUME NEW s \in Tcp, StartTcp(s)
        PROVE  TrackInv'
    BY <2>3, <1>0 DEF StartTcp, Wired, Alive
  <2>4. ASSUME NEW q \in Quic, StartQuic(q)
        PROVE  TrackInv'
    <3>1. Alive
      BY <2>4, ServerAssumption DEF StartQuic, TrackInv, GoneInv, Servers
    <3> QED BY <2>4, <3>1, <1>0 DEF StartQuic, Alive
  <2>5. ASSUME NEW s \in Servers, Listen(s)
        PROVE  TrackInv'
    <3>1. Alive
      BY <2>5 DEF Listen, TrackInv, GoneInv
    <3> QED BY <2>5, <3>1, <1>0 DEF Listen, Alive
  <2> QED BY <1>1, <2>1, <2>2, <2>3, <2>4, <2>5 DEF StartUp
<1>2. ASSUME NEW r \in Reqs, Request(r)
      PROVE  TrackInv'
  <2>0. Alive
    BY <1>2 DEF Request, Accept, Ensure, StartChild, StartFails, Upgrade, Finish,
                TrackInv, GoneInv
  \* A step of a request that leaves records and children alone.
  <2>0a. ASSUME UNCHANGED <<image, phase, rec, cst, csite, cimg, dpc>>, StarterInv'
         PROVE  TrackInv'
    <3>1. Alive' /\ \A c \in Children : Ours(c)' <=> Ours(c)
      BY <2>0, <2>0a DEF Ours, Alive
    <3>2. RecordInv'
      BY <2>0a DEF TrackInv, RecordInv, Ours, Alive
    <3>3. ChildInv' /\ TrackedUntilExit' /\ GoneInv'
      BY <2>0a, <3>1 DEF TrackInv, ChildInv, TrackedUntilExit, GoneInv
    <3> QED BY <2>0a, <3>2, <3>3 DEF TrackInv
  <2>1. ASSUME NEW s \in Servers, NEW h \in Sites \cup {None}, Accept(r, s, h)
        PROVE  TrackInv'
    <3>1. StarterInv'
      BY <2>1, NoneAssumption DEF Accept, TrackInv, StarterInv, TypeOK
    <3> QED BY <2>1, <3>1, <2>0a DEF Accept
  <2>2. CASE Ensure(r)
    <3>1. \A q \in Reqs : rpc[q] # "starting"
      BY <2>2, NoneAssumption DEF Ensure, MutexFree, TrackInv, StarterInv
    <3>2. StarterInv'
      BY <2>2, <3>1 DEF Ensure, TrackInv, StarterInv, TypeOK
    <3> QED BY <2>2, <3>2, <2>0a DEF Ensure
  <2>3. ASSUME NEW c \in Children, StartChild(r, c)
        PROVE  TrackInv'
    <3>1. /\ rsite[r] \in Sites /\ mu = r /\ rec[rsite[r]] = None
          /\ \A q \in Reqs : rpc[q] = "starting" => q = r
      BY <2>3 DEF StartChild, TrackInv, StarterInv
    <3>2. /\ cst'[c] = "running" /\ csite'[c] = rsite[r] /\ cimg'[c] = image
          /\ rec'[rsite[r]] = c
          /\ \A h \in Sites : h # rsite[r] => rec'[h] = rec[h]
          /\ \A e \in Children : e # c =>
               cst'[e] = cst[e] /\ csite'[e] = csite[e] /\ cimg'[e] = cimg[e]
          /\ UNCHANGED <<image, phase, rsite, dpc>>
      BY <2>3, <3>1 DEF StartChild, TypeOK
    <3>3. StarterInv'
      BY <2>3, <3>1 DEF StartChild, TrackInv, StarterInv, TypeOK
    <3>4. /\ Ours(c)'
          /\ \A e \in Children : e # c => (Ours(e)' <=> Ours(e))
      BY <2>0, <3>2 DEF Ours, Alive
    <3>5. ChildInv'
      <4>1. image \in Nat
        BY BoundAssumption DEF TypeOK
      <4> QED BY <4>1, <3>1, <3>2, <3>4 DEF TrackInv, ChildInv
    <3>6. RecordInv'
      <4>1. SUFFICES ASSUME NEW h \in Sites, rec'[h] # None
                     PROVE  cimg'[rec'[h]] = image'
        BY <2>0, <3>2 DEF RecordInv, Ours, Alive
      <4>2. CASE rec'[h] = c
        BY <3>2, <4>2
      <4>3. CASE rec'[h] # c
        <5>1. rec'[h] = rec[h] /\ rec[h] \in Children
          BY <3>1, <3>2, <4>1, <4>3 DEF TypeOK
        <5> QED BY <5>1, <3>2, <4>1, <4>3 DEF TrackInv, RecordInv, Ours
      <4> QED BY <4>2, <4>3
    <3>7. TrackedUntilExit'
      <4>1. SUFFICES ASSUME \A d \in Drainers : dpc[d] # "exit",
                            NEW e \in Children, Ours(e)',
                            cst'[e] \in {"running", "exited"}
                     PROVE  csite'[e] \in Sites /\ rec'[csite'[e]] = e
        BY <3>2 DEF TrackedUntilExit
      <4>2. CASE e = c
        BY <4>2, <3>1, <3>2
      <4>3. CASE e # c
        <5>1. csite[e] \in Sites /\ rec[csite[e]] = e
          BY <4>1, <4>3, <3>2, <3>4 DEF TrackInv, TrackedUntilExit
        <5>2. csite[e] # rsite[r]
          BY <5>1, <3>1, NoneAssumption
        <5> QED BY <5>1, <5>2, <4>3, <3>2
      <4> QED BY <4>2, <4>3
    <3>8. GoneInv'
      BY <2>0, <3>2 DEF GoneInv, Alive
    <3> QED BY <3>3, <3>5, <3>6, <3>7, <3>8 DEF TrackInv
  <2>4. CASE StartFails(r)
    <3>1. StarterInv'
      BY <2>4 DEF StartFails, TrackInv, StarterInv, TypeOK
    <3> QED BY <2>4, <3>1, <2>0a DEF StartFails
  <2>5. CASE Finish(r)
    <3>1. StarterInv'
      BY <2>5 DEF Finish, TrackInv, StarterInv, TypeOK
    <3> QED BY <2>5, <3>1, <2>0a DEF Finish
  <2>6. CASE Upgrade(r)
    <3>1. StarterInv'
      BY <2>6 DEF Upgrade, TrackInv, StarterInv, TypeOK
    <3> QED BY <2>6, <3>1, <2>0a DEF Upgrade
  <2> QED BY <1>2, <2>1, <2>2, <2>3, <2>4, <2>5, <2>6 DEF Request
<1>3. ASSUME NEW c \in Children, Child(c)
      PROVE  TrackInv'
  <2>1. CASE ChildExits(c)
    <3>1. /\ cst[c] = "running"
          /\ cst'[c] \in {"exited", "gone"} /\ (cst'[c] = "exited" => Ours(c))
          /\ \A e \in Children : e # c => cst'[e] = cst[e]
          /\ UNCHANGED <<image, phase, listener, rpc, rsite, mu, rec, csite,
                        cimg, dpc, todo>>
      BY <2>1 DEF ChildExits, Running, TypeOK
    <3>2. \A e \in Children : Ours(e)' <=> Ours(e)
      BY <3>1 DEF Ours, Alive
    <3>3. RecordInv'
      BY <3>1 DEF TrackInv, RecordInv, Ours, Alive
    <3>4. ChildInv'
      BY <3>1, <3>2 DEF TrackInv, ChildInv
    <3>5. TrackedUntilExit'
      BY <3>1, <3>2 DEF TrackInv, TrackedUntilExit
    <3>6. StarterInv' /\ GoneInv'
      BY <3>1 DEF TrackInv, StarterInv, GoneInv, Alive
    <3> QED BY <3>3, <3>4, <3>5, <3>6 DEF TrackInv
  <2>2. CASE Reap(c)
    <3>1. /\ Ours(c) /\ csite[c] \in Sites
          /\ cst[c] = "exited" /\ cst'[c] = "gone"
          /\ rec' = [rec EXCEPT ![csite[c]] = None]
          /\ \A e \in Children : e # c => cst'[e] = cst[e]
          /\ UNCHANGED <<image, phase, listener, rpc, rsite, mu, csite, cimg,
                        dpc, todo>>
      BY <2>2 DEF Reap, TypeOK, TrackInv, ChildInv
    <3>2. \A e \in Children : Ours(e)' <=> Ours(e)
      BY <3>1 DEF Ours, Alive
    <3>3. RecordInv'
      <4>1. \A h \in Sites : rec'[h] # None => rec'[h] = rec[h]
        BY <3>1 DEF TypeOK
      <4> QED BY <3>1, <4>1 DEF TrackInv, RecordInv, Ours, Alive
    <3>4. ChildInv'
      BY <3>1, <3>2 DEF TrackInv, ChildInv
    <3>5. TrackedUntilExit'
      <4>1. SUFFICES ASSUME \A d \in Drainers : dpc[d] # "exit",
                            NEW e \in Children, Ours(e), e # c,
                            cst[e] \in {"running", "exited"}
                     PROVE  csite[e] \in Sites /\ rec'[csite[e]] = e
        BY <3>1, <3>2 DEF TrackedUntilExit
      <4>2. /\ csite[e] \in Sites /\ rec[csite[e]] = e
            /\ rec[csite[c]] = c
        BY <4>1, <3>1 DEF TrackInv, TrackedUntilExit
      <4> QED BY <4>1, <4>2, <3>1 DEF TypeOK
    <3>6. StarterInv'
      <4>1. \A h \in Sites : rec[h] = None => rec'[h] = None
        BY <3>1 DEF TypeOK
      <4> QED BY <3>1, <4>1 DEF TrackInv, StarterInv
    <3>7. GoneInv'
      BY <3>1 DEF TrackInv, GoneInv, Alive
    <3> QED BY <3>3, <3>4, <3>5, <3>6, <3>7 DEF TrackInv
  <2> QED BY <1>3, <2>1, <2>2 DEF Child
<1>4. CASE Trigger
  <2>1. ExitKept
    BY <1>4, DrainerNames DEF Trigger, Terminate, MemoryExceeded, Reload, TypeOK
  <2> QED BY <1>4, <1>0, <2>1 DEF Trigger, Terminate, MemoryExceeded, Reload, Wired, Alive
<1>5. ASSUME NEW d \in Drainers, Drain(d)
      PROVE  TrackInv'
  <2>0. Alive
    BY <1>5 DEF Drain, Begin, Snapshot, Close, Drained, Deadline, ExitPlugins,
                HookDue, TrackInv, GoneInv
  <2>1. CASE Begin(d) \/ Snapshot(d) \/ Drained(d) \/ Deadline(d)
    <3>1. ExitKept
      BY <2>1 DEF Begin, Snapshot, Drained, Deadline, TypeOK
    <3> QED BY <2>0, <2>1, <1>0, <3>1 DEF Begin, Snapshot, Drained, Deadline, Alive
  <2>2. ASSUME NEW s \in Servers, Close(d, s)
        PROVE  TrackInv'
    BY <2>0, <2>2, <1>0 DEF Close, Alive
  <2>3. CASE ExitPlugins(d)
    <3>1. /\ cst' = [c \in Children |->
                       IF c \in Recorded /\ Running(c) THEN "exited" ELSE cst[c]]
          /\ rec' = [h \in Sites |-> None] /\ dpc'[d] = "exit"
          /\ UNCHANGED <<image, phase, listener, rpc, rsite, mu, csite, cimg>>
      BY <2>3 DEF ExitPlugins, ForgetAll, TypeOK
    <3>2. \A e \in Children : Ours(e)' <=> Ours(e)
      BY <3>1 DEF Ours, Alive
    <3>3. ChildInv'
      BY <3>1, <3>2 DEF TrackInv, ChildInv, RecordInv, Recorded, Running
    <3>4. StarterInv' /\ RecordInv' /\ GoneInv'
      BY <2>0, <3>1 DEF TrackInv, StarterInv, RecordInv, GoneInv, Alive
    <3>5. TrackedUntilExit'
      BY <3>1 DEF TrackedUntilExit
    <3> QED BY <3>3, <3>4, <3>5 DEF TrackInv
  <2> QED BY <1>5, <2>1, <2>2, <2>3 DEF Drain
<1>6. CASE Leave
  BY <1>6, FreshTrack DEF Leave, ExitProcess, EarlySignal, Exec, ExecFails
<1>7. CASE Command
  <2>1. CASE StopCommand
    <3>1. CASE phase = "exec"
      BY <2>1, <3>1, FreshTrack DEF StopCommand
    <3>2. CASE phase # "exec"
      <4>1. ExitKept
        BY <2>1, <3>2, DrainerNames DEF StopCommand, TypeOK
      <4> QED BY <2>1, <3>2, <4>1, <1>0 DEF StopCommand, Alive
    <3> QED BY <3>1, <3>2
  <2>2. CASE StopKills \/ StartCommand
    BY <2>2, FreshTrack DEF StopKills, StartCommand
  <2>3. CASE StopReturns
    BY <2>3, <1>0 DEF StopReturns, Alive
  <2> QED BY <1>7, <2>1, <2>2, <2>3 DEF Command
<1>8. CASE UNCHANGED vars
  BY <1>8, <1>0 DEF vars, Alive
<1> QED BY <1>1, <1>2, <1>3, <1>4, <1>5, <1>6, <1>7, <1>8 DEF Next

\* Until the exit hook, the record of a site names its one child.
THEOREM ChildrenTracked == Spec => []TrackedUntilExit
<1>1. Init => TypeOK /\ ImageInv /\ TrackInv
  <2>1. Init => TypeOK /\ ImageInv
    BY InitTypes
  <2>2. Init => TrackInv
    BY DEF Init, TrackInv, StarterInv, ChildInv, RecordInv, GoneInv,
           TrackedUntilExit, Alive
  <2> QED BY <2>1, <2>2
<1>2. TypeOK /\ ImageInv /\ TrackInv /\ [Next]_vars
      => TypeOK' /\ ImageInv' /\ TrackInv'
  BY TypeStep, TrackStep
<1>3. TrackInv => TrackedUntilExit
  BY DEF TrackInv
<1> QED BY <1>1, <1>2, <1>3, PTL DEF Spec

=============================================================================
