----------------------------- MODULE Lifecycle -----------------------------
(***************************************************************************)
(* One GoUp process from exec to exit: start-up of the listeners, the      *)
(* drain (server.ShutdownServers), the exits that use it (SIGTERM, SIGHUP, *)
(* the API's restart, SafeGuard, `goup stop`) and the child processes that *)
(* the Node.js and Python plugins start from inside request handlers.      *)
(*                                                                         *)
(* A re-exec keeps the PID and the children and loses all memory: `image'  *)
(* counts the program images, everything else is the memory of the current *)
(* one, except the children and what `goup stop' waits for.                *)
(***************************************************************************)
EXTENDS Naturals, FiniteSets

CONSTANTS
  Sites,     \* domains for which a plugin runs a child process
  Tcp,       \* *http.Server listeners of the sites
  Quic,      \* http3.Server listeners of the sites with TLS
  H3Of,      \* the Tcp listener each Quic listener belongs to
  Admin,     \* API and dashboard *http.Server listeners (may be empty)
  Reqs,      \* request slots: at most that many requests in flight
  Children,  \* child process identities: bounds the number of starts
  MaxImage,  \* bounds the number of program images
  MaxDrains, \* bounds the number of drains that run at the same time
  None       \* no site, no child, no lock holder

Servers  == Tcp \cup Quic \cup Admin
Drainers == {"term", "hup", "api", "force"}

ASSUME ServerAssumption ==
  /\ Tcp \cap Quic = {} /\ Tcp \cap Admin = {} /\ Quic \cap Admin = {}
  /\ H3Of \in [Quic -> Tcp]
ASSUME NoneAssumption ==
  /\ None \notin Sites /\ None \notin Children /\ None \notin Reqs
  /\ None \notin Servers
ASSUME BoundAssumption == MaxImage \in Nat \ {0} /\ MaxDrains \in Nat

VARIABLES
  image,     \* 1, 2, ...: the program image that runs under the PID
  phase,     \* how far start-up of the image has come, or "exited"
  pidfile,   \* the PID file exists
  stopping,  \* a `goup stop` has sent SIGTERM and polls the PID
  ready,     \* lifecycle.go ready
  registry,  \* serverRegistry and closerRegistry
  listener,  \* per server: new, starting, open, shut
  rpc, rat, rsite,  \* per request: control point, server, site of the child
  mu,        \* the plugin's mutex: the request that holds it, or None
  rec,       \* NodeJSPlugin.processes / pythonProcessState.process
  cst, csite, cimg, \* per child: state, site, image that started it
  dpc, snap, todo, late  \* per drainer: control point, snapshot of the
                         \* registry, servers it has not closed yet,
                         \* whether its deadline passed

procVars  == <<image, phase, pidfile, stopping>>
srvVars   == <<ready, registry, listener>>
reqVars   == <<rpc, rat, rsite>>
childVars == <<mu, rec, cst, csite, cimg>>
drainVars == <<dpc, snap, todo, late>>
vars      == <<procVars, srvVars, reqVars, childVars, drainVars>>

\* Start-up, in the order of cli.start and launchWebComponents: "exec" no
\* handler installed yet, "signals" handlers installed, "wired" plugins
\* initialised, SetShutdownFunc and SetExitFunc done.
Phases == {"exec", "signals", "wired", "exited"}

Wired == phase = "wired"
Alive == phase # "exited"

InFlight(s) == {r \in Reqs : rpc[r] # "idle" /\ rat[r] = s}
\* An upgraded connection was hijacked: its http.Server has no hold of it.
Awaited(s) == {r \in InFlight(s) : rpc[r] # "upgraded"}

Running(c) == cst[c] = "running"
\* The child was started by the image that runs now.
Ours(c)    == cimg[c] = image /\ Alive

----------------------------------------------------------------------------
\* What a fresh program image finds in memory (lifecycle.go's init sets ready).
FreshMemory ==
  /\ ready' = TRUE
  /\ registry' = {}
  /\ listener' = [s \in Servers |-> "new"]
  /\ rpc' = [r \in Reqs |-> "idle"]
  /\ rat' = [r \in Reqs |-> None]
  /\ rsite' = [r \in Reqs |-> None]
  /\ mu' = None
  /\ rec' = [h \in Sites |-> None]
  /\ dpc' = [d \in Drainers |-> "idle"]
  /\ snap' = [d \in Drainers |-> {}]
  /\ todo' = [d \in Drainers |-> {}]
  /\ late' = [d \in Drainers |-> FALSE]
  \* Nobody waits for the children of the old image any more.
  /\ cst' = [c \in Children |-> IF cst[c] = "exited" THEN "gone" ELSE cst[c]]
  /\ UNCHANGED <<csite, cimg>>

Init ==
  /\ image = 1 /\ phase = "exec" /\ pidfile = FALSE /\ stopping = FALSE
  /\ ready = TRUE
  /\ registry = {}
  /\ listener = [s \in Servers |-> "new"]
  /\ rpc = [r \in Reqs |-> "idle"]
  /\ rat = [r \in Reqs |-> None]
  /\ rsite = [r \in Reqs |-> None]
  /\ mu = None
  /\ rec = [h \in Sites |-> None]
  /\ cst = [c \in Children |-> "unused"]
  /\ csite = [c \in Children |-> None]
  /\ cimg = [c \in Children |-> 0]
  /\ dpc = [d \in Drainers |-> "idle"]
  /\ snap = [d \in Drainers |-> {}]
  /\ todo = [d \in Drainers |-> {}]
  /\ late = [d \in Drainers |-> FALSE]

----------------------------------------------------------------------------
(* Start-up *)

\* cli.start: pidfile.Write, then handleShutdownSignal.
Install ==
  /\ phase = "exec"
  /\ phase' = "signals" /\ pidfile' = TRUE
  /\ UNCHANGED <<image, stopping, srvVars, reqVars, childVars, drainVars>>

\* StartAPIServer and StartDashboardServer launch the goroutine that listens
\* and return; only then does launchWebComponents register the server.
StartAdmin(s) ==
  /\ phase = "signals" /\ listener[s] = "new"
  /\ listener' = [listener EXCEPT ![s] = "starting"]
  /\ UNCHANGED <<procVars, ready, registry, reqVars, childVars, drainVars>>

RegisterAdmin(s) ==
  /\ phase = "signals" /\ listener[s] # "new" /\ s \notin registry
  /\ registry' = registry \cup {s}
  /\ UNCHANGED <<procVars, ready, listener, reqVars, childVars, drainVars>>

\* The rest of launchWebComponents before it starts servers: plugin
\* initialisation, SetShutdownFunc, SetExitFunc, safeguard.Start.
Wire ==
  /\ phase = "signals" /\ Admin \subseteq registry
  /\ phase' = "wired"
  /\ UNCHANGED <<image, pidfile, stopping, srvVars, reqVars, childVars, drainVars>>

\* startServerInstance: registerServer, then a goroutine listens.
StartTcp(s) ==
  /\ Wired /\ listener[s] = "new"
  /\ registry' = registry \cup {s}
  /\ listener' = [listener EXCEPT ![s] = "starting"]
  /\ UNCHANGED <<procVars, ready, reqVars, childVars, drainVars>>

\* With TLS that goroutine registers the HTTP/3 server before either listens.
StartQuic(q) ==
  /\ listener[H3Of[q]] # "new" /\ listener[q] = "new"
  /\ registry' = registry \cup {q}
  /\ listener' = [listener EXCEPT ![q] = "starting"]
  /\ UNCHANGED <<procVars, ready, reqVars, childVars, drainVars>>

\* Serve and ListenAndServe return ErrServerClosed at once after Shutdown.
Listen(s) ==
  /\ listener[s] = "starting"
  /\ \A q \in Quic : H3Of[q] = s => q \in registry
  /\ listener' = [listener EXCEPT ![s] = "open"]
  /\ UNCHANGED <<procVars, ready, registry, reqVars, childVars, drainVars>>

----------------------------------------------------------------------------
(* Requests and the children they start *)

\* A request names any host: the plugins look the child up by r.Host, not by
\* the listener it came through.  Host None has no child process.
Accept(r, s, h) ==
  /\ listener[s] = "open" /\ rpc[r] = "idle"
  /\ s \in Admin => h = None
  /\ rpc' = [rpc EXCEPT ![r] = IF h = None THEN "serving" ELSE "ensure"]
  /\ rat' = [rat EXCEPT ![r] = s]
  /\ rsite' = [rsite EXCEPT ![r] = h]
  /\ UNCHANGED <<procVars, srvVars, childVars, drainVars>>

FaultyMutexFree == TRUE  \* fault: the plugin's mutex is not taken
MutexFree == mu = None

\* ensureNodeServerRunning under the mutex: return at once when a process is
\* recorded, else keep the mutex while dependencies are installed.
Ensure(r) ==
  /\ rpc[r] = "ensure" /\ MutexFree
  /\ \/ /\ rec[rsite[r]] # None
        /\ rpc' = [rpc EXCEPT ![r] = "serving"]
        /\ UNCHANGED mu
     \/ /\ rec[rsite[r]] = None
        /\ rpc' = [rpc EXCEPT ![r] = "starting"]
        /\ mu' = r
  /\ UNCHANGED <<procVars, srvVars, rat, rsite, rec, cst, csite, cimg, drainVars>>

\* cmd.Start succeeds: the process is recorded and the mutex released.
StartChild(r, c) ==
  /\ rpc[r] = "starting" /\ cst[c] = "unused"
  /\ cst' = [cst EXCEPT ![c] = "running"]
  /\ csite' = [csite EXCEPT ![c] = rsite[r]]
  /\ cimg' = [cimg EXCEPT ![c] = image]
  /\ rec' = [rec EXCEPT ![rsite[r]] = c]
  /\ mu' = None
  /\ rpc' = [rpc EXCEPT ![r] = "serving"]
  /\ UNCHANGED <<procVars, srvVars, rat, rsite, drainVars>>

StartFails(r) ==
  /\ rpc[r] = "starting"
  /\ mu' = None
  /\ rpc' = [rpc EXCEPT ![r] = "serving"]
  /\ UNCHANGED <<procVars, srvVars, rat, rsite, rec, cst, csite, cimg, drainVars>>

\* A backend or a child switches protocols, and the proxy in front of it copies
\* between the two connections from now on.  HTTP/3 has no such thing.
Upgrade(r) ==
  /\ rpc[r] = "serving" /\ rat[r] \in Tcp
  /\ rsite[r] # None => \E c \in Children : Running(c) /\ csite[c] = rsite[r]
  /\ rpc' = [rpc EXCEPT ![r] = "upgraded"]
  /\ UNCHANGED <<procVars, srvVars, rat, rsite, childVars, drainVars>>

\* The response ends: from the child, the static handler or the admin API; or
\* either side closes an upgraded connection.
Finish(r) ==
  /\ rpc[r] \in {"serving", "upgraded"}
  /\ rpc' = [rpc EXCEPT ![r] = "idle"]
  /\ rat' = [rat EXCEPT ![r] = None]
  /\ rsite' = [rsite EXCEPT ![r] = None]
  /\ UNCHANGED <<procVars, srvVars, childVars, drainVars>>

\* A child ends by itself.  Only the image that started it waits for it.
ChildExits(c) ==
  /\ Running(c)
  /\ cst' = [cst EXCEPT ![c] = IF Ours(c) THEN "exited" ELSE "gone"]
  /\ UNCHANGED <<procVars, srvVars, reqVars, mu, rec, csite, cimg, drainVars>>

\* The goroutine behind cmd.Wait clears the record of the domain, whichever
\* process is recorded there by now.
Reap(c) ==
  /\ cst[c] = "exited" /\ MutexFree
  /\ cst' = [cst EXCEPT ![c] = "gone"]
  /\ rec' = [rec EXCEPT ![csite[c]] = None]
  /\ UNCHANGED <<procVars, srvVars, reqVars, mu, csite, cimg, drainVars>>

----------------------------------------------------------------------------
(* Stopping and re-executing the process *)

\* The bound: another drain may start.
MayDrain == Cardinality({d \in Drainers : dpc[d] # "idle"}) < MaxDrains

\* SIGTERM or SIGINT once the handlers are installed; a second one is ignored.
\* `goup stop' and a terminal send the same signal.
Terminate ==
  /\ phase \in {"signals", "wired"} /\ dpc["term"] = "idle" /\ MayDrain
  /\ dpc' = [dpc EXCEPT !["term"] = "begin"]
  /\ UNCHANGED <<procVars, srvVars, reqVars, childVars, snap, todo, late>>

\* SIGHUP, or a request at the API or the dashboard that restarts
\* (RestartHandler, ScheduleRestart): each runs restart.Restart in a
\* goroutine of its own.
Reload(d) ==
  /\ phase \in {"signals", "wired"} /\ image < MaxImage /\ MayDrain
  /\ dpc[d] = "idle"
  /\ \/ d = "hup"
     \/ d = "api" /\ \E s \in Admin : InFlight(s) # {}
  /\ dpc' = [dpc EXCEPT ![d] = "begin"]
  /\ UNCHANGED <<procVars, srvVars, reqVars, childVars, snap, todo, late>>

\* SafeGuard finds the memory limit exceeded: ForceRestart runs exitFn, which
\* is ExitPlugins, without draining anything.
MemoryExceeded ==
  /\ Wired /\ image < MaxImage /\ dpc["force"] = "idle" /\ MayDrain
  /\ dpc' = [dpc EXCEPT !["force"] = "drained"]
  /\ UNCHANGED <<procVars, srvVars, reqVars, childVars, snap, todo, late>>

\* restart.Restart finds no shutdownFn before launchWebComponents has set it,
\* and no srv either: it goes on to re-exec.
Unwired(d) == d # "term" /\ ~Wired

FaultySetReady(v) == ready' = ready  \* fault: the flag is never stored
SetReady(v) == ready' = v

\* ShutdownServers, first statement.
Begin(d) ==
  /\ dpc[d] = "begin"
  /\ \/ /\ Unwired(d)
        /\ dpc' = [dpc EXCEPT ![d] = "exit"]
        /\ UNCHANGED ready
     \/ /\ ~Unwired(d)
        /\ SetReady(FALSE)
        /\ dpc' = [dpc EXCEPT ![d] = "snapshot"]
  /\ UNCHANGED <<procVars, registry, listener, reqVars, childVars, snap, todo, late>>

Snapshot(d) ==
  /\ dpc[d] = "snapshot"
  /\ snap' = [snap EXCEPT ![d] = registry]
  /\ todo' = [todo EXCEPT ![d] = registry]
  /\ dpc' = [dpc EXCEPT ![d] = "draining"]
  /\ UNCHANGED <<procVars, srvVars, reqVars, childVars, late>>

\* One goroutine per server: http.Server.Shutdown closes the listener, then
\* waits for the requests, but neither waits for nor closes what was hijacked;
\* http3.Server.Close aborts them, and nothing here waits for their handlers to
\* return.
Close(d, s) ==
  /\ s \in todo[d]
  /\ listener' = [listener EXCEPT ![s] = "shut"]
  /\ todo' = [todo EXCEPT ![d] = @ \ {s}]
  /\ UNCHANGED <<procVars, ready, registry, reqVars, childVars, dpc, snap, late>>

FaultyWaited(d) == TRUE  \* fault: http.Server.Close instead of Shutdown
Waited(d) == \A s \in snap[d] \ Quic : Awaited(s) = {}

\* wg.Wait returns: every server is shut and idle ...
Drained(d) ==
  /\ dpc[d] = "draining" /\ todo[d] = {} /\ Waited(d)
  /\ dpc' = [dpc EXCEPT ![d] = "drained"]
  /\ UNCHANGED <<procVars, srvVars, reqVars, childVars, snap, todo, late>>

FaultyDeadline(d) == FALSE  \* fault: a context without timeout
\* ... or the context's deadline passed with requests still in flight.
Deadline(d) ==
  /\ dpc[d] = "draining" /\ todo[d] = {} /\ ~Waited(d)
  /\ dpc' = [dpc EXCEPT ![d] = "drained"]
  /\ late' = [late EXCEPT ![d] = TRUE]
  /\ UNCHANGED <<procVars, srvVars, reqVars, childVars, snap, todo>>

FaultyHookDue(d) == dpc[d] = "draining"  \* fault: exit hook before wg.Wait
HookDue(d) == dpc[d] = "drained"

FaultyForget == rec' = <<>>  \* fault: OnExit drops the map
\* OnExit sets every entry of the map to nil.
ForgetAll == rec' = [h \in Sites |-> None]

\* plugin.ExitPlugins: OnExit kills what is recorded, under the mutex.
Recorded == {rec[h] : h \in Sites} \ {None}
ExitPlugins(d) ==
  /\ HookDue(d) /\ MutexFree
  /\ cst' = [c \in Children |->
               IF c \in Recorded /\ Running(c) THEN "exited" ELSE cst[c]]
  /\ ForgetAll
  /\ dpc' = [dpc EXCEPT ![d] = "exit"]
  /\ UNCHANGED <<procVars, srvVars, reqVars, mu, csite, cimg, snap, todo, late>>

\* handleShutdownSignal: pidfile.Remove, os.Exit(0).
ExitProcess ==
  /\ dpc["term"] = "exit"
  /\ phase' = "exited" /\ pidfile' = FALSE
  /\ UNCHANGED <<image, stopping>>
  /\ FreshMemory

\* syscall.Exec: the next image starts under the same PID ...
Exec(d) ==
  /\ d # "term" /\ dpc[d] = "exit"
  /\ image' = image + 1 /\ phase' = "exec"
  /\ UNCHANGED <<pidfile, stopping>>
  /\ FreshMemory

\* ... or log.Fatalf when the binary is gone.
ExecFails(d) ==
  /\ d # "term" /\ dpc[d] = "exit"
  /\ phase' = "exited"
  /\ UNCHANGED <<image, pidfile, stopping>>
  /\ FreshMemory

\* A signal before the handlers are installed has its default action.
EarlySignal ==
  /\ phase = "exec"
  /\ phase' = "exited"
  /\ UNCHANGED <<image, pidfile, stopping>>
  /\ FreshMemory

\* `goup stop': read the PID file, send SIGTERM, poll for ten seconds ...
StopCommand ==
  /\ pidfile /\ ~stopping /\ Alive
  /\ stopping' = TRUE
  /\ \/ /\ phase = "exec"
        /\ phase' = "exited"
        /\ FreshMemory
     \/ /\ phase # "exec"
        /\ dpc' = [dpc EXCEPT !["term"] = IF @ = "idle" THEN "begin" ELSE @]
        /\ UNCHANGED <<phase, srvVars, reqVars, childVars, snap, todo, late>>
  /\ UNCHANGED <<image, pidfile>>

\* ... then SIGKILL whatever runs under that PID ...
FaultyKillDue == FALSE  \* fault: `goup stop' waits for ever
KillDue == stopping /\ Alive
StopKills ==
  /\ KillDue
  /\ phase' = "exited"
  /\ UNCHANGED <<image, pidfile, stopping>>
  /\ FreshMemory

\* ... and remove the PID file.
StopReturns ==
  /\ stopping /\ ~Alive
  /\ stopping' = FALSE /\ pidfile' = FALSE
  /\ UNCHANGED <<image, phase, srvVars, reqVars, childVars, drainVars>>

\* `goup start' after the process has gone and no `goup stop' is at work.
StartCommand ==
  /\ ~Alive /\ ~stopping /\ image < MaxImage
  /\ image' = image + 1 /\ phase' = "exec"
  /\ UNCHANGED <<pidfile, stopping>>
  /\ FreshMemory

----------------------------------------------------------------------------
StartUp ==
  \/ Install \/ Wire
  \/ \E s \in Admin : StartAdmin(s) \/ RegisterAdmin(s)
  \/ \E s \in Tcp : StartTcp(s)
  \/ \E q \in Quic : StartQuic(q)
  \/ \E s \in Servers : Listen(s)

Request(r) ==
  \/ \E s \in Servers, h \in Sites \cup {None} : Accept(r, s, h)
  \/ Ensure(r)
  \/ \E c \in Children : StartChild(r, c)
  \/ StartFails(r)
  \/ Upgrade(r)
  \/ Finish(r)

Child(c) == ChildExits(c) \/ Reap(c)

Trigger == Terminate \/ MemoryExceeded \/ \E d \in {"hup", "api"} : Reload(d)

Drain(d) ==
  \/ Begin(d) \/ Snapshot(d)
  \/ \E s \in Servers : Close(d, s)
  \/ Drained(d) \/ Deadline(d) \/ ExitPlugins(d)

Leave ==
  \/ ExitProcess \/ EarlySignal
  \/ \E d \in Drainers : Exec(d) \/ ExecFails(d)

Command == StopCommand \/ StopKills \/ StopReturns \/ StartCommand

Next ==
  \/ StartUp \/ Trigger \/ Leave \/ Command
  \/ \E r \in Reqs : Request(r)
  \/ \E c \in Children : Child(c)
  \/ \E d \in Drainers : Drain(d)

Spec == Init /\ [][Next]_vars

\* A drain is one goroutine after another, so each of its steps follows in
\* time; the deadline is a timer; the holder of the mutex finishes installing,
\* and sync.Mutex hands over to a waiter that starves (hence strong fairness).
\* A response may stream for ever: Finish is not fair.
Onward(d) ==
  \/ Begin(d) \/ Snapshot(d)
  \/ \E s \in Servers : Close(d, s)
  \/ Drained(d) \/ Deadline(d)
  \/ Exec(d) \/ ExecFails(d)
  \/ d = "term" /\ ExitProcess

Fairness ==
  /\ \A d \in Drainers : WF_vars(Onward(d)) /\ SF_vars(ExitPlugins(d))
  /\ \A r \in Reqs : WF_vars(StartFails(r) \/ \E c \in Children : StartChild(r, c))
  /\ WF_vars(StopKills) /\ WF_vars(StopReturns)

FairSpec == Spec /\ Fairness

----------------------------------------------------------------------------
(* Properties *)

TypeOK ==
  /\ image \in 1..MaxImage /\ phase \in Phases
  /\ pidfile \in BOOLEAN /\ stopping \in BOOLEAN
  /\ ready \in BOOLEAN /\ registry \subseteq Servers
  /\ listener \in [Servers -> {"new", "starting", "open", "shut"}]
  /\ rpc \in [Reqs -> {"idle", "ensure", "starting", "serving", "upgraded"}]
  /\ rat \in [Reqs -> Servers \cup {None}]
  /\ rsite \in [Reqs -> Sites \cup {None}]
  /\ mu \in Reqs \cup {None}
  /\ rec \in [Sites -> Children \cup {None}]
  /\ cst \in [Children -> {"unused", "running", "exited", "gone"}]
  /\ csite \in [Children -> Sites \cup {None}]
  /\ cimg \in [Children -> 0..MaxImage]
  /\ dpc \in [Drainers -> {"idle", "begin", "snapshot", "draining", "drained", "exit"}]
  /\ snap \in [Drainers -> SUBSET Servers]
  /\ todo \in [Drainers -> SUBSET Servers]
  /\ late \in [Drainers -> BOOLEAN]

Exiting(d) == dpc[d] \in {"drained", "exit"}

\* A drain that ended before its deadline leaves each http.Server of its
\* snapshot shut and nothing in flight there but upgraded connections, and it
\* stays so until the process ends, whatever start-up and the other drains do
\* meanwhile (lifecycle.go:87-109).
DrainedIsQuiet ==
  \A d \in Drainers : Exiting(d) /\ ~late[d] =>
    \A s \in snap[d] : /\ listener[s] = "shut"
                       /\ s \notin Quic => Awaited(s) = {}

\* Until the exit hook has run, every process the image started and has not
\* reaped is the one recorded for its site: none is lost from sight and no
\* site has two of them on its port (nodejs.go:137-181).
TrackedUntilExit ==
  (\A d \in Drainers : dpc[d] # "exit") =>
    \A c \in Children : Ours(c) /\ cst[c] \in {"running", "exited"} =>
      csite[c] \in Sites /\ rec[csite[c]] = c

\* /up never answers "ok" once a listener has been closed: the health check
\* turns before the first connection is refused (lifecycle.go:74).
NeverReadyWhenShut ==
  (\E s \in Servers : listener[s] = "shut") => ~ready

\* After an exit hook that followed a drain within its deadline, no child is
\* started by a request on a server that was drained: the hook's work is not
\* undone (lifecycle.go:109-114).
NoChildAfterExitHook ==
  [][\A r \in Reqs, c \in Children :
       StartChild(r, c) =>
         \A d \in Drainers : dpc[d] = "exit" /\ ~late[d] =>
           rat[r] \notin snap[d] \ Quic]_vars

\* The exit hook takes the child from a request only after giving it the whole
\* drain: either a deadline passed, or nothing drained the request's server, or
\* the connection was upgraded, which no drain waits for and whose child dies
\* under it however long it would have taken (lifecycle.go:87-114).
ChildOutlivesItsRequests ==
  [][\A d \in Drainers, r \in Reqs :
       ExitPlugins(d) /\ rpc[r] # "idle" /\ rsite[r] # None =>
         late[d] \/ rat[r] \notin snap[d] \ Quic \/ rpc[r] = "upgraded"]_vars

\* Every way to stop or re-exec ends this image: no drain hangs on a request
\* that streams, on a mutex held by a start, or on another drain.
DrainEnds == \A d \in Drainers : (dpc[d] # "idle") ~> (dpc[d] = "idle")

\* `goup stop' ends the server even when a reload replaces the image between
\* its SIGTERM and the exit, because the PID stays (cli.go:306-333).
StopStops == stopping ~> ~Alive

\* The exit hook runs "before a restart re-execs the process, so plugins that
\* spawn child processes can terminate them instead of leaving orphans holding
\* their ports" (plugin.go:119-122): whoever leaves after the hook leaves no
\* running child.
LeavesBy(d) == IF d = "term" THEN ExitProcess ELSE Exec(d)
HookRan(d)  == d = "force" \/ snap[d] # {}
NoOrphans ==
  [][\A d \in Drainers : LeavesBy(d) /\ HookRan(d) =>
       \A c \in Children : ~(Running(c) /\ Ours(c))]_vars

=============================================================================
