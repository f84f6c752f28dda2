----------------------------- MODULE Containers -----------------------------
(***************************************************************************)
(* DockerStandardPlugin: the container of each site, started or found at   *)
(* start-up or by a request, what the plugin records of it, and the exit   *)
(* hook, while containers exit by themselves, commands fail and the        *)
(* process is killed, drained or restarted with another configuration.     *)
(*                                                                         *)
(* Left out: the proxying, and the container list of DockerBasePlugin,     *)
(* which only reads.                                                       *)
(***************************************************************************)
EXTENDS Integers, FiniteSets, FiniteSetsExt

CONSTANTS
  Sites,    \* sites that enable the plugin
  Requests,
  Boot,     \* the goroutine that initialises the plugins
  ContainerPorts, \* bound: per site, the container_port there may be
  Matches,  \* pairs of container ports: the text of the one is in the other's
  HostPorts,\* the range of GetFreePort
  MaxLives, \* bound: processes, one after the other
  None

Actors == Requests \cup {Boot}
Names  == {<<s, p>> : s \in Sites, p \in UNION {ContainerPorts[t] : t \in Sites}}

ASSUME ContainersAssumption ==
  /\ Boot \notin Requests /\ HostPorts \subseteq Nat /\ MaxLives \in Nat \ {0}
  /\ None \notin Actors \cup HostPorts \cup [port : HostPorts, running : BOOLEAN]
  /\ \A s \in Sites : \A p \in ContainerPorts[s] : <<p, p>> \in Matches

VARIABLES
  life,   \* "init", "serve", "drain", "hook", "hooked"; "gone"
  lives,  \* processes so far
  kind,   \* per site: its container_port
  cli,    \* per site: cli_command is configured
  box,    \* per name: the container's goup_port and whether it runs, or None
  rec,    \* per site: containerID, as the containers it names, and hostPort
  holder, \* mu
  pc,     \* per actor: control point
  about,  \* per actor: the site it works for
  picked, \* per actor: the free port it found
  todo,   \* sites to initialise
  ours,   \* history: containers this process started or found
  excused \* history: those sought after the exit hook, or whose removal failed

process == <<life, lives, kind, cli>>
actor   == <<pc, about, picked>>
vars == <<process, box, rec, holder, actor, todo, ours, excused>>

NoRecord == [ids |-> {}, port |-> None]
Name(s)  == <<s, kind[s]>>
Idle     == [a \in Actors |-> "idle"]

Init ==
  /\ life = "init" /\ lives = 1
  /\ kind \in [Sites -> UNION {ContainerPorts[s] : s \in Sites}]
  /\ \A s \in Sites : kind[s] \in ContainerPorts[s]
  /\ cli \in [Sites -> BOOLEAN]
  /\ box = [n \in Names |-> None]
  /\ rec = [s \in Sites |-> NoRecord]
  /\ holder = None /\ pc = Idle /\ todo = Sites
  /\ about = [a \in Actors |-> None] /\ picked = [a \in Actors |-> None]
  /\ ours = {} /\ excused = {}

----------------------------------------------------------------------------
(* The environment *)

\* Nothing starts a container again.
ContainerExits(n) ==
  /\ box[n] # None /\ box[n].running
  /\ box' = [box EXCEPT ![n].running = FALSE]
  /\ UNCHANGED <<process, rec, holder, actor, todo, ours, excused>>

FreePorts == HostPorts \ {box[n].port : n \in {m \in Names : box[m] # None /\ box[m].running}}
LowestPort == IF FreePorts = {} THEN None ELSE Min(FreePorts)

CanStart(s, p) == box[Name(s)] = None /\ p \in FreePorts
Created(s, p, runs) == box' = [box EXCEPT ![Name(s)] = [port |-> p, running |-> runs]]

\* The process ends; a `docker run' it has started goes on without it.
Gone ==
  /\ life' = "gone" /\ pc' = Idle /\ holder' = None /\ rec' = [s \in Sites |-> NoRecord]
  /\ \/ UNCHANGED box
     \/ \E a \in Actors : pc[a] = "run" /\ CanStart(about[a], picked[a])
                         /\ Created(about[a], picked[a], TRUE)

\* SIGKILL; what it did is nobody's any more.
Kill ==
  /\ life # "gone" /\ Gone
  /\ ours' = {} /\ excused' = {}
  /\ UNCHANGED <<lives, kind, cli, about, picked, todo>>

\* The next process may find another container_port in the site's file.
Start ==
  /\ life = "gone" /\ lives < MaxLives
  /\ life' = "init" /\ lives' = lives + 1
  /\ \E k \in [Sites -> UNION {ContainerPorts[s] : s \in Sites}] :
       (\A s \in Sites : k[s] \in ContainerPorts[s]) /\ kind' = k
  /\ todo' = Sites /\ ours' = {} /\ excused' = {}
  /\ about' = [a \in Actors |-> None] /\ picked' = [a \in Actors |-> None]
  /\ UNCHANGED <<cli, box, rec, holder, pc>>

----------------------------------------------------------------------------
(* OnInitForSite and HandleRequest *)

At(a, p) == pc[a] = p /\ life # "gone"
Unlocked == holder = None

InitSite(s) ==
  /\ life # "gone" /\ s \in todo /\ pc[Boot] = "idle"
  /\ todo' = todo \ {s}
  /\ pc' = [pc EXCEPT ![Boot] = "lock"] /\ about' = [about EXCEPT ![Boot] = s]
  /\ UNCHANGED <<process, box, rec, holder, picked, ours, excused>>

\* Once every site is initialised, the ports are opened (module Servers).
Serve ==
  /\ life = "init" /\ todo = {} /\ pc[Boot] = "idle"
  /\ life' = "serve"
  /\ UNCHANGED <<lives, kind, cli, box, rec, holder, actor, todo, ours, excused>>

\* A request finds no container of its site; one that finds a container is
\* proxied to its port.
Request(r, s) ==
  /\ life = "serve" /\ pc[r] = "idle" /\ Unlocked /\ rec[s].ids = {}
  /\ pc' = [pc EXCEPT ![r] = "lock"] /\ about' = [about EXCEPT ![r] = s]
  /\ UNCHANGED <<process, box, rec, holder, picked, todo, ours, excused>>

----------------------------------------------------------------------------
(* ensureContainer, under the mutex to its end *)

\* Error or not, the mutex is released.
Done(a) == holder' = None /\ pc' = [pc EXCEPT ![a] = "idle"]
Fails(a) == Done(a) /\ UNCHANGED <<process, box, rec, about, picked, todo, ours, excused>>
Goto(a, p) == pc' = [pc EXCEPT ![a] = p] /\ UNCHANGED holder

Lock(a) ==
  /\ At(a, "lock") /\ Unlocked
  /\ IF rec[about[a]].ids # {} THEN Done(a)
     ELSE holder' = a /\ pc' = [pc EXCEPT ![a] = "ps"]
  /\ excused' = IF life = "hooked" THEN excused \cup {Name(about[a])} ELSE excused
  /\ UNCHANGED <<process, box, rec, about, picked, todo, ours>>

\* containerID and hostPort.
Record(s, ids, port) ==
  /\ rec' = [rec EXCEPT ![s] = [ids |-> ids, port |-> port]]
  /\ ours' = ours \cup {Name(s)}

\* ps -a --filter name=... finds every container whose name has the text in it,
\* exited ones included, or fails; then the container is taken for missing.
Listed(s) ==
  {n \in Names : box[n] # None /\ n[1] = s /\ <<kind[s], n[2]>> \in Matches}
NewPort(s) == LowestPort  \* fault: the port a new container would get
Label(s) == box[Name(s)].port

Find(a) ==
  /\ At(a, "ps")
  /\ LET s == about[a] IN
     \/ /\ Listed(s) # {} /\ box[Name(s)] # None
        /\ Record(s, Listed(s), Label(s))
        /\ Done(a) /\ UNCHANGED <<process, box, about, picked, todo, excused>>
     \* inspect asks for the very name.
     \/ Listed(s) # {} /\ Fails(a)
     \/ Goto(a, "build") /\ UNCHANGED <<process, box, rec, about, picked, todo, ours, excused>>

\* The image is built or pulled; GetFreePort takes the first port that nobody
\* listens on.
Build(a) ==
  /\ At(a, "build")
  /\ \/ Fails(a)
     \/ /\ FreePorts # {} /\ Goto(a, "run")
        /\ picked' = [picked EXCEPT ![a] = LowestPort]
        /\ UNCHANGED <<process, box, rec, about, todo, ours, excused>>

\* run -d: a name that is taken, or a container that is created and does not
\* start, is an error.
Run(a) ==
  /\ At(a, "run")
  /\ LET s == about[a] IN
     \/ Fails(a)
     \/ /\ box[Name(s)] = None /\ Created(s, picked[a], FALSE)
        /\ ours' = ours \ {Name(s)}
        /\ Done(a) /\ UNCHANGED <<process, rec, about, picked, todo, excused>>
     \/ /\ CanStart(s, picked[a]) /\ Created(s, picked[a], TRUE)
        /\ Record(s, {Name(s)}, picked[a])
        /\ Done(a) /\ UNCHANGED <<process, about, picked, todo, excused>>

----------------------------------------------------------------------------
(* The end of a process *)

\* ShutdownServers: no request begins any more. Those that are there at the
\* deadline go on; ForceRestart does not wait at all.
Drain ==
  /\ life \in {"init", "serve"} /\ life' = "drain"
  /\ UNCHANGED <<lives, kind, cli, box, rec, holder, actor, todo, ours, excused>>
ExitPlugins ==
  /\ life \in {"init", "serve", "drain"} /\ life' = "hook"
  /\ UNCHANGED <<lives, kind, cli, box, rec, holder, actor, todo, ours, excused>>

\* OnExit: rm -f of what is recorded, with the command as configured: without
\* one, or with several identifiers in containerID, nothing is removed.
Removable(s) == rec[s].ids # {} /\ cli[s] /\ Cardinality(rec[s].ids) = 1
Unguarded == TRUE  \* fault: the hook does not wait for the mutex
Guarded == Unlocked
OnExit ==
  /\ life = "hook" /\ Guarded
  /\ life' = "hooked"
  /\ \E gone \in SUBSET {s \in Sites : Removable(s)} :
       /\ box' = [n \in Names |-> IF \E s \in gone : n \in rec[s].ids THEN None ELSE box[n]]
       /\ excused' = excused \cup
            {Name(s) : s \in {t \in Sites \ gone : rec[t].ids # {} /\ cli[t]}}
  /\ rec' = [s \in Sites |-> NoRecord]
  /\ UNCHANGED <<lives, kind, cli, holder, actor, todo, ours>>

\* os.Exit, or exec.
Leave ==
  /\ life = "hooked" /\ Gone
  /\ ours' = {n \in ours : box'[n] = box[n]}
  /\ UNCHANGED <<lives, kind, cli, about, picked, todo, excused>>

----------------------------------------------------------------------------
Ensure(a) == Lock(a) \/ Find(a) \/ Build(a) \/ Run(a)

Next ==
  \/ \E n \in Names : ContainerExits(n)
  \/ \E s \in Sites : InitSite(s) \/ \E r \in Requests : Request(r, s)
  \/ \E a \in Actors : Ensure(a)
  \/ Kill \/ Start \/ Serve \/ Drain \/ ExitPlugins \/ OnExit \/ Leave

Spec == Init /\ [][Next]_vars

----------------------------------------------------------------------------
(* Properties *)

\* What is recorded of a site is its own container and the port on its label,
\* whichever process had started it; only who holds the mutex is inside of
\* ensureContainer.
TypeOK ==
  /\ life \in {"init", "serve", "drain", "hook", "hooked", "gone"} /\ lives \in 1..MaxLives
  /\ \A n \in Names : box[n] # None => box[n].port \in HostPorts /\ box[n].running \in BOOLEAN
  /\ \A s \in Sites : rec[s] # NoRecord =>
       /\ Name(s) \in rec[s].ids /\ \A n \in rec[s].ids : n[1] = s
       /\ box[Name(s)] # None /\ rec[s].port = box[Name(s)].port
  /\ \A a \in Actors : pc[a] \in {"idle", "lock", "ps", "build", "run"}
  /\ {a \in Actors : pc[a] \in {"ps", "build", "run"}} = {holder} \ {None}

\* The exit hook leaves no container behind (docker_standard.go:160-172,
\* plugin.go:119-122): one the process started or found, however the start of
\* it and the hook overlapped, is gone after a graceful exit, if the site
\* configures a command, unless the removal fails or a request that outlived
\* the drain sought it after the hook.
ExitRemoves ==
  life = "gone" => \A n \in ours \ excused : cli[n[1]] => box[n] = None

=============================================================================
