# GoUp in TLA+

GoUp is a web server in one Go process: static files, reverse proxy and load
balancer, plugins that run Node.js, Python, PHP or containers, an admin API, a
dashboard and an optional DNS server. This directory holds TLA+ models of its
core, TLC configurations that check them on small instances, and TLAPS proofs
for every instance. Source paths below are relative to `src/`.

## 1. Inventory

| Component | State | Operations and who calls them | What is hard | What makes it correct |
|---|---|---|---|---|
| Life cycle: `internal/server/lifecycle.go`, `server_web.go`, `server_utils.go`, `internal/restart`, `internal/safeguard`, `internal/cli`, `internal/pidfile` | readiness flag, server registry, listeners, PID file, the process image | start-up; drain (`ShutdownServers`) from SIGTERM, SIGHUP, API restart; SafeGuard's `ForceRestart`; `goup stop` | drains run concurrently with start-up and each other; deadline; re-exec keeps PID and children but loses memory; signals before handlers exist | drained servers stay quiet, but for upgraded connections; `/up` turns first; every drain and every `goup stop` ends |
| Plugin children: `plugins/nodejs.go`, `plugins/python.go`, `internal/plugin/plugin.go` | recorded process per domain, mutex | start on a request, reap in a goroutine, exit hook | a request or the reaper racing the hook | at most one tracked child per domain; the hook's work is not undone and spares served requests; no orphans |
| Containers: `plugins/docker_standard.go` | recorded identifier and port per site, mutex; containers outlive the process | find or start at start-up and on a request, exit hook | search by a part of the name; an exited or half-made container; the hook racing a start; a restart with another `container_port` | what is recorded is the site's own container and port; the hook leaves none behind |
| Load balancer: `internal/server/loadbalancer.go` | counter, `down` and `downAt` per backend, all atomics | `ServeHTTP` of every request to a balanced site | lock-free check-then-act between requests; retry after a failure; cooldown | one answer per request; no 502 while a backend was in rotation; ejections end |
| Rate limiter: `internal/server/middleware/ratelimit.go` | bucket per client, one mutex | `allow` per request, `sweep` per minute | clock read before the mutex; buckets dropped while in use | bounded admissions per window; no undeserved 429 |
| Stat cache: `internal/server/stat_cache.go` | pointer to a map, counter | `cachedStat` up to four times per static request | lock-free; reset in two steps | bounded staleness; bounded memory |
| Request pipeline: `internal/server/handler.go`, `middleware/*.go` | semaphore, wrapped writers, plugin hooks | every request, in the order `createHandler` nests the handlers | order of middlewares, panics, informational and repeated status codes, switched protocols | tokens come back; the edge refuses before anything costs; body and `Content-Encoding` agree; the log says what was sent |
| Access log and monitor: `middleware/async_logger.go`, `internal/monitor` | channel, entry pool, ring of 100 | the logging middleware sends, a worker writes | full channel; pooled entries | an entry is in one place; accepted lines are written in order; the ring is the end of the log |
| Configuration and API: `internal/config`, `internal/api` | files, `SiteConfigs`, `GlobalConf`, initialised plugins | create, update, delete a site; toggle a plugin; restart | check, save and store are separate steps; a restart of any kind between them; empty list means all plugins | what a call answered lasts; a toggle takes effect |
| Start-up of the servers: `server.go`, `server_web.go`, `tls.go`, `validate.go` | list of sites, loggers, a server per port | `StartServers`; `goup validate` | files are read in any order; one faulty site among others on its port; two sets of rules | a domain reaches its own site and certificate; plugins first, failed ones included; what validates is served |
| DNS: `internal/dns` | index of the records (read only) | one query, one reply | names that end like a zone; several questions; access list; truncation | own replies complete and marked; the forwarder is closed by default |
| Static files and PHP: `static_handler.go`, `plugins/php.go` | none beyond the stat cache | per request: the plugin, then the static handler | two handlers read the path differently; files change between Stat and open | scripts are run, not sent; dotfiles stay hidden; an ETag is of the body's file |
| Auth plugin: `plugins/auth.go` | sessions, failed attempts | sign-in, cleanup | expiry | bounded sessions |
| Log files, sign-in of the API, dashboard, TUI, assets | files, sockets | I/O and presentation | - | - |

Interactions: `cli.start` loads the configuration, installs the signal handlers
and calls the server; `launchWebComponents` starts API and dashboard,
initialises plugins, hands the drain and the plugins' exit hook to `restart`,
and starts one server per port. A request passes the edge (HTTPS, address
lists, rate limit, CORS), the plugins (which may start a child process or a
container), the cap, compression and logging, then the balancer, the reverse
proxy or the static handler (which uses the stat cache). The API changes files
and memory and schedules a restart. All of this shares one process, and ends
with it.

## 2. What is modelled

| Module | Models | Checked by | Proved in |
|---|---|---|---|
| `Lifecycle` | life cycle, drains, plugin children | `MCLifecycle`, three configurations | `LifecycleProofs` |
| `LoadBalancer` | balancer | `MCLoadBalancer`, two configurations | `LoadBalancerProofs` |
| `RateLimiter` | rate limiter | `MCRateLimiter` | `RateLimiterProofs` |
| `StatCache` | stat cache | `MCStatCache` | `StatCacheProofs` |
| `LossyLog` | what the access log promises: a bounded queue of lines that loses some when full | as a property of `MCPipeline` | |
| `AccessLog` | entry pool, channel, worker, monitor | as part of `MCPipeline` | `PipelineProofs` |
| `Pipeline` | the handlers a request passes, composed with `AccessLog` | `MCPipeline` | `PipelineProofs` |
| `ConfigStore` | site and global files, memory, API calls, restarts | `MCConfigStore` | `ConfigStoreProofs` |
| `SiteFiles` | path to script or file: PHP plugin and static handler | `MCSiteFiles` | `ServingProofs` |
| `DnsHandler` | index, zones, replies, forwarder, as functions | as part of `MCServers` | `ServingProofs` |
| `Servers` | start-up from site files, routing, certificates, `goup validate`, composed with `DnsHandler` | `MCServers` | `ServingProofs` |
| `Containers` | the Docker plugin's containers over several processes | `MCContainers` | `ContainersProofs` |

Definitions marked `fault:` are faults that a plausible change of the code would
introduce; each property is known to fail under one of them. They are not part
of any specification.

### Lifecycle

`image` counts the program images under one PID; everything else but the
children is the memory of the current image and `FreshMemory` resets it.
`phase` is how far start-up has come; `registry` is `serverRegistry` and
`closerRegistry`; `listener` is each server's socket. A request is in `rpc`:
inside `ensureNodeServerRunning` or `ensurePythonProcess` ("ensure",
"starting", the latter with the mutex `mu`), or "serving". `rec` is the
plugins' table of processes. There are four drainers: the SIGTERM handler, the
SIGHUP handler, the API's restart and SafeGuard; each has a program counter in
`ShutdownServers`, a snapshot of the registry and a flag that its deadline
passed. SafeGuard enters after the drain it skips.

Details that matter: an API or dashboard server listens before it is
registered; an HTTP/3 server is registered by the goroutine that serves, and
closing it does not wait for its handlers; `Restart` skips the drain before
`SetShutdownFunc`; a failed exec ends the process; between exec and
`signal.Notify` a signal kills. A request whose connection switched protocols is
"upgraded": the proxy has hijacked the connection, and `http.Server.Shutdown`
neither waits for it nor closes it (`Awaited`). So a drain may end in time with
such a request still served, and the exit hook then takes its child from it;
`DrainedIsQuiet` and `ChildOutlivesItsRequests` name it as their exception.

### LoadBalancer

One step per load or store of an atomic. Times are ages that saturate above
the cooldown, because the code only compares an age with the cooldown; this
keeps the state space finite without bounding time. `okay` is a monitor: the
backends that were reachable and not ejected ever since the request arrived.
An attempt fails when the proxy calls its `ErrorHandler`, for each of the
reasons it has (`MayFail`).

### RateLimiter

A request reads the clock (`Arrive`) and later gets the mutex (`Admit` or
`Refuse`), so requests overtake each other and `last` may go back. Tokens are
counted in units of 1/`Scale`; float rounding is not modelled. A bucket that the
sweeper drops comes back full, which is a gift if it would not have filled by
itself in the ten minutes it was idle for. `Yield` is the rate a client gets in
the long run: `Rate`, or else about a full bucket per ten minutes. The monitors
`won` and `lastWon` count admissions in a window and remember the last one.

### StatCache

One step per operation on the shared pointer, map and counter, plus `os.Stat`.
`until` is the history of the files: when each version was replaced. A map
that no thread refers to is as good as a new one, so as many maps as threads
plus one are enough: this is no bound. The `error` of `os.Stat`, the negative
result included, is one of the versions.

### AccessLog and LossyLog

A request takes an entry from the pool (`GetEntry`: one that was returned, or a
new one), fills it and sends the pointer, or drops it when the channel is full;
the worker receives, copies the fields into its scratch map, writes the line,
counts it, appends it to the ring and returns the entry. Each is a step of its
own, since requests run between any two. The content of an entry is state of
the entry, not of the message: a second reference would show as a line that
changes on its way. `Abstract` instantiates `LossyLog` with the queue of the
lines that the worker and the channel hold; `ImplementsLossyLog` says the
pointers behave like values.

### Pipeline

`Chain` builds the handlers of a site as `createHandler` and
`MiddlewareManager` nest them. A request has a direction (`dir`: in, out, or
unwinding a panic) and a position (`pos`) in the chain; an action is what the
handler at the position does before it calls the next one, after that returns,
or when it panics. What the standard library does around it (a panic with
`http.ErrAbortHandler`, the implicit 200, the first final status winning) is
modelled as the code relies on it. A site serves files, is a proxy, or is a
balancer (`serves`). A proxy may forward informational responses (`Inform`, all
of them as 103) with any header: the compressor decides on the first header it
sees, and the proxy clears the header afterwards. A balancer whose backend fails
after that returns with no final answer (`SiteReturns`), and cannot hijack. A
plugin may answer, switch protocols, panic, or spoil the request. Two stages are nondeterministic because
other modules say what they do: the rate limit (`RateLimiter`) and the plugins
(`Lifecycle`, `Containers`).

### ConfigStore

A call of the API checks, truncates the file, writes it, and then stores in
memory, in separate steps (`os.WriteFile` is two, and overlapping writes of
different lengths leave a file that does not parse); each save may fail. `Reboot`
is every kind of restart, at any moment: calls in progress vanish and the files
are read again. `settled` and `acked` record what a call that overlapped no
other has answered. A second file may configure the same domain, and with
`--global-config` the global file is read from elsewhere.

### SiteFiles

A path is a sequence of segments; `Clean` and the plugin's own resolution give
the two readings of it. The request is a sequence of looks at the disk: the
plugin's, then cached or fresh Stats of the path, its index and its compressed
variants, then the opening. Files appear, change and vanish between any two of
them, and the cached Stat is any earlier one the file had (`StatCache` says how
old). A Stat that fails for another reason than that nothing is there is a 500.

### Servers and DnsHandler

`LoadFile` appends the sites in any order; loggers may fail; the plugins may fail
to start (`GiveUp`: nothing else is started); then they are initialised site by
site, and at a plugin's error the plugins after it never see the site, which is
only logged (`lame`); then ports start in any order. `server[p]` is what
`startSingleServer` or `startVirtualHostServer` built: the handlers, the
certificates, the hosts of ACME; or `Unbound`, where the port could not be bound
(a port with TLS is bound twice, for TCP and for HTTP/3: it counts as bound only
if both are). A site is known there by its place in `configs`,
the list that was read: the radix tree keeps the last handler of a domain, the
largest place, and an unknown host gets the first one. `Route` and `Certificate` are the choices made per
request, `Valid` and `Agree` the rules of `goup validate`. A process that starts
the DNS server answers with `ServeDNS`, a function of the configuration and the
query, which `DnsReplies` compares with what the records say. The two halves
share no state; one initial choice (`mode`) selects what is started.

### Containers

`box` is the container of each name (site and port), which outlives processes;
`rec` is what the running process recorded. `ensureContainer` holds the mutex from
the search to the end, and is split at every command: `ps`, build or pull, `run`.
A command may fail, a container may be created and not start, or exit by itself;
the process may be killed at any point, while its `docker run` goes on. `kind`
changes between processes: a site's file names another `container_port`, and the
filter of `ps` matches any part of a name.

## 3. Runs

| Run | Instance and what it bounds | Shows |
|---|---|---|
| `lifecycle` | a site listener with HTTP/3, two requests, two children, two images, two drains at a time | `DrainedIsQuiet`, `TrackedUntilExit`, `NeverReadyWhenShut`, `NoChildAfterExitHook`, `ChildOutlivesItsRequests` |
| `lifecycle_live` | a site listener and the API, one request, one child, two images, one drain at a time | `DrainEnds`, `StopStops` |
| `lifecycle_orphan` | one listener, one request, one child | finding: a child orphaned by `ForceRestart` |
| `balancer` | two backends (one comes and goes), two requests, one impatient client, a counter that wraps at 2 | `OneAnswer`, `NoNeedlessBadGateway`, `BackendReturns` |
| `balancer_eject` | two backends that stay up, one request of any kind | finding: what ejects a healthy backend |
| `ratelimit` | one client, three requests, a burst of two, 12 ticks, waits of at most 1 tick, sweeps after 4, a rate of 1 that is too slow for this and a yield of 2 | `WindowBound`, `RefusedOnlyWhenSpent` |
| `statcache` | two threads, three paths of which one changes once, TTL 1, 2 ticks, a limit of 0 so that every insertion resets | `StalenessBounded`, `MemoryBounded` |
| `pipeline` | two requests, of three kinds together, five site configurations (files with three choices of filters, cap and log, a proxy, a balancer behind HTTPS), one token, one plugin, two entries, a channel and a ring of one | `Exclusive`, `MonitorFollowsLog`, `TokensMatchRequests`, `PluginsSeeAllOrNothing`, `BodyMatchesHeader`, `LoggedAsSent`, the refinement `ImplementsLossyLog` |
| `configstore` | two domains, one possibly in two files, two plugins, two calls at a time, three in all | `AcknowledgedSurvives`, `ToggleTakesEffect` |
| `sitefiles` | all paths of two segments out of five and six longer ones, four files, two of which change twice in all | `Confined`, `ScriptsAreRun`, `ValidatorHonest` |
| `servers` | two site files with every combination of domain, port, handler and certificate faults, and any loggers, plugins and ports failing; 54 DNS configurations, every query of one question and every one of two A questions | `InitBeforeServe`, `OwnSite`, `ValidatedIsServed`, `DnsReplies` |
| `containers` | two sites, one with two possible ports, two requests, two host ports, two processes | `TypeOK` (what is recorded), `ExitRemoves` |

Why these instances are enough. Two images show what a restart carries over,
two drains show drains that overlap, and a third would repeat one of the four
drainers' roles. Two requests race on every pair of steps of the balancer, and
with two backends each passes over and comes back to one. The limiter's
clients do not interact, so one suffices; with three requests one can overtake
two. In the cache any two threads meet in every pair of steps. In the pipeline
two requests compete for one token, one place in the channel and one of the ring,
and the kinds differ in exactly what some stage looks at; the configurations
with the cap and with the log are apart, since a cap of one would keep the
requests from meeting in the log. Calls of the API interact through one file at
a time, and three calls give an overlap and a later success. Sites interact
only on a port or by a domain, which two do. Two containers' processes show the
crash, the adoption and the changed port. All bounds other than waiting times
are also lifted by the proofs, for the safety properties they cover.

Deadlock is checked where the system goes on for ever (the balancer, the
limiter, the cache, the files). It is not where the system or the instance may
stop: after the last image or process has exited (`Lifecycle`, `Containers`),
when a start failed or the calls are used up (`ConfigStore`), when all requests are
answered (`Pipeline`), when all ports are started (`Servers`).

Fairness. `Lifecycle`: the steps of a drain follow each other because
`Shutdown` and the timer return; the exit hook needs strong fairness, since the
mutex is taken and released again by requests (`sync.Mutex` hands over to a
waiter that starves); a start under the mutex ends; `goup stop` is a loop with
a timeout. A response may stream for ever, so `Finish` is not fair.
`LoadBalancer`: goroutines run, attempts end by the transport's timeouts, the
clock advances. Arrivals are not fair; `BackendReturns` assumes them.
`Pipeline`: the worker of the log is a goroutine that blocks on nothing but an
empty channel; requests are not fair, for a client may stall. `ConfigStore`: the
scheduled restart is a goroutine that sleeps and then restarts; the calls are
not fair.

## 4. Findings and observations

* `lifecycle_orphan`, violating `NoOrphans`: `ForceRestart` (`internal/restart/restart.go:78-93`)
  runs the exit hook and re-execs while the listeners still accept. A request in
  between finds no recorded process and starts one, which the new image does not
  know and which holds the port. `internal/plugin/plugin.go:119-122` says the
  hook exists to avoid exactly that.
* `balancer_eject`, violating `EjectsTheUnreachable`: `trackWriter` implements
  neither `Hijack` nor `Unwrap`, so a protocol upgrade fails at every backend and
  each is ejected although it answered; a client that leaves and a body that was
  consumed have the same effect. `internal/server/loadbalancer.go:49-51` speaks
  of ejection "on a connection failure".

Met while modelling; no run claims them, but a reader of the properties should
know why these are stated as they are.

* Containers. Without `cli_command`, the default, start-up falls back to `docker`
  or `podman` and `OnExit` does not: it runs an empty command and removes nothing.
  `ExitRemoves` is about sites that set it. Since `ps --filter name=` matches
  parts of names, two identifiers may be recorded as one, and the hook removes
  neither. An exited container, or one that was created and did not start, is
  found again and never started; its port may be given to another one. The one
  mutex is held through builds and pulls, so one site's makes all others wait.
* Access log. Nothing calls `AsyncLogger.Shutdown`: lines in the channel at exit are
  lost, and the synchronous fallback is never reached.
* Drain. A connection that switched protocols through a plugin's proxy (or any
  other) is not waited for: the drain is in time, and the exit hook ends the child
  under it, with none of the ten seconds that other requests get.
* Rate limiter. For a rate that needs more than ten minutes to fill the burst,
  the sweeper gives tokens away: `WindowBound` is stated with `Yield` therefore.
* Compression. The comment at `gzip.go:35` says that compression is skipped if
  `Content-Encoding` is set already. It is decided on the first header the writer
  sees: if a backend sends a 103 whose header (the site's custom headers are in it)
  has a compressible Content-Type and the client accepts gzip, then the final
  response is compressed whatever its own header says, and
  `Content-Encoding: gzip` is lost when `ReverseProxy` clears the header after the
  103. The client gets bytes it cannot decode. `BodyMatchesHeader` names this
  (`Misled`) and says that all of the body is compressed then.
* Interim answers of a balanced site. When the backend fails after a 103, the
  balancer returns without a final status: the client gets an empty 200 and the
  line of the log says 103. `LoggedAsSent` names it (`Tells`), as it does switched
  protocols, whose 101 goes around the log's writer.
* Start-up. A plugin that fails for a site is logged, the plugins after it never see
  the site, and the site is served without them (`server_web.go:91-93`).
  `InitBeforeServe` says that no plugin is initialised while a port serves, and
  that a site that runs went through its plugins or is one of these. Ports that
  cannot be bound are only logged as well.
* Logging. `handler.go:74` says it "wraps the entire request"; it is the innermost
  middleware, so what plugins, the edge and the cap answer is not logged, nor a
  panic. `AfterRequest` is not deferred: a panic skips it.
* Configuration. `os.WriteFile` is not atomic: a save that is cut off leaves a
  file that does not parse, a site that is skipped or, for the global file, a
  start that exits. Updates that overlap may leave memory and disk apart.
  With `--global-config` a toggle is saved to a file that is not read back.
  Toggling a plugin when the list is empty, which means all, leaves only this
  one.
* Validation. A site with upstreams and a missing root directory is valid and,
  alone on its port, not started (`validate.go:42`, `server.go:82`); `ssl` with ACME and
  without files is started and not valid. `ValidatedIsServed` states the first
  exception, and that of a port that cannot be bound.
* Plugins look a site up by the Host header, so a request with another Host on
  a one-site port goes to the static handler, the text of scripts included:
  `ScriptsAreRun` is about the site's own domain.
* DNS. With several questions one NXDOMAIN sticks for the whole reply. The order
  in which zones are matched makes no difference.
* The first handler of a shared port, which unknown hosts get, depends on the
  order in which the files were read.
* `server_utils.go` says that 0 disables the request timeout; only a negative value
  does. `config.go` gives `MaxBodyBytes` a default that `handler.go:92` does not apply.

## 5. Proofs

All theorems are for every value of the constants that the modules' named
assumptions admit.

* `LifecycleProofs`. `TypeCorrect` needs `ImageInv` (who re-execs has an image
  left). `DrainIsQuiet`, `HookIsFinal` and `HookSparesRequests` follow from
  `DrainInv`: what a drain has closed stays shut (`ShutInv`), an in-time end
  leaves nothing in flight but upgraded connections (`QuietInv`, stronger than the property by the empty
  to-do set), and before its snapshot a drain has none (`EarlyInv`); the property
  alone is not inductive, because a drain half-way says nothing of its servers.
  `ReadyTurnsFirst` needs `ReadyInv`: a drain has turned the flag before it has anything to close.
  `ChildrenTracked` needs `TrackInv`: the request that starts a child holds the
  mutex and its site has no record (`StarterInv`), so no reaper and no second
  start can intervene.
* `LoadBalancerProofs`. `NoMixedAnswer` from `WroteInv`. `NoRefusalInVain` from
  `PassedInv`: every backend a plain request has passed over has left its
  monitor, and the walk over `(start + i) % N` covers all backends (`Covered`).
* `RateLimiterProofs`. `Limited` and `RefusalsEarned` from `LimiterInv`, an
  amortised argument: admissions times `Scale` plus tokens minus what flowed in by
  `last` never grows, `last` may go back but the potential goes back with it, and
  a bucket that is dropped owes no more than one that is full (`GoneInv`). The
  flow is counted at `Yield`, and `YieldAssumption` says what that is: no less than
  `Rate`, and enough to fill the bucket in the time it has to be idle for, less
  twice the longest wait for the mutex. This restricts neither rate nor burst:
  there is such a `Yield` for every one of them, as long as nobody waits for the
  mutex for five minutes, and it is `Rate` itself where the bucket fills in time.
* `StatCacheProofs`. `CacheTypeCorrect` from `CountInv`: each count above the
  limit belongs to a thread that is resetting. `StalenessIsBounded` from
  `TruthInv`: whatever is stored in any map, live or dead, was true a TTL before
  it expires, and no entry is from the future (without this a version replaced
  now might end before an entry that holds it). `MemoryIsBounded` counts what is in
  the current map against the counter and the threads between an insertion and
  its count or a reset and its zero.
* `PipelineProofs`, the access log. `EntriesExclusive` is inductive with types and
  the tie between the worker's control point and its hand. From it
  `LogIsLossyQueue`: each step of the pool and the channel maps to one step of
  `LossyLog` or to a stutter, because filling or clearing an entry that is in one
  place changes no line that waits. `MonitorFollows` needs that the ring is the
  last `RingSize` lines that were counted and appended. `PipelineUsesLog`: every
  step of the pipeline is a step of the log or leaves it alone, given only that a
  status is one of the codes; the log's theorems follow for the composition.
* `PipelineProofs`, the handlers. `TokensMatch` needs `Where`: every request is
  inside of the chain, and at the logging middleware when it writes its line.
  `ChainShape` shows for every configuration that the cap is there at most once,
  after the edge; so a step at another handler takes no request in or out
  (`MotionKeeps`), and those at the cap do as the semaphore does.
  `PluginsAllOrNothing` needs to compare places of different chains: `Stage` is
  the rank of a handler in the order that all configurations share, and
  `EdgeInv` says per rank what may have been sent and asked. The property speaks
  of a request that was refused; inductive is only what holds of it on the way
  in, that nothing has been sent or asked before the plugins.
  `BodiesMatchHeaders` needs `BodyInv`: until the site's handler sends its header
  the compressor has decided nothing, so the decision and the announcement are
  one step, or it has decided at an informational response, on the compressor's
  own record of the status at which it did, and sticks to it. `LogTellsWhatWasSent` needs `StatusInv`, that the status kept follows
  the one sent, or is excepted (`Tells`), between the handler and the logging middleware, and `LedgerInv`
  on top of the log's invariant: written, waiting and lost lines are told
  truly, and no request has two of them, in one of the three or in different
  ones. Without the last part a line that is about to be sent could be a second
  one. Fields are read long after they were written, so `EntryInv` says that the
  entry a request holds has its line until it is sent; that is where exclusive
  entries are needed.
* `ConfigStoreProofs`. `AcknowledgedSurvives` is about quiet moments and says
  nothing of calls half-way. `IInv` adds: of two calls about a file neither is
  alone (`SoloInv`); a file is not settled while a call is about it
  (`OpenInv`); how far a call that is alone has come shows on the disk
  (`Progress`), so its last step finds there what it answers; and what is
  settled is on disk, and in memory while the process runs (`Lasting`). The
  assumption that the markers `None` and `Bad` are no values stands for the
  difference between no file, one that does not parse and one that does.
* `ServingProofs`, the start. `Reading`: every file is read once, and all before
  anything starts. `Stages`: the order of the phases, and that a server that was
  started is what the files say now, or unbound (`Outcomes`), since they are not
  read again; `PluginsFirst` follows because the logger that lets a port start is
  what decides whether its plugins are tried. For `RequestsReachTheirSite` the
  places with the domain of a site that no other has are one place (`PlaceOf`),
  so that first and last are the same and the order of the files makes no
  difference. `ValidatedSitesAreServed` compares the two sets of rules.
* `ServingProofs`, the files. `DiskInv`: no Stat that is remembered is ahead of
  the disk, on which versions only grow. `PathInv` says what each control point
  knows of the path, the Stat and the file; `PluginInv` what the plugin has
  ruled out before the static handler looks: a request for a script that got
  past it has missed the file. `CleanIsPure`, for paths of any length, is
  an induction over the names, by a least counterexample.
* `ServingProofs`, the DNS server. Everything is in the reply to one query, so the
  invariant is only that the last reply is `ServeDNS` of a query (`Answered`).
  The work is in lemmas on sequences of any length: the elements of a
  concatenation (`Flattened`, by induction), what the index holds and finds
  (`IndexIs`, `UnderIs`, `FoundIs`), and that a name matches a zone, compared
  from its end, exactly if it is in the zone (`ZonesMatch`).
* `ContainersProofs`. `IInv`: who is inside of `ensureContainer` holds the mutex and works
  for a site without a record (so no record is overwritten), what is ours is on
  record until the hook, and after the hook whatever is still sought is excused.
  The last part is why `ExitRemoves` is not inductive by itself. The least free port
  exists because the natural numbers are well-founded.

With these every invariant and every action property of the runs that pass is a
theorem. Only model-checked is liveness (`DrainEnds`, `StopStops`,
`BackendReturns`, `ToggleTakesEffect`, and the fairness part of
`ImplementsLossyLog`, whose safety part is `PipelineIsLossy`), which is beyond the
prover; and the two findings, which are counterexamples.

The assumptions are named in the modules that declare the constants, and TLC
evaluates them in every run. They type the bounds (`Options`, `Kinds`, `Variants`,
`DnsConfigs`, `Queries`: what a file, a request, a disk, a query may be), say that
they are not empty where the system needs one, and that markers such as `None`
are no values. Three say more: `YieldAssumption` above; that a request of
`Pipeline` has some kind; and that `index.html` is neither a hidden name nor a
script.

## 6. Not modelled

* The auth plugin: one lock per operation on tables of opaque tokens, and one
  comparison with the clock; no interplay of steps.
* Log files, rotation and retention: one mutex per file, and retention touches
  only files that are days old.
* The sign-in of API and dashboard, the dashboard, the logs explorer, metrics,
  the terminal UI, templates and assets: presentation, or one comparison.
* `DockerBasePlugin`, which only reads the list of containers; the FastCGI exchange
  and the proxies' caches; headers, the body limit and the benchmark middleware,
  which change data of one message.
* Sockets, the HTTP, DNS and ACME protocols. `http.Server`, `http3.Server`,
  `httputil.ReverseProxy`, `sync.Mutex`, `sync.Pool`, the file system and the container
  runtime are modelled from how the code uses them.
* A site whose domain is `conf.global`, which would share its file with the global
  configuration; several servers on one PID file; the TUI mode, which installs
  no signal handlers. Children that survive the SIGKILL of `goup stop` are in the
  model but nothing is claimed of them.

## 7. Plan

What could come next, in order:

1. A refinement of `LoadBalancer` to a specification of rotation with ejection, and
   of `ConfigStore` to one register per domain, with the proofs of the steps.
2. The rate limit of `Pipeline` as an instance of `RateLimiter`, and the Stats of
   `SiteFiles` as one of `StatCache`, so that the bounds proved there are those of
   the composition.
3. `Lifecycle` with several `goup` commands on one PID file and the TUI mode.
4. The auth plugin, if sessions come to be shared or stored.
