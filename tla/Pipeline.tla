------------------------------ MODULE Pipeline ------------------------------
(***************************************************************************)
(* The way of a request through the handler of a site: the middlewares in  *)
(* the order createHandler nests them, what each does on the way in and on *)
(* the way out, when it returns and when it panics, and the access log at  *)
(* the end (AccessLog).                                                    *)
(*                                                                         *)
(* Left out: the body limit and the security headers, which change data of *)
(* the request and the response only, and the benchmark middleware.        *)
(***************************************************************************)
EXTENDS AccessLog

CONSTANTS
  Configs,  \* bound: the site configurations
  Kinds,    \* bound: per request, what it may be like
  Responses,\* bound: per request, what the site's handler may answer
  Plugins   \* how many plugins are registered

Flags == {TRUE, FALSE}
\* serves: files from a directory, what one backend answers, or one of several.
Config == [https : Flags, ips : Flags, rate : Flags, cors : Flags,
           max : Nat, logging : Flags, serves : {"files", "proxy", "balancer"}]
\* nets: which of the lists the client is in, "bad" if its address does not
\* parse; gzip: it accepts gzip and no WebSocket key is there.
Kind == [tls : Flags, nets : SUBSET {"allow", "deny", "bad"}, preflight : Flags,
         gzip : Flags, range : Flags, upgrade : Flags]
Response == [code : {200, 304, 502}, coded : {"none", "own"}, text : Flags]
Codes == {0, 101, 103, 200, 204, 301, 304, 403, 429, 500, 502, 503}

ASSUME PipelineAssumption ==
  /\ Configs \subseteq Config /\ Kinds \in [Requests -> (SUBSET Kind) \ {{}}]
  /\ Responses \in [Requests -> SUBSET Response]
  /\ Lines = [req : Requests, status : Codes]
  /\ Plugins \in Nat

VARIABLES
  conf,     \* the site's configuration
  permits,  \* tokens in the semaphore of the concurrency cap
  kind,     \* per request: its kind
  dir,      \* per request: on the way "in", "out" or in "panic"; see LogGet
  pos,      \* per request: index of the handler that runs
  hooks,    \* per request: BeforeRequest hooks without their AfterRequest
  asked,    \* per request: plugins asked to handle it
  spoilt,   \* per request: a plugin answered and passed it on all the same
  site,     \* per request: how far the site's handler is, see WriteHeader
  status,   \* per request: responseWriter.statusCode
  gzip,     \* per request: smartGzipWriter, or Unwrapped
  sent,     \* per request: the final status on the wire, 0 while none
  coding,   \* per request: Content-Encoding as sent
  body      \* per request: the kinds of bytes written

Unwrapped == [on |-> FALSE, checked |-> FALSE, compress |-> FALSE, status |-> 0]

wire  == <<sent, coding, body>>
plugs == <<hooks, asked, spoilt>>
reply == <<site, status, gzip>>
vars == <<conf, permits, kind, dir, pos, plugs, reply, wire, logVars>>

Init ==
  /\ LogInit
  /\ conf \in Configs /\ permits = 0
  /\ kind = [r \in Requests |-> CHOOSE k \in Kinds[r] : TRUE]
  /\ dir = [r \in Requests |-> "idle"] /\ pos = [r \in Requests |-> 0]
  /\ hooks = [r \in Requests |-> 0] /\ asked = [r \in Requests |-> 0]
  /\ spoilt = [r \in Requests |-> FALSE]
  /\ site = [r \in Requests |-> "new"]
  /\ status = [r \in Requests |-> 0]
  /\ gzip = [r \in Requests |-> Unwrapped]
  /\ sent = [r \in Requests |-> 0] /\ coding = [r \in Requests |-> "none"]
  /\ body = [r \in Requests |-> {}]

----------------------------------------------------------------------------
(* createHandler *)

\* MiddlewareManager.Use and Apply: the first registered is the outermost.
Use(mws, cond, name) == IF cond THEN Append(mws, name) ELSE mws
Wrap(cond, name, handler) == IF cond THEN <<name>> \o handler ELSE handler
Apply(mws, handler) == mws \o handler

Manager(c) ==
  Use(Use(Use(<<"plugins">>, c.max > 0, "cap"), TRUE, "gzip"), c.logging, "logging")

InnerEdge(c) ==  \* fault: the IP filter and the rate limiter inside the site's chain
  Wrap(c.https, "https", Wrap(c.cors, "cors",
    Apply(Manager(c), Wrap(c.ips, "ips", Wrap(c.rate, "rate", <<"site">>)))))
Chain(c) ==
  Wrap(c.https, "https", Wrap(c.ips, "ips", Wrap(c.rate, "rate", Wrap(c.cors, "cors",
    Apply(Manager(c), <<"site">>)))))

----------------------------------------------------------------------------
(* Moving along the chain *)

Reached(r, d, name) == dir[r] \in d /\ pos[r] > 0 /\ Chain(conf)[pos[r]] = name
In(r, name)  == Reached(r, {"in"}, name)
Out(r, name) == Reached(r, {"out"}, name)
Leaving(r, name) == Reached(r, {"out", "panic"}, name)

\* next.ServeHTTP; return; panic.
Forward(r) == pos' = [pos EXCEPT ![r] = @ + 1] /\ UNCHANGED dir
Move(r, d) == pos' = [pos EXCEPT ![r] = @ - 1] /\ dir' = [dir EXCEPT ![r] = d]
Back(r) == Move(r, dir[r])

Answer(r, code) == sent' = [sent EXCEPT ![r] = IF @ = 0 THEN code ELSE @]

\* A handler answers without calling the next one.
Refuse(r, code) ==
  /\ Answer(r, code) /\ Move(r, "out")
  /\ UNCHANGED <<conf, permits, kind, plugs, reply, coding, body, logVars>>
Pass(r) ==
  /\ Forward(r)
  /\ UNCHANGED <<conf, permits, kind, plugs, reply, wire, logVars>>

Arrive(r) ==
  /\ dir[r] = "idle"
  /\ \E k \in Kinds[r] : kind' = [kind EXCEPT ![r] = k]
  /\ dir' = [dir EXCEPT ![r] = "in"] /\ pos' = [pos EXCEPT ![r] = 1]
  /\ UNCHANGED <<conf, permits, plugs, reply, wire, logVars>>

\* The server sends what is left, or cuts the connection after a panic; the
\* handlers' locals vanish.
Finish(r) ==
  /\ pos[r] = 0 /\ dir[r] \in {"out", "panic"}
  /\ dir' = [dir EXCEPT ![r] = IF @ = "out" THEN "done" ELSE "aborted"]
  /\ sent' = [sent EXCEPT ![r] = IF @ = 0 /\ dir[r] = "out" THEN 200 ELSE @]
  /\ kind' = [kind EXCEPT ![r] = CHOOSE k \in Kinds[r] : TRUE]
  /\ asked' = [asked EXCEPT ![r] = 0]
  /\ site' = [site EXCEPT ![r] = "new"] /\ status' = [status EXCEPT ![r] = 0]
  /\ gzip' = [gzip EXCEPT ![r] = Unwrapped]
  /\ coding' = [coding EXCEPT ![r] = "none"] /\ body' = [body EXCEPT ![r] = {}]
  /\ UNCHANGED <<conf, permits, pos, hooks, spoilt, logVars>>

----------------------------------------------------------------------------
(* The edge *)

ForceHTTPS(r) ==
  /\ In(r, "https")
  /\ IF kind[r].tls THEN Pass(r) ELSE Refuse(r, 301)

\* The allow and deny lists of every site that filters are both set.
IPFilter(r) ==
  /\ In(r, "ips")
  /\ IF "bad" \in kind[r].nets \/ "deny" \in kind[r].nets \/ "allow" \notin kind[r].nets
     THEN Refuse(r, 403) ELSE Pass(r)

\* Module RateLimiter says when.
RateLimit(r) == In(r, "rate") /\ (Pass(r) \/ Refuse(r, 429))

\* A preflight of an allowed origin is answered.
CORS(r) ==
  /\ In(r, "cors")
  /\ IF kind[r].preflight THEN Refuse(r, 204) ELSE Pass(r)

\* Nothing is left to do on the way out.
LeaveEdge(r) ==
  /\ \E name \in {"https", "ips", "rate", "cors"} : Leaving(r, name)
  /\ pos' = [pos EXCEPT ![r] = 0]
  /\ UNCHANGED <<conf, permits, kind, dir, plugs, reply, wire, logVars>>

----------------------------------------------------------------------------
(* PluginMiddleware *)

\* The hooks of every plugin, then the plugins in turn until one handles the
\* request.
RunPlugins(r, n) ==
  /\ In(r, "plugins")
  /\ hooks' = [hooks EXCEPT ![r] = Plugins]
  /\ asked' = [asked EXCEPT ![r] = n]

\* It answers itself, or proxies to the child process or container it keeps;
\* such a proxy switches protocols, and panics when the backend breaks off.
PluginHandles(r) ==
  /\ \E n \in 1..Plugins : RunPlugins(r, n)
  /\ Answer(r, 200) \/ (kind[r].upgrade /\ Answer(r, 101))
  /\ dir' = [dir EXCEPT ![r] = "out"]
  /\ UNCHANGED <<conf, permits, kind, pos, spoilt, reply, coding, body, logVars>>

PluginAborts(r) ==
  /\ \E n \in 1..Plugins : RunPlugins(r, n)
  /\ Answer(r, 200)
  /\ dir' = [dir EXCEPT ![r] = "panic"]
  /\ UNCHANGED <<conf, permits, kind, pos, spoilt, reply, coding, body, logVars>>

PluginsPass(r) ==
  /\ RunPlugins(r, Plugins) /\ Forward(r)
  /\ UNCHANGED <<conf, permits, kind, spoilt, reply, wire, logVars>>

\* DockerStandardPlugin: the container did not start; the error is written
\* and the request passed on.
PluginSpoils(r) ==
  /\ Plugins > 0
  /\ RunPlugins(r, Plugins) /\ Forward(r)
  /\ Answer(r, 500) /\ spoilt' = [spoilt EXCEPT ![r] = TRUE]
  /\ UNCHANGED <<conf, permits, kind, reply, coding, body, logVars>>

\* AfterRequest is not deferred: a panic skips it.
LeavePlugins(r) ==
  /\ Leaving(r, "plugins") /\ Back(r)
  /\ hooks' = IF dir[r] = "out" THEN [hooks EXCEPT ![r] = 0] ELSE hooks
  /\ UNCHANGED <<conf, permits, kind, asked, spoilt, reply, wire, logVars>>

----------------------------------------------------------------------------
(* ConcurrencyMiddleware *)

Acquire(r) ==
  /\ In(r, "cap") /\ permits < conf.max
  /\ permits' = permits + 1 /\ Forward(r)
  /\ UNCHANGED <<conf, kind, plugs, reply, wire, logVars>>
Saturated(r) == In(r, "cap") /\ permits >= conf.max /\ Refuse(r, 503)

Undeferred(r) == dir[r] = "out"  \* fault: a panic keeps the token
Released(r) == TRUE              \* the release is deferred
Release(r) ==
  /\ Leaving(r, "cap") /\ Back(r)
  /\ permits' = IF Released(r) THEN permits - 1 ELSE permits
  /\ UNCHANGED <<conf, kind, plugs, reply, wire, logVars>>

----------------------------------------------------------------------------
(* GzipMiddleware, smartGzipWriter and the writer of the logging middleware *)

WrapGzip(r) ==
  /\ In(r, "gzip") /\ Forward(r)
  /\ gzip' = [gzip EXCEPT ![r].on = kind[r].gzip]
  /\ UNCHANGED <<conf, permits, kind, plugs, site, status, wire, logVars>>

\* checkCompression: decided once, at the first WriteHeader, for what the
\* header says then.
Recheck(g, r, code, coded, text) ==  \* fault: decided at every WriteHeader
  IF ~g.on THEN g
  ELSE [g EXCEPT !.checked = TRUE, !.status = code,
                 !.compress = coded = "none" /\ ~kind[r].range /\ text]
Check(g, r, code, coded, text) ==
  IF ~g.on \/ g.checked THEN g
  ELSE [g EXCEPT !.checked = TRUE, !.status = code,
                 !.compress = coded = "none" /\ ~kind[r].range /\ text]

\* The deferred Close ends the compressed stream, whose last bytes send the
\* header if nothing has; a hijacked connection takes none of them.
CloseGzip(r) ==
  /\ Leaving(r, "gzip") /\ Back(r)
  /\ IF gzip[r].compress /\ sent[r] # 101
     THEN Answer(r, 200) /\ body' = [body EXCEPT ![r] = @ \cup {"gzip"}]
     ELSE UNCHANGED <<sent, body>>
  /\ UNCHANGED <<conf, permits, kind, plugs, reply, coding, logVars>>

WrapLogging(r) ==
  /\ In(r, "logging") /\ Forward(r)
  /\ status' = [status EXCEPT ![r] = 200]
  /\ UNCHANGED <<conf, permits, kind, plugs, site, gzip, wire, logVars>>

----------------------------------------------------------------------------
(* The handler of the site: static files or a reverse proxy *)

FirstStatus(r, code) ==  \* fault: the first code is taken for the final one
  status' = IF conf.logging /\ status[r] = 200 THEN [status EXCEPT ![r] = code] ELSE status
SetStatus(r, code) ==
  status' = IF conf.logging THEN [status EXCEPT ![r] = code] ELSE status

\* A proxy forwards an informational response with the header set so far: the
\* backend's fields and the site's custom ones. Then it clears the header.
Inform(r, coded, text) ==
  /\ In(r, "site") /\ conf.serves # "files" /\ site[r] \in {"new", "informed"}
  /\ site' = [site EXCEPT ![r] = "informed"]
  /\ SetStatus(r, 103)
  /\ gzip' = [gzip EXCEPT ![r] = Check(@, r, 103, coded, text)]
  /\ UNCHANGED <<conf, permits, kind, dir, pos, plugs, wire, logVars>>

\* coded: the handler's own Content-Encoding; text: a compressible type. The
\* server ignores the call when a header is out already.
WriteHeader(r, code, coded, text) ==
  /\ In(r, "site") /\ site[r] \in {"new", "informed"}
  /\ site' = [site EXCEPT ![r] = coded]
  /\ SetStatus(r, code)
  /\ gzip' = [gzip EXCEPT ![r] = Check(@, r, code, coded, text)]
  /\ Answer(r, code)
  /\ coding' = IF sent[r] # 0 THEN coding ELSE
       [coding EXCEPT ![r] = IF ~gzip[r].checked /\ gzip'[r].compress THEN "gzip" ELSE coded]
  /\ UNCHANGED <<conf, permits, kind, dir, pos, plugs, body, logVars>>

Write(r) ==
  /\ In(r, "site") /\ site[r] \in {"none", "own"}
  /\ body' = [body EXCEPT ![r] = @ \cup {IF gzip[r].compress THEN "gzip" ELSE site[r]}]
  /\ UNCHANGED <<conf, permits, kind, dir, pos, plugs, reply, sent, coding, logVars>>

\* A proxy switches protocols: the answer goes around every writer. Behind the
\* balancer's trackWriter the connection cannot be had: to it, a failure.
Hijack(r) ==
  /\ In(r, "site") /\ conf.serves = "proxy" /\ kind[r].upgrade
  /\ site[r] \in {"new", "informed"}
  /\ Answer(r, 101) /\ Move(r, "out")
  /\ UNCHANGED <<conf, permits, kind, plugs, reply, coding, body, logVars>>

\* The balancer does not try again when something was written, be it only an
\* informational response: no final answer is given then.
SiteReturns(r) ==
  /\ In(r, "site") /\ Move(r, "out")
  /\ site[r] \in {"none", "own"} \/ (site[r] = "informed" /\ conf.serves = "balancer")
  /\ UNCHANGED <<conf, permits, kind, plugs, reply, wire, logVars>>

\* A proxy whose backend breaks off panics with http.ErrAbortHandler; a
\* handler may also fail.
SitePanics(r) ==
  /\ In(r, "site") /\ Move(r, "panic")
  /\ UNCHANGED <<conf, permits, kind, plugs, reply, wire, logVars>>

----------------------------------------------------------------------------
(* LoggingMiddleware, on the way out *)

Line(r) == [req |-> r, status |-> status[r]]
Point(r, d) == dir' = [dir EXCEPT ![r] = d] /\ UNCHANGED pos

LogGet(r) ==
  /\ Out(r, "logging") /\ GetEntry(r) /\ Point(r, "fill")
  /\ UNCHANGED <<conf, permits, kind, plugs, reply, wire>>
LogFill(r) ==
  /\ dir[r] = "fill" /\ Fill(r, Line(r)) /\ Point(r, "log")
  /\ UNCHANGED <<conf, permits, kind, plugs, reply, wire>>
LogSend(r) ==
  /\ dir[r] = "log" /\ (Send(r) \/ Drop(r)) /\ Move(r, "out")
  /\ UNCHANGED <<conf, permits, kind, plugs, reply, wire>>

\* A panic is not logged.
SkipLogging(r) ==
  /\ Reached(r, {"panic"}, "logging") /\ Back(r)
  /\ UNCHANGED <<conf, permits, kind, plugs, reply, wire, logVars>>

----------------------------------------------------------------------------
Edge(r) == ForceHTTPS(r) \/ IPFilter(r) \/ RateLimit(r) \/ CORS(r) \/ LeaveEdge(r)
PluginStep(r) ==
  PluginHandles(r) \/ PluginAborts(r) \/ PluginsPass(r) \/ PluginSpoils(r) \/ LeavePlugins(r)
Cap(r) == Acquire(r) \/ Saturated(r) \/ Release(r)
Wrapper(r) == WrapGzip(r) \/ CloseGzip(r) \/ WrapLogging(r)
Site(r) ==
  \/ \E a \in Responses[r] :
       WriteHeader(r, a.code, a.coded, a.text) \/ Inform(r, a.coded, a.text)
  \/ Write(r) \/ Hijack(r) \/ SiteReturns(r) \/ SitePanics(r)
Logging(r) == LogGet(r) \/ LogFill(r) \/ LogSend(r) \/ SkipLogging(r)
WorkerStep ==
  Worker /\ UNCHANGED <<conf, permits, kind, dir, pos, plugs, reply, wire>>

Next ==
  \/ \E r \in Requests :
       Arrive(r) \/ Finish(r) \/ Edge(r) \/ PluginStep(r) \/ Cap(r) \/ Wrapper(r) \/ Site(r) \/ Logging(r)
  \/ WorkerStep

Spec == Init /\ [][Next]_vars /\ WF_vars(WorkerStep)

----------------------------------------------------------------------------
(* Properties *)

Ended == {"done", "aborted"}

TypeOK ==
  /\ LogTypeOK
  /\ conf \in Configs /\ permits \in 0..conf.max
  /\ \A r \in Requests : kind[r] \in Kinds[r]
  /\ dir \in [Requests -> {"idle", "in", "out", "panic", "fill", "log"} \cup Ended]
  /\ \A r \in Requests : pos[r] \in 0..Len(Chain(conf))
  /\ hooks \in [Requests -> 0..Plugins] /\ asked \in [Requests -> 0..Plugins]
  /\ spoilt \in [Requests -> BOOLEAN]
  /\ site \in [Requests -> {"new", "informed", "none", "own"}]
  /\ status \in [Requests -> Codes]
  /\ gzip \in [Requests -> [on : BOOLEAN, checked : BOOLEAN, compress : BOOLEAN, status : Codes]]
  /\ sent \in [Requests -> Codes] /\ coding \in [Requests -> {"none", "own", "gzip"}]
  /\ body \in [Requests -> SUBSET {"none", "own", "gzip"}]

\* The tokens taken are those of the requests inside the cap, whatever way
\* they leave (concurrency.go:8-25): no panic costs the site a connection for
\* good, and the site's handler never serves more requests than the cap.
Inside(r) ==
  \E i \in 1..Len(Chain(conf)) :
    /\ Chain(conf)[i] = "cap"
    /\ i < pos[r] \/ (i = pos[r] /\ dir[r] \in {"out", "panic"})
TokensMatchRequests ==
  conf.max > 0 => permits = Cardinality({r \in Requests : Inside(r)})

\* A plugin sees all of a request or nothing. The edge is outside of everything
\* that costs (handler.go:83-105): a request it refuses reaches no plugin, which
\* might start a process for it, and takes no token of the cap. And whoever
\* handles the request, AfterRequest follows BeforeRequest (plugin.go:162-196),
\* unless the handler panics.
RefusedByEdge(r) ==
  /\ pos[r] > 0
  /\ \/ conf.https /\ ~kind[r].tls
     \/ conf.ips /\ kind[r].nets # {"allow"}
     \/ sent[r] = 429
PluginsSeeAllOrNothing ==
  \A r \in Requests :
    /\ RefusedByEdge(r) => asked[r] = 0 /\ ~Inside(r) /\ sent[r] \in {0, 301, 403, 429}
    /\ dir[r] = "done" => hooks[r] = 0

\* What a client decodes is what the header announces (gzip.go:79-186): bytes
\* the compressor wrote go with its Content-Encoding and nothing else does,
\* however informational responses, ranges, encodings of the backend, panics
\* and the deferred Close mix. Two exceptions: a plugin had answered already; or
\* the compressor made up its mind to compress at an informational response, for
\* the proxy clears the header after it and the final one is not looked at
\* again. All of the body is compressed then, and nothing announces it.
Misled(r) == gzip[r].compress /\ gzip[r].status = 103
BodyMatchesHeader ==
  \A r \in Requests :
    spoilt[r] \/ body[r] \subseteq {IF Misled(r) THEN "gzip" ELSE coding[r]}

\* The access log says what the client got (middleware.go:48-60): whatever
\* becomes of the line and of the entry that carries it, its status is the one
\* sent, and no request has two lines. Exceptions: an answer a plugin wrote
\* before it passed the request on is not seen; switched protocols are logged
\* with what the writer saw before; and a balancer that gave up after an
\* informational response (loadbalancer.go:111-118) is logged with that one's
\* status, while the client gets an empty 200.
Ledger == log \o lost \o Waiting
Tells(code, r) ==
  \/ code = sent[r]
  \/ sent[r] = 101 /\ code \in {103, 200}
  \/ conf.serves = "balancer" /\ code = 103 /\ sent[r] \in {0, 200}
LoggedAsSent ==
  /\ \A i \in 1..Len(Ledger) : LET l == Ledger[i] IN spoilt[l.req] \/ Tells(l.status, l.req)
  /\ \A i, j \in 1..Len(Ledger) : Ledger[i].req = Ledger[j].req => i = j

=============================================================================
