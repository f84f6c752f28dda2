------------------------------ MODULE Servers ------------------------------
(***************************************************************************)
(* StartServers: from the site files to the servers that listen, in whatever *)
(* order the files are read and the ports started, and which site, over    *)
(* which certificate, a request then reaches; with the rules of `goup      *)
(* validate'.  The DNS server beside them answers as DnsHandler says.      *)
(*                                                                         *)
(* The API, the dashboard, the drain: module Lifecycle.                    *)
(***************************************************************************)
EXTENDS DnsHandler, FiniteSets

CONSTANTS
  Sites,    \* the site files
  Options,  \* bound: what they may say, see SiteConfig
  DnsConfigs, \* bound: what the DNS configuration may say
  Queries,  \* bound: the queries a client may send
  None, Failed, Unbound

\* serve: what the handler is made of; url: the URLs to proxy to parse; ssl:
\* certificate files that load ("files") or not ("broken"), or are not given
\* ("incomplete"), or ACME.
SiteConfig ==
  [domain : STRING, port : Nat, serve : {"static", "proxy", "upstreams"}, url : BOOLEAN,
   root : {"none", "there", "missing"}, ssl : {"off", "files", "broken", "incomplete", "acme"}]

\* A server that was started: what it serves, the first ones first, is known by
\* its place in the list of the sites that were read.
Server == [handlers : SUBSET Nat, tls : BOOLEAN, certs : SUBSET Nat, acme : SUBSET STRING]

ASSUME ServersAssumption ==
  /\ Sites # {} /\ IsFiniteSet(Sites)
  /\ Options # {} /\ Options \subseteq SiteConfig
  /\ None # Failed /\ None # Unbound /\ Failed # Unbound
  /\ {None, Failed, Unbound} \cap Server = {}
  /\ DnsConfigs # {} /\ \A c \in DnsConfigs : DnsConfig(c)
  /\ \A q \in Queries : DnsQuery(q)

VARIABLES
  mode,    \* what StartServers starts, "web" or "dns": they share nothing
  dns,     \* the DNS configuration
  reply,   \* the last query and the reply to it, or None
  conf,    \* what each file says
  configs, \* the sites in the order they were read
  phase,   \* "load", "plugins", then "servers" or "given up"; "dns"
  loggers, \* the identifiers whose logger was set up
  inited,  \* the sites whose plugins were all initialised
  lame,    \* those where one failed: the plugins after it never see the site
  server   \* per port: the server that was started, None, Failed, or Unbound:
           \* its port could not be bound

dnsVars == <<mode, dns, reply>>
vars == <<dnsVars, conf, configs, phase, loggers, inited, lame, server>>

Ports == {o.port : o \in Options}
Said(i) == conf[configs[i]]
On(p) == {i \in 1..Len(configs) : Said(i).port = p}
Used  == {conf[s].port : s \in Sites}

\* A port of one site goes by its domain.
Alone(p) == \E i \in On(p) : On(p) = {i}
Identifier(p) == IF Alone(p) THEN <<Said(Min(On(p))).domain>> ELSE <<"port", p>>
Identifiers == {Identifier(p) : p \in Used}
Logged(p) == Identifier(p) \in loggers

Init ==
  /\ \/ /\ mode = "web" /\ dns = CHOOSE c \in DnsConfigs : TRUE
        /\ conf \in [Sites -> Options]
     \/ /\ mode = "dns" /\ dns \in DnsConfigs
        /\ conf = [s \in Sites |-> CHOOSE o \in Options : TRUE]
  /\ reply = None
  /\ configs = <<>> /\ phase = "load"
  /\ loggers = {} /\ inited = {} /\ lame = {}
  /\ server = [p \in Ports |-> None]

----------------------------------------------------------------------------
(* Start-up *)

\* LoadAllConfigs: a goroutine per file appends to the list.
LoadFile(s) ==
  /\ phase = "load" /\ s \notin ToSet(configs)
  /\ configs' = Append(configs, s)
  /\ UNCHANGED <<dnsVars, conf, phase, loggers, inited, lame, server>>

\* launchWebComponents: a logger per identifier; those that fail are missing.
OpenLoggers ==
  /\ mode = "web" /\ phase = "load" /\ ToSet(configs) = Sites
  /\ phase' = "plugins"
  /\ loggers' \in SUBSET Identifiers
  /\ UNCHANGED <<dnsVars, conf, configs, inited, lame, server>>

Tried == inited \cup lame

\* InitPlugins comes first: at a plugin's error nothing else is started.
GiveUp ==
  /\ phase = "plugins" /\ Tried = {}
  /\ phase' = "given up"
  /\ UNCHANGED <<dnsVars, conf, configs, loggers, inited, lame, server>>

\* InitPluginsForSite, port after port, stops at a plugin's error, which is only
\* logged.
InitSite(s) ==
  /\ phase = "plugins" /\ s \notin Tried /\ Logged(conf[s].port)
  /\ \/ inited' = inited \cup {s} /\ UNCHANGED lame
     \/ lame' = lame \cup {s} /\ UNCHANGED inited
  /\ UNCHANGED <<dnsVars, conf, configs, phase, loggers, server>>

\* Only then the ports are started, each in a goroutine.
ToInit == {s \in Sites : Logged(conf[s].port)}
AnyInited == phase = "plugins" /\ Tried # {}  \* fault: as soon as one site is
AllInited == phase = "plugins" /\ Tried = ToInit
Wire ==
  /\ AllInited
  /\ phase' = "servers"
  /\ UNCHANGED <<dnsVars, conf, configs, loggers, inited, lame, server>>

\* createHandler, for the site's upstreams or its URL.
HandlerOK(c) == c.serve = "static" \/ c.url

\* startSingleServer checks the root directory unless the site has a proxy_pass.
RootOK(c) == c.serve = "proxy" \/ c.root # "missing"

\* setupTLS
WithSSL(is, kind) == {i \in is : Said(i).ssl = kind}

Started(is) ==
  [handlers |-> {i \in is : HandlerOK(Said(i))},
   tls   |-> \E i \in is : Said(i).ssl # "off",
   certs |-> WithSSL(is, "files"),
   acme  |-> {Said(i).domain : i \in WithSSL(is, "acme")}]

\* ListenAndServeTLS has nothing to serve without a certificate.
AnyListens(v) == TRUE  \* fault: a server without a certificate counts as started
Listens(v) == v.tls => v.certs # {} \/ v.acme # {}

Starts(p) == Alone(p) => \A i \in On(p) : HandlerOK(Said(i)) /\ RootOK(Said(i))
Outcomes(p) ==
  IF Starts(p) /\ Listens(Started(On(p))) THEN {Started(On(p)), Unbound} ELSE {Failed}

StartPort(p) ==
  /\ phase = "servers" /\ p \in Used /\ server[p] = None /\ Logged(p)
  /\ \E v \in Outcomes(p) : server' = [server EXCEPT ![p] = v]
  /\ UNCHANGED <<dnsVars, conf, configs, phase, loggers, inited, lame>>

\* launchDNS
StartDNS ==
  /\ mode = "dns" /\ phase = "load" /\ ToSet(configs) = Sites
  /\ phase' = "dns"
  /\ UNCHANGED <<dnsVars, conf, configs, loggers, inited, lame, server>>

Query ==
  /\ phase = "dns"
  /\ \E q \in Queries :
       reply' = [query |-> q, msg |-> ServeDNS(dns, q.client, q.questions, q.udp, q.size)]
  /\ UNCHANGED <<mode, dns, conf, configs, phase, loggers, inited, lame, server>>

----------------------------------------------------------------------------
(* A request *)

\* The radix tree keeps the last handler of a domain; an unknown host gets the
\* first handler of the port. A port of one site has no tree.
FirstOf(hs) == IF hs = {} THEN None ELSE configs[Min(hs)]
FirstWins(p, host) == FirstOf(server[p].handlers)  \* fault: every host gets the first handler
Route(p, host) ==
  LET own == {i \in server[p].handlers : Said(i).domain = host}
  IN  IF ~Alone(p) /\ own # {} THEN configs[Max(own)] ELSE FirstOf(server[p].handlers)

\* A certificate file that fits the name; then ACME, for its hosts, or else the
\* first of the files.
Certificate(p, name) ==
  LET v == server[p]
      fits == {i \in v.certs : Said(i).domain = name}
  IN  IF fits # {} THEN <<"file", configs[Min(fits)]>>
      ELSE IF v.acme # {} THEN IF name \in v.acme THEN <<"acme", name>> ELSE None
      ELSE <<"file", configs[Min(v.certs)]>>

----------------------------------------------------------------------------
(* goup validate *)

\* SiteConfig.Validate
LaxSSL(c) == TRUE  \* fault: the certificate is not asked for
ValidSSL(c) == c.ssl \in {"off", "files", "broken"}
Valid(c) ==
  /\ c.serve = "static" => c.root = "there"
  /\ c.serve # "static" => c.url
  /\ ValidSSL(c)

\* ValidateAll: what the sites disagree on.
Agree ==
  \A s, t \in Sites : s # t =>
    /\ conf[s].domain # conf[t].domain
    /\ conf[s].port = conf[t].port => (conf[s].ssl = "off" <=> conf[t].ssl = "off")

----------------------------------------------------------------------------
Next ==
  \/ \E s \in Sites : LoadFile(s) \/ InitSite(s)
  \/ OpenLoggers \/ GiveUp \/ Wire \/ StartDNS \/ Query
  \/ \E p \in Ports : StartPort(p)

Spec == Init /\ [][Next]_vars

----------------------------------------------------------------------------
(* Properties *)

Running(p) == server[p] \notin {None, Failed, Unbound}

TypeOK ==
  /\ conf \in [Sites -> Options]
  /\ configs \in Seq(Sites) /\ Len(configs) <= Cardinality(Sites)
  /\ phase \in {"load", "plugins", "given up", "servers", "dns"} /\ mode \in {"web", "dns"}
  /\ loggers \subseteq Identifiers /\ inited \subseteq Sites /\ lame \subseteq Sites
  /\ \A p \in Ports : Running(p) =>
       /\ server[p] \in Server /\ server[p].handlers \subseteq On(p)
       /\ server[p].tls => server[p].certs # {} \/ server[p].acme # {}

\* Nothing is started while plugins are being initialised, nor after they failed
\* to start, for a request reads the maps they fill: once a port was started no
\* site waits for its turn, and one that runs went through all of its plugins or
\* is one whose initialisation failed, which the code serves all the same
\* (server_web.go:70-95, plugin.go:104-117).
InitBeforeServe ==
  (\E p \in Ports : server[p] # None) =>
    /\ phase = "servers" /\ ToInit \subseteq Tried
    /\ \A s \in Sites : Running(conf[s].port) => s \in inited \cup lame

\* The request for the domain of a site reaches this site and no other one on
\* its port, and sees its certificate, unless the configuration of the site
\* itself is at fault or another file has its domain, in whatever order the
\* files were read and whatever is wrong with the others (server.go:106-168,
\* tls.go:18-90).
OwnSite ==
  \A s \in Sites :
    LET p == conf[s].port IN
      Running(p) /\ (\A t \in Sites \ {s} : conf[t].domain # conf[s].domain) =>
        /\ HandlerOK(conf[s]) => Route(p, conf[s].domain) = s
        /\ conf[s].ssl = "files" => Certificate(p, conf[s].domain) = <<"file", s>>

\* Sites that `goup validate' finds nothing wrong with are all served once the
\* ports are started (validate.go:16-139), encrypted exactly if they ask for it,
\* but where the port cannot be bound, whatever became of the other ports, and
\* provided the certificates load, the loggers can be set up, and no site that
\* proxies to upstreams names a root directory that is missing: alone on its
\* port it is not started, although validate takes only static sites to need
\* one.
Sound == \A s \in Sites :
  Valid(conf[s]) /\ conf[s].ssl # "broken" /\ (conf[s].serve = "upstreams" => conf[s].root # "missing")
Served(s) ==
  /\ Running(conf[s].port)
  /\ Route(conf[s].port, conf[s].domain) = s
  /\ server[conf[s].port].tls <=> conf[s].ssl # "off"
AllStarted == phase = "servers" /\ \A p \in Used : Logged(p) => server[p] # None
ValidatedIsServed ==
  AllStarted /\ loggers = Identifiers /\ Sound /\ Agree =>
    \A s \in Sites : server[conf[s].port] = Unbound \/ Served(s)

\* The replies of the DNS server, whatever order the zones come in and whatever
\* questions are mixed in a query.
\*
\* Its own ones (handler.go:100-236) have all the records of the names asked for
\* with the type asked for, and their CNAMEs, unless cut off and marked so; they
\* are NXDOMAIN only for a name that no record has or that is out of all zones,
\* even if it ends like one, and with resolvers no such name is answered here.
OwnReplies ==
  reply # None /\ reply.msg.local =>
    LET qs == ToSet(reply.query.questions)
        inside == {q \in qs : Belongs(dns, q.name)}
        got == {e.rec : e \in ToSet(reply.msg.answers)}
        all == UNION {Expected(dns, q) : q \in inside}
    IN  /\ got \subseteq all /\ (got # all => reply.msg.truncated)
        /\ (reply.msg.rcode = "NXDOMAIN") =
             (inside # qs \/ \E q \in inside : RecordsOf(dns, q.name) = {})
        /\ dns.upstreams # <<>> => inside = qs

\* The forwarder is never open to the public by default (handler.go:57-59): a
\* resolver is asked only for a client of the list, or of the private ranges
\* when there is no list, only about a name out of all zones, and not after
\* another one has answered.
ForwarderIsClosed ==
  reply # None /\ reply.msg.asked > 0 =>
    /\ reply.query.client \in dns.acl \/ (dns.acl = {} /\ reply.query.client = "private")
    /\ \E q \in ToSet(reply.query.questions) : ~Belongs(dns, q.name)
    /\ \A i \in 1..(reply.msg.asked - 1) : dns.upstreams[i] < 0

\* Both of them.
DnsReplies == OwnReplies /\ ForwarderIsClosed

=============================================================================
