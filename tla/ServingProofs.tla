--------------------------- MODULE ServingProofs ---------------------------
(***************************************************************************)
(* Proofs about what a request is served: the site it reaches (Servers),   *)
(* the file it gets there (SiteFiles), and what the DNS server answers     *)
(* (DnsHandler, as Servers uses it).  They share nothing but this module.  *)
(*                                                                         *)
(* About Servers for any set of site files and whatever they say: the      *)
(* types; the start-up is done with the plugins of a site before its port  *)
(* serves; a request for a site's domain reaches this site; and what       *)
(* `goup validate' accepts is served.                                      *)
(*                                                                         *)
(* About SiteFiles for any paths, directories and files, and however the   *)
(* disk changes between two steps: a path is clean however it is written;  *)
(* nothing hidden is served; a script is run and not sent; and a           *)
(* validator is honest.                                                    *)
(*                                                                         *)
(* About the DNS server for any zones, records, lists, resolvers and       *)
(* queries: it answers what the records say, and the forwarder is closed.  *)
(***************************************************************************)
EXTENDS Servers, SiteFiles, FiniteSetTheorems, SequenceTheorems,
        NaturalsInduction, WellFoundedInduction, TLAPS

----------------------------------------------------------------------------
(* The list of the sites *)

\* The sorts of the other variables.
Sorts ==
  /\ phase \in {"load", "plugins", "given up", "servers", "dns"} /\ mode \in {"web", "dns"}
  /\ inited \subseteq Sites /\ lame \subseteq Sites

\* Every file is read once, and all of them before anything is started.
Reading ==
  /\ conf \in [Sites -> Options] /\ configs \in Seq(Sites)
  /\ \A i, j \in 1..Len(configs) : configs[i] = configs[j] => i = j
  /\ phase # "load" => \A s \in Sites : \E i \in 1..Len(configs) : configs[i] = s
  /\ phase = "load" => loggers = {}
  /\ loggers \subseteq Identifiers /\ Sorts

\* The first states.
LEMMA ReadingInit == Init => Reading
<1> SUFFICES ASSUME Init PROVE Reading
  OBVIOUS
<1>1. (CHOOSE o \in Options : TRUE) \in Options
  BY ServersAssumption
<1>2. conf \in [Sites -> Options]
  BY <1>1 DEF Init
<1>3. configs = <<>> /\ phase = "load" /\ loggers = {} /\ inited = {} /\ lame = {} /\ mode \in {"web", "dns"}
  BY DEF Init
<1> QED BY <1>2, <1>3 DEF Reading, Sorts

\* What the list says is the same as long as the list is.
LEMMA SaidStays ==
  ASSUME UNCHANGED <<conf, configs>>
  PROVE  /\ Identifiers' = Identifiers /\ ToInit = {s \in Sites : Identifier(conf[s].port) \in loggers}
         /\ Used' = Used
         /\ \A p : On(p)' = On(p) /\ Identifier(p)' = Identifier(p) /\ Outcomes(p)' = Outcomes(p)
<1>1. \A i : Said(i)' = Said(i)
  BY DEF Said
<1>2. \A p : On(p)' = On(p)
  BY <1>1 DEF On
<1>3. \A p : Alone(p)' = Alone(p)
  BY <1>2 DEF Alone
<1>4. \A p : Identifier(p)' = Identifier(p)
  BY <1>1, <1>2, <1>3 DEF Identifier
<1>5. Used' = Used
  BY DEF Used
<1>6. \A p : Starts(p)' = Starts(p) /\ Started(On(p))' = Started(On(p))
  BY <1>1, <1>2, <1>3 DEF Starts, Started, WithSSL
<1>7. \A p : Outcomes(p)' = Outcomes(p)
  BY <1>2, <1>6 DEF Outcomes, Listens
<1> QED BY <1>2, <1>4, <1>5, <1>7 DEF Identifiers, ToInit, Logged

\* Every step keeps it.
LEMMA ReadingKept == ASSUME Reading, [Next]_vars PROVE Reading'
<1> USE DEF dnsVars
<1>1. ASSUME NEW s \in Sites, LoadFile(s) PROVE Reading'
  <2>1. /\ phase = "load" /\ s \notin ToSet(configs) /\ configs' = Append(configs, s)
        /\ UNCHANGED <<mode, conf, phase, loggers, inited, lame>>
    BY <1>1 DEF LoadFile
  <2>2. \A i \in 1..Len(configs) : configs[i] # s
    BY <2>1 DEF ToSet, Reading
  <2>3. /\ configs' \in Seq(Sites) /\ Len(configs') = Len(configs) + 1 /\ Len(configs) \in Nat
        /\ configs'[Len(configs) + 1] = s /\ \A i \in 1..Len(configs) : configs'[i] = configs[i]
    BY <2>1, AppendProperties DEF Reading
  <2>4. \A i \in 1..Len(configs') : i = Len(configs) + 1 \/ i \in 1..Len(configs)
    BY <2>3
  <2>5. \A i, j \in 1..Len(configs') : configs'[i] = configs'[j] => i = j
    BY <2>2, <2>3, <2>4 DEF Reading
  <2>6. Sorts'
    BY <2>1 DEF Reading, Sorts
  <2> QED BY <2>1, <2>3, <2>5, <2>6 DEF Reading
<1>2. CASE UNCHANGED <<conf, configs>> /\ (phase = "load" \/ UNCHANGED loggers)
           /\ Sorts' /\ loggers' \subseteq Identifiers /\ (phase' = "load" => loggers' = {})
           /\ (phase = "load" /\ phase' # "load" => ToSet(configs) = Sites)
  <2>1. phase' # "load" => \A s \in Sites : \E i \in 1..Len(configs) : configs[i] = s
    <3>1. CASE phase = "load"
      BY <1>2, <3>1 DEF ToSet, Reading
    <3>2. CASE phase # "load"
      BY <3>2 DEF Reading
    <3> QED BY <3>1, <3>2
  <2> QED BY <1>2, <2>1, SaidStays DEF Reading
<1>3. ASSUME NEW s \in Sites, InitSite(s) PROVE Reading'
  BY <1>2, <1>3 DEF InitSite, Reading, Sorts
<1>4. CASE OpenLoggers
  BY <1>2, <1>4 DEF OpenLoggers, Reading, Sorts
<1>5. CASE Wire
  BY <1>2, <1>5 DEF Wire, AllInited, Reading, Sorts
<1>6. CASE StartDNS
  <2>1. Sorts'
    BY <1>6 DEF StartDNS, Reading, Sorts
  <2>2. loggers = {} /\ loggers' = {}
    BY <1>6 DEF StartDNS, Reading
  <2> QED BY <1>2, <1>6, <2>1, <2>2 DEF StartDNS
<1>7. CASE Query
  BY <1>2, <1>7 DEF Query, Reading, Sorts
<1>8. ASSUME NEW p \in Ports, StartPort(p) PROVE Reading'
  BY <1>2, <1>8 DEF StartPort, Reading, Sorts
<1>9. CASE GiveUp
  BY <1>2, <1>9 DEF GiveUp, Reading, Sorts
<1>10. CASE UNCHANGED vars
  BY <1>2, <1>10 DEF vars, Reading, Sorts
<1> QED BY <1>1, <1>3, <1>4, <1>5, <1>6, <1>7, <1>8, <1>9, <1>10 DEF Next

----------------------------------------------------------------------------
(* The order of the start *)

\* The ports are started last, those with a logger, over a configuration that
\* does not change any more, as it says; the plugins are done with by then.
Stages ==
  /\ phase \in {"plugins", "servers"} => mode = "web"
  /\ phase = "servers" => ToInit \subseteq Tried
  /\ server = [p \in Ports |-> server[p]]
  /\ \A p \in Ports : server[p] # None =>
       phase = "servers" /\ p \in Used /\ Logged(p) /\ server[p] \in Outcomes(p)

\* Every step keeps the stages in order.
LEMMA StagesKept == ASSUME Stages, [Next]_vars PROVE Stages'
<1> USE DEF dnsVars
<1>1. ASSUME UNCHANGED <<configs, conf, loggers>>
      PROVE  /\ ToInit' = ToInit /\ Used' = Used
             /\ \A p : (Logged(p)' <=> Logged(p)) /\ Outcomes(p)' = Outcomes(p)
  <2>1. \A p : Logged(p)' <=> Logged(p)
    BY <1>1, SaidStays DEF Logged
  <2> QED BY <1>1, <2>1, SaidStays DEF ToInit
<1>2. ASSUME UNCHANGED server, phase # "servers", phase' # "servers",
             phase' = "plugins" => mode' = "web"
      PROVE  Stages'
  BY <1>2 DEF Stages
<1>3. ASSUME NEW s \in Sites, LoadFile(s) PROVE Stages'
  BY <1>2, <1>3 DEF LoadFile
<1>4. ASSUME NEW s \in Sites, InitSite(s) PROVE Stages'
  BY <1>2, <1>4 DEF InitSite, Stages
<1>5. CASE OpenLoggers
  BY <1>2, <1>5 DEF OpenLoggers
<1>6. CASE Wire
  BY <1>1, <1>6 DEF Wire, AllInited, Tried, Stages
<1>7. CASE StartDNS
  BY <1>2, <1>7 DEF StartDNS
<1>8. CASE Query
  BY <1>2, <1>8 DEF Query
<1>9. ASSUME NEW p \in Ports, StartPort(p) PROVE Stages'
  <2>1. /\ phase = "servers" /\ p \in Used /\ Logged(p)
        /\ UNCHANGED <<dnsVars, conf, configs, phase, loggers, inited, lame>>
    BY <1>9 DEF StartPort
  <2>2. PICK v \in Outcomes(p) : server' = [server EXCEPT ![p] = v]
    BY <1>9 DEF StartPort
  <2>3. server' = [q \in Ports |-> server'[q]]
    BY <2>2 DEF Stages
  <2>4. server'[p] = v /\ \A q \in Ports \ {p} : server'[q] = server[q]
    BY <2>2 DEF Stages
  <2>5. Tried' = Tried
    BY <2>1 DEF Tried
  <2> QED BY <1>1, <2>1, <2>3, <2>4, <2>5 DEF Stages
<1>10. CASE GiveUp
  BY <1>2, <1>10 DEF GiveUp, Stages
<1>11. CASE UNCHANGED vars
  BY <1>1, <1>11 DEF vars, Tried, Stages
<1> QED BY <1>3, <1>4, <1>5, <1>6, <1>7, <1>8, <1>9, <1>10, <1>11 DEF Next

\* Both are invariants.
LEMMA StartInv == Spec => [](Reading /\ Stages)
<1>1. Init => Reading /\ Stages
  BY ReadingInit DEF Init, Stages
<1>2. Reading /\ Stages /\ [Next]_vars => (Reading /\ Stages)'
  BY ReadingKept, StagesKept
<1> QED BY <1>1, <1>2, PTL DEF Spec

\* Nothing serves before every site with a logger went through its plugins, or
\* was left at the one that failed, nor after the plugins failed to start
\* (server_web.go:70-95), whichever loggers could not be set up.
THEOREM PluginsFirst == Spec => []InitBeforeServe
<1>1. Reading /\ Stages => InitBeforeServe
  <2> SUFFICES ASSUME Reading, Stages, NEW p \in Ports, server[p] # None
               PROVE  /\ phase = "servers" /\ ToInit \subseteq Tried
                      /\ \A s \in Sites : Running(conf[s].port) => s \in inited \cup lame
    BY DEF InitBeforeServe
  <2>1. phase = "servers" /\ ToInit \subseteq Tried
    BY DEF Stages
  <2>2. ASSUME NEW s \in Sites, Running(conf[s].port) PROVE s \in inited \cup lame
    <3>1. conf[s].port \in Ports
      BY DEF Reading, Ports
    <3>2. s \in ToInit
      BY <2>2, <3>1 DEF Stages, Running, ToInit
    <3> QED BY <2>1, <3>2 DEF Tried
  <2> QED BY <2>1, <2>2
<1> QED BY <1>1, StartInv, PTL

----------------------------------------------------------------------------
(* What is started, and who reaches it *)

\* What a file says is a site's configuration.
LEMMA SaidTypes ==
  ASSUME Reading, NEW i \in 1..Len(configs)
  PROVE  configs[i] \in Sites /\ Said(i) \in SiteConfig
<1>1. configs[i] \in Sites
  BY DEF Reading
<1> QED BY <1>1, ServersAssumption DEF Said, Reading

\* A port that runs is what its sites make of it.
LEMMA RunningIs ==
  ASSUME Reading, Stages, NEW p \in Ports, Running(p)
  PROVE  /\ phase = "servers" /\ server[p] = Started(On(p))
         /\ Starts(p) /\ Listens(Started(On(p)))
         /\ On(p) \subseteq 1..Len(configs)
         /\ server[p].handlers = {i \in On(p) : HandlerOK(Said(i))}
         /\ server[p].certs = {i \in On(p) : Said(i).ssl = "files"}
<1>1. phase = "servers" /\ server[p] = Started(On(p)) /\ Starts(p) /\ Listens(Started(On(p)))
  BY DEF Running, Stages, Outcomes
<1>2. /\ Started(On(p)).handlers = {i \in On(p) : HandlerOK(Said(i))}
      /\ Started(On(p)).certs = {i \in On(p) : Said(i).ssl = "files"}
  BY DEF Started, WithSSL
<1>3. On(p) \subseteq 1..Len(configs)
  BY DEF On
<1> QED BY <1>1, <1>2, <1>3

\* What is started is a server.
LEMMA StartedTypes ==
  ASSUME Reading, NEW is \in SUBSET (1..Len(configs))
  PROVE  Started(is) \in Server /\ Started(is).handlers \subseteq is
<1>1. 1..Len(configs) \subseteq Nat
  BY DEF Reading
<1>2. {i \in is : HandlerOK(Said(i))} \in SUBSET Nat /\ WithSSL(is, "files") \in SUBSET Nat
  BY <1>1 DEF WithSSL
<1>3. {Said(i).domain : i \in WithSSL(is, "acme")} \in SUBSET STRING
  <2>1. ASSUME NEW i \in WithSSL(is, "acme") PROVE Said(i).domain \in STRING
    BY SaidTypes DEF WithSSL, SiteConfig
  <2> QED BY <2>1
<1> QED BY <1>2, <1>3 DEF Started, Server

\* Every reachable state is well typed, for any site files: each is listed at
\* most once, and a port that serves has handlers of its own sites only and a
\* certificate or ACME if it is to encrypt (server_web.go:32-124).
THEOREM ServersTypeCorrect == Spec => []TypeOK
<1>1. Reading /\ Stages => TypeOK
  <2> SUFFICES ASSUME Reading, Stages PROVE TypeOK
    OBVIOUS
  <2>1. Len(configs) <= Cardinality(Sites)
    <3>1. /\ Len(configs) \in Nat /\ configs \in [1..Len(configs) -> Sites]
          /\ \A i, j \in 1..Len(configs) : configs[i] = configs[j] => i = j
      BY DEF Reading
    <3>2. configs \in Injection(1..Len(configs), Sites)
      BY <3>1 DEF Injection, IsInjective
    <3>3. Cardinality(1..Len(configs)) = Len(configs)
      <4>1. 1 \in Int /\ Len(configs) \in Int
        BY <3>1
      <4>2. Cardinality(1..Len(configs)) =
              IF 1 > Len(configs) THEN 0 ELSE Len(configs) - 1 + 1
        BY <4>1, FS_Interval, Zenon
      <4> QED BY <3>1, <4>2
    <3> QED BY <3>2, <3>3, FS_Injection, ServersAssumption
  <2>2. ASSUME NEW p \in Ports, Running(p)
        PROVE  /\ server[p] \in Server /\ server[p].handlers \subseteq On(p)
               /\ server[p].tls => server[p].certs # {} \/ server[p].acme # {}
    BY <2>2, RunningIs, StartedTypes DEF Listens
  <2> QED BY <2>1, <2>2 DEF TypeOK, Reading, Sorts
<1> QED BY <1>1, StartInv, PTL

\* The place of a site in the list, the only one of its domain if no other file
\* has it.
LEMMA PlaceOf ==
  ASSUME Reading, phase # "load", NEW s \in Sites,
         \A t \in Sites \ {s} : conf[t].domain # conf[s].domain
  PROVE  \E i \in On(conf[s].port) :
           /\ configs[i] = s /\ Said(i) = conf[s]
           /\ \A is \in SUBSET (1..Len(configs)) :
                {j \in is : Said(j).domain = conf[s].domain} = {i} \cap is
<1>1. PICK i \in 1..Len(configs) : configs[i] = s
  BY DEF Reading
<1>2. i \in On(conf[s].port) /\ Said(i) = conf[s]
  BY <1>1 DEF On, Said
<1>3. ASSUME NEW j \in 1..Len(configs), j # i PROVE Said(j).domain # conf[s].domain
  BY <1>1, <1>3, SaidTypes DEF Reading, Said
<1> QED BY <1>1, <1>2, <1>3

\* The only one is the first and the last.
LEMMA OnlyOne == \A i \in Nat : Min({i}) = i /\ Max({i}) = i
  BY DEF Min, Max

\* A request for the domain of a site whose handler there is comes to it, unless
\* another file has the domain.
LEMMA RoutedHome ==
  ASSUME Reading, Stages, NEW s \in Sites, Running(conf[s].port), HandlerOK(conf[s]),
         \A t \in Sites \ {s} : conf[t].domain # conf[s].domain
  PROVE  Route(conf[s].port, conf[s].domain) = s
<1> DEFINE p == conf[s].port
           hs == server[p].handlers
<1>1. p \in Ports
  BY DEF Reading, Ports
<1>2. /\ phase = "servers" /\ On(p) \subseteq 1..Len(configs)
      /\ hs = {i \in On(p) : HandlerOK(Said(i))}
  BY <1>1, RunningIs
<1>3. PICK i \in On(p) :
        /\ configs[i] = s /\ Said(i) = conf[s]
        /\ \A is \in SUBSET (1..Len(configs)) : {j \in is : Said(j).domain = conf[s].domain} = {i} \cap is
  BY <1>2, PlaceOf
<1>4. i \in hs /\ i \in Nat /\ {j \in hs : Said(j).domain = conf[s].domain} = {i}
  <2>1. i \in Nat
    BY <1>2 DEF Reading
  <2>2. hs \in SUBSET (1..Len(configs)) /\ i \in hs
    BY <1>2, <1>3
  <2> QED BY <1>3, <2>1, <2>2
<1>5. CASE Alone(p)
  <2>1. hs = {i}
    BY <1>2, <1>4, <1>5 DEF Alone
  <2> QED BY <1>3, <1>4, <1>5, <2>1, OnlyOne DEF Route, FirstOf
<1>6. CASE ~Alone(p)
  BY <1>3, <1>4, <1>6, OnlyOne DEF Route
<1> QED BY <1>5, <1>6

\* The request for the domain of a site reaches this site and no other one on
\* its port, and sees its certificate, whatever order the files were read in and
\* whatever is wrong with the others (server.go:106-168, tls.go:18-90).
THEOREM RequestsReachTheirSite == Spec => []OwnSite
<1>1. Reading /\ Stages => OwnSite
  <2> SUFFICES ASSUME Reading, Stages, NEW s \in Sites, Running(conf[s].port),
                      \A t \in Sites \ {s} : conf[t].domain # conf[s].domain
               PROVE  /\ HandlerOK(conf[s]) => Route(conf[s].port, conf[s].domain) = s
                      /\ conf[s].ssl = "files" =>
                           Certificate(conf[s].port, conf[s].domain) = <<"file", s>>
    BY DEF OwnSite
  <2> DEFINE p == conf[s].port
  <2>1. ASSUME conf[s].ssl = "files" PROVE Certificate(p, conf[s].domain) = <<"file", s>>
    <3>1. p \in Ports
      BY DEF Reading, Ports
    <3>2. /\ phase # "load" /\ On(p) \subseteq 1..Len(configs)
          /\ server[p].certs = {i \in On(p) : Said(i).ssl = "files"}
      BY <3>1, RunningIs
    <3>3. PICK i \in On(p) :
            /\ configs[i] = s /\ Said(i) = conf[s]
            /\ \A is \in SUBSET (1..Len(configs)) : {j \in is : Said(j).domain = conf[s].domain} = {i} \cap is
      BY <3>2, PlaceOf
    <3>4. i \in Nat /\ {j \in server[p].certs : Said(j).domain = conf[s].domain} = {i}
      <4>1. server[p].certs \in SUBSET (1..Len(configs)) /\ i \in server[p].certs
        BY <2>1, <3>2, <3>3
      <4>2. {j \in server[p].certs : Said(j).domain = conf[s].domain} = {i} \cap server[p].certs
        BY <3>3, <4>1
      <4>3. i \in Nat
        BY <3>2
      <4> QED BY <3>2, <4>1, <4>2, <4>3
    <3> QED BY <3>3, <3>4, OnlyOne DEF Certificate
  <2> QED BY <2>1, RoutedHome
<1> QED BY <1>1, StartInv, PTL

\* Sites that `goup validate' finds nothing wrong with are all served once the
\* ports are started, encrypted exactly if they ask for it, with the provisos of
\* ValidatedIsServed (validate.go:16-139): for any number of files.
THEOREM ValidatedSitesAreServed == Spec => []ValidatedIsServed
<1>1. Reading /\ Stages => ValidatedIsServed
  <2> SUFFICES ASSUME Reading, Stages, AllStarted, loggers = Identifiers, Sound, Agree, NEW s \in Sites,
                      server[conf[s].port] # Unbound
               PROVE  Served(s)
    BY DEF ValidatedIsServed
  <2> DEFINE p == conf[s].port
  <2>1. p \in Ports /\ p \in Used /\ Logged(p) /\ On(p) \subseteq 1..Len(configs)
    <3>1. p \in Ports /\ p \in Used
      BY DEF Reading, Ports, Used
    <3>2. Logged(p)
      BY <3>1 DEF Logged, Identifiers
    <3> QED BY <3>1, <3>2 DEF On
  <2>2. server[p] \in Outcomes(p) /\ phase = "servers"
    BY <2>1 DEF AllStarted, Stages
  <2>3. \A t \in Sites :
          /\ HandlerOK(conf[t]) /\ RootOK(conf[t]) /\ conf[t].ssl \in {"off", "files"}
          /\ t # s => conf[t].domain # conf[s].domain
          /\ conf[t].port = p => (conf[t].ssl = "off" <=> conf[s].ssl = "off")
    <3> SUFFICES ASSUME NEW t \in Sites
                 PROVE  /\ HandlerOK(conf[t]) /\ RootOK(conf[t]) /\ conf[t].ssl \in {"off", "files"}
                        /\ t # s => conf[t].domain # conf[s].domain
                        /\ conf[t].port = p => (conf[t].ssl = "off" <=> conf[s].ssl = "off")
      OBVIOUS
    <3>1. conf[t] \in SiteConfig
      BY ServersAssumption DEF Reading
    <3>2. HandlerOK(conf[t]) /\ RootOK(conf[t]) /\ conf[t].ssl \in {"off", "files"}
      BY <3>1 DEF Sound, Valid, ValidSSL, HandlerOK, RootOK, SiteConfig
    <3> QED BY <3>2 DEF Agree
  <2>4. \A i \in On(p) : configs[i] \in Sites /\ Said(i) = conf[configs[i]] /\ Said(i).port = p
    BY <2>1, SaidTypes DEF On, Said
  <2>5. PICK i \in On(p) : Said(i) = conf[s]
    BY <2>2, <2>3, PlaceOf
  <2>6. Starts(p)
    BY <2>3, <2>4 DEF Starts
  <2>7. Started(On(p)).tls <=> conf[s].ssl # "off"
    BY <2>3, <2>4, <2>5 DEF Started
  <2>8. Listens(Started(On(p)))
    <3>1. conf[s].ssl # "off" => i \in WithSSL(On(p), "files")
      BY <2>3, <2>5 DEF WithSSL
    <3> QED BY <2>7, <3>1 DEF Listens, Started
  <2>9. server[p] = Started(On(p)) /\ Running(p)
    <3>1. Started(On(p)) \in Server
      BY <2>1, StartedTypes
    <3> QED BY <2>2, <2>6, <2>8, <3>1, ServersAssumption DEF Outcomes, Running
  <2>10. Route(p, conf[s].domain) = s
    BY <2>3, <2>9, RoutedHome
  <2> QED BY <2>7, <2>9, <2>10 DEF Served
<1> QED BY <1>1, StartInv, PTL

----------------------------------------------------------------------------
(* Clean paths *)

\* Induction, for a set of numbers.
LEMMA Induction ==
  ASSUME NEW T \in SUBSET Nat, 0 \in T, \A n \in T : n + 1 \in T
  PROVE  T = Nat
<1> SUFFICES ASSUME T # Nat PROVE FALSE
  OBVIOUS
<1> DEFINE U == Nat \ T
<1>1. U # {} /\ U \subseteq Nat
  OBVIOUS
<1> HIDE DEF U
<1>2. PICK x \in U : \A y \in U : ~ (<<y, x>> \in OpToRel(<, Nat))
  BY <1>1, WFMin, NatLessThanWellFounded
<1>3. \A y \in U : ~ (y < x)
  BY <1>1, <1>2, Zenon DEF OpToRel
<1>4. x \in Nat /\ x # 0
  BY DEF U
<1>5. x - 1 \in Nat /\ x - 1 < x /\ (x - 1) + 1 = x
  BY <1>4
<1>6. x - 1 \in T
  BY <1>3, <1>5 DEF U
<1> QED BY <1>5, <1>6 DEF U

\* The paths to the first n names of one that is cleaned.
Cleans(f, raw, n) == f = [i \in 0..n |-> IF i = 0 THEN <<>> ELSE CleanStep(f[i - 1], raw[i])]

\* They exist: the recursion in Clean is one.
LEMMA CleansExist == ASSUME NEW raw PROVE \A n \in Nat : \E f : Cleans(f, raw, n)
<1> DEFINE T == {n \in Nat : \E f : Cleans(f, raw, n)}
<1>1. 0 \in T
  <2>1. Cleans([i \in 0..0 |-> <<>>], raw, 0)
    BY DEF Cleans
  <2> QED BY <2>1
<1>2. ASSUME NEW n \in T PROVE n + 1 \in T
  <2>1. n \in Nat
    OBVIOUS
  <2>2. PICK f : Cleans(f, raw, n)
    OBVIOUS
  <2> DEFINE g == [i \in 0..(n + 1) |-> IF i = n + 1 THEN CleanStep(f[n], raw[n + 1]) ELSE f[i]]
  <2>3. \A i \in 0..n : g[i] = f[i] /\ f[i] = IF i = 0 THEN <<>> ELSE CleanStep(f[i - 1], raw[i])
    <3>1. \A i \in 0..n : f[i] = IF i = 0 THEN <<>> ELSE CleanStep(f[i - 1], raw[i])
      BY <2>2 DEF Cleans
    <3> QED BY <2>1, <3>1
  <2>4. ASSUME NEW i \in 0..(n + 1)
        PROVE  g[i] = IF i = 0 THEN <<>> ELSE CleanStep(g[i - 1], raw[i])
    <3>1. CASE i = n + 1
      <4>1. i # 0 /\ i - 1 = n /\ n \in 0..n
        BY <2>1, <3>1
      <4> QED BY <2>1, <2>3, <3>1, <4>1
    <3>2. CASE i # n + 1 /\ i # 0
      <4>1. i \in 0..n /\ i - 1 \in 0..n
        BY <2>1, <3>2
      <4> QED BY <2>3, <3>2, <4>1
    <3>3. CASE i = 0
      <4>1. 0 \in 0..n /\ 0 \in 0..(n + 1) /\ i # n + 1
        BY <2>1, <3>3
      <4> QED BY <2>3, <3>3, <4>1
    <3> QED BY <3>1, <3>2, <3>3
  <2>5. g = [i \in 0..(n + 1) |-> g[i]]
    OBVIOUS
  <2> HIDE DEF g
  <2>6. Cleans(g, raw, n + 1)
    BY <2>4, <2>5 DEF Cleans
  <2> QED BY <2>1, <2>6
<1> HIDE DEF T
<1>3. T = Nat
  <2>1. T \in SUBSET Nat
    BY DEF T
  <2> QED BY <1>1, <1>2, <2>1, Induction
<1> QED BY <1>3 DEF T

\* A clean path has only names that lead down.
Pure(p, S) == p \in Seq(S) /\ \A i \in 1..Len(p) : p[i] \notin Stay \cup {".."}

\* One step of the cleaning.
LEMMA StepPure ==
  ASSUME NEW S, NEW p, Pure(p, S), NEW name \in S
  PROVE  Pure(CleanStep(p, name), S)
<1>0. ".." \notin Stay
  BY Zenon DEF Stay
<1>1. CASE name \in Stay
  <2>1. CleanStep(p, name) = p
    BY <1>0, <1>1 DEF CleanStep
  <2> QED BY <2>1
<1>2. CASE name = ".." /\ name \notin Stay
  <2>1. CleanStep(p, name) = SubSeq(p, 1, Len(p) - 1)
    BY <1>2 DEF CleanStep
  <2>2. p \in Seq(S) /\ Len(p) \in Nat /\ \A i \in 1..Len(p) : p[i] \notin Stay \cup {".."}
    BY DEF Pure
  <2> DEFINE s == SubSeq(p, 1, Len(p) - 1)
  <2>3. s \in Seq(S) /\ \A i \in 1..Len(s) : i \in 1..Len(p) /\ s[i] = p[i]
    <3>1. CASE p = <<>>
      <4>1. s = <<>>
        BY <3>1, SubSeqEmpty
      <4> HIDE DEF s
      <4> QED BY <4>1
    <3>2. CASE p # <<>>
      BY <2>2, <3>2, SubSeqProperties
    <3> QED BY <3>1, <3>2
  <2> HIDE DEF s
  <2>4. Pure(s, S)
    BY <2>2, <2>3 DEF Pure
  <2> QED BY <2>1, <2>4 DEF s
<1>3. CASE name \notin Stay \cup {".."}
  <2>1. CleanStep(p, name) = Append(p, name)
    BY <1>3 DEF CleanStep
  <2>2. p \in Seq(S) /\ Len(p) \in Nat /\ \A i \in 1..Len(p) : p[i] \notin Stay \cup {".."}
    BY DEF Pure
  <2> DEFINE s == Append(p, name)
  <2>3. /\ s \in Seq(S) /\ Len(s) = Len(p) + 1 /\ s[Len(p) + 1] = name
        /\ \A i \in 1..Len(p) : s[i] = p[i]
    BY <2>2, AppendProperties
  <2> HIDE DEF s
  <2>4. \A i \in 1..Len(s) : i = Len(p) + 1 \/ i \in 1..Len(p)
    BY <2>2, <2>3
  <2>5. Pure(s, S)
    BY <1>3, <2>2, <2>3, <2>4 DEF Pure
  <2> QED BY <2>1, <2>5 DEF s
<1> QED BY <1>1, <1>2, <1>3

\* Whatever way a path is written, it is clean in the end: no part of it leads
\* up, so nothing above the root is reached (static_handler.go:214-219).
THEOREM CleanIsPure == ASSUME NEW S, NEW raw \in Seq(S) PROVE Pure(Clean(raw), S)
<1> DEFINE F == CHOOSE f : Cleans(f, raw, Len(raw))
<1>1. Len(raw) \in Nat
  OBVIOUS
<1>2. Cleans(F, raw, Len(raw))
  BY <1>1, CleansExist
<1>3. Clean(raw) = F[Len(raw)]
  BY DEF Clean, Cleans
<1> HIDE DEF F
<1>4. \A i \in 0..Len(raw) : F[i] = IF i = 0 THEN <<>> ELSE CleanStep(F[i - 1], raw[i])
  BY <1>2 DEF Cleans
<1> DEFINE T == {n \in Nat : n <= Len(raw) => Pure(F[n], S)}
<1>5. 0 \in T
  <2>1. F[0] = <<>>
    BY <1>1, <1>4
  <2>2. Pure(<<>>, S)
    BY DEF Pure
  <2> QED BY <2>1, <2>2
<1>6. ASSUME NEW n \in T PROVE n + 1 \in T
  <2> SUFFICES ASSUME n + 1 <= Len(raw) PROVE Pure(F[n + 1], S)
    OBVIOUS
  <2>1. n + 1 \in 0..Len(raw) /\ n + 1 # 0 /\ (n + 1) - 1 = n /\ Pure(F[n], S)
    BY <1>1
  <2>2. F[n + 1] = CleanStep(F[n], raw[n + 1])
    BY <1>4, <2>1
  <2>3. raw[n + 1] \in S
    BY <1>1, <2>1
  <2> QED BY <2>1, <2>2, <2>3, StepPure
<1>7. T \in SUBSET Nat
  OBVIOUS
<1> HIDE DEF T
<1>8. T = Nat
  BY <1>5, <1>6, <1>7, Induction
<1>9. Pure(F[Len(raw)], S)
  BY <1>1, <1>8 DEF T
<1> QED BY <1>3, <1>9

----------------------------------------------------------------------------
(* The disk and what is remembered of it *)

Stat == [there : BOOLEAN, version : Nat]

\* Versions grow with the changes only, and no Stat is ahead of the disk.
DiskInv ==
  /\ changes \in 0..MaxChanges
  /\ disk \in [Variants -> Stat] /\ \A v \in Variants : disk[v].version <= 1 + changes
  /\ cached \in [Variants -> Stat \cup {Nothing}]
  /\ \A v \in Variants : cached[v] # Nothing => cached[v].version <= disk[v].version

\* The Stat of a file, cached or not.
LEMMA KnownIs ==
  ASSUME DiskInv, NEW v \in Variants
  PROVE  Known(v) \in Stat /\ Known(v).version <= disk[v].version
<1>1. disk[v] \in Stat /\ cached[v] \in Stat \cup {Nothing}
  BY DEF DiskInv
<1>2. disk[v].version \in Nat
  BY <1>1 DEF Stat
<1>3. CASE cached[v] # Nothing
  BY <1>1, <1>3 DEF Known, DiskInv
<1>4. CASE cached[v] = Nothing
  BY <1>1, <1>2, <1>4 DEF Known
<1> QED BY <1>3, <1>4

\* The first disk.
LEMMA DiskInit == FilesInit => DiskInv
<1> SUFFICES ASSUME FilesInit PROVE DiskInv
  OBVIOUS
<1>1. PICK absent \in SUBSET Changing :
        disk = [v \in Variants |-> IF v \in absent THEN [there |-> FALSE, version |-> 0]
                                   ELSE [there |-> TRUE, version |-> 1]]
  BY DEF FilesInit
<1>2. [there |-> FALSE, version |-> 0] \in Stat /\ [there |-> TRUE, version |-> 1] \in Stat
  BY DEF Stat
<1>3. disk \in [Variants -> Stat] /\ \A v \in Variants : disk[v].version \in {0, 1}
  BY <1>1, <1>2
<1>4. changes = 0 /\ cached = [v \in Variants |-> Nothing]
  BY DEF FilesInit
<1> QED BY <1>3, <1>4, FilesAssumption DEF DiskInv

\* What is remembered.
Remembers == UNCHANGED cached \/ \E v \in Variants : CachedStat(v)

\* Every step keeps the disk and no version gets smaller.
LEMMA DiskKept ==
  ASSUME DiskInv, [FilesNext]_fileVars
  PROVE  DiskInv' /\ \A v \in Variants : disk[v].version <= disk'[v].version
<1>0. \A v \in Variants : disk[v] \in Stat /\ disk[v].version \in Nat
  BY DEF DiskInv, Stat
<1>1. ASSUME UNCHANGED <<changes, disk>>, Remembers
      PROVE  DiskInv' /\ \A v \in Variants : disk[v].version <= disk'[v].version
  <2>1. \A v \in Variants : disk[v].version <= disk'[v].version
    BY <1>0, <1>1
  <2>2. CASE UNCHANGED cached
    BY <1>1, <2>1, <2>2 DEF DiskInv
  <2>3. ASSUME NEW v \in Variants, CachedStat(v) PROVE DiskInv'
    <3>1. /\ cached' = [cached EXCEPT ![v] = Known(v)]
          /\ Known(v) \in Stat /\ Known(v).version <= disk[v].version
      BY <2>3, KnownIs DEF CachedStat
    <3> QED BY <1>1, <3>1 DEF DiskInv
  <2> QED BY <1>1, <2>1, <2>2, <2>3 DEF Remembers
<1>2. ASSUME NEW v \in Changing, Deploy(v)
      PROVE  DiskInv' /\ \A w \in Variants : disk[w].version <= disk'[w].version
  <2> DEFINE s == [there |-> TRUE, version |-> disk[v].version + 1]
  <2>1. /\ changes < MaxChanges /\ changes' = changes + 1 /\ UNCHANGED cached
        /\ disk' = [disk EXCEPT ![v] = s]
    BY <1>2 DEF Deploy, Change
  <2>2. v \in Variants /\ s \in Stat /\ s.version = disk[v].version + 1
    BY <1>0, FilesAssumption DEF Stat
  <2> HIDE DEF s
  <2>3. disk' \in [Variants -> Stat] /\ disk'[v] = s /\ \A w \in Variants : w # v => disk'[w] = disk[w]
    BY <2>1, <2>2 DEF DiskInv
  <2>4. \A w \in Variants : disk[w].version <= disk'[w].version /\ disk'[w].version <= 1 + changes'
    BY <1>0, <2>1, <2>2, <2>3, FilesAssumption DEF DiskInv
  <2>5. \A w \in Variants : cached[w] # Nothing => cached[w].version \in Nat
    BY DEF DiskInv, Stat
  <2>6. \A w \in Variants : cached'[w] # Nothing => cached'[w].version <= disk'[w].version
    <3>1. \A w \in Variants : disk'[w].version \in Nat
      BY <2>3 DEF Stat
    <3> QED BY <1>0, <2>1, <2>4, <2>5, <3>1 DEF DiskInv
  <2> QED BY <2>1, <2>3, <2>4, <2>6, FilesAssumption DEF DiskInv
<1>3. ASSUME NEW v \in Changing, Delete(v)
      PROVE  DiskInv' /\ \A w \in Variants : disk[w].version <= disk'[w].version
  <2>1. /\ changes < MaxChanges /\ changes' = changes + 1 /\ UNCHANGED cached
        /\ disk' = [disk EXCEPT ![v].there = FALSE] /\ v \in Variants
    BY <1>3, FilesAssumption DEF Delete, Change
  <2>2. disk' \in [Variants -> Stat] /\ \A w \in Variants : disk'[w].version = disk[w].version
    BY <1>0, <2>1 DEF DiskInv, Stat
  <2> QED BY <1>0, <2>1, <2>2, FilesAssumption DEF DiskInv
<1>4. ASSUME NEW v \in Changing, Warm(v)
      PROVE  DiskInv' /\ \A w \in Variants : disk[w].version <= disk'[w].version
  <2>1. /\ UNCHANGED <<changes, disk>> /\ v \in Variants
        /\ cached' = [cached EXCEPT ![v] = IF cached[v] = Nothing THEN disk[v] ELSE Nothing]
    BY <1>4, FilesAssumption DEF Warm
  <2> QED BY <1>0, <2>1 DEF DiskInv
<1>5. CASE Step
  <2>1. CASE Request \/ StatScript \/ StatIndexScript \/ StatFront \/ LocalPath \/ ServePlain \/ OpenAndServe
    BY <1>1, <2>1 DEF Request, StatScript, StatIndexScript, StatFront, LocalPath, ServePlain,
                      OpenAndServe, files, Remembers
  <2>2. \A p, e : Looked(p, e) => Remembers
    BY DEF Looked, Remembers
  <2>3. CASE StatPath \/ StatIndex
    BY <1>1, <2>2, <2>3 DEF StatPath, StatIndex, Remembers
  <2>4. CASE StatBrotli \/ StatGzip
    BY <1>1, <2>2, <2>4 DEF StatBrotli, StatGzip, StatVariant, Remembers
  <2> QED BY <1>5, <2>1, <2>3, <2>4 DEF Step
<1>6. CASE UNCHANGED fileVars
  BY <1>1, <1>6 DEF fileVars, files, Remembers
<1> QED BY <1>2, <1>3, <1>4, <1>5, <1>6 DEF FilesNext

----------------------------------------------------------------------------
(* A request *)

\* What the paths are made of.
NameSet == STRING \cup {"index.html"}

\* The way of a request: what was found out about its path by each point, of
\* what file the Stat is, and what the plugin has ruled out.
Looking == {"script", "index.php", "front", "static", "stat", "index"}
Serving == {"br", "gzip", "plain", "open"}
InfoIs(v) == info = <<v, info[2]>> /\ info[2] \in 0..disk[v].version
PathInv ==
  /\ pc \in {"idle"} \cup Looking \cup Serving
  /\ root \in BOOLEAN /\ php \in BOOLEAN /\ missed \in BOOLEAN
  /\ Pure(node, NameSet)
  /\ pc # "open" => target = Nothing
  /\ pc \notin Serving => info = Nothing
  /\ pc \in Looking => node = Clean(req.raw)
  /\ pc \in {"stat", "index"} \cup Serving => root /\ ~Dotted(node)
  /\ pc = "stat" => Localized(node)
  /\ pc \in Serving => /\ node \in {Clean(req.raw), Append(Clean(req.raw), "index.html")}
                       /\ <<node, "plain">> \in Variants
  /\ pc \in {"br", "gzip", "plain"} => InfoIs(<<node, "plain">>)
  /\ pc = "open" => /\ target \in Variants /\ InfoIs(target)
                    /\ \E e \in req.accept \cup {"plain"} : target = <<node, e>>
PluginInv ==
  php /\ req.own =>
    /\ pc \in Looking \ {"script"} /\ IsScript(req.raw) /\ node \notin Dirs /\ Localized(node) => missed
    /\ pc \in Serving /\ Last(node) \in Scripts => missed
ListingInv ==
  answer # Nothing /\ answer.kind = "listing" =>
    root /\ ~Dotted(answer.path) /\ answer.names \cap NotServed = {}
FilesInv == DiskInv /\ PathInv /\ PluginInv /\ ListingInv /\ ValidatorHonest

\* A path is dotted if a name of it is hidden; the index of a directory is not.
LEMMA DottedIs ==
  ASSUME NEW p \in Seq(NameSet)
  PROVE  /\ Dotted(p) <=> HiddenPath(p)
         /\ ~Dotted(p) => ~Dotted(Append(p, "index.html"))
         /\ Last(Append(p, "index.html")) = "index.html"
<1>1. Len(p) \in Nat /\ Len(Append(p, "index.html")) = Len(p) + 1
      /\ Append(p, "index.html")[Len(p) + 1] = "index.html"
      /\ \A i \in 1..Len(p) : Append(p, "index.html")[i] = p[i]
  BY AppendProperties
<1> DEFINE q == Append(p, "index.html")
<1>2. \A s \in {p, q} : ToSet(s) = {s[i] : i \in 1..Len(s)}
  <2>1. q \in Seq(NameSet)
    <3>1. "index.html" \in NameSet
      BY DEF NameSet
    <3> QED BY <3>1, AppendProperties
  <2> HIDE DEF q
  <2> QED BY <2>1 DEF ToSet
<1> HIDE DEF q
<1>3. \A i \in 1..(Len(p) + 1) : i = Len(p) + 1 \/ i \in 1..Len(p)
  BY <1>1
<1>4. Dotted(p) <=> HiddenPath(p)
  BY <1>2 DEF Dotted, HiddenPath, Hidden, NotServed
<1>5. ASSUME Dotted(q) PROVE Dotted(p)
  <2>1. PICK i \in 1..Len(q) : q[i] \in NotServed
    BY <1>2, <1>5 DEF Dotted
  <2>2. i \in 1..Len(p) /\ q[i] = p[i]
    BY <1>1, <1>3, <2>1, FilesAssumption DEF q, NotServed
  <2> QED BY <1>2, <2>1, <2>2 DEF Dotted
<1> QED BY <1>1, <1>4, <1>5 DEF q, Last

\* The index of a directory is a clean path.
LEMMA IndexPure ==
  ASSUME NEW p, Pure(p, NameSet) PROVE Pure(Append(p, "index.html"), NameSet)
<1>1. "index.html" \notin Stay \cup {".."}
  BY Zenon DEF Stay
<1>2. CleanStep(p, "index.html") = Append(p, "index.html")
  BY <1>1 DEF CleanStep
<1>3. "index.html" \in NameSet
  BY DEF NameSet
<1> QED BY <1>2, <1>3, StepPure

\* The request ends.
LEMMA Ends ==
  ASSUME FilesInv, DiskInv', UNCHANGED <<root, php, copy>>, NEW what, Done(what),
         what.kind = "listing" => root /\ ~Dotted(what.path) /\ what.names \cap NotServed = {}
  PROVE  FilesInv'
<1>1. pc' = "idle" /\ req' = NoRequest /\ node' = <<>> /\ target' = Nothing /\ info' = Nothing
      /\ missed' = FALSE /\ answer' = what
  BY DEF Done, Fresh
<1>2. Pure(<<>>, NameSet)
  BY DEF Pure
<1>3. PathInv'
  BY <1>1, <1>2 DEF FilesInv, PathInv, Looking, Serving
<1>4. PluginInv'
  BY <1>1 DEF PluginInv, NoRequest
<1>5. ListingInv' /\ ValidatorHonest'
  BY <1>1 DEF FilesInv, ListingInv, ValidatorHonest
<1> QED BY <1>3, <1>4, <1>5 DEF FilesInv

\* The file p is found: the Stat is of it, and the plugin had looked if p is a
\* script.
LEMMA Finds ==
  ASSUME FilesInv, DiskInv', UNCHANGED <<root, php, disk, copy>>, NEW p, Found(p),
         pc \in {"stat", "index"}, p \in {Clean(req.raw), Append(Clean(req.raw), "index.html")},
         Pure(p, NameSet), ~Dotted(p), Exists(p, "plain"),
         php /\ req.own /\ Last(p) \in Scripts => missed
  PROVE  FilesInv'
<1> DEFINE v == <<p, "plain">>
<1>1. /\ pc' = "br" /\ node' = p /\ info' = Info(v) /\ UNCHANGED <<req, target, missed, answer>>
      /\ v \in Variants
  BY DEF Found, Goto, Exists
<1> HIDE DEF v
<1>2. info' = <<v, Known(v).version>> /\ Known(v).version \in 0..disk[v].version
  <2>1. Known(v) \in Stat /\ Known(v).version <= disk[v].version /\ disk[v] \in Stat
    BY <1>1, KnownIs DEF FilesInv, DiskInv
  <2> QED BY <1>1, <2>1 DEF Info, Stat
<1>3. PathInv'
  <2>1. InfoIs(<<node, "plain">>)'
    BY <1>1, <1>2 DEF InfoIs, v
  <2> QED BY <1>1, <2>1 DEF FilesInv, PathInv, Looking, Serving, v
<1>4. PluginInv'
  BY <1>1 DEF PluginInv, Looking, Serving
<1>5. ListingInv' /\ ValidatorHonest'
  BY <1>1 DEF FilesInv, ListingInv, ValidatorHonest
<1> QED BY <1>3, <1>4, <1>5 DEF FilesInv

\* The steps up to the plugin's last look.
LEMMA PluginKept ==
  ASSUME FilesInv, DiskInv', Request \/ StatScript \/ StatIndexScript \/ StatFront
  PROVE  FilesInv'
<1> USE DEF At, Goto, files
<1>1. CASE Request
  <2>1. PICK raw \in Raws, own \in BOOLEAN, accept \in Accepts :
          req' = [raw |-> raw, own |-> own, accept |-> accept]
    BY <1>1 DEF Request
  <2>2. /\ pc' = IF php /\ req'.own THEN "script" ELSE "static"
        /\ node' = Clean(req'.raw) /\ req'.raw = raw
        /\ target' = Nothing /\ info' = Nothing /\ missed' = FALSE /\ answer' = Nothing
        /\ UNCHANGED <<root, php, copy>>
    BY <1>1, <2>1 DEF Request
  <2>3. Pure(node', NameSet)
    <3>1. raw \in Seq(NameSet)
      BY FilesAssumption DEF NameSet
    <3> QED BY <2>2, <3>1, CleanIsPure
  <2>4. PathInv'
    BY <2>2, <2>3 DEF FilesInv, PathInv, Looking, Serving
  <2>5. PluginInv'
    BY <2>2 DEF PluginInv, Looking, Serving
  <2>6. ListingInv' /\ ValidatorHonest'
    BY <2>2 DEF FilesInv, ListingInv, ValidatorHonest
  <2> QED BY <2>4, <2>5, <2>6 DEF FilesInv
<1>2. ASSUME NEW p, NEW info2, Done(Ran(p, info2)), UNCHANGED <<root, php, copy>> PROVE FilesInv'
  BY <1>2, Ends DEF Ran
<1>3. CASE StatScript
  <2>1. pc = "script" /\ UNCHANGED <<root, php, copy>>
    BY <1>3 DEF StatScript
  <2>2. CASE Done(Ran(node, FALSE))
    BY <1>2, <2>1, <2>2
  <2>3. CASE ~Done(Ran(node, FALSE))
    <3>1. /\ ~(node \notin Dirs /\ There(node, "plain") /\ Localized(node) /\ IsScript(req.raw))
          /\ pc' = CASE ~Localized(node)      -> "static"
                     [] node \in Dirs         -> "index.php"
                     [] There(node, "plain")  -> "static"
                     [] OTHER                 -> "front"
          /\ missed' = ~There(node, "plain")
          /\ UNCHANGED <<req, node, target, info, answer>>
      BY <1>3, <2>3 DEF StatScript
    <3>2. pc' \in {"static", "index.php", "front"} /\ missed' \in BOOLEAN
      BY <3>1
    <3>3. pc' # "index.php" /\ IsScript(req.raw) /\ node \notin Dirs /\ Localized(node) => missed'
      BY <3>1
    <3>4. pc' = "index.php" => ~(node \notin Dirs)
      BY <3>1
    <3>5. PathInv'
      BY <2>1, <3>1, <3>2 DEF FilesInv, PathInv, Looking, Serving
    <3>6. PluginInv'
      BY <3>1, <3>2, <3>3, <3>4 DEF PluginInv, Looking, Serving
    <3>7. ListingInv' /\ ValidatorHonest'
      BY <2>1, <3>1 DEF FilesInv, ListingInv, ValidatorHonest
    <3> QED BY <3>5, <3>6, <3>7 DEF FilesInv
  <2> QED BY <2>2, <2>3
<1>4. CASE StatIndexScript \/ StatFront
  <2>1. /\ pc \in {"index.php", "front"} /\ UNCHANGED <<root, php, copy>>
        /\ \/ \E p, i : Done(Ran(p, i))
           \/ Continue(IF pc = "front" THEN "static" ELSE "front")
    BY <1>4 DEF StatIndexScript, StatFront
  <2>2. CASE \E p, i : Done(Ran(p, i))
    BY <1>2, <2>1, <2>2
  <2>3. CASE Continue(IF pc = "front" THEN "static" ELSE "front")
    <3>1. /\ pc' \in {"front", "static"}
          /\ UNCHANGED <<req, node, target, info, missed, answer, root, php, copy>>
      BY <2>1, <2>3 DEF Continue, request
    <3>2. PathInv'
      BY <2>1, <3>1 DEF FilesInv, PathInv, Looking, Serving
    <3>3. PluginInv' /\ ListingInv' /\ ValidatorHonest'
      BY <2>1, <3>1 DEF FilesInv, PluginInv, ListingInv, ValidatorHonest, Looking, Serving
    <3> QED BY <3>2, <3>3 DEF FilesInv
  <2> QED BY <2>1, <2>2, <2>3
<1> QED BY <1>1, <1>3, <1>4

\* The steps of the static handler.
LEMMA StaticKept ==
  ASSUME FilesInv, DiskInv',
         LocalPath \/ StatPath \/ StatIndex \/ StatBrotli \/ StatGzip \/ ServePlain \/ OpenAndServe
  PROVE  FilesInv'
<1> USE DEF At, Goto, files
<1>0. Pure(node, NameSet) /\ node \in Seq(NameSet)
  BY DEF FilesInv, PathInv, Pure
<1>1. ASSUME NEW code, Done(Status(code)), UNCHANGED <<root, php, copy>> PROVE FilesInv'
  BY <1>1, Ends DEF Status
<1>2. CASE LocalPath
  <2>1. pc = "static" /\ UNCHANGED <<root, php, copy, disk>>
    BY <1>2 DEF LocalPath
  <2>2. CASE root /\ ~HiddenPath(node) /\ Localized(node)
    <3>1. /\ pc' = "stat" /\ UNCHANGED <<req, node, target, info, missed, answer, root, php, copy>>
          /\ ~Dotted(node)
      BY <1>0, <1>2, <2>2, DottedIs DEF LocalPath, Continue, request
    <3>2. PathInv'
      BY <2>1, <2>2, <3>1 DEF FilesInv, PathInv, Looking, Serving, Localized
    <3>3. PluginInv' /\ ListingInv' /\ ValidatorHonest'
      BY <2>1, <3>1 DEF FilesInv, PluginInv, ListingInv, ValidatorHonest, Looking, Serving
    <3> QED BY <3>2, <3>3 DEF FilesInv
  <2>3. CASE ~(root /\ ~HiddenPath(node) /\ Localized(node))
    BY <1>1, <1>2, <2>1, <2>3 DEF LocalPath
  <2> QED BY <2>2, <2>3
<1>3. CASE StatPath
  <2>1. /\ pc = "stat" /\ UNCHANGED <<root, php, disk, copy>>
        /\ root /\ ~Dotted(node) /\ Localized(node) /\ node = Clean(req.raw)
    BY <1>3 DEF StatPath, FilesInv, PathInv, Looking
  <2>2. CASE node \in Dirs /\ Slashed(req.raw)
    <3>1. /\ pc' = "index" /\ UNCHANGED <<req, node, target, info, missed, answer>>
      BY <1>3, <2>2 DEF StatPath, Continue, request
    <3>2. PathInv'
      BY <2>1, <3>1 DEF FilesInv, PathInv, Looking, Serving
    <3>3. PluginInv' /\ ListingInv' /\ ValidatorHonest'
      BY <2>1, <2>2, <3>1 DEF FilesInv, PluginInv, ListingInv, ValidatorHonest, Looking, Serving
    <3> QED BY <3>2, <3>3 DEF FilesInv
  <2>3. CASE node \notin Dirs /\ Exists(node, "plain")
    <3>1. Found(node)
      BY <1>3, <2>3 DEF StatPath
    <3>2. Last(node) \in Scripts => IsScript(req.raw)
      BY <2>1, <2>3, FilesAssumption DEF IsScript
    <3>3. php /\ req.own /\ Last(node) \in Scripts => missed
      BY <2>1, <2>3, <3>2 DEF FilesInv, PluginInv, Looking
    <3> QED BY <1>0, <2>1, <2>3, <3>1, <3>3, Finds
  <2>4. CASE \E code : Done(Status(code))
    BY <1>1, <2>1, <2>4
  <2> QED BY <1>3, <2>2, <2>3, <2>4 DEF StatPath
<1>4. CASE StatIndex
  <2> DEFINE index == Append(node, "index.html")
  <2>1. /\ pc = "index" /\ UNCHANGED <<root, php, disk, copy>>
        /\ root /\ ~Dotted(node) /\ node = Clean(req.raw)
    BY <1>4 DEF StatIndex, FilesInv, PathInv, Looking
  <2>2. CASE Exists(index, "plain")
    <3>1. Found(index)
      BY <1>4, <2>2 DEF StatIndex
    <3>2. Pure(index, NameSet) /\ ~Dotted(index) /\ Last(index) \notin Scripts
      BY <1>0, <2>1, IndexPure, DottedIs, FilesAssumption
    <3> HIDE DEF index
    <3>3. index \in {Clean(req.raw), Append(Clean(req.raw), "index.html")}
      BY <2>1 DEF index
    <3> QED BY <2>1, <2>2, <3>1, <3>2, <3>3, Finds
  <2>3. CASE ~Exists(index, "plain")
    <3> DEFINE what == [kind |-> "listing", path |-> node, names |-> Listing(node)]
    <3>1. Done(what)
      BY <1>4, <2>3 DEF StatIndex
    <3>2. what.path = node /\ what.names = Listing(node) /\ Listing(node) \cap NotServed = {}
      BY DEF Listing, Hidden, NotServed
    <3> HIDE DEF what
    <3> QED BY <2>1, <3>1, <3>2, Ends
  <2> QED BY <2>2, <2>3
<1>5. ASSUME NEW e \in {"br", "gzip"}, pc = e, StatVariant(e, IF e = "br" THEN "gzip" ELSE "plain")
      PROVE  FilesInv'
  <2>1. UNCHANGED <<root, php, disk, copy, req, node, missed, answer>>
    BY <1>5 DEF StatVariant
  <2>2. PluginInv' /\ ListingInv' /\ ValidatorHonest'
    <3>1. pc' \in Serving
      BY <1>5 DEF StatVariant, Serving
    <3> QED BY <1>5, <2>1, <3>1 DEF FilesInv, PluginInv, ListingInv, ValidatorHonest, Looking, Serving
  <2>3. CASE e \in req.accept /\ Exists(node, e)
    <3> DEFINE v == <<node, e>>
    <3>1. pc' = "open" /\ target' = v /\ info' = <<v, Known(v).version>> /\ v \in Variants
      BY <1>5, <2>3 DEF StatVariant, Serve, Info, Exists
    <3> HIDE DEF v
    <3>2. Known(v).version \in 0..disk[v].version
      <4>1. Known(v) \in Stat /\ Known(v).version <= disk[v].version /\ disk[v] \in Stat
        BY <3>1, KnownIs DEF FilesInv, DiskInv
      <4> QED BY <4>1 DEF Stat
    <3>3. InfoIs(target)'
      BY <2>1, <3>1, <3>2 DEF InfoIs
    <3>4. PathInv'
      BY <1>5, <2>1, <2>3, <3>1, <3>3 DEF FilesInv, PathInv, Looking, Serving, v
    <3> QED BY <2>2, <3>4 DEF FilesInv
  <2>4. CASE ~(e \in req.accept /\ Exists(node, e))
    <3>1. pc' \in {"gzip", "plain"} /\ UNCHANGED <<target, info>>
      BY <1>5, <2>4 DEF StatVariant
    <3>2. InfoIs(<<node, "plain">>)'
      BY <1>5, <2>1, <3>1 DEF FilesInv, PathInv, InfoIs
    <3>3. PathInv'
      BY <1>5, <2>1, <3>1, <3>2 DEF FilesInv, PathInv, Looking, Serving
    <3> QED BY <2>2, <3>3 DEF FilesInv
  <2> QED BY <2>3, <2>4
<1>6. CASE StatBrotli \/ StatGzip
  <2>1. CASE StatBrotli
    BY <1>5, <2>1 DEF StatBrotli
  <2>2. CASE StatGzip
    BY <1>5, <2>2 DEF StatGzip
  <2> QED BY <1>6, <2>1, <2>2
<1>7. CASE ServePlain
  <2>1. /\ pc = "plain" /\ pc' = "open" /\ target' = <<node, "plain">>
        /\ UNCHANGED <<root, php, disk, req, node, info, missed, answer, copy>>
    BY <1>7 DEF ServePlain
  <2>2. InfoIs(target)' /\ <<node, "plain">> \in Variants
    BY <2>1 DEF FilesInv, PathInv, InfoIs, Serving
  <2>3. PathInv'
    BY <2>1, <2>2 DEF FilesInv, PathInv, Looking, Serving
  <2>4. PluginInv' /\ ListingInv' /\ ValidatorHonest'
    BY <2>1 DEF FilesInv, PluginInv, ListingInv, ValidatorHonest, Looking, Serving
  <2> QED BY <2>3, <2>4 DEF FilesInv
<1>8. CASE OpenAndServe
  <2>1. pc = "open" /\ UNCHANGED <<root, php>> /\ \E code : Done(Status(code))
    BY <1>8 DEF OpenAndServe
  <2>2. CASE UNCHANGED copy
    BY <1>1, <2>1, <2>2
  <2>3. CASE copy' # copy
    <3>1. /\ Done(Status(200)) /\ InfoIs(target)
          /\ copy' = [raw |-> req.raw, tag |-> info, body |-> <<target, disk[target].version>>]
      BY <1>8, <2>1, <2>3 DEF OpenAndServe, FilesInv, PathInv
    <3>2. target \in Variants /\ disk[target].version \in Nat
      BY <2>1 DEF FilesInv, PathInv, DiskInv, Stat
    <3>3. /\ info = <<target, info[2]>> /\ info[2] <= disk[target].version
      BY <3>1, <3>2 DEF InfoIs
    <3>4. ValidatorHonest'
      BY <3>1, <3>2, <3>3 DEF ValidatorHonest
    <3> DEFINE what == Status(200)
    <3>5. /\ pc' = "idle" /\ req' = NoRequest /\ node' = <<>> /\ target' = Nothing /\ info' = Nothing
          /\ missed' = FALSE /\ answer' = Status(200) /\ Pure(<<>>, NameSet)
      BY <3>1 DEF Done, Fresh, Pure
    <3>6. PathInv' /\ PluginInv' /\ ListingInv'
      BY <2>1, <3>5 DEF FilesInv, PathInv, Looking, Serving, PluginInv, ListingInv, NoRequest, Status
    <3> QED BY <3>4, <3>6 DEF FilesInv
  <2> QED BY <2>2, <2>3
<1> QED BY <1>2, <1>3, <1>4, <1>6, <1>7, <1>8

\* The other steps change the disk and what is remembered of it only.
LEMMA AsideKept ==
  ASSUME FilesInv, DiskInv', \A v \in Variants : disk[v].version <= disk'[v].version,
         UNCHANGED <<root, php, pc, request, answer, copy>>
  PROVE  FilesInv'
<1> USE DEF request
<1>1. ASSUME NEW v \in Variants, InfoIs(v) PROVE InfoIs(v)'
  <2>1. disk[v].version \in Nat /\ disk'[v].version \in Nat
    BY DEF FilesInv, DiskInv, Stat
  <2> QED BY <1>1, <2>1 DEF InfoIs
<1>2. PathInv'
  <2>1. pc \in Serving => InfoIs(IF pc = "open" THEN target ELSE <<node, "plain">>)'
    BY <1>1 DEF FilesInv, PathInv, Serving
  <2> QED BY <2>1 DEF FilesInv, PathInv, InfoIs, Looking, Serving
<1>3. PluginInv' /\ ListingInv' /\ ValidatorHonest'
  BY DEF FilesInv, PluginInv, ListingInv, ValidatorHonest
<1> QED BY <1>2, <1>3 DEF FilesInv

\* It is an invariant.
LEMMA FilesInvariant == FilesSpec => []FilesInv
<1>1. FilesInit => FilesInv
  <2> SUFFICES ASSUME FilesInit PROVE FilesInv
    OBVIOUS
  <2>1. /\ pc = "idle" /\ req = NoRequest /\ node = <<>> /\ target = Nothing /\ info = Nothing
        /\ missed = FALSE /\ answer = Nothing /\ copy = Nothing /\ root \in BOOLEAN /\ php \in BOOLEAN
    BY DEF FilesInit
  <2>2. Pure(<<>>, NameSet)
    BY DEF Pure
  <2> QED BY <2>1, <2>2, DiskInit DEF FilesInv, PathInv, PluginInv, ListingInv, ValidatorHonest,
                                      NoRequest, Looking, Serving
<1>2. FilesInv /\ [FilesNext]_fileVars => FilesInv'
  <2> SUFFICES ASSUME FilesInv, [FilesNext]_fileVars PROVE FilesInv'
    OBVIOUS
  <2>1. DiskInv' /\ \A v \in Variants : disk[v].version <= disk'[v].version
    BY DiskKept DEF FilesInv
  <2>2. CASE Step
    BY <2>1, <2>2, PluginKept, StaticKept DEF Step
  <2>3. CASE UNCHANGED <<root, php, pc, request, answer, copy>>
    BY <2>1, <2>3, AsideKept
  <2>4. ASSUME NEW v \in Changing, Deploy(v) \/ Delete(v) \/ Warm(v)
        PROVE  UNCHANGED <<root, php, pc, request, answer, copy>>
    BY <2>4 DEF Deploy, Delete, Warm
  <2> QED BY <2>2, <2>3, <2>4 DEF FilesNext, fileVars
<1> QED BY <1>1, <1>2, PTL DEF FilesSpec

\* Every reachable state is well typed, for any requests, directories and files:
\* the path that is looked for is clean however it was written, and no Stat that
\* is remembered is ahead of the disk (static_handler.go:202-234,
\* stat_cache.go:44-65).
THEOREM FilesTypeCorrect == FilesSpec => []FilesTypeOK
<1>1. FilesInv => FilesTypeOK
  <2> SUFFICES ASSUME FilesInv PROVE FilesTypeOK
    OBVIOUS
  <2>1. ToSet(node) \cap (Stay \cup {".."}) = {}
    <3>1. node \in Seq(NameSet) /\ \A i \in 1..Len(node) : node[i] \notin Stay \cup {".."}
      BY DEF FilesInv, PathInv, Pure
    <3> QED BY <3>1 DEF ToSet
  <2>2. disk \in [Variants -> [there : BOOLEAN, version : 0..(1 + MaxChanges)]]
    <3>1. ASSUME NEW v \in Variants PROVE disk[v] \in [there : BOOLEAN, version : 0..(1 + MaxChanges)]
      <4>1. disk[v] \in Stat /\ disk[v].version <= 1 + changes /\ changes \in 0..MaxChanges
        BY DEF FilesInv, DiskInv
      <4> QED BY <4>1, FilesAssumption DEF Stat
    <3> QED BY <3>1 DEF FilesInv, DiskInv
  <2>3. info = Nothing \/ info \in Variants \X (0..(1 + MaxChanges))
    <3>1. ASSUME NEW v \in Variants, InfoIs(v) PROVE info \in Variants \X (0..(1 + MaxChanges))
      <4>1. disk[v].version \in 0..(1 + MaxChanges)
        BY <2>2
      <4> QED BY <3>1, <4>1, FilesAssumption DEF InfoIs
    <3> QED BY <3>1 DEF FilesInv, PathInv, Serving
  <2>4. target \in Variants \cup {Nothing} /\ (pc = "open" => target # Nothing)
    BY FilesAssumption DEF FilesInv, PathInv
  <2> QED BY <2>1, <2>2, <2>3, <2>4 DEF FilesTypeOK, FilesInv, DiskInv, PathInv, Looking, Serving
<1> QED BY <1>1, FilesInvariant, PTL

\* Whatever way a path is written, nothing is opened or listed without a root,
\* nothing behind a dotted name but .well-known, and no other file than the
\* path's, or its index, in an encoding the client takes
\* (static_handler.go:202-234).
THEOREM StaysConfined == FilesSpec => []Confined
<1>1. FilesInv => Confined
  <2> SUFFICES ASSUME FilesInv PROVE Confined
    OBVIOUS
  <2>1. ASSUME target # Nothing
        PROVE  /\ root /\ ~Dotted(target[1]) /\ target[2] \in req.accept \cup {"plain"}
               /\ target[1] \in {Clean(req.raw), Append(Clean(req.raw), "index.html")}
    BY <2>1 DEF FilesInv, PathInv, Serving
  <2> QED BY <2>1 DEF Confined, FilesInv, ListingInv
<1> QED BY <1>1, FilesInvariant, PTL

\* The static handler sends the text of a script of the site's own domain only
\* if the file came after the plugin had looked for it (php.go:94-118), whatever
\* the disk does between any two steps of theirs.
THEOREM ScriptsRunFirst == FilesSpec => []ScriptsAreRun
<1>1. FilesInv => ScriptsAreRun
  BY DEF FilesInv, PathInv, PluginInv, ScriptsAreRun, Serving
<1> QED BY <1>1, FilesInvariant, PTL

\* The body a client keeps is of the very file its ETag was made from and not
\* older (static_handler.go:127-192), for any files and however often they are
\* replaced while the Stat of them is a cached one.
THEOREM ValidatorsAreHonest == FilesSpec => []ValidatorHonest
<1>1. FilesInv => ValidatorHonest
  BY DEF FilesInv
<1> QED BY <1>1, FilesInvariant, PTL

----------------------------------------------------------------------------
(* Sequences of records *)

\* The concatenations of the first i of n sequences.
Joins(f, ss, n) == f = [i \in 1..n |-> IF i = 1 THEN ss[i] ELSE f[i - 1] \o ss[i]]

\* They exist: the recursion in FlattenSeq is one.
LEMMA JoinsExist == ASSUME NEW ss PROVE \A n \in Nat : \E f : Joins(f, ss, n)
<1> DEFINE T == {n \in Nat : \E f : Joins(f, ss, n)}
<1>1. 0 \in T
  <2>1. Joins([i \in 1..0 |-> <<>>], ss, 0)
    BY DEF Joins
  <2> QED BY <2>1
<1>2. ASSUME NEW n \in T PROVE n + 1 \in T
  <2>1. n \in Nat
    OBVIOUS
  <2>2. PICK f : Joins(f, ss, n)
    OBVIOUS
  <2> DEFINE last == IF n = 0 THEN ss[1] ELSE f[n] \o ss[n + 1]
             g == [i \in 1..(n + 1) |-> IF i = n + 1 THEN last ELSE f[i]]
  <2>3. \A i \in 1..n : g[i] = f[i] /\ f[i] = IF i = 1 THEN ss[i] ELSE f[i - 1] \o ss[i]
    <3>1. \A i \in 1..n : f[i] = IF i = 1 THEN ss[i] ELSE f[i - 1] \o ss[i]
      BY <2>2 DEF Joins
    <3> QED BY <2>1, <3>1
  <2>4. ASSUME NEW i \in 1..(n + 1)
        PROVE  g[i] = IF i = 1 THEN ss[i] ELSE g[i - 1] \o ss[i]
    <3>1. CASE i = n + 1 /\ n = 0
      <4>1. g[i] = ss[1] /\ i = 1
        BY <2>1, <3>1
      <4> QED BY <4>1
    <3>2. CASE i = n + 1 /\ n # 0
      <4>1. i # 1 /\ i - 1 = n /\ n \in 1..n
        BY <2>1, <3>2
      <4>2. g[n] = f[n]
        BY <2>3, <4>1
      <4>3. g[i] = f[n] \o ss[n + 1]
        BY <2>1, <3>2
      <4> HIDE DEF g
      <4> QED BY <3>2, <4>1, <4>2, <4>3
    <3>3. CASE i # n + 1 /\ i # 1
      <4>1. i \in 1..n /\ i - 1 \in 1..n
        BY <2>1, <3>3
      <4> QED BY <2>3, <3>3, <4>1
    <3>4. CASE i # n + 1 /\ i = 1
      <4>1. i \in 1..n
        BY <2>1, <3>4
      <4> QED BY <2>3, <3>4, <4>1
    <3> QED BY <3>1, <3>2, <3>3, <3>4
  <2>5. g = [i \in 1..(n + 1) |-> g[i]]
    OBVIOUS
  <2> HIDE DEF g
  <2>6. Joins(g, ss, n + 1)
    BY <2>4, <2>5 DEF Joins
  <2> QED BY <2>1, <2>6
<1> HIDE DEF T
<1>3. T = Nat
  <2>1. T \in SUBSET Nat
    BY DEF T
  <2> QED BY <1>1, <1>2, <2>1, Induction
<1> QED BY <1>3 DEF T

\* The same of two sequences.
LEMMA ToSetConcat ==
  ASSUME NEW S, NEW s \in Seq(S), NEW t \in Seq(S)
  PROVE  ToSet(s \o t) = ToSet(s) \cup ToSet(t)
<1> DEFINE st == s \o t
<1>1. /\ Len(s) \in Nat /\ Len(t) \in Nat /\ DOMAIN s = 1..Len(s) /\ DOMAIN t = 1..Len(t)
      /\ st \in Seq(S) /\ DOMAIN st = 1..Len(s) + Len(t)
  BY ConcatProperties
<1>2. /\ \A i \in 1..Len(s) : i \in DOMAIN st /\ st[i] = s[i]
      /\ \A i \in 1..Len(t) : Len(s) + i \in DOMAIN st /\ st[Len(s) + i] = t[i]
  BY <1>1, ConcatProperties
<1>3. \A i \in DOMAIN st : i \in 1..Len(s) \/ \E j \in 1..Len(t) : i = Len(s) + j
  <2> SUFFICES ASSUME NEW i \in DOMAIN st, i \notin 1..Len(s)
               PROVE  \E j \in 1..Len(t) : i = Len(s) + j
    OBVIOUS
  <2>1. i - Len(s) \in 1..Len(t) /\ i = Len(s) + (i - Len(s))
    BY <1>1
  <2> QED BY <2>1
<1> HIDE DEF st
<1>4. ToSet(st) \subseteq ToSet(s) \cup ToSet(t)
  <2> SUFFICES ASSUME NEW i \in DOMAIN st PROVE st[i] \in ToSet(s) \cup ToSet(t)
    BY DEF ToSet
  <2>1. CASE i \in 1..Len(s)
    BY <1>1, <1>2, <2>1 DEF ToSet
  <2>2. CASE \E j \in 1..Len(t) : i = Len(s) + j
    BY <1>1, <1>2, <2>2 DEF ToSet
  <2> QED BY <1>3, <2>1, <2>2
<1>5. ToSet(s) \cup ToSet(t) \subseteq ToSet(st)
  BY <1>1, <1>2 DEF ToSet
<1> QED BY <1>4, <1>5 DEF st

\* A concatenation has the elements of its parts.
LEMMA Flattened ==
  ASSUME NEW S, NEW ss \in Seq(Seq(S))
  PROVE  /\ FlattenSeq(ss) \in Seq(S)
         /\ ToSet(FlattenSeq(ss)) = UNION {ToSet(ss[i]) : i \in 1..Len(ss)}
<1>0. Len(ss) \in Nat /\ \A i \in 1..Len(ss) : ss[i] \in Seq(S)
  OBVIOUS
<1>1. CASE Len(ss) = 0
  <2>1. FlattenSeq(ss) = ss /\ ss = <<>>
    BY <1>1 DEF FlattenSeq
  <2> QED BY <1>1, <2>1 DEF ToSet
<1>2. CASE Len(ss) # 0
  <2> DEFINE F == CHOOSE f : Joins(f, ss, Len(ss))
             Parts(n) == UNION {ToSet(ss[i]) : i \in 1..n}
  <2>1. Joins(F, ss, Len(ss))
    BY <1>0, JoinsExist
  <2>2. FlattenSeq(ss) = F[Len(ss)]
    BY <1>2 DEF FlattenSeq, Joins
  <2> HIDE DEF F
  <2>3. \A i \in 1..Len(ss) : F[i] = IF i = 1 THEN ss[i] ELSE F[i - 1] \o ss[i]
    BY <2>1 DEF Joins
  <2> DEFINE T == {n \in Nat : n \in 1..Len(ss) => F[n] \in Seq(S) /\ ToSet(F[n]) = Parts(n)}
  <2>4. 0 \in T
    OBVIOUS
  <2>5. ASSUME NEW n \in T PROVE n + 1 \in T
    <3> SUFFICES ASSUME n + 1 \in 1..Len(ss)
                 PROVE  F[n + 1] \in Seq(S) /\ ToSet(F[n + 1]) = Parts(n + 1)
      BY <1>0
    <3>1. n \in Nat /\ 1..(n + 1) = 1..n \cup {n + 1}
      BY <1>0
    <3>2. Parts(n + 1) = Parts(n) \cup ToSet(ss[n + 1])
      BY <3>1
    <3>3. CASE n = 0
      <4>0. n + 1 = 1
        BY <3>3
      <4>1. F[n + 1] = ss[n + 1]
        BY <2>3, <4>0
      <4>2. 1..n = {}
        BY <3>3
      <4>3. Parts(n) = {}
        BY <4>2
      <4> QED BY <1>0, <3>2, <4>1, <4>3
    <3>4. CASE n # 0
      <4>1. n \in 1..Len(ss) /\ n + 1 # 1 /\ (n + 1) - 1 = n
        BY <1>0, <3>1, <3>4
      <4>2. F[n + 1] = F[n] \o ss[n + 1]
        BY <2>3, <4>1
      <4>3. F[n] \in Seq(S) /\ ToSet(F[n]) = Parts(n) /\ ss[n + 1] \in Seq(S)
        BY <1>0, <4>1
      <4>4. ToSet(F[n] \o ss[n + 1]) = ToSet(F[n]) \cup ToSet(ss[n + 1])
        BY <4>3, ToSetConcat
      <4>5. F[n + 1] \in Seq(S)
        BY <4>2, <4>3
      <4> QED BY <3>2, <4>2, <4>3, <4>4, <4>5
    <3> QED BY <3>3, <3>4
  <2>6. T \in SUBSET Nat
    OBVIOUS
  <2> HIDE DEF T
  <2>7. T = Nat
    BY <2>4, <2>5, <2>6, Induction
  <2>8. Len(ss) \in T /\ Len(ss) \in 1..Len(ss)
    BY <1>0, <1>2, <2>7
  <2> QED BY <2>2, <2>8 DEF T
<1> QED BY <1>1, <1>2

\* A tabulated sequence.
LEMMA Tabulated ==
  ASSUME NEW S, NEW n \in Nat, NEW f, f = [i \in 1..n |-> f[i]], \A i \in 1..n : f[i] \in S
  PROVE  f \in Seq(S) /\ Len(f) = n /\ ToSet(f) = {f[i] : i \in 1..n}
<1>1. f \in [1..n -> S]
  OBVIOUS
<1>2. f \in Seq(S) /\ Len(f) = n /\ DOMAIN f = 1..n
  BY <1>1
<1> QED BY <1>2 DEF ToSet

\* The elements of a sequence by their places.
LEMMA ToSetIs == ASSUME NEW S, NEW s \in Seq(S)
                 PROVE  ToSet(s) = {s[i] : i \in 1..Len(s)} /\ ToSet(s) \subseteq S
BY DEF ToSet

----------------------------------------------------------------------------
(* The index of the DNS server *)

\* What the index holds: every record of every zone, under its name.
Entries(c) ==
  UNION {{[fqdn |-> Fqdn(z, r), rec |-> r] : r \in ToSet(c.zones[z])} : z \in ToSet(c.order)}

LEMMA IndexIs ==
  ASSUME NEW c, DnsConfig(c)
  PROVE  Indexed(c) \in Seq(Entries(c)) /\ ToSet(Indexed(c)) = Entries(c)
<1> DEFINE n == Len(c.order)
           E(i, j) == [fqdn |-> Fqdn(c.order[i], c.zones[c.order[i]][j]), rec |-> c.zones[c.order[i]][j]]
           Of(z) == {[fqdn |-> Fqdn(z, r), rec |-> r] : r \in ToSet(c.zones[z])}
           part(i) == [j \in 1..Len(c.zones[c.order[i]]) |-> E(i, j)]
           parts == [i \in 1..n |-> part(i)]
<1>1. /\ n \in Nat /\ ToSet(c.order) = {c.order[i] : i \in 1..n}
      /\ \A i \in 1..n : c.zones[c.order[i]] \in Seq(Record)
  BY ToSetIs DEF DnsConfig
<1>2. ASSUME NEW i \in 1..n PROVE part(i) \in Seq(Entries(c)) /\ ToSet(part(i)) = Of(c.order[i])
  <2> DEFINE rs == c.zones[c.order[i]]
             f == part(i)
  <2> DEFINE m == Len(rs)
  <2>1. m \in Nat /\ ToSet(rs) = {rs[j] : j \in 1..m}
    BY <1>1, ToSetIs
  <2>2. Of(c.order[i]) = {E(i, j) : j \in 1..m}
    BY <2>1
  <2>3. Of(c.order[i]) \subseteq Entries(c)
    BY <1>1 DEF Entries
  <2>4. f = [j \in 1..m |-> f[j]] /\ \A j \in 1..m : f[j] = E(i, j)
    OBVIOUS
  <2> HIDE DEF f, E, Of, m
  <2>5. \A j \in 1..m : f[j] \in Entries(c)
    BY <2>2, <2>3, <2>4
  <2>6. f \in Seq(Entries(c)) /\ ToSet(f) = {f[j] : j \in 1..m}
    BY <2>1, <2>4, <2>5, Tabulated
  <2>7. {f[j] : j \in 1..m} = {E(i, j) : j \in 1..m}
    BY <2>4
  <2> QED BY <2>2, <2>6, <2>7 DEF f
<1>3. Indexed(c) = FlattenSeq(parts)
  BY DEF Indexed
<1>4. Entries(c) = UNION {Of(c.order[i]) : i \in 1..n}
  <2>1. Entries(c) = UNION {Of(z) : z \in ToSet(c.order)}
    BY Zenon DEF Entries
  <2> HIDE DEF Of, n, parts, part
  <2>2. {Of(z) : z \in ToSet(c.order)} = {Of(c.order[i]) : i \in 1..n}
    BY <1>1
  <2> QED BY <2>1, <2>2
<1>5. parts = [i \in 1..n |-> parts[i]] /\ \A i \in 1..n : parts[i] = part(i)
  OBVIOUS
<1> HIDE DEF parts, part, Of, n
<1>6. parts \in Seq(Seq(Entries(c))) /\ Len(parts) = n
  <2>1. n \in Nat /\ \A i \in 1..n : parts[i] \in Seq(Entries(c))
    BY <1>1, <1>2, <1>5
  <2> QED BY <1>5, <2>1, Tabulated
<1>7. \A i \in 1..n : ToSet(parts[i]) = Of(c.order[i])
  BY <1>2, <1>5
<1>8. UNION {ToSet(parts[i]) : i \in 1..n} = UNION {Of(c.order[i]) : i \in 1..n}
  BY <1>7
<1>9. /\ FlattenSeq(parts) \in Seq(Entries(c))
      /\ ToSet(FlattenSeq(parts)) = UNION {ToSet(parts[i]) : i \in 1..n}
  BY <1>6, Flattened
<1> QED BY <1>3, <1>4, <1>8, <1>9

\* What is filed under a name and types.
LEMMA UnderIs ==
  ASSUME NEW c, DnsConfig(c), NEW name, NEW types
  PROVE  /\ Under(c, name, types) \in Seq(Entries(c))
         /\ ToSet(Under(c, name, types)) =
              {e \in Entries(c) : e.fqdn = name /\ Compiles(e.rec) /\ e.rec.type \in types}
<1> DEFINE all == Indexed(c)
           Hit(e) == e.fqdn = name /\ Compiles(e.rec) /\ e.rec.type \in types
           f == [k \in 1..Len(all) |-> Filed(all[k], name, types)]
<1>1. Under(c, name, types) = FlattenSeq(f)
  BY DEF Under
<1>2. all \in Seq(Entries(c)) /\ Entries(c) = {all[k] : k \in 1..Len(all)} /\ Len(all) \in Nat
  BY IndexIs, ToSetIs
<1>3. f = [k \in 1..Len(all) |-> f[k]] /\ \A k \in 1..Len(all) : f[k] = Filed(all[k], name, types)
  OBVIOUS
<1> HIDE DEF all, f
<1>4. ASSUME NEW k \in 1..Len(all)
      PROVE  f[k] \in Seq(Entries(c)) /\ ToSet(f[k]) = {e \in {all[k]} : Hit(e)}
  <2>1. all[k] \in Entries(c)
    BY <1>2
  <2>2. CASE Hit(all[k])
    <3>1. f[k] = <<all[k]>>
      BY <1>3, <2>2 DEF Filed
    <3>2. <<all[k]>> \in Seq(Entries(c)) /\ ToSet(<<all[k]>>) = {all[k]}
      BY <2>1 DEF ToSet
    <3> QED BY <2>2, <3>1, <3>2
  <2>3. CASE ~Hit(all[k])
    <3>1. f[k] = <<>>
      BY <1>3, <2>3 DEF Filed
    <3>2. <<>> \in Seq(Entries(c)) /\ ToSet(<<>>) = {}
      BY DEF ToSet
    <3> QED BY <2>3, <3>1, <3>2
  <2> QED BY <2>2, <2>3
<1> HIDE DEF Hit
<1>5. f \in Seq(Seq(Entries(c))) /\ Len(f) = Len(all)
  BY <1>2, <1>3, <1>4, Tabulated
<1>6. FlattenSeq(f) \in Seq(Entries(c)) /\ ToSet(FlattenSeq(f)) = UNION {ToSet(f[k]) : k \in 1..Len(all)}
  BY <1>5, Flattened
<1>7. UNION {ToSet(f[k]) : k \in 1..Len(all)} = {e \in Entries(c) : Hit(e)}
  BY <1>2, <1>4
<1> QED BY <1>1, <1>6, <1>7 DEF Hit

\* An answer to a question is what the records say.
LEMMA FoundIs ==
  ASSUME NEW c, DnsConfig(c), NEW q
  PROVE  /\ FindRecords(c, q) \in Seq(Entries(c))
         /\ {e.rec : e \in ToSet(FindRecords(c, q))} = Expected(c, q)
         /\ q.name \in Names(c) <=> RecordsOf(c, q.name) # {}
         /\ q.name \notin Names(c) => FindRecords(c, q) = <<>>
<1> DEFINE Hit(e) == e.fqdn = q.name /\ Compiles(e.rec) /\ (e.rec.type = "CNAME" \/ e.rec.type = q.type)
           pairs == UNION {{[zone |-> z, rec |-> r] : r \in ToSet(c.zones[z])} : z \in ToSet(c.order)}
<1>1. Names(c) = {e.fqdn : e \in Entries(c)}
  BY IndexIs DEF Names
<1>2. RecordsOf(c, q.name) = {r \in pairs : Fqdn(r.zone, r.rec) = q.name}
  BY DEF RecordsOf
<1>3. \A e \in Entries(c) : \E r \in pairs : e.fqdn = Fqdn(r.zone, r.rec) /\ e.rec = r.rec
  <2> SUFFICES ASSUME NEW z \in ToSet(c.order), NEW r \in ToSet(c.zones[z])
               PROVE  LET e == [fqdn |-> Fqdn(z, r), rec |-> r] IN
                        \E x \in pairs : e.fqdn = Fqdn(x.zone, x.rec) /\ e.rec = x.rec
    BY DEF Entries
  <2>1. [zone |-> z, rec |-> r] \in pairs
    OBVIOUS
  <2> QED BY <2>1
<1>4. \A r \in pairs : \E e \in Entries(c) : e.fqdn = Fqdn(r.zone, r.rec) /\ e.rec = r.rec
  <2> SUFFICES ASSUME NEW z \in ToSet(c.order), NEW r \in ToSet(c.zones[z])
               PROVE  LET x == [zone |-> z, rec |-> r] IN
                        \E e \in Entries(c) : e.fqdn = Fqdn(x.zone, x.rec) /\ e.rec = x.rec
    OBVIOUS
  <2>1. [fqdn |-> Fqdn(z, r), rec |-> r] \in Entries(c)
    BY DEF Entries
  <2> QED BY <2>1
<1> HIDE DEF pairs
<1>5. q.name \in Names(c) <=> RecordsOf(c, q.name) # {}
  BY <1>1, <1>2, <1>3, <1>4
<1>6. Expected(c, q) = {e.rec : e \in {x \in Entries(c) : Hit(x)}}
  <2>1. Expected(c, q) = {r.rec : r \in {x \in pairs : /\ Fqdn(x.zone, x.rec) = q.name
             /\ Compiles(x.rec) /\ (x.rec.type = "CNAME" \/ x.rec.type = q.type)}}
    BY <1>2 DEF Expected
  <2> QED BY <1>3, <1>4, <2>1
<1>7. CASE q.name \notin Names(c)
  <2>1. FindRecords(c, q) = <<>>
    BY <1>7 DEF FindRecords
  <2>2. {x \in Entries(c) : Hit(x)} = {}
    BY <1>1, <1>7
  <2>3. <<>> \in Seq(Entries(c)) /\ ToSet(<<>>) = {}
    BY DEF ToSet
  <2> QED BY <1>5, <1>6, <2>1, <2>2, <2>3
<1>8. CASE q.name \in Names(c)
  <2> DEFINE typed == IF q.type = "ANY" THEN <<>> ELSE Under(c, q.name, {q.type} \ {"CNAME"})
             cnames == Under(c, q.name, {"CNAME"})
  <2>1. FindRecords(c, q) = typed \o cnames
    BY <1>8 DEF FindRecords
  <2>2. /\ cnames \in Seq(Entries(c))
        /\ ToSet(cnames) = {e \in Entries(c) : e.fqdn = q.name /\ Compiles(e.rec) /\ e.rec.type = "CNAME"}
    BY UnderIs
  <2>3. /\ typed \in Seq(Entries(c))
        /\ ToSet(typed) = {e \in Entries(c) : /\ e.fqdn = q.name /\ Compiles(e.rec)
                                             /\ e.rec.type = q.type /\ e.rec.type # "CNAME"}
    <3>1. CASE q.type = "ANY"
      <4>1. \A e : Compiles(e.rec) => e.rec.type # "ANY"
        BY DEF Compiles, Supported
      <4>2. <<>> \in Seq(Entries(c)) /\ ToSet(<<>>) = {}
        BY DEF ToSet
      <4> QED BY <3>1, <4>1, <4>2
    <3>2. CASE q.type # "ANY"
      BY <3>2, UnderIs
    <3> QED BY <3>1, <3>2
  <2> HIDE DEF typed, cnames
  <2>4. typed \o cnames \in Seq(Entries(c)) /\ ToSet(typed \o cnames) = ToSet(typed) \cup ToSet(cnames)
    BY <2>2, <2>3, ToSetConcat, ConcatProperties
  <2>5. ToSet(typed) \cup ToSet(cnames) = {e \in Entries(c) : Hit(e)}
    BY <2>2, <2>3
  <2> HIDE DEF Hit
  <2> QED BY <1>5, <1>6, <1>8, <2>1, <2>4, <2>5
<1> QED BY <1>7, <1>8

----------------------------------------------------------------------------
(* Names and zones *)

\* The pieces of a name.
Piece == STRING \cup {"."}

\* A sequence ends like another one, place by place.
LEMMA SuffixIs ==
  ASSUME NEW S, NEW s \in Seq(S), NEW t \in Seq(S)
  PROVE  IsSuffix(s, t) <=>
           Len(s) <= Len(t) /\ \A i \in 1..Len(s) : t[Len(t) - Len(s) + i] = s[i]
<1> DEFINE m == Len(s)
           n == Len(t)
           rs == Reverse(s)
           rt == Reverse(t)
<1>1. m \in Nat /\ n \in Nat
  OBVIOUS
<1>2. /\ rs = [i \in 1..m |-> rs[i]] /\ \A i \in 1..m : rs[i] = s[m - i + 1]
      /\ rt = [i \in 1..n |-> rt[i]] /\ \A i \in 1..n : rt[i] = t[n - i + 1]
  BY DEF Reverse
<1>3. IsSuffix(s, t) <=> Len(rs) <= Len(rt) /\ SubSeq(rs, 1, Len(rs)) = SubSeq(rt, 1, Len(rs))
  BY DEF IsSuffix, IsPrefix
<1>4. (\A i \in 1..m : m - i + 1 \in 1..m) /\ (\A i \in 1..n : n - i + 1 \in 1..n)
  BY <1>1
<1>5. (\A i \in 1..m : s[i] \in S) /\ (\A i \in 1..n : t[i] \in S)
  OBVIOUS
<1> HIDE DEF m, n, rs, rt
<1>6. rs \in Seq(S) /\ Len(rs) = m
  <2>1. \A i \in 1..m : rs[i] \in S
    BY <1>2, <1>4, <1>5
  <2> QED BY <1>1, <1>2, <2>1, Tabulated
<1>7. rt \in Seq(S) /\ Len(rt) = n
  <2>1. \A i \in 1..n : rt[i] \in S
    BY <1>2, <1>4, <1>5
  <2> QED BY <1>1, <1>2, <2>1, Tabulated
<1>8. CASE ~ (m <= n)
  BY <1>3, <1>6, <1>7, <1>8 DEF m, n
<1>9. CASE m <= n
  <2>1. \A i \in 1..m : i \in 1..n
    BY <1>1, <1>9
  <2>2. SubSeq(rs, 1, m) = [i \in 1..m |-> rs[i]] /\ SubSeq(rt, 1, m) = [i \in 1..m |-> rt[i]]
    BY <1>1, <1>6, <1>7, <1>9
  <2>3. SubSeq(rs, 1, m) = SubSeq(rt, 1, m) <=> \A i \in 1..m : rs[i] = rt[i]
    <3>1. ASSUME \A i \in 1..m : rs[i] = rt[i]
          PROVE  [i \in 1..m |-> rs[i]] = [i \in 1..m |-> rt[i]]
      BY <3>1
    <3>2. ASSUME [i \in 1..m |-> rs[i]] = [i \in 1..m |-> rt[i]], NEW i \in 1..m
          PROVE  rs[i] = rt[i]
      BY <3>2
    <3> QED BY <2>2, <3>1, <3>2
  <2>4. (\A i \in 1..m : rs[i] = rt[i]) <=> \A i \in 1..m : t[n - m + i] = s[i]
    <3>1. \A i \in 1..m : /\ m - i + 1 \in 1..m /\ m - (m - i + 1) + 1 = i
                          /\ n - (m - i + 1) + 1 = n - m + i /\ n - m + (m - i + 1) = n - i + 1
      BY <1>1
    <3>2. \A i \in 1..m : rs[i] = s[m - i + 1] /\ rt[i] = t[n - i + 1]
      BY <1>2, <2>1
    <3>3. ASSUME \A i \in 1..m : rs[i] = rt[i], NEW i \in 1..m PROVE t[n - m + i] = s[i]
      <4>1. rs[m - i + 1] = s[i] /\ rt[m - i + 1] = t[n - m + i]
        BY <3>1, <3>2
      <4> QED BY <3>1, <3>3, <4>1
    <3>4. ASSUME \A i \in 1..m : t[n - m + i] = s[i], NEW i \in 1..m PROVE rs[i] = rt[i]
      <4>1. t[n - i + 1] = s[m - i + 1]
        BY <3>1, <3>4
      <4> QED BY <3>2, <4>1
    <3> QED BY <3>3, <3>4
  <2> QED BY <1>3, <1>6, <1>7, <1>9, <2>3, <2>4 DEF m, n
<1> QED BY <1>8, <1>9

\* A name is matched with a zone exactly if it is in the zone.
LEMMA ZonesMatch ==
  ASSUME NEW c, DnsConfig(c), NEW name \in Name
  PROVE  InZone(c, name) <=> Belongs(c, name)
<1> SUFFICES ASSUME NEW i \in 1..Len(c.order)
             PROVE  (name = c.order[i] \o Dot \/ IsSuffix(Dot \o c.order[i] \o Dot, name))
                      <=> \E n \in 0..Len(name) :
                            /\ SubSeq(name, n + 1, Len(name)) = c.order[i] \o Dot
                            /\ n = 0 \/ name[n] = "."
  BY DEF InZone, Belongs
<1> DEFINE z == c.order[i]
           zd == z \o Dot
           dzd == Dot \o z \o Dot
           k == Len(zd)
           l == Len(name)
<1>1. name \in Seq(Piece) /\ l \in Nat
  BY DEF Name, Piece
<1>2. z \in Seq(Piece) /\ Dot \in Seq(Piece) /\ Len(Dot) = 1 /\ Dot[1] = "."
  <2>1. z \in Seq(Piece)
    BY DEF DnsConfig, Name, Piece
  <2>2. "." \in Piece
    BY DEF Piece
  <2> QED BY <2>1, <2>2 DEF Dot
<1>3. /\ zd \in Seq(Piece) /\ k = Len(z) + 1 /\ k \in Nat
      /\ \A j \in 1..k : zd[j] = IF j <= Len(z) THEN z[j] ELSE "."
  <2> HIDE DEF z
  <2>1. Len(z) \in Nat
    BY <1>2
  <2>2. /\ zd \in Seq(Piece) /\ Len(zd) = Len(z) + 1
        /\ \A j \in 1..Len(z) + 1 : zd[j] = IF j <= Len(z) THEN z[j] ELSE Dot[j - Len(z)]
    BY <1>2, ConcatProperties
  <2>3. \A j \in 1..k : j <= Len(z) \/ j - Len(z) = 1
    BY <2>1, <2>2
  <2> QED BY <1>2, <2>1, <2>2, <2>3
<1>4. dzd \in Seq(Piece) /\ Len(dzd) = k + 1 /\ dzd[1] = "." /\ \A j \in 1..k : dzd[j + 1] = zd[j]
  <2> HIDE DEF z, zd, k
  <2>1. dzd = Dot \o zd
    BY <1>2, ConcatAssociative DEF zd
  <2>2. /\ Dot \o zd \in Seq(Piece) /\ Len(Dot \o zd) = 1 + k
        /\ \A j \in 1..1 + k : (Dot \o zd)[j] = IF j <= 1 THEN Dot[j] ELSE zd[j - 1]
    <3>1. /\ Dot \o zd \in Seq(Piece) /\ Len(Dot \o zd) = Len(Dot) + Len(zd)
          /\ \A j \in 1..Len(Dot) + Len(zd) :
               (Dot \o zd)[j] = IF j <= Len(Dot) THEN Dot[j] ELSE zd[j - Len(Dot)]
      BY <1>2, <1>3, ConcatProperties
    <3> HIDE DEF dzd
    <3> QED BY <1>2, <3>1 DEF k
  <2>3. \A j \in 1..k : j + 1 \in 1..1 + k /\ ~(j + 1 <= 1) /\ (j + 1) - 1 = j
    BY <1>3
  <2> HIDE DEF dzd
  <2>4. 1 \in 1..1 + k
    BY <1>3
  <2> QED BY <1>2, <1>3, <2>1, <2>2, <2>3, <2>4
<1> HIDE DEF z, zd, dzd, k, l
<1>5. \A n \in 0..l : /\ SubSeq(name, n + 1, l) \in Seq(Piece)
                      /\ Len(SubSeq(name, n + 1, l)) = l - n
                      /\ \A j \in 1..(l - n) : SubSeq(name, n + 1, l)[j] = name[n + j]
  <2> SUFFICES ASSUME NEW n \in 0..l
               PROVE  /\ SubSeq(name, n + 1, l) \in Seq(Piece)
                      /\ Len(SubSeq(name, n + 1, l)) = l - n
                      /\ \A j \in 1..(l - n) : SubSeq(name, n + 1, l)[j] = name[n + j]
    OBVIOUS
  <2>1. n + 1 \in 1..l + 1
    BY <1>1
  <2> QED BY <1>1, <2>1, SubSeqProperties DEF l
<1>6. IsSuffix(dzd, name) <=> k + 1 <= l /\ \A j \in 1..(k + 1) : name[l - (k + 1) + j] = dzd[j]
  <2>1. IsSuffix(dzd, name) <=>
          Len(dzd) <= Len(name) /\ \A j \in 1..Len(dzd) : name[Len(name) - Len(dzd) + j] = dzd[j]
    BY <1>1, <1>4, SuffixIs
  <2> QED BY <1>4, <2>1 DEF l
<1>7. ASSUME name = zd PROVE SubSeq(name, 0 + 1, l) = zd /\ 0 \in 0..l
  <2>1. SubSeq(name, 1, l) = name
    BY <1>1, SubSeqFull DEF l
  <2> QED BY <1>1, <1>7, <2>1
<1>8. ASSUME IsSuffix(dzd, name)
      PROVE  \E n \in 0..l : SubSeq(name, n + 1, l) = zd /\ name[n] = "."
  <2> DEFINE n == l - k
             s == SubSeq(name, n + 1, l)
  <2>1. n \in 0..l /\ l - n = k /\ n = l - (k + 1) + 1
    BY <1>1, <1>3, <1>6, <1>8
  <2>2. name[n] = "."
    <3>1. 1 \in 1..(k + 1)
      BY <1>3
    <3> QED BY <1>4, <1>6, <1>8, <2>1, <3>1
  <2>3. s \in Seq(Piece) /\ Len(s) = k /\ \A j \in 1..k : s[j] = name[n + j]
    BY <1>5, <2>1
  <2>4. \A j \in 1..k : name[n + j] = zd[j]
    <3> SUFFICES ASSUME NEW j \in 1..k PROVE name[n + j] = zd[j]
      OBVIOUS
    <3>1. j + 1 \in 1..(k + 1) /\ l - (k + 1) + (j + 1) = n + j
      BY <1>1, <1>3
    <3> QED BY <1>4, <1>6, <1>8, <3>1
  <2> HIDE DEF n, s
  <2>5. s = zd
    BY <1>3, <2>3, <2>4, SeqEqual DEF k
  <2> QED BY <2>1, <2>2, <2>5 DEF s
<1>9. ASSUME NEW n \in 0..l, SubSeq(name, n + 1, l) = zd, n = 0
      PROVE  name = zd
  BY <1>1, <1>9, SubSeqFull DEF l
<1>10. ASSUME NEW n \in 0..l, SubSeq(name, n + 1, l) = zd, n # 0, name[n] = "."
       PROVE  IsSuffix(dzd, name)
  <2>1. l - n = k
    BY <1>5, <1>10 DEF k
  <2>2. n \in Nat /\ n >= 1 /\ k + 1 <= l /\ l - (k + 1) = n - 1
    BY <1>1, <1>3, <1>10, <2>1
  <2>3. ASSUME NEW j \in 1..(k + 1) PROVE name[(n - 1) + j] = dzd[j]
    <3>1. CASE j = 1
      BY <1>4, <1>10, <2>2, <3>1
    <3>2. CASE j # 1
      <4>1. j - 1 \in 1..k /\ (j - 1) + 1 = j /\ n + (j - 1) = (n - 1) + j
        BY <1>3, <2>2, <3>2
      <4>2. zd[j - 1] = name[n + (j - 1)]
        BY <1>5, <1>10, <2>1, <4>1
      <4>3. dzd[(j - 1) + 1] = zd[j - 1]
        BY <1>4, <4>1
      <4> QED BY <4>1, <4>2, <4>3
    <3> QED BY <3>1, <3>2
  <2> QED BY <1>6, <2>2, <2>3
<1>11. (name = zd \/ IsSuffix(dzd, name))
         <=> \E n \in 0..l : SubSeq(name, n + 1, l) = zd /\ (n = 0 \/ name[n] = ".")
  BY <1>7, <1>8, <1>9, <1>10
<1> QED BY <1>11 DEF z, zd, dzd, l

----------------------------------------------------------------------------
(* Replies *)

\* A reply before it is cut to its size.
Reply(code, found, local, asked) ==
  [rcode |-> code, answers |-> found, local |-> local, truncated |-> FALSE, asked |-> asked]

\* What is cut off a reply is marked so.
LEMMA FitIs ==
  ASSUME NEW S, NEW r, r = Reply(r.rcode, r.answers, r.local, r.asked), r.answers \in Seq(S),
         NEW udp, NEW size \in Nat
  PROVE  LET f == Fit(r, udp, size)
         IN  /\ f.rcode = r.rcode /\ f.local = r.local /\ f.asked = r.asked
             /\ ToSet(f.answers) \subseteq ToSet(r.answers)
             /\ f.truncated \/ f.answers = r.answers
<1> DEFINE found == r.answers
           room == IF size > MinSize THEN size ELSE MinSize
<1>1. room \in Nat /\ Len(found) \in Nat
  BY DnsHandlerAssumption
<1>2. CASE udp /\ Len(found) > room
  <2> DEFINE short == SubSeq(found, 1, room)
             f == [rcode |-> r.rcode, answers |-> short, local |-> r.local, truncated |-> TRUE,
                   asked |-> r.asked]
  <2>1. Fit(r, udp, size) = f
    BY <1>2 DEF Fit, Reply
  <2>2. \A i \in 1..room : i \in 1..Len(found) /\ found[i] \in S
    BY <1>1, <1>2
  <2>3. short \in Seq(S) /\ Len(short) = room /\ \A i \in 1..room : short[i] = found[i]
    BY <1>1, <2>2
  <2> HIDE DEF short, room
  <2>4. ToSet(short) \subseteq ToSet(found)
    <3>1. ToSet(short) = {short[i] : i \in 1..room} /\ ToSet(found) = {found[i] : i \in 1..Len(found)}
      BY <2>3, ToSetIs
    <3> QED BY <2>2, <2>3, <3>1
  <2>5. /\ f.rcode = r.rcode /\ f.local = r.local /\ f.asked = r.asked
        /\ f.answers = short /\ f.truncated
    OBVIOUS
  <2> QED BY <2>1, <2>4, <2>5
<1>3. CASE ~(udp /\ Len(found) > room)
  <2>1. Fit(r, udp, size) = r
    BY <1>3 DEF Fit
  <2> QED BY <2>1
<1> QED BY <1>2, <1>3

\* The forwarder's reply is not one of this server, and asks no resolver after
\* one that answers.
LEMMA ForwardIs ==
  ASSUME NEW c, DnsConfig(c), NEW udp, NEW size \in Nat
  PROVE  LET f == Fit(Forward(c), udp, size)
         IN  f.local = FALSE /\ f.asked \in Nat /\ \A i \in 1..(f.asked - 1) : c.upstreams[i] < 0
<1> DEFINE up == c.upstreams
           good == {i \in 1..Len(up) : up[i] >= 0}
           first == CHOOSE i \in good : \A j \in good : i <= j
<1>1. up \in Seq(Int) /\ Len(up) \in Nat /\ \A i \in 1..Len(up) : up[i] \in Int
  BY DEF DnsConfig
<1> HIDE DEF up
<1>2. CASE good = {}
  <2>1. Forward(c) = Reply("SERVFAIL", <<>>, FALSE, Len(up))
    BY <1>2 DEF Forward, Rcode, Reply, up
  <2> DEFINE r == Forward(c)
  <2>2. Fit(r, udp, size).local = FALSE /\ Fit(r, udp, size).asked = Len(up)
    <3>1. /\ r = Reply(r.rcode, r.answers, r.local, r.asked) /\ r.answers \in Seq({})
          /\ r.local = FALSE /\ r.asked = Len(up)
      BY <2>1 DEF Reply
    <3> HIDE DEF r
    <3> QED BY <3>1, FitIs
  <2>3. \A i \in 1..(Len(up) - 1) : up[i] < 0
    <3> SUFFICES ASSUME NEW i \in 1..(Len(up) - 1) PROVE up[i] < 0
      OBVIOUS
    <3>1. i \in 1..Len(up) /\ i \notin good
      BY <1>1, <1>2
    <3> QED BY <1>1, <3>1
  <2> QED BY <1>1, <2>1, <2>2, <2>3 DEF up
<1>3. CASE good # {}
  <2>1. first \in good /\ \A j \in good : first <= j
    <3>1. good \subseteq Nat
      BY <1>1
    <3> HIDE DEF good
    <3>2. PICK x \in good : \A y \in good : ~ (<<y, x>> \in OpToRel(<, Nat))
      BY <1>3, <3>1, WFMin, NatLessThanWellFounded
    <3>3. \A y \in good : ~ (y < x)
      BY <3>1, <3>2, Zenon DEF OpToRel
    <3>4. \A y \in good : x <= y
      BY <3>1, <3>3
    <3> QED BY <3>4
  <2>2. first \in 1..Len(up) /\ first \in Nat /\ up[first] \in Nat
    BY <1>1, <2>1
  <2> DEFINE found == [n \in 1..up[first] |-> "remote"]
  <2> HIDE DEF first
  <2>3. Forward(c) = Reply("FORWARDED", found, FALSE, first)
    BY <1>3 DEF Forward, Rcode, Reply, up, first
  <2>4. found \in Seq({"remote"})
    BY <2>2
  <2> HIDE DEF found
  <2> DEFINE r == Forward(c)
  <2>5. Fit(r, udp, size).local = FALSE /\ Fit(r, udp, size).asked = first
    <3>1. /\ r = Reply(r.rcode, r.answers, r.local, r.asked) /\ r.answers \in Seq({"remote"})
          /\ r.local = FALSE /\ r.asked = first
      BY <2>3, <2>4 DEF Reply
    <3> HIDE DEF r
    <3> QED BY <3>1, FitIs
  <2>6. \A i \in 1..(first - 1) : up[i] < 0
    <3> SUFFICES ASSUME NEW i \in 1..(first - 1) PROVE up[i] < 0
      OBVIOUS
    <3>1. i \in 1..Len(up) /\ ~(first <= i)
      BY <1>1, <2>2
    <3>2. i \notin good
      BY <2>1, <3>1
    <3> QED BY <1>1, <3>1, <3>2
  <2> QED BY <2>2, <2>3, <2>5, <2>6 DEF up
<1> QED BY <1>2, <1>3

\* What ServeDNS makes of the questions of a query qs.
Outside(c, qs) == {i \in 1..Len(qs) : ~InZone(c, qs[i].name)}
Missing(c, qs) == {i \in 1..Len(qs) : FindRecords(c, qs[i]) = <<>> /\ qs[i].name \notin Names(c)}
Inside(c, qs) == {q \in ToSet(qs) : Belongs(c, q.name)}
Local(c, qs) ==
  [rcode |-> IF Outside(c, qs) \cup Missing(c, qs) = {} THEN "NOERROR" ELSE "NXDOMAIN",
   answers |-> FlattenSeq([i \in 1..Len(qs) |->
     IF i \in Outside(c, qs) THEN <<>> ELSE FindRecords(c, qs[i])]),
   local |-> TRUE, truncated |-> FALSE, asked |-> 0]

\* An own reply, before it is cut, against the records.
LEMMA LocalIs ==
  ASSUME NEW c, DnsConfig(c), NEW qs \in Seq(Question)
  PROVE  /\ Local(c, qs).answers \in Seq(Entries(c))
         /\ {e.rec : e \in ToSet(Local(c, qs).answers)} = UNION {Expected(c, q) : q \in Inside(c, qs)}
         /\ Local(c, qs).rcode = "NXDOMAIN" <=>
              (Inside(c, qs) # ToSet(qs) \/ \E q \in Inside(c, qs) : RecordsOf(c, q.name) = {})
         /\ Outside(c, qs) = {} <=> Inside(c, qs) = ToSet(qs)
<1> DEFINE n == Len(qs)
           f == [i \in 1..n |-> IF i \in Outside(c, qs) THEN <<>> ELSE FindRecords(c, qs[i])]
<1>1. /\ n \in Nat /\ ToSet(qs) = {qs[i] : i \in 1..n}
      /\ \A i \in 1..n : qs[i] \in Question /\ qs[i].name \in Name
  <2>1. n \in Nat /\ ToSet(qs) = {qs[i] : i \in 1..n} /\ \A i \in 1..n : qs[i] \in Question
    BY ToSetIs
  <2> QED BY <2>1 DEF Question
<1>2. \A i \in 1..n : i \notin Outside(c, qs) <=> Belongs(c, qs[i].name)
  BY <1>1, ZonesMatch DEF Outside
<1>3. Inside(c, qs) = {qs[i] : i \in 1..n \ Outside(c, qs)}
  BY <1>1, <1>2 DEF Inside
<1>4. f = [i \in 1..n |-> f[i]]
      /\ \A i \in 1..n : f[i] = IF i \in Outside(c, qs) THEN <<>> ELSE FindRecords(c, qs[i])
  OBVIOUS
<1>5. Local(c, qs).answers = FlattenSeq(f)
  BY DEF Local
<1> HIDE DEF f, n
<1>6. ASSUME NEW i \in 1..n
      PROVE  /\ f[i] \in Seq(Entries(c))
             /\ {e.rec : e \in ToSet(f[i])} = IF i \in Outside(c, qs) THEN {} ELSE Expected(c, qs[i])
  <2>1. CASE i \in Outside(c, qs)
    <3>1. f[i] = <<>>
      BY <1>4, <2>1
    <3>2. <<>> \in Seq(Entries(c)) /\ ToSet(<<>>) = {}
      BY DEF ToSet
    <3> QED BY <2>1, <3>1, <3>2
  <2>2. CASE i \notin Outside(c, qs)
    BY <1>4, <2>2, FoundIs
  <2> QED BY <2>1, <2>2
<1>7. f \in Seq(Seq(Entries(c))) /\ Len(f) = n
  <2>1. n \in Nat /\ \A i \in 1..n : f[i] \in Seq(Entries(c))
    BY <1>1, <1>6
  <2> QED BY <1>4, <2>1, Tabulated
<1>8. FlattenSeq(f) \in Seq(Entries(c)) /\ ToSet(FlattenSeq(f)) = UNION {ToSet(f[i]) : i \in 1..n}
  BY <1>7, Flattened
<1>9. {e.rec : e \in ToSet(FlattenSeq(f))} = UNION {Expected(c, q) : q \in Inside(c, qs)}
  <2>1. {e.rec : e \in ToSet(FlattenSeq(f))} = UNION {{e.rec : e \in ToSet(f[i])} : i \in 1..n}
    BY <1>8
  <2>2. UNION {{e.rec : e \in ToSet(f[i])} : i \in 1..n}
          = UNION {IF i \in Outside(c, qs) THEN {} ELSE Expected(c, qs[i]) : i \in 1..n}
    BY <1>6
  <2>3. UNION {IF i \in Outside(c, qs) THEN {} ELSE Expected(c, qs[i]) : i \in 1..n}
          = UNION {Expected(c, q) : q \in Inside(c, qs)}
    BY <1>3
  <2> QED BY <2>1, <2>2, <2>3
<1>10. Outside(c, qs) = {} <=> Inside(c, qs) = ToSet(qs)
  <2>1. ASSUME Outside(c, qs) = {} PROVE Inside(c, qs) = ToSet(qs)
    BY <1>1, <1>3, <2>1
  <2>2. ASSUME Inside(c, qs) = ToSet(qs), NEW i \in Outside(c, qs) PROVE FALSE
    <3>1. i \in 1..n /\ ~Belongs(c, qs[i].name)
      BY <1>2 DEF Outside, n
    <3>2. qs[i] \in Inside(c, qs)
      BY <1>1, <2>2, <3>1
    <3> QED BY <3>1, <3>2 DEF Inside
  <2> QED BY <2>1, <2>2
<1>11. \A i \in 1..n : i \in Missing(c, qs) <=> RecordsOf(c, qs[i].name) = {}
  BY FoundIs DEF Missing, n
<1>12. (Outside(c, qs) \cup Missing(c, qs) # {}) <=>
         (Inside(c, qs) # ToSet(qs) \/ \E q \in Inside(c, qs) : RecordsOf(c, q.name) = {})
  <2>1. CASE Outside(c, qs) # {}
    BY <1>10, <2>1
  <2>2. CASE Outside(c, qs) = {}
    <3>1. Inside(c, qs) = {qs[i] : i \in 1..n}
      BY <1>3, <2>2
    <3>2. Missing(c, qs) # {} <=> \E i \in 1..n : RecordsOf(c, qs[i].name) = {}
      BY <1>11 DEF Missing, n
    <3> QED BY <1>10, <2>2, <3>1, <3>2
  <2> QED BY <2>1, <2>2
<1>13. Local(c, qs).rcode = "NXDOMAIN" <=> Outside(c, qs) \cup Missing(c, qs) # {}
  BY DEF Local
<1> QED BY <1>5, <1>8, <1>9, <1>10, <1>12, <1>13

\* A reply of ServeDNS.
LEMMA ReplyIsRight ==
  ASSUME DnsConfig(dns), NEW q, DnsQuery(q),
         reply = [query |-> q, msg |-> ServeDNS(dns, q.client, q.questions, q.udp, q.size)]
  PROVE  DnsReplies
<1> DEFINE qs == q.questions
           m == ServeDNS(dns, q.client, qs, q.udp, q.size)
           got == {e.rec : e \in ToSet(m.answers)}
           expected == UNION {Expected(dns, x) : x \in Inside(dns, qs)}
<1>1. qs \in Seq(Question) /\ q.size \in Nat /\ reply.query = q /\ reply.msg = m
  BY DEF DnsQuery
<1>2. m = IF Outside(dns, qs) # {} /\ dns.upstreams # <<>>
          THEN IF RecursionAllowed(dns, q.client) THEN Fit(Forward(dns), q.udp, q.size)
               ELSE Rcode("REFUSED")
          ELSE Fit(Local(dns, qs), q.udp, q.size)
  BY DEF ServeDNS, Outside, Missing, Local
<1> HIDE DEF m
<1>3. CASE Outside(dns, qs) # {} /\ dns.upstreams # <<>> /\ RecursionAllowed(dns, q.client)
  <2>1. m = Fit(Forward(dns), q.udp, q.size)
    BY <1>2, <1>3
  <2>2. m.local = FALSE /\ \A i \in 1..(m.asked - 1) : dns.upstreams[i] < 0
    <3> DEFINE f == Fit(Forward(dns), q.udp, q.size)
    <3>1. f.local = FALSE /\ \A i \in 1..(f.asked - 1) : dns.upstreams[i] < 0
      BY <1>1, ForwardIs
    <3> HIDE DEF f
    <3>2. m = f
      BY <2>1 DEF f
    <3> QED BY <3>1, <3>2
  <2>3. q.client \in dns.acl \/ (dns.acl = {} /\ q.client = "private")
    BY <1>3 DEF RecursionAllowed
  <2>4. \E x \in ToSet(qs) : ~Belongs(dns, x.name)
    BY <1>1, <1>3, LocalIs DEF Inside
  <2>5. OwnReplies
    BY <1>1, <2>2 DEF OwnReplies
  <2>6. ForwarderIsClosed
    BY <1>1, <2>2, <2>3, <2>4 DEF ForwarderIsClosed
  <2> QED BY <2>5, <2>6 DEF DnsReplies
<1>4. CASE Outside(dns, qs) # {} /\ dns.upstreams # <<>> /\ ~RecursionAllowed(dns, q.client)
  <2>1. m = Rcode("REFUSED")
    BY <1>2, <1>4
  <2>2. m.local = FALSE /\ m.asked = 0
    BY <2>1 DEF Rcode
  <2>3. OwnReplies
    BY <1>1, <2>2 DEF OwnReplies
  <2>4. ForwarderIsClosed
    BY <1>1, <2>2 DEF ForwarderIsClosed
  <2> QED BY <2>3, <2>4 DEF DnsReplies
<1>5. CASE ~(Outside(dns, qs) # {} /\ dns.upstreams # <<>>)
  <2> DEFINE r == Local(dns, qs)
  <2>1. m = Fit(r, q.udp, q.size)
    BY <1>2, <1>5
  <2>2. r = Reply(r.rcode, r.answers, r.local, r.asked) /\ r.asked = 0
    BY DEF Local, Reply
  <2>3. /\ r.answers \in Seq(Entries(dns)) /\ {e.rec : e \in ToSet(r.answers)} = expected
        /\ r.rcode = "NXDOMAIN" <=>
             (Inside(dns, qs) # ToSet(qs) \/ \E x \in Inside(dns, qs) : RecordsOf(dns, x.name) = {})
        /\ Outside(dns, qs) = {} <=> Inside(dns, qs) = ToSet(qs)
    BY <1>1, LocalIs
  <2> HIDE DEF r
  <2>4. /\ m.rcode = r.rcode /\ m.asked = 0 /\ ToSet(m.answers) \subseteq ToSet(r.answers)
        /\ m.truncated \/ m.answers = r.answers
    <3> DEFINE f == Fit(r, q.udp, q.size)
    <3>1. /\ f.rcode = r.rcode /\ f.asked = r.asked /\ ToSet(f.answers) \subseteq ToSet(r.answers)
          /\ f.truncated \/ f.answers = r.answers
      <4>1. r.answers \in Seq(Entries(dns)) /\ q.size \in Nat
        BY <1>1, <2>3
      <4>2. r = Reply(r.rcode, r.answers, r.local, r.asked)
        BY <2>2
      <4> QED BY <4>1, <4>2, FitIs
    <3> HIDE DEF f
    <3>2. m = f
      BY <2>1 DEF f
    <3> QED BY <2>2, <3>1, <3>2
  <2>5. got \subseteq expected /\ (got # expected => m.truncated)
    BY <2>3, <2>4
  <2>6. dns.upstreams # <<>> => Inside(dns, qs) = ToSet(qs)
    BY <1>5, <2>3
  <2>7. OwnReplies
    BY <1>1, <2>3, <2>4, <2>5, <2>6 DEF OwnReplies, Inside
  <2>8. ForwarderIsClosed
    BY <1>1, <2>4 DEF ForwarderIsClosed
  <2> QED BY <2>7, <2>8 DEF DnsReplies
<1> QED BY <1>3, <1>4, <1>5

\* The last reply is one of ServeDNS to a query, under the configuration.
Answered ==
  /\ dns \in DnsConfigs
  /\ reply # None => \E q \in Queries :
       reply = [query |-> q, msg |-> ServeDNS(dns, q.client, q.questions, q.udp, q.size)]

\* The DNS server answers for all records and only for them, and forwards only
\* for whom it may, only what is out of its zones, and only until a resolver
\* answers, whatever the zones, the records, the lists and the queries are
\* (internal/dns/handler.go:57-296).
THEOREM DnsAnswersAreRight == Spec => []DnsReplies
<1>1. Init => Answered
  BY ServersAssumption DEF Init, Answered
<1>2. Answered /\ [Next]_vars => Answered'
  <2> SUFFICES ASSUME Answered, [Next]_vars PROVE Answered'
    OBVIOUS
  <2> USE DEF dnsVars
  <2>1. CASE UNCHANGED <<dns, reply>>
    BY <2>1 DEF Answered
  <2>2. CASE Query
    BY <2>2 DEF Query, Answered
  <2>3. ASSUME NEW s \in Sites, LoadFile(s) \/ InitSite(s) PROVE Answered'
    BY <2>1, <2>3 DEF LoadFile, InitSite
  <2>4. CASE OpenLoggers \/ GiveUp \/ Wire \/ StartDNS
    BY <2>1, <2>4 DEF OpenLoggers, GiveUp, Wire, StartDNS
  <2>5. ASSUME NEW p \in Ports, StartPort(p) PROVE Answered'
    BY <2>1, <2>5 DEF StartPort
  <2>6. CASE UNCHANGED vars
    BY <2>1, <2>6 DEF vars
  <2> QED BY <2>2, <2>3, <2>4, <2>5, <2>6 DEF Next
<1>3. Answered => DnsReplies
  <2>1. CASE reply = None
    BY <2>1 DEF DnsReplies, OwnReplies, ForwarderIsClosed
  <2>2. CASE reply # None
    BY <2>2, ReplyIsRight, ServersAssumption DEF Answered
  <2> QED BY <2>1, <2>2
<1> QED BY <1>1, <1>2, <1>3, PTL DEF Spec

=============================================================================
