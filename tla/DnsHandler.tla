----------------------------- MODULE DnsHandler -----------------------------
(***************************************************************************)
(* The answers of the DNS server: the index of the records, the match of a *)
(* name with the zones, the reply to a query and the forwarder.            *)
(*                                                                         *)
(* A name is a sequence of pieces, "." among them, so that it may end like *)
(* a zone without being in it.  The DNS library's messages are left out,   *)
(* but for what decides the reply.                                         *)
(***************************************************************************)
EXTENDS Integers, Sequences, SequencesExt

CONSTANT MinSize  \* records that fit a datagram without EDNS

ASSUME DnsHandlerAssumption == MinSize \in Nat

\* A configuration c. zones: per zone its records, in the order of the file; order: that of the
\* iteration over the map of zones; acl: the clients that may use the forwarder
\* ("bad": an entry does not parse); upstreams: per resolver how many records it
\* answers, or -1 if it fails.
\* A record: name ("@": the zone itself), type, and whether its value parses.
Name == Seq(STRING)
Record == [name : STRING, type : STRING, parses : BOOLEAN]
DnsConfig(c) ==
  /\ c.order \in Seq(Name) /\ \A i \in 1..Len(c.order) : c.zones[c.order[i]] \in Seq(Record)
  /\ c.acl \subseteq STRING /\ c.upstreams \in Seq(Int)
Question == [name : Name, type : STRING]
DnsQuery(q) == q.questions \in Seq(Question) /\ q.udp \in BOOLEAN /\ q.size \in Nat

Dot == <<".">>
Fqdn(zone, rec) == IF rec.name = "@" THEN zone \o Dot ELSE <<rec.name>> \o Dot \o zone \o Dot

\* createRR
Supported == {"A", "AAAA", "CNAME", "TXT", "NS", "MX"}
Compiles(rec) == rec.type \in Supported /\ (rec.type \in {"A", "AAAA"} => rec.parses)

----------------------------------------------------------------------------
(* The index *)

\* buildIndex: the records of all zones, zone after zone, under their names.
Indexed(c) ==
  FlattenSeq([i \in 1..Len(c.order) |->
    LET zone == c.order[i] IN
      [j \in 1..Len(c.zones[zone]) |->
         [fqdn |-> Fqdn(zone, c.zones[zone][j]), rec |-> c.zones[zone][j]]]])

\* A record that does not compile makes its name exist all the same.
Names(c) == {e.fqdn : e \in ToSet(Indexed(c))}

\* rrIndex and cnameIndex, to which one record after the other is appended.
Filed(e, name, types) ==
  IF e.fqdn = name /\ Compiles(e.rec) /\ e.rec.type \in types THEN <<e>> ELSE <<>>
Under(c, name, types) ==
  LET all == Indexed(c) IN FlattenSeq([k \in 1..Len(all) |-> Filed(all[k], name, types)])

\* matchZone: at a label boundary. Whether a zone contains the name is all that
\* the caller uses.
AnySuffix(c, name) ==  \* fault: anywhere in a label
  \E i \in 1..Len(c.order) : IsSuffix(c.order[i] \o Dot, name)
InZone(c, name) ==
  \E i \in 1..Len(c.order) :
    name = c.order[i] \o Dot \/ IsSuffix(Dot \o c.order[i] \o Dot, name)

\* findRecords: a CNAME answers every type, and ANY only a CNAME.
FindRecords(c, q) ==
  IF q.name \notin Names(c) THEN <<>>
  ELSE (IF q.type = "ANY" THEN <<>> ELSE Under(c, q.name, {q.type} \ {"CNAME"}))
       \o Under(c, q.name, {"CNAME"})

----------------------------------------------------------------------------
(* ServeDNS *)

\* buildRecursionACL: private ranges when no network is listed; what does not
\* parse is dropped.
OpenDefault(c, client) == c.acl = {} \/ client \in c.acl  \* fault: everybody
RecursionAllowed(c, client) ==
  client \in (IF c.acl = {} THEN {"private"} ELSE c.acl \ {"bad"})

Rcode(code) == [rcode |-> code, answers |-> <<>>, local |-> FALSE, truncated |-> FALSE, asked |-> 0]

\* handleForwarding: the resolvers in turn, until one answers.
Forward(c) ==
  LET good == {i \in 1..Len(c.upstreams) : c.upstreams[i] >= 0}
      first == CHOOSE i \in good : \A j \in good : i <= j
  IN  IF good = {} THEN [Rcode("SERVFAIL") EXCEPT !.asked = Len(c.upstreams)]
      ELSE [Rcode("FORWARDED") EXCEPT !.asked = first,
              !.answers = [n \in 1..c.upstreams[first] |-> "remote"]]

\* msg.Truncate: over UDP, to the size the client advertises, if it is larger.
Fit(reply, udp, size) ==
  LET max == IF size > MinSize THEN size ELSE MinSize IN
    IF udp /\ Len(reply.answers) > max
    THEN [reply EXCEPT !.answers = SubSeq(@, 1, max), !.truncated = TRUE] ELSE reply

\* The first question outside of the zones sends the whole query to the
\* forwarder, if there is one; a name that does not exist makes the reply
\* NXDOMAIN, whatever the other questions find.
ServeDNS(c, client, qs, udp, size) ==
  LET outside == {i \in 1..Len(qs) : ~InZone(c, qs[i].name)}
      missing == {i \in 1..Len(qs) : FindRecords(c, qs[i]) = <<>> /\ qs[i].name \notin Names(c)}
  IN  IF outside # {} /\ c.upstreams # <<>>
      THEN IF RecursionAllowed(c, client) THEN Fit(Forward(c), udp, size) ELSE Rcode("REFUSED")
      ELSE Fit([rcode |-> IF outside \cup missing = {} THEN "NOERROR" ELSE "NXDOMAIN",
                answers |-> FlattenSeq([i \in 1..Len(qs) |->
                  IF i \in outside THEN <<>> ELSE FindRecords(c, qs[i])]),
                local |-> TRUE, truncated |-> FALSE, asked |-> 0], udp, size)

----------------------------------------------------------------------------
(* A reference, read from the records themselves rather than from the index *)

Belongs(c, name) ==
  \E i \in 1..Len(c.order) : \E n \in 0..Len(name) :
    /\ SubSeq(name, n + 1, Len(name)) = c.order[i] \o Dot
    /\ n = 0 \/ name[n] = "."
RecordsOf(c, name) ==
  {r \in UNION {{[zone |-> z, rec |-> r] : r \in ToSet(c.zones[z])} : z \in ToSet(c.order)} :
     Fqdn(r.zone, r.rec) = name}
Expected(c, q) ==
  {r.rec : r \in {x \in RecordsOf(c, q.name) :
     Compiles(x.rec) /\ (x.rec.type = "CNAME" \/ x.rec.type = q.type)}}

=============================================================================
