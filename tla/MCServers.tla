----------------------------- MODULE MCServers -----------------------------
EXTENDS Servers, TLC

Symmetry == Permutations(Sites)

\* Sites of two domains and two ports, with the faults a file may have.
Handlers ==
  {[serve |-> "static", url |-> FALSE, root |-> r] : r \in {"none", "there", "missing"}}
  \cup {[serve |-> k, url |-> u, root |-> "none"] : k \in {"proxy", "upstreams"}, u \in BOOLEAN}
  \cup {[serve |-> "upstreams", url |-> TRUE, root |-> "missing"]}
SiteOptions ==
  {[domain |-> d, port |-> p, serve |-> h.serve, url |-> h.url, root |-> h.root, ssl |-> s] :
     d \in {"a", "b"}, p \in {80, 443}, h \in Handlers,
     s \in {"off", "files", "broken", "incomplete", "acme"}}

\* Two zones, one inside of the other, and a name that only ends like one.
Ex  == <<"ex">>
Sub == <<"s", ".", "ex">>
Rec(name, type, ok) == [name |-> name, type |-> type, parses |-> ok]
ZoneSets ==
  {[ex |-> <<Rec("@", "A", TRUE), Rec("s", "TXT", TRUE)>>, sub |-> <<Rec("@", "A", FALSE)>>],
   [ex |-> <<Rec("s", "A", TRUE), Rec("s", "A", TRUE)>>, sub |-> <<Rec("@", "CNAME", TRUE)>>],
   [ex |-> <<Rec("w", "A", FALSE), Rec("w", "SRV", TRUE)>>, sub |-> <<>>]}
DnsSet ==
  {[zones |-> [z \in {Ex, Sub} |-> IF z = Ex THEN zs.ex ELSE zs.sub], order |-> o,
    acl |-> a, upstreams |-> u] :
     zs \in ZoneSets, o \in {<<Ex, Sub>>, <<Sub, Ex>>},
     a \in {{}, {"bad"}, {"public"}}, u \in {<<>>, <<-1>>, <<-1, 2>>}}
QuestionSet ==
  {[name |-> n, type |-> t] :
     n \in {<<"ex", ".">>, <<"s", ".", "ex", ".">>, <<"w", ".", "ex", ".">>,
            <<"evil", "ex", ".">>, <<"org", ".">>},
     t \in {"A", "TXT", "CNAME", "ANY"}}
QuerySet ==
  {[client |-> c, questions |-> qs, udp |-> u, size |-> 0] :
     c \in {"private", "public"}, u \in BOOLEAN,
     qs \in {<<q>> : q \in QuestionSet} \cup {<<q, r>> : q, r \in {x \in QuestionSet : x.type = "A"}}}
=============================================================================
