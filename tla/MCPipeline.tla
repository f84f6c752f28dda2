----------------------------- MODULE MCPipeline -----------------------------
(* Pipeline on a small instance. *)
EXTENDS Pipeline, TLC

\* Everything but the log, with fewer and fewer filters; the log without a cap,
\* so that two requests reach it together, before one backend; and before several.
Full == [https |-> TRUE, ips |-> TRUE, rate |-> TRUE, cors |-> TRUE, max |-> 1,
         logging |-> FALSE, serves |-> "files"]
Open == [https |-> FALSE, ips |-> FALSE, rate |-> FALSE, cors |-> FALSE, max |-> 0,
         logging |-> TRUE, serves |-> "proxy"]
MCConfigs ==
  {Full, [Full EXCEPT !.https = FALSE], [Full EXCEPT !.https = FALSE, !.ips = FALSE],
   Open, [Open EXCEPT !.https = TRUE, !.serves = "balancer"]}

\* Any filter refuses Ranged, the outermost one first.
CONSTANTS r1, r2
Plain    == [tls |-> TRUE, nets |-> {"allow"}, preflight |-> FALSE, gzip |-> TRUE,
             range |-> FALSE, upgrade |-> TRUE]
Identity == [Plain EXCEPT !.gzip = FALSE, !.upgrade = FALSE]
Ranged   == [tls |-> FALSE, nets |-> {"allow", "deny"}, preflight |-> TRUE, gzip |-> TRUE,
             range |-> TRUE, upgrade |-> FALSE]
MCKinds == r1 :> {Plain, Ranged} @@ r2 :> {Identity}

Text  == [code |-> 200, coded |-> "none", text |-> TRUE]
Coded == [Text EXCEPT !.coded = "own"]
Fails == [code |-> 502, coded |-> "none", text |-> FALSE]
MCResponses == r1 :> {Text, Coded} @@ r2 :> {Fails}

MCLines == [req : Requests, status : Codes]
=============================================================================
