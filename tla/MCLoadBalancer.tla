--------------------------- MODULE MCLoadBalancer ---------------------------
(* LoadBalancer on small instances. *)
EXTENDS LoadBalancer
=============================================================================
