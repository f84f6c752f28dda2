---------------------------- MODULE MCContainers ----------------------------
(* Containers on a small instance. *)
EXTENDS Containers, TLC

CONSTANTS a, b

\* The file of a may change from port 80 to 8080 or back.
MCContainerPorts == a :> {"80", "8080"} @@ b :> {"80"}
MCMatches == {<<"80", "80">>, <<"8080", "8080">>, <<"80", "8080">>}

Symmetry == Permutations(Requests)
=============================================================================
