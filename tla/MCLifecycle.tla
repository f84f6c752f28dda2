---------------------------- MODULE MCLifecycle ----------------------------
(* Lifecycle on small instances. *)
EXTENDS Lifecycle, TLC

CONSTANTS web, h3, api

\* Every Quic listener of the instances belongs to the one Tcp listener.
MCH3Of == [q \in Quic |-> web]

Symmetry == Permutations(Children) \cup Permutations(Reqs)
=============================================================================
