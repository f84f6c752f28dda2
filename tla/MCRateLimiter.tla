--------------------------- MODULE MCRateLimiter ---------------------------
(* RateLimiter on a small instance: a token flows in every two ticks. *)
EXTENDS RateLimiter
=============================================================================
