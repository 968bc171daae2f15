---------------------------- MODULE MCRateLimiter ----------------------------
(* RateLimiter on six messages, of which the third within the window blocks. *)
EXTENDS RateLimiter, TLC

EventSymmetry == Permutations(Event)
=============================================================================
