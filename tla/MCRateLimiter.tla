--------------------------- MODULE MCRateLimiter ---------------------------
(***************************************************************************)
(* Bounds for TLC: two clients, two keys, calls that cost one token and   *)
(* calls that empty the bucket.                                            *)
(***************************************************************************)
EXTENDS RateLimiter

CONSTANTS Tools, Threads, Sizes

MCCalls == [tenant : {Absent}, thread : Threads, tool : Tools, size : Sizes]
=============================================================================
