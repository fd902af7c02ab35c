---------------------------- MODULE MCRateLimiter ----------------------------
(***************************************************************************)
(* RateLimiter at a small scale: three calls, which with their retries ask *)
(* for more slots than several windows have.                               *)
(***************************************************************************)
EXTENDS RateLimiter

CONSTANTS c1, c2, c3

ThreeCalls == {c1, c2, c3}
=============================================================================
