----------------------------- MODULE MCResolver -----------------------------
(* Requests for one domain, each over its own host or over a delegate's.   *)
EXTENDS Resolver
CONSTANTS r1, r2, r3, d1, d2
=============================================================================
