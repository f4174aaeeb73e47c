----------------------------- MODULE MCLifecycle ----------------------------
(***************************************************************************)
(* A small instance of Lifecycle for TLC.                                  *)
(***************************************************************************)
EXTENDS Lifecycle

CONSTANTS s1, s2, s3

\* Two clients and one that probes.
Slots   == {s1, s2, s3}
Probers == {s3}

Pool(maxOpen, maxIdle) ==
    [env |-> "production", port |-> 8080, empty |-> {},
     maxOpenConns |-> maxOpen, maxIdleConns |-> maxIdle,
     jwtSecret |-> 32, ttl |-> 1, webhookSecret |-> 32, maxSize |-> 1]

\* One connection that is kept, two that are not; no limit at all, more kept
\* than there may be and a port that cannot be, which are refused.
SomeSettings == {Pool(1, 1), Pool(2, 0), Pool(0, 0), Pool(1, 2),
                 [Pool(1, 1) EXCEPT !.port = 65536]}
=============================================================================
