--------------------------- MODULE MCLinkLifecycle ---------------------------
(* Instances of LinkLifecycle for TLC. *)
EXTENDS LinkLifecycle, TLC

CONSTANTS w1, w2, k1, k2

\* One Redis for every process.
Shared == [w \in Workers |-> k1]
\* REDIS_ENABLED=false: each process has a cache of its own.
PerProcess == [w \in Workers |-> IF w = w1 THEN k1 ELSE k2]

\* Nothing tells codes, destinations or the workers of one cache apart.
CodeSymmetry == Permutations(Codes)
SharedSymmetry ==
    CodeSymmetry \cup Permutations(Urls) \cup Permutations(Workers)

=============================================================================
