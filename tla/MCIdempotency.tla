--------------------------- MODULE MCIdempotency ---------------------------
(* Idempotency on small instances.                                         *)
EXTENDS Idempotency, TLC

\* No request, identity or fingerprint is singled out by the specification.
Symmetry ==
    Permutations(Requests) \cup Permutations(Identities) \cup Permutations(Hashes)
=============================================================================
