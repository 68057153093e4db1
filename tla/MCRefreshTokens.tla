-------------------------- MODULE MCRefreshTokens --------------------------
(* RefreshTokens on small instances.                                       *)
EXTENDS RefreshTokens, TLC

\* No call and no user is singled out by the specification.
Symmetry == Permutations(Calls) \cup Permutations(Users)
=============================================================================
