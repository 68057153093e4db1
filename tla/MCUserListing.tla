---------------------------- MODULE MCUserListing ----------------------------
(* UserListing on a small instance.                                        *)
EXTENDS UserListing, TLC

\* Accounts differ in their timestamps only.
Symmetry == Permutations(Users)
=============================================================================
