------------------------------ MODULE MCAccess ------------------------------
(* Access on a small instance.                                             *)
EXTENDS Access, TLC

\* Requests are alike.
Symmetry == Permutations(Requests)
=============================================================================
