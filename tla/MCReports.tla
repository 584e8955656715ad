------------------------------- MODULE MCReports ------------------------------
(* A small instance of Reports for TLC. *)
EXTENDS Reports, TLC

CONSTANTS x1, x2, x3, v1, v2, k1, k2

Symmetry == Permutations(Exchanges) \cup Permutations(Visits) \cup Permutations(Consoles)

=============================================================================
