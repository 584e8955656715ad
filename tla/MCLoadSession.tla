----------------------------- MODULE MCLoadSession ---------------------------
(* Small instances of LoadSession for TLC. *)
EXTENDS LoadSession, TLC

CONSTANTS w1, w2, a1, a2, s1, s2, c1, c2, r1

Symmetry ==
    Permutations(Workers) \cup Permutations(Slots) \cup Permutations(Sids)
    \cup Permutations(Commands)

=============================================================================
