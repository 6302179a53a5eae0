----------------------------- MODULE MCResidentKeys -----------------------------
(* Instances of ResidentKeys for TLC.                                      *)
EXTENDS ResidentKeys, TLC

CONSTANTS x1, x2, x3, p1, p2, s1, s2, c1, c2, c3

KeySymmetry == Permutations(Calls) \cup Permutations(Rotations)
                 \cup Permutations(Pairings) \cup Permutations(Requests)

=============================================================================
