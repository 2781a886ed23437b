----------------------------- MODULE MCLiveQueue -----------------------------
(* Instances of LiveQueue for TLC. *)
EXTENDS LiveQueue, TLC

CONSTANTS p1, p2, p3, o1, o2, c1, r1, r2

\* Parties, and operators, are interchangeable.
LiveSymmetry == Permutations(Parties) \cup Permutations(Operators)

=============================================================================
