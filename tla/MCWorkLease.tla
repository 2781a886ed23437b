----------------------------- MODULE MCWorkLease -----------------------------
(* Instances of WorkLease for TLC. *)
EXTENDS WorkLease, TLC

CONSTANTS o1, o2, w1, w2, r1, r2, r3

\* Three rows: organization o1 has two, o2 has one.
OrgOfThree == [i \in Items |-> IF i = r3 THEN o2 ELSE o1]

\* Two attempts for each row, or for the row of o2 only.
TwoAttempts == [i \in Items |-> 2]
LastHasTwo == [i \in Items |-> IF i = r3 THEN 2 ELSE 1]

\* The workers are alike, and so are the two rows of o1.
StreamSymmetry == Permutations(Workers) \cup Permutations({r1, r2})
=============================================================================
