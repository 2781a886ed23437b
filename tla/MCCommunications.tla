--------------------------- MODULE MCCommunications ---------------------------
(* Instances of Communications for TLC. *)
EXTENDS Communications, TLC

CONSTANTS w1, w2

\* Handler executions are interchangeable.
WorkerSymmetry == Permutations(Workers)

=============================================================================
