----------------------- MODULE MCOperationalRecovery -----------------------
(* Instances of OperationalRecovery for TLC. *)
EXTENDS OperationalRecovery, TLC

CONSTANTS r1, r2, w1, w2

Pair == <<r1, r2>>
Healthy == [level |-> 0, short |-> FALSE, affected |-> {}]
Shortfall == [level |-> 2, short |-> TRUE, affected |-> {r1, r2}]

Pressure == {Healthy, Shortfall}

\* A candidate inside the granted delay for both, or only for the second.
AllWithin == {[r \in {r1, r2} |-> "within"]}
Mixed == AllWithin \cup {[r \in {r1, r2} |-> IF r = r1 THEN "beyond" ELSE "within"]}

\* Workers are interchangeable.
WorkerSymmetry == Permutations(Workers)
=============================================================================
