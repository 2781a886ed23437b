------------------------ MODULE MCReservationLifecycle ------------------------
(* Instances of ReservationLifecycle for TLC. *)
EXTENDS ReservationLifecycle, TLC

CONSTANTS c1, c2, h1, h2

LifecycleSymmetry == Permutations(Clients) \cup Permutations(Handlers)
=============================================================================
