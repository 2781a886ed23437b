----------------------------- MODULE MCSlotOffers -----------------------------
(* Instances of SlotOffers for TLC. *)
EXTENDS SlotOffers, TLC

CONSTANTS o1, o2, s1, s2, t1, t2

\* Both opportunities offer the same slot, released twice.
SameSlot == [o \in Opps |-> s1]
\* Two slots released one each.
TwoSlots == [o \in Opps |-> IF o = o1 THEN s1 ELSE s2]

Everyone == Entries \X Opps
\* The oldest entry prefers a Resource that o1 does not use.
OldestPrefersOther == Everyone \ {<<1, o1>>}

TxSymmetry == Permutations(Txs)
=============================================================================
