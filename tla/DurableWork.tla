----------------------------- MODULE DurableWork -----------------------------
(***************************************************************************)
(* What a durable work stream promises to the modules that put work into   *)
(* it, without leases, tokens, workers or time: work is performed at least *)
(* once before it counts as completed, fenced work is performed only while *)
(* it is open, and only dead or rejected work can be reopened.             *)
(***************************************************************************)
EXTENDS Naturals

CONSTANTS Items, Fenced

VARIABLES
    state,    \* "none", "open", or how the work ended
    effects   \* the performances of each item, each under its own name

dvars == <<state, effects>>

DInit ==
    /\ state = [i \in Items |-> "none"]
    /\ effects = [i \in Items |-> {}]

Submit(i) ==
    /\ state[i] = "none"
    /\ state' = [state EXCEPT ![i] = "open"]
    /\ UNCHANGED effects

\* At least once: an item may be performed again, never under an old name.
Perform(i) ==
    /\ Fenced => state[i] = "open"
    /\ \E t \in effects'[i] \ effects[i] :
          effects' = [effects EXCEPT ![i] = @ \cup {t}]
    /\ UNCHANGED state

Finish(i) ==
    /\ state[i] = "open"
    /\ effects[i] # {}
    /\ state' = [state EXCEPT ![i] = "completed"]
    /\ UNCHANGED effects

\* Giving up, on one item or on several at once.
Abandon(S, how) ==
    /\ \A i \in S : state[i] = "open"
    /\ state' = [i \in Items |-> IF i \in S THEN how ELSE state[i]]
    /\ UNCHANGED effects

Reopen(i) ==
    /\ state[i] \in {"dead", "rejected"}
    /\ state' = [state EXCEPT ![i] = "open"]
    /\ UNCHANGED effects

DNext ==
    \/ \E i \in Items : Submit(i) \/ Perform(i) \/ Finish(i) \/ Reopen(i)
    \/ \E S \in SUBSET Items, how \in {"dead", "rejected", "cancelled"} : Abandon(S, how)

DSpec == DInit /\ [][DNext]_dvars
=============================================================================
