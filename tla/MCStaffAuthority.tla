--------------------------- MODULE MCStaffAuthority ---------------------------
(* Instances of StaffAuthority for TLC. *)
EXTENDS StaffAuthority, TLC

CONSTANTS t1, t2

\* Where the three of the staff stand at first.
WithInvited == <<"root", "controller", "invited">>
WithSuspended == <<"suspended", "root", "controller">>
Three == <<"suspended", "root", "none">>

Command(kind, on, to, want) == [kind |-> kind, on |-> on, to |-> to, want |-> want]

Transitions == {Command(kind, p, to, {}) : kind \in {"membership", "binding"}, p \in Staff,
                                           to \in {"active", "suspended", "revoked"}}
Replacements == {Command("authority", p, "active", want) :
                    p \in Staff, want \in {{}, {"bind"}, Controller}}
Invitations == {Command("invite", p, "active", {}) : p \in Staff}
AllCommands == Transitions \cup Replacements \cup Invitations

MembershipCommands == {cmd \in Transitions : cmd.kind = "membership"}

TxSymmetry == Permutations(Txs)
=============================================================================
